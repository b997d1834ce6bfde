------------------------------ MODULE MCProc ------------------------------
(* Instances of Proc for TLC. *)
EXTENDS Proc

\* System calls made by the programs of each run.
SmpCalls == {"fork", "exit", "wait", "kill", "read", "write", "sleep"}
SwapCalls == {"fork", "exit", "wait", "kill", "read", "write", "sleep",
              "chdir", "enableSwapping", "disableSwapping"}
LiveCalls == {"fork", "exit", "wait", "kill", "sleep2", "wakeup2", "write"}
HangCalls == {"write", "sleep2", "wakeup2", "enableSwapping"}
=============================================================================
