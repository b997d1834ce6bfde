----------------------------- MODULE AtomicDisk -----------------------------
(***************************************************************************)
(* What the log promises to the file system: the blocks a transaction      *)
(* writes reach the disk all together or not at all, whenever the machine  *)
(* stops.  stable is what the disk will hold after the next recovery, view *)
(* what bread() returns while the machine runs.                            *)
(***************************************************************************)
CONSTANTS Block, Val

VARIABLES stable, view, phase

vars == <<stable, view, phase>>

TypeOK ==
  /\ stable \in [Block -> Val]
  /\ view \in [Block -> Val]
  /\ phase \in {"down", "idle", "open", "committed"}

Init ==
  /\ stable \in [Block -> Val]
  /\ view = stable
  /\ phase = "down"

\* The machine has recovered from whatever stopped it.
Boot ==
  /\ phase = "down"
  /\ phase' = "idle"
  /\ UNCHANGED <<stable, view>>

Begin ==
  /\ phase = "idle"
  /\ phase' = "open"
  /\ UNCHANGED <<stable, view>>

Write(b, v) ==
  /\ phase = "open"
  /\ view' = [view EXCEPT ![b] = v]
  /\ UNCHANGED <<stable, phase>>

\* The transaction becomes permanent, as a whole.
Commit ==
  /\ phase = "open"
  /\ stable' = view
  /\ phase' = "committed"
  /\ UNCHANGED view

\* The transaction is over, committed or without writes.
End ==
  /\ phase \in {"open", "committed"}
  /\ view = stable
  /\ phase' = "idle"
  /\ UNCHANGED <<stable, view>>

\* Whatever was not committed is gone.
Stop ==
  /\ view' = stable
  /\ phase' = "down"
  /\ UNCHANGED stable

Next ==
  \/ Boot \/ Begin \/ Commit \/ End \/ Stop
  \/ \E b \in Block, v \in Val : Write(b, v)

Spec == Init /\ [][Next]_vars
=============================================================================
