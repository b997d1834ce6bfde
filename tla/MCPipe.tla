------------------------------- MODULE MCPipe -------------------------------
(***************************************************************************)
(* Pipe.tla for TLC: two bytes of buffer, counters that wrap after two     *)
(* rounds of it.                                                           *)
(***************************************************************************)
EXTENDS Pipe

=============================================================================
