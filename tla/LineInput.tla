----------------------------- MODULE LineInput ------------------------------
(***************************************************************************)
(* What console input promises: the line being typed can be edited until a *)
(* newline, an end of file or the end of the room hands it over; after     *)
(* that its bytes come out in order and are not edited any more.           *)
(***************************************************************************)
EXTENDS Naturals, Sequences, SequencesExt

CONSTANTS Val, Size, Ends  \* bytes, room for them, and the bytes that end a line

VARIABLES ready, line

vars == <<ready, line>>

Init == ready = <<>> /\ line = <<>>

Type(v) ==
  LET typed == Append(line, v) IN
  /\ Len(ready) + Len(line) < Size
  /\ IF v \in Ends \/ Len(ready) + Len(typed) = Size
     THEN ready' = ready \o typed /\ line' = <<>>
     ELSE line' = typed /\ UNCHANGED ready

Erase == line # <<>> /\ line' = Front(line) /\ UNCHANGED ready
KillLine == line' = <<>> /\ UNCHANGED ready
Take == ready # <<>> /\ ready' = Tail(ready) /\ UNCHANGED line

Next == (\E v \in Val : Type(v)) \/ Erase \/ KillLine \/ Take

Spec == Init /\ [][Next]_vars
=============================================================================
