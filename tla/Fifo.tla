-------------------------------- MODULE Fifo --------------------------------
(***************************************************************************)
(* What a pipe promises: bytes come out in the order they went in, none is *)
(* lost or repeated while the pipe lives, and at most Size wait in it.     *)
(***************************************************************************)
EXTENDS Naturals, Sequences

CONSTANTS Val, Size

VARIABLES queue, readable, writable

vars == <<queue, readable, writable>>

Init == queue = <<>> /\ readable = TRUE /\ writable = TRUE

Put(v) ==
  /\ writable
  /\ Len(queue) < Size
  /\ queue' = Append(queue, v)
  /\ UNCHANGED <<readable, writable>>

Get ==
  /\ readable
  /\ queue # <<>>
  /\ queue' = Tail(queue)
  /\ UNCHANGED <<readable, writable>>

CloseRead == readable /\ readable' = FALSE /\ UNCHANGED <<queue, writable>>
CloseWrite == writable /\ writable' = FALSE /\ UNCHANGED <<queue, readable>>

\* With both ends closed the pipe is gone, and a new one can take its place.
Renew ==
  /\ ~readable /\ ~writable
  /\ queue' = <<>> /\ readable' = TRUE /\ writable' = TRUE

Next == (\E v \in Val : Put(v)) \/ Get \/ CloseRead \/ CloseWrite \/ Renew

Spec == Init /\ [][Next]_vars
=============================================================================
