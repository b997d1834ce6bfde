---------------------------- MODULE BlockStore ----------------------------
(***************************************************************************)
(* What the buffer cache promises the file system: every sector has one    *)
(* contents and at most one owner, and only its owner changes it, while it *)
(* is not itself waiting in a call of the cache.                           *)
(***************************************************************************)
CONSTANTS Proc, Sector, Val, NONE

VARIABLES
  owner,    \* the process that has the sector between bread() and brelse()
  mem,      \* the contents of the sector
  calling   \* the processes in a call of the cache

vars == <<owner, mem, calling>>

Init ==
  /\ owner = [s \in Sector |-> NONE]
  /\ mem \in [Sector -> Val]
  /\ calling = {}

\* A call begins, or returns.
Call(p) ==
  /\ calling' \in {calling \cup {p}, calling \ {p}}
  /\ UNCHANGED <<owner, mem>>

Acquire(p, s) ==
  /\ p \in calling /\ owner[s] = NONE
  /\ owner' = [owner EXCEPT ![s] = p]
  /\ calling' \in {calling, calling \ {p}}
  /\ UNCHANGED mem

Store(p, s, v) ==
  /\ p \notin calling /\ owner[s] = p
  /\ mem' = [mem EXCEPT ![s] = v]
  /\ calling' \in {calling, calling \cup {p}}
  /\ UNCHANGED owner

Release(p, s) ==
  /\ p \notin calling /\ owner[s] = p
  /\ owner' = [owner EXCEPT ![s] = NONE]
  /\ UNCHANGED <<mem, calling>>

Next ==
  \E p \in Proc :
    \/ Call(p)
    \/ \E s \in Sector :
         Acquire(p, s) \/ Release(p, s) \/ \E v \in Val : Store(p, s, v)

Spec == Init /\ [][Next]_vars
=============================================================================
