-------------------------------- MODULE MCFs --------------------------------
(***************************************************************************)
(* Small instances of Fs.                                                  *)
(***************************************************************************)
EXTENDS Fs

A == [abs |-> TRUE, elems |-> <<"a">>]
AB == [abs |-> TRUE, elems |-> <<"a", "b">>]
Up == [abs |-> FALSE, elems |-> <<"..">>]

TreePaths == <<{A, AB}, {A, AB, Up}>>
TreeCalls == <<{"dir", "link", "unlink", "fork"}, {"creat", "unlink", "chdir", "exit"}>>
NoFiles == <<>>
FileA == <<[name |-> "a", size |-> 2]>>
FilePaths == <<{A}, {A}>>
FileCalls == <<{"creat", "pipe", "write", "close", "fork"}, {"open", "dup", "dev", "unlink", "read", "exit"}>>

\* Exploration ends where a directory was freed with names in it.
NoneLost == lost = {}

\* Dead are the variables of a call after it, an entry of the cache without a
\* reference, and what a free block holds.
Uses(p, r) == \/ \E s \in {IputStep, ItruncStep, IfreeStep} : \E k \in DOMAIN todo[p] : todo[p][k] = s[r]
              \/ r = "cur" /\ \E k \in DOMAIN todo[p] : todo[p][k] \in {"walk", "walk parent"}
Live ==
  <<dinode, dents, ftable, procs, logger, todo, lost, panicked,
    blk.used, [b \in blk.used |-> blk.ind[b]],
    [e \in Entry |-> IF cache[e].ref = 0 THEN FreeEntry ELSE cache[e]],
    [p \in Process |->
       IF todo[p] = <<>> THEN NoReg
       ELSE [reg[p] EXCEPT !.cur = IF Uses(p, "cur") THEN @ ELSE NONE,
                           !.old = IF Uses(p, "old") THEN @ ELSE NONE]]>>
=============================================================================
