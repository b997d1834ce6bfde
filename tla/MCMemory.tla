------------------------------ MODULE MCMemory ------------------------------
(***************************************************************************)
(* Small instances of Memory.                                              *)
(***************************************************************************)
EXTENDS Memory

\* A program of less than a page, and one whose stack does not fit below
\* KERNBASE.
Programs == {[file |-> 1, mem |-> 1], [file |-> 1, mem |-> 3]}

\* Exploration ends where the sharing of pages has lapsed.
Sound == lapse = "none"

\* Pages are alike: a state is seen up to their names, which are replaced by
\* a place where a page is.
Places ==
  FlattenSeq([k \in 1..Cardinality(Key) |-> [i \in 1..MaxSeg |->
                IF i = 1 \/ i - 1 \in Indexes(k) THEN seg[k][i - 1] ELSE NONE]])
  \o FlattenSeq([p \in 1..NPROC |-> [v \in 1..Cardinality(VPage) |-> pt[p][v - 1]]])
  \o FlattenSeq([p \in 1..NPROC |-> [i \in 1..NPDENTRIES |-> pd[p][i - 1]]])
PageView ==
  LET places == Places \o FlattenSeq(own) \o freelist
      name(g) == IF g = NONE THEN 0 ELSE CHOOSE i \in DOMAIN places : places[i] = g
  IN  <<[i \in DOMAIN places |-> name(places[i])], {name(g) : g \in lost \cap ToSet(places)},
        npages, refs, flagged, shmlock, ids, sz, has_shm, arg, lapse>>
=============================================================================
