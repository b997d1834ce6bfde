------------------------------- MODULE Memory -------------------------------
(***************************************************************************)
(* Physical pages: the allocator and the shared memory segments            *)
(* (kalloc.c), page directories and page tables (vm.c), and the system     *)
(* calls that change them: fork, exit, wait, exec, sbrk, the four shm      *)
(* calls, and swapping.                                                    *)
(*                                                                         *)
(* Sizes count half pages (PGSIZE is 2), so that rounding shows.  Contents *)
(* of pages are left out.  A page table is private to its process, so a    *)
(* loop of vm.c over it is one step; shmget() and shmdel() work on shm     *)
(* without its lock and take a step per page, and shmdt() gives up         *)
(* shm.lock before it clears its mappings.                                 *)
(***************************************************************************)
EXTENDS Integers, FiniteSets, SequencesExt

CONSTANTS
  NPROC,      \* entries of the process table; the first is init
  NPAGE,      \* physical pages
  NPTENTRIES, \* entries of a page table
  KPDE,       \* page tables that map the kernel
  numOfSegs,  \* rows of shm.seg
  KERNBASE,   \* end of user addresses
  MaxSeg,     \* columns of a row
  MaxPid,     \* bound on nextpid, below the column 64 of shm.refs
  Image,      \* programs that exec() loads: bytes in the file and in memory
  Delta,      \* arguments of sbrk(), without the sign
  MaxRefs     \* bound on the reference count of a segment

PGSIZE == 2
Page == 1..NPAGE
Key == 1..numOfSegs
NONE == 0
Slot == 1..NPROC
VPage == 0..(KERNBASE \div PGSIZE - 1)
Pid == 1..MaxPid

\* The page directory: entries for user addresses, then those for the kernel.
PDX(v) == v \div NPTENTRIES
UserPde == {PDX(v) : v \in VPage}
NPDENTRIES == Cardinality(UserPde) + KPDE
Pde == 0..(NPDENTRIES - 1)

ASSUME KernbaseAssumption == KERNBASE \in Nat /\ KERNBASE % (PGSIZE * NPTENTRIES) = 0
ASSUME PageAssumption == KPDE \in Nat /\ NPAGE \in Nat /\ NPAGE >= 4 + KPDE /\ numOfSegs \in Nat

VARIABLES
  freelist,  \* kmem.freelist
  seg,       \* shm.seg
  npages,    \* shm.refs[key][1][64]: the pages of a segment
  refs,      \* shm.refs[key][0][64]: how often it is attached
  flagged,   \* the pids with shm.refs[key][0][pid] set
  shmlock,   \* the process that holds shm.lock
  mode,      \* what a process is: "unused", "user", "swapped", "zombie", or in
             \* shmget() ("get"), shmdel() ("del") or the end of shmdt() ("dt")
  pid, nextpid,
  sz,
  pd, pt,    \* the page directory, and the entries of its page tables
  own,       \* the stack of a process and the page of its directory
  has_shm,
  arg,       \* the variables of shmget(), shmdel() and shmdt()
  lost,      \* pages that an error path has forgotten (no variable of the code)
  lapse      \* what has broken the sharing of pages, see below

shm == <<seg, npages, refs, flagged, shmlock>>
ids == <<mode, pid, nextpid>>
tables == <<pd, pt>>
space == <<sz, tables, own>>
vars == <<freelist, shm, ids, space, has_shm, arg, lost, lapse>>

\* "none", or the first of these: "unmapped": a page table gave back a page of
\* a segment; "raced": a segment was created or attached while another process
\* was creating or deleting it; "outside": shmget() was called with a key or a
\* size beyond shm.seg; "locked": shmdt() returned with shm.lock held; "wild":
\* the kernel used a page table entry at address 0, or one of its own, for one
\* of the user's; "panic".
Lapse == {"none", "unmapped", "raced", "outside", "locked", "wild", "panic"}
NoArg == [key |-> NONE, i |-> 0, n |-> 0]

\* Every part of memory keeps its type: allocuvm() and shmat() keep a process
\* below KERNBASE, a segment has at most the pages of its row.  What shmget()
\* writes outside of shm.seg, which the lapse "outside" marks, is not modelled.
TypeOK ==
  /\ freelist \in Seq(Page)
  /\ seg \in [Key -> [0..(MaxSeg - 1) -> Page \cup {NONE}]]
  /\ npages \in [Key -> 0..MaxSeg]
  /\ refs \in [Key -> Nat]
  /\ flagged \in [Key -> SUBSET Pid]
  /\ shmlock \in Slot \cup {NONE}
  /\ mode \in [Slot -> {"unused", "user", "swapped", "zombie", "get", "del", "dt"}]
  /\ pid \in [Slot -> 0..MaxPid] /\ nextpid \in 1..(MaxPid + 1)
  /\ sz \in [Slot -> 0..KERNBASE]
  /\ pd \in [Slot -> [Pde -> Page \cup {NONE}]]
  /\ pt \in [Slot -> [VPage -> Page \cup {NONE}]]
  /\ own \in [Slot -> Seq(Page)]
  /\ has_shm \in [Slot -> Int]
  /\ lost \subseteq Page
  /\ lapse \in Lapse

-----------------------------------------------------------------------------
(* vm.c.  An operation on an address space takes and returns a record: the *)
(* free list, the page of the directory, the directory, the entries, the   *)
(* pages lost so far, and st: "ok", "bad" for an error return, or what     *)
(* lapse becomes.  It does nothing unless st is "ok".                      *)

PGROUNDUP(n) == ((n + PGSIZE - 1) \div PGSIZE) * PGSIZE

\* The pages from address a, rounded up, to below address b.
VRange(a, b) == {v \in VPage : v >= PGROUNDUP(a) \div PGSIZE /\ v * PGSIZE < b}

\* The virtual pages of V in the order of their addresses.
InOrder(V) == SelectSeq([i \in 1..Cardinality(VPage) |-> i - 1], LAMBDA v : v \in V)

EmptyDir == [i \in Pde |-> NONE]
EmptyTable == [v \in VPage |-> NONE]

\* The address space of p.
SpaceOf(p) ==
  [free |-> freelist, dir |-> own[p][2], pd |-> pd[p], pt |-> pt[p], lost |-> lost, st |-> "ok"]

\* kfree() of the pages of s, one after the other.
Kfree(list, s) == Reverse(s) \o list

\* kalloc() for m: the page is Head(m.free).
Kalloc(m) == [m EXCEPT !.free = Tail(@)]

\* walkpgdir() with alloc set: the page table of entry i.
Walkpgdir(m, i) ==
  CASE m.pd[i] # NONE -> m
    [] m.pd[i] = NONE /\ m.free = <<>> -> [m EXCEPT !.st = "bad"]
    [] OTHER -> [Kalloc(m) EXCEPT !.pd[i] = Head(m.free)]

\* mappages() of one page g at v, which panics "remap".
Mappages(m, v, g) ==
  LET w == Walkpgdir(m, PDX(v)) IN
  CASE w.st = "bad" -> w
    [] w.st = "ok" /\ w.pt[v] # NONE -> [w EXCEPT !.st = "panic"]
    [] OTHER -> [w EXCEPT !.pt[v] = g]

\* The pages of V that a loop over addresses visits under directory d: where a
\* page table is missing it goes on NPTENTRIES pages further.
Visits(d, V) ==
  FoldLeft(LAMBDA s, v : IF v < s.next THEN s
                         ELSE IF d[PDX(v)] = NONE THEN [s EXCEPT !.next = v + NPTENTRIES]
                         ELSE [s EXCEPT !.seen = Append(@, v)],
           [next |-> 0, seen |-> <<>>], InOrder(V)).seen

Cleared(t, V) == [v \in VPage |-> IF v \in V THEN NONE ELSE t[v]]

\* Mutant: the entries keep the pages that are given back.
DeallocuvmKeeps(m, V) ==
  LET s == SelectSeq(Visits(m.pd, V), LAMBDA v : m.pt[v] # NONE)
  IN  [m EXCEPT !.free = Kfree(@, [i \in DOMAIN s |-> m.pt[s[i]]])]

\* deallocuvm() of V.
Deallocuvm(m, V) ==
  LET s == SelectSeq(Visits(m.pd, V), LAMBDA v : m.pt[v] # NONE)
  IN  [m EXCEPT !.free = Kfree(@, [i \in DOMAIN s |-> m.pt[s[i]]]),
                !.pt = Cleared(@, ToSet(s))]

\* The body of the loop of allocuvm() over V.  The result of mappages() is not
\* looked at: without a page table the new page is forgotten.
AllocPage(m, V, v) ==
  LET w == Mappages(Kalloc(m), v, Head(m.free)) IN
  CASE m.st # "ok" -> m
    [] m.st = "ok" /\ m.free = <<>> -> [Deallocuvm(m, V) EXCEPT !.st = "bad"]
    [] OTHER -> IF w.st = "bad" THEN [w EXCEPT !.st = "ok", !.lost = @ \cup {Head(m.free)}]
                ELSE w

\* Mutant: no check against KERNBASE.
AllocuvmUnchecked(m, oldsz, newsz) ==
  LET V == VRange(oldsz, newsz)
  IN  FoldLeft(LAMBDA s, v : AllocPage(s, V, v), m, InOrder(V))

\* allocuvm().
Allocuvm(m, oldsz, newsz) ==
  LET V == VRange(oldsz, newsz)
  IN  IF m.st = "ok" /\ newsz >= KERNBASE THEN [m EXCEPT !.st = "bad"]
      ELSE FoldLeft(LAMBDA s, v : AllocPage(s, V, v), m, InOrder(V))

\* setupkvm(): a directory with the page tables of the kernel.  When one cannot
\* be allocated the others and the directory are forgotten.
Setupkvm(list) ==
  LET none == [free |-> list, dir |-> NONE, pd |-> EmptyDir, pt |-> EmptyTable, lost |-> lost,
               st |-> "ok"]
      m == FoldLeft(LAMBDA s, i : IF s.st = "ok" THEN Walkpgdir(s, i) ELSE s,
                    [Kalloc(none) EXCEPT !.dir = Head(list)],
                    [i \in 1..KPDE |-> Cardinality(UserPde) + i - 1])
  IN  CASE list = <<>> -> [none EXCEPT !.st = "bad"]
        [] list # <<>> /\ m.st = "ok" -> m
        [] OTHER -> [none EXCEPT !.st = "bad", !.free = m.free,
                       !.lost = @ \cup {m.dir} \cup ({m.pd[i] : i \in Pde} \ {NONE})]

\* freevm(): the pages, the page tables in their order, and the directory.
Freevm(m) ==
  LET u == Deallocuvm(m, VPage)
      t == SelectSeq([i \in 1..NPDENTRIES |-> u.pd[i - 1]], LAMBDA g : g # NONE)
  IN  [u EXCEPT !.free = Kfree(@, t \o <<m.dir>>)]

\* The label bad of copyuvm() and exec(): an address space that was begun is
\* freed.
GivenUp(m) == IF m.dir = NONE THEN m ELSE Freevm(m)

\* loaduvm() of the pages of V: where there is no page table it panics, where
\* the entry is empty it reads into the first page of physical memory.
Loaduvm(m, V) ==
  CASE m.st = "ok" /\ (\E v \in V : m.pd[PDX(v)] = NONE) -> [m EXCEPT !.st = "panic"]
    [] m.st = "ok" /\ (\A v \in V : m.pd[PDX(v)] # NONE) /\ (\E v \in V : m.pt[v] = NONE)
         -> [m EXCEPT !.st = "wild"]
    [] OTHER -> m

\* The indexes of the pages of a segment that is allocated, being allocated or
\* being deleted, and the pages.
Indexes(k) ==
  LET during(m) == {p \in Slot : mode[p] = m /\ arg[p].key = k}
  IN  IF during("get") # {} THEN 0..(arg[CHOOSE p \in during("get") : TRUE].i - 1)
      ELSE IF during("del") # {}
           THEN LET p == CHOOSE p \in during("del") : TRUE IN arg[p].i..(arg[p].n - 1)
           ELSE 0..(npages[k] - 1)
Segment(k) == {seg[k][i] : i \in Indexes(k)}
Shared == UNION {Segment(k) : k \in Key}

\* lapse after m: pages of segments may have come to the free list.
Afterwards(m) ==
  IF m.st \in Lapse THEN m.st
  ELSE IF ToSet(m.free) \cap Shared # {} THEN "unmapped" ELSE lapse

\* p has the address space m.
Install(p, m) ==
  /\ freelist' = m.free
  /\ pd' = [pd EXCEPT ![p] = m.pd]
  /\ pt' = [pt EXCEPT ![p] = m.pt]
  /\ lost' = m.lost
  /\ lapse' = Afterwards(m)

\* inituvm(): the address space of init has one page.
InitSpace ==
  LET m == Setupkvm(Tail([i \in Page |-> i])) IN Mappages(Kalloc(m), 0, Head(m.free))

\* kinit1() and kinit2() have put all pages on the list; userinit() has taken
\* a stack and an address space.
Init ==
  /\ lost = {}
  /\ freelist = InitSpace.free
  /\ seg = [k \in Key |-> [i \in 0..(MaxSeg - 1) |-> NONE]]
  /\ npages = [k \in Key |-> 0] /\ refs = [k \in Key |-> 0]
  /\ flagged = [k \in Key |-> {}] /\ shmlock = NONE
  /\ mode = [p \in Slot |-> IF p = 1 THEN "user" ELSE "unused"]
  /\ pid = [p \in Slot |-> IF p = 1 THEN 1 ELSE 0] /\ nextpid = 2
  /\ sz = [p \in Slot |-> IF p = 1 THEN PGSIZE ELSE 0]
  /\ pd = [p \in Slot |-> IF p = 1 THEN InitSpace.pd ELSE EmptyDir]
  /\ pt = [p \in Slot |-> IF p = 1 THEN InitSpace.pt ELSE EmptyTable]
  /\ own = [p \in Slot |-> IF p = 1 THEN <<1, InitSpace.dir>> ELSE <<>>]
  /\ has_shm = [p \in Slot |-> 0]
  /\ arg = [p \in Slot |-> NoArg]
  /\ lapse = "none"

-----------------------------------------------------------------------------
(* growproc(), fork(), exit(), wait().                                     *)

\* A process can make a system call.  Without its first page, which holds code,
\* it faults, and exit() is all that is left to it.
Runs(p) == mode[p] = "user" /\ pt[p][0] # NONE

\* sbrk() of n > 0.
Grow(p, n) ==
  LET m == Allocuvm(SpaceOf(p), sz[p], sz[p] + n) IN
  /\ Runs(p)
  /\ Install(p, m)
  /\ sz' = [sz EXCEPT ![p] = IF m.st = "ok" THEN @ + n ELSE @]
  /\ UNCHANGED <<shm, ids, own, has_shm, arg>>

\* sbrk() of -n: deallocuvm(); growproc() takes the size 0 for a failure.
Shrink(p, n) ==
  /\ Runs(p) /\ n <= sz[p]
  /\ Install(p, Deallocuvm(SpaceOf(p), VRange(sz[p] - n, sz[p])))
  /\ sz' = [sz EXCEPT ![p] = IF n = @ THEN @ ELSE @ - n]
  /\ UNCHANGED <<shm, ids, own, has_shm, arg>>

\* The pages below sz.
Below(p) == VRange(0, sz[p])

\* The body of the loop of copyuvm(): a new page at v for that of p.
CopyPage(m, p, v) ==
  LET w == Mappages(Kalloc(m), v, Head(m.free)) IN
  CASE m.st # "ok" -> m
    [] m.st = "ok" /\ pt[p][v] = NONE -> [m EXCEPT !.st = "panic"]
    [] m.st = "ok" /\ pt[p][v] # NONE /\ m.free = <<>> -> [m EXCEPT !.st = "bad"]
    [] OTHER -> IF w.st = "bad" THEN [w EXCEPT !.lost = @ \cup {Head(m.free)}] ELSE w

\* copyuvm(): a copy of the address space of p.
Copyuvm(p, list) ==
  LET m == FoldLeft(LAMBDA s, v : CopyPage(s, p, v), Setupkvm(list), InOrder(Below(p)))
  IN  IF m.st = "bad" THEN GivenUp(m) ELSE m

\* fork(): a stack from allocproc() and a copy of the address space.
Fork(p, q) ==
  LET m == Copyuvm(p, Tail(freelist)) IN
  /\ Runs(p) /\ mode[q] = "unused" /\ nextpid <= MaxPid
  /\ pid' = [pid EXCEPT ![q] = nextpid]
  /\ nextpid' = nextpid + 1
  /\ \/ /\ freelist = <<>>
        /\ UNCHANGED <<freelist, space, mode, lost, lapse>>
     \/ /\ freelist # <<>> /\ m.st = "ok"
        /\ Install(q, m)
        /\ own' = [own EXCEPT ![q] = <<Head(freelist), m.dir>>]
        /\ sz' = [sz EXCEPT ![q] = sz[p]]
        /\ mode' = [mode EXCEPT ![q] = "user"]
     \/ /\ freelist # <<>> /\ m.st # "ok"
        /\ freelist' = Kfree(m.free, <<Head(freelist)>>)
        /\ lost' = m.lost
        /\ lapse' = Afterwards(m)
        /\ UNCHANGED <<space, mode>>
  /\ UNCHANGED <<shm, has_shm, arg>>

\* The user's entries of n pages from v can be cleared without a check: all
\* have a page table.
CanClear(p, v, n) == \A w \in v..(v + n - 1) : w \in VPage /\ pd[p][PDX(w)] # NONE

\* The pages that only p had among n pages from v; clearing the entries
\* forgets them.
Private(t, v, n) == {t[w] : w \in v..(v + n - 1) \cap VPage} \ (Shared \cup {NONE})

\* The loop of deallocshm() for segment k.  The address d.a is not reset for
\* the next segment.
DetachKey(p, d, k) ==
  LET hit == {v \in ToSet(Visits(pd[p], {v \in Below(p) : v >= d.a})) :
                d.t[v] # NONE /\ d.t[v] = seg[k][0]}
      first == CHOOSE v \in hit : \A w \in hit : v <= w
  IN  IF pid[p] \notin flagged[k] THEN d
      ELSE IF hit = {} THEN [d EXCEPT !.a = KERNBASE]
      ELSE [t |-> Cleared(d.t, first..(first + npages[k] - 1)),
            refs |-> [d.refs EXCEPT ![k] = IF @ > 0 THEN @ - 1 ELSE @],
            a |-> first,
            lost |-> d.lost \cup Private(d.t, first, npages[k]),
            lapse |-> IF CanClear(p, first, npages[k]) THEN d.lapse ELSE "wild"]

Deallocshm(p) ==
  FoldLeft(LAMBDA d, k : DetachKey(p, d, k),
           [t |-> pt[p], refs |-> refs, a |-> 0, lost |-> lost, lapse |-> lapse],
           [k \in Key |-> k])

\* exit(): a process with has_shm set detaches what it left attached.
Exit(p) ==
  LET d == Deallocshm(p) IN
  /\ mode[p] = "user" /\ p # 1
  /\ mode' = [mode EXCEPT ![p] = "zombie"]
  /\ \/ /\ has_shm[p] = 0
        /\ UNCHANGED <<pt, refs, lost, lapse>>
     \/ /\ has_shm[p] # 0 /\ shmlock = NONE
        /\ pt' = [pt EXCEPT ![p] = d.t]
        /\ refs' = d.refs
        /\ lost' = d.lost
        /\ lapse' = d.lapse
  /\ UNCHANGED <<freelist, seg, npages, flagged, shmlock, pid, nextpid, sz, pd, own,
                 has_shm, arg>>

\* wait() frees the stack and, with freevm(), the address space of a zombie.
Wait(p) ==
  LET m == Freevm([SpaceOf(p) EXCEPT !.free = Kfree(@, <<own[p][1]>>)]) IN
  /\ mode[p] = "zombie"
  /\ freelist' = m.free
  /\ lapse' = Afterwards(m)
  /\ pd' = [pd EXCEPT ![p] = EmptyDir]
  /\ pt' = [pt EXCEPT ![p] = EmptyTable]
  /\ own' = [own EXCEPT ![p] = <<>>]
  /\ mode' = [mode EXCEPT ![p] = "unused"]
  /\ pid' = [pid EXCEPT ![p] = 0]
  /\ UNCHANGED <<shm, nextpid, sz, has_shm, arg, lost>>

-----------------------------------------------------------------------------
(* exec().                                                                 *)

\* A goto bad of exec().
Bad(m) == IF m.st = "ok" THEN [m EXCEPT !.st = "bad"] ELSE m

\* clearpteu() of page v panics without a page table.
Clearpteu(m, v) == IF m.st = "ok" /\ m.pd[PDX(v)] = NONE THEN [m EXCEPT !.st = "panic"] ELSE m

\* copyout() to page v, through uva2ka(), which does not ask for a page table.
Copyout(m, v) ==
  CASE m.st = "ok" /\ m.pd[PDX(v)] = NONE -> [m EXCEPT !.st = "wild"]
    [] m.st = "ok" /\ m.pd[PDX(v)] # NONE /\ m.pt[v] = NONE -> [m EXCEPT !.st = "bad"]
    [] OTHER -> m

\* The address spaces that exec() may make of program x: its image and two
\* pages of stack, the upper one with the arguments.  The file may turn out bad
\* before or after the image has its pages, the arguments at the end.
NewSpaces(x) ==
  LET top == PGROUNDUP(x.mem)
      kernel == Setupkvm(freelist)
      image == Loaduvm(Allocuvm(kernel, 0, x.mem), VRange(0, x.file))
      stack == Clearpteu(Allocuvm(image, top, top + 2 * PGSIZE), top \div PGSIZE)
      full == Copyout(stack, top \div PGSIZE + 1)
  IN  {IF m.st = "bad" THEN GivenUp(m) ELSE m : m \in {Bad(kernel), Bad(image), Bad(full), full}}

\* exec() makes all of the new address space before it frees the old.
Exec(p, x) ==
  /\ Runs(p)
  /\ \E m \in NewSpaces(x) :
       /\ lost' = m.lost
       /\ \/ /\ m.st = "ok"
             /\ LET old == Freevm([SpaceOf(p) EXCEPT !.free = m.free]) IN
                freelist' = old.free /\ lapse' = Afterwards(old)
             /\ pd' = [pd EXCEPT ![p] = m.pd]
             /\ pt' = [pt EXCEPT ![p] = m.pt]
             /\ own' = [own EXCEPT ![p][2] = m.dir]
             /\ sz' = [sz EXCEPT ![p] = PGROUNDUP(x.mem) + 2 * PGSIZE]
          \/ /\ m.st # "ok"
             /\ freelist' = m.free
             /\ lapse' = Afterwards(m)
             /\ UNCHANGED space
  /\ UNCHANGED <<shm, ids, has_shm, arg>>

-----------------------------------------------------------------------------
(* Swapping, as far as it concerns pages: swapOut() in sleep(), swapIn().   *)

\* swapOut() panics at a page below sz that is not present.
SwapOut(p) ==
  /\ Runs(p) /\ p # 1
  /\ IF \E v \in Below(p) : pt[p][v] = NONE
     THEN lapse' = "panic" /\ UNCHANGED <<freelist, mode, tables, lost>>
     ELSE /\ Install(p, Deallocuvm(SpaceOf(p), Below(p)))
          /\ mode' = [mode EXCEPT ![p] = "swapped"]
  /\ UNCHANGED <<shm, pid, nextpid, sz, own, has_shm, arg>>

\* A write to the swap file fails: sleep() suspends the process all the same.
SwapOutFail(p) ==
  /\ Runs(p) /\ p # 1
  /\ mode' = [mode EXCEPT ![p] = "swapped"]
  /\ UNCHANGED <<freelist, shm, pid, nextpid, space, has_shm, arg, lost, lapse>>

SwapIn(p) ==
  LET m == Loaduvm(Allocuvm(SpaceOf(p), 0, sz[p]), Below(p)) IN
  /\ mode[p] = "swapped"
  /\ Install(p, m)
  /\ mode' = [mode EXCEPT ![p] = IF m.st = "ok" THEN "user" ELSE @]
  /\ UNCHANGED <<shm, pid, nextpid, sz, own, has_shm, arg>>

-----------------------------------------------------------------------------
(* Shared memory.                                                          *)

\* Another process is in shmget() or shmdel() for k.
Busy(p, k) == \E q \in Slot \ {p} : mode[q] \in {"get", "del"} /\ arg[q].key = k
Raced(p, k) == IF Busy(p, k) THEN "raced" ELSE lapse

\* The loops over shm.seg stop at the first key whose first page is id.
Found(id, k) == seg[k][0] = id /\ \A j \in Key : j < k => seg[j][0] # id

\* shmget() with CREAT, for a segment of n pages.
Shmget(p, k, n) ==
  /\ Runs(p) /\ npages[k] = 0
  /\ mode' = [mode EXCEPT ![p] = "get"]
  /\ arg' = [arg EXCEPT ![p] = [key |-> k, i |-> 0, n |-> n]]
  /\ lapse' = Raced(p, k)
  /\ UNCHANGED <<freelist, shm, pid, nextpid, space, has_shm, lost>>

\* The same with a key or a number of pages that shm.seg has no room for: keys
\* up to 1023 are accepted, whatever numOfSegs is, and sizes without a limit.
ShmgetOutside(p) ==
  /\ Runs(p)
  /\ lapse' = "outside"
  /\ UNCHANGED <<freelist, shm, ids, space, has_shm, arg, lost>>

ShmgetPage(p) ==
  LET k == arg[p].key
      i == arg[p].i
      got == [j \in 1..i |-> seg[k][j - 1]]
  IN
  /\ mode[p] = "get" /\ i < arg[p].n
  /\ IF freelist # <<>>
     THEN /\ seg' = [seg EXCEPT ![k][i] = Head(freelist)]
          /\ freelist' = Tail(freelist)
          /\ arg' = [arg EXCEPT ![p].i = i + 1]
          /\ UNCHANGED mode
     ELSE /\ seg' = [seg EXCEPT ![k][i] = NONE]
          /\ freelist' = Kfree(freelist, got)
          /\ arg' = [arg EXCEPT ![p] = NoArg]
          /\ mode' = [mode EXCEPT ![p] = "user"]
  /\ UNCHANGED <<npages, refs, flagged, shmlock, pid, nextpid, space, has_shm, lost, lapse>>

ShmgetEnd(p) ==
  /\ mode[p] = "get" /\ arg[p].i = arg[p].n
  /\ npages' = [npages EXCEPT ![arg[p].key] = arg[p].n]
  /\ arg' = [arg EXCEPT ![p] = NoArg]
  /\ mode' = [mode EXCEPT ![p] = "user"]
  /\ UNCHANGED <<freelist, seg, refs, flagged, shmlock, pid, nextpid, space, has_shm, lost, lapse>>

\* shmdel(): refused while the segment is attached.
Shmdel(p, id, k) ==
  /\ Runs(p) /\ Found(id, k)
  /\ refs[k] <= 0 /\ npages[k] > 0
  /\ mode' = [mode EXCEPT ![p] = "del"]
  /\ arg' = [arg EXCEPT ![p] = [key |-> k, i |-> 0, n |-> npages[k]]]
  /\ lapse' = Raced(p, k)
  /\ UNCHANGED <<freelist, shm, pid, nextpid, space, has_shm, lost>>

ShmdelPage(p) ==
  LET k == arg[p].key
      last == arg[p].i + 1 = arg[p].n
  IN
  /\ mode[p] = "del"
  /\ freelist' = Kfree(freelist, <<seg[k][arg[p].i]>>)
  /\ npages' = [npages EXCEPT ![k] = @ - 1]
  /\ arg' = [arg EXCEPT ![p] = IF last THEN NoArg ELSE [@ EXCEPT !.i = @ + 1]]
  /\ mode' = [mode EXCEPT ![p] = IF last THEN "user" ELSE "del"]
  /\ UNCHANGED <<seg, refs, flagged, shmlock, pid, nextpid, space, has_shm, lost, lapse>>

\* The pages of segment k at virtual page a and after, as far as there are user
\* addresses.  A page whose page table cannot be allocated is left out.
Attach(p, k, a) ==
  FoldLeft(LAMBDA m, v : LET w == Mappages(m, v, seg[k][v - a]) IN
                         CASE m.st # "ok" -> m
                           [] m.st = "ok" /\ w.st = "bad" -> [w EXCEPT !.st = "ok"]
                           [] OTHER -> w,
           SpaceOf(p), InOrder({v \in VPage : v >= a /\ v < a + npages[k]}))

\* Mutant: a second attachment by the same process is not counted.
CountedOnce(p, k) == IF pid[p] \in flagged[k] THEN refs[k] ELSE refs[k] + 1

\* The reference count of segment k when p has attached it.
Counted(p, k) == refs[k] + 1

\* shmat(): the segment goes to the end of the address space.  With a flag that
\* is neither read-only nor read-write it is counted and not mapped.
Shmat(p, id, k, flagOk) ==
  LET a == PGROUNDUP(sz[p]) \div PGSIZE
      m == IF flagOk THEN Attach(p, k, a) ELSE SpaceOf(p)
      end == IF (a + npages[k]) * PGSIZE < KERNBASE THEN (a + npages[k]) * PGSIZE ELSE KERNBASE
  IN
  /\ Runs(p) /\ shmlock = NONE
  /\ Found(id, k) /\ npages[k] > 0 /\ refs[k] < MaxRefs
  /\ (a + 1) * PGSIZE < KERNBASE
  /\ refs' = [refs EXCEPT ![k] = Counted(p, k)]
  /\ flagged' = [flagged EXCEPT ![k] = @ \cup {pid[p]}]
  /\ has_shm' = [has_shm EXCEPT ![p] = @ + 1]
  /\ freelist' = m.free
  /\ pd' = [pd EXCEPT ![p] = m.pd]
  /\ pt' = [pt EXCEPT ![p] = m.pt]
  /\ sz' = [sz EXCEPT ![p] = IF flagOk THEN end ELSE @]
  /\ lapse' = IF m.st = "ok" THEN Raced(p, k) ELSE m.st
  /\ UNCHANGED <<seg, npages, shmlock, ids, own, arg, lost>>

\* shmdt() of the address of virtual page v, up to the release of shm.lock.
\* Neither of its two error returns releases it.
Shmdt(p, v, k) ==
  /\ Runs(p) /\ shmlock = NONE
  /\ v \in Below(p) /\ pt[p][v] # NONE /\ Found(pt[p][v], k)
  /\ IF npages[k] <= 0 \/ refs[k] <= 0
     THEN /\ shmlock' = p /\ lapse' = "locked"
          /\ UNCHANGED <<refs, flagged, has_shm, mode, arg, lost>>
     ELSE /\ refs' = [refs EXCEPT ![k] = @ - 1]
          /\ flagged' = [flagged EXCEPT ![k] = @ \ {pid[p]}]
          /\ has_shm' = [has_shm EXCEPT ![p] = @ - 1]
          /\ mode' = [mode EXCEPT ![p] = "dt"]
          /\ arg' = [arg EXCEPT ![p] = [key |-> k, i |-> v, n |-> npages[k]]]
          /\ lost' = lost \cup Private(pt[p], v, npages[k])
          /\ UNCHANGED <<shmlock, lapse>>
  /\ UNCHANGED <<freelist, seg, npages, pid, nextpid, space>>

\* The rest of shmdt(): the entries of the segment are cleared.
ShmdtClear(p) ==
  LET v == arg[p].i
      n == arg[p].n
  IN
  /\ mode[p] = "dt"
  /\ pt' = [pt EXCEPT ![p] = Cleared(@, v..(v + n - 1))]
  /\ mode' = [mode EXCEPT ![p] = "user"]
  /\ arg' = [arg EXCEPT ![p] = NoArg]
  /\ lapse' = IF CanClear(p, v, n) THEN lapse ELSE "wild"
  /\ UNCHANGED <<freelist, shm, pid, nextpid, sz, pd, own, has_shm, lost>>

\* shmdt() of an address that has no page table reads its entry at address 0.
ShmdtWild(p, v) ==
  /\ Runs(p)
  /\ v \in Below(p) /\ pd[p][PDX(v)] = NONE
  /\ lapse' = "wild"
  /\ UNCHANGED <<freelist, shm, ids, space, has_shm, arg, lost>>

-----------------------------------------------------------------------------
Ids == {seg[k][0] : k \in Key} \ {NONE}

Next ==
  \/ \E p, q \in Slot : Fork(p, q)
  \/ \E p \in Slot : Exit(p) \/ Wait(p) \/ SwapOut(p) \/ SwapOutFail(p) \/ SwapIn(p)
  \/ \E p \in Slot, n \in Delta : Grow(p, n) \/ Shrink(p, n)
  \/ \E p \in Slot, x \in Image : Exec(p, x)
  \/ \E p \in Slot, k \in Key, n \in 1..MaxSeg : Shmget(p, k, n)
  \/ \E p \in Slot : ShmgetOutside(p) \/ ShmgetPage(p) \/ ShmgetEnd(p) \/ ShmdelPage(p) \/ ShmdtClear(p)
  \/ \E p \in Slot, id \in Ids, k \in Key : Shmdel(p, id, k)
  \/ \E p \in Slot, id \in Ids, k \in Key, flagOk \in BOOLEAN : Shmat(p, id, k, flagOk)
  \/ \E p \in Slot, v \in VPage, k \in Key : Shmdt(p, v, k)
  \/ \E p \in Slot, v \in VPage : ShmdtWild(p, v)

Spec == Init /\ [][Next]_vars

-----------------------------------------------------------------------------
(* Properties.                                                             *)

\* The mappings that a shmdt() in progress has still to clear.  Its process
\* does not return to user code before that.
Doomed(p) == IF mode[p] = "dt" THEN arg[p].i..(arg[p].i + arg[p].n - 1) ELSE {}

\* The places that hold pages, each with its page: the free list, stacks and
\* directories, page tables, private mappings, segments, and the error paths
\* that forget pages.
Holdings ==
  {<<"free", i, freelist[i]>> : i \in DOMAIN freelist}
  \cup UNION {{<<"own", p, i, own[p][i]>> : i \in DOMAIN own[p]} : p \in Slot}
  \cup UNION {{<<"table", p, i, pd[p][i]>> : i \in {i \in Pde : pd[p][i] # NONE}} : p \in Slot}
  \cup UNION {{<<"map", p, v, pt[p][v]>> :
                 v \in {v \in VPage \ Doomed(p) : pt[p][v] \notin Shared \cup {NONE}}} : p \in Slot}
  \cup UNION {{<<"seg", k, i, seg[k][i]>> : i \in Indexes(k)} : k \in Key}
  \cup {<<"lost", g>> : g \in lost}

\* Until the sharing lapses, every physical page is in exactly one place,
\* whichever kalloc() of fork(), exec(), sbrk(), shmat(), swapIn() or shmget()
\* fails: none is free and in use, none belongs to two processes or two
\* segments, also while shmdt() still has mappings of a segment that shmdel()
\* frees.  Pages leak, but only those that setupkvm(), copyuvm() and allocuvm()
\* hold when a page table cannot be allocated, and those that took the place of
\* an unmapped page of a segment when shmdt() or exit() detaches it.
PagesOwnedOnce ==
  lapse = "none" =>
    Cardinality(Holdings) = NPAGE /\ {h[Len(h)] : h \in Holdings} = Page

\* Where a segment is mapped, for longer than the end of a shmdt().
Attachments(k) ==
  {m \in Slot \X VPage : /\ seg[k][0] \in Segment(k) /\ pt[m[1]][m[2]] = seg[k][0]
                         /\ m[2] \notin Doomed(m[1])}

\* The bookkeeping of shmat() and shmdt() covers every mapping of a segment
\* that user code can come back to: the reference count, so that shmdel(), which
\* looks at nothing else, never frees a page that a process can reach, and
\* has_shm, without which exit() does not look for what a process left attached.
AttachmentsCounted ==
  lapse = "none" =>
    /\ \A k \in Key : npages[k] > 0 => Cardinality(Attachments(k)) <= refs[k]
    /\ \A p \in Slot :
         /\ mode[p] \in {"user", "get", "del", "dt"}
         /\ \E v \in VPage \ Doomed(p) : pt[p][v] \in Shared
         => has_shm[p] > 0

\* exit() detaches what the process left attached (deallocshm() says "de-allocate
\* any left over shared memory if proc exited without calling shmdt").
ZombieDetached ==
  lapse = "none" => \A p \in Slot : mode[p] = "zombie" => \A v \in VPage : pt[p][v] \notin Shared
=============================================================================
