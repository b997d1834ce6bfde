--------------------------------- MODULE Fs ---------------------------------
(***************************************************************************)
(* The file system above the log: blocks, inodes, the inode cache,         *)
(* directories and path names (fs.c), open files (file.c) and the system   *)
(* calls on them (sysfile.c), made by several processes at once.           *)
(*                                                                         *)
(* A process works through a list of steps, todo.  A step is what a        *)
(* process does without others being able to tell: it takes at most one    *)
(* inode lock first, and changes nothing shared after it has released one. *)
(* Block contents are left out, except those of indirect blocks and        *)
(* directories; sizes and offsets count blocks, and a directory fits into  *)
(* one.  Sleeping for an inode is in Proc, commit and recovery in Log.     *)
(***************************************************************************)
EXTENDS Integers, FiniteSets, SequencesExt

CONSTANTS
  NPROC, NINODE, NFILE, NOFILE,   \* sizes of the tables
  NINUM,                          \* inodes on disk
  NBLOCK,                         \* data blocks
  NDIRECT, NINDIRECT,
  MaxChunk,                       \* blocks that filewrite() writes in a transaction
  Name,                           \* names in directories
  Files,                          \* the files that mkfs puts into the image: [name, size]
  Path, Calls                     \* the paths, [abs, elems], and the system calls each process uses

Process == 1..NPROC
Entry == 1..NINODE
File == 1..NFILE
Fd == 1..NOFILE
Inum == 1..NINUM
Block == 1..NBLOCK
NONE == 0
ROOTINO == 1
MAXFILE == NDIRECT + NINDIRECT
DirName == Name \cup {".", ".."}

ASSUME SizeAssumption == {NPROC, NINODE, NFILE, NOFILE, NINUM, NBLOCK, NDIRECT, MaxChunk} \subseteq Nat \ {0}
ASSUME DotAssumption == {".", ".."} \cap Name = {}

VARIABLES
  dinode,    \* the inodes on disk: [type, nlink, size, addrs]
  blk,       \* blocks: the bitmap "used", and "ind", what indirect blocks hold
  dents,     \* the contents of directories
  cache,     \* icache
  ftable,
  alive, cwd, ofile,
  logger,    \* the process that has log.busy set
  todo, reg, \* the steps a process has still to do, and its variables
  lost,      \* the inodes that were named in a directory when it was freed
  panicked

disk == <<dinode, blk, dents>>
procs == <<alive, cwd, ofile>>
vars == <<disk, cache, ftable, procs, logger, todo, reg, lost, panicked>>

NoAddrs == [i \in 0..NDIRECT |-> NONE]
NoInd == [i \in 0..(NINDIRECT - 1) |-> NONE]
NoDents == [n \in DirName |-> NONE]
FreeInode == [type |-> "free", nlink |-> 0, size |-> 0, addrs |-> NoAddrs]
Copy(d) == [type |-> d.type, nlink |-> d.nlink, size |-> d.size, addrs |-> d.addrs]
FreeEntry == [inum |-> NONE, ref |-> 0, busy |-> NONE, valid |-> FALSE] @@ FreeInode
FreeFile == [ref |-> 0, type |-> "none", ip |-> NONE, off |-> 0, writable |-> FALSE]
NoReg == [cur |-> NONE, old |-> NONE, ip |-> NONE, dp |-> NONE, elems |-> <<>>, name |-> ".",
          new |-> NONE, type |-> "file", fd |-> NONE, n |-> 0, writes |-> FALSE, bad |-> <<>>]

\* Every table and the disk keep their types.
TypeOK ==
  /\ \A i \in Inum : /\ dinode[i].type \in {"free", "dir", "file", "dev"}
                     /\ dinode[i].nlink \in Nat /\ dinode[i].size \in 0..MAXFILE
                     /\ dinode[i].addrs \in [0..NDIRECT -> Block \cup {NONE}]
  /\ blk.used \subseteq Block
  /\ dents \in [Inum -> [DirName -> Inum \cup {NONE}]]
  /\ \A e \in Entry : cache[e].ref \in Nat /\ cache[e].busy \in Process \cup {NONE}
  /\ \A f \in File : ftable[f].ref \in Nat /\ ftable[f].off \in 0..MAXFILE
  /\ alive \subseteq Process
  /\ ofile \in [Process -> [Fd -> File \cup {NONE}]]
  /\ logger \in Process \cup {NONE}

-----------------------------------------------------------------------------
(* mkfs, which makes the first image m.  It hands out inodes and blocks in   *)
(* turn and marks the blocks in the bitmap at the end.                       *)

MkfsIalloc(m, type) ==
  [m EXCEPT !.dinode[m.freeinode] = [FreeInode EXCEPT !.type = type, !.nlink = 1], !.freeinode = @ + 1]

\* iappend() of one block to inode i.
Iappend(m, i) ==
  LET d == m.dinode[i]
      fbn == d.size
      slot == IF fbn < NDIRECT THEN fbn ELSE NDIRECT
      fresh == d.addrs[slot] = NONE
      x == IF fresh THEN m.freeblock ELSE d.addrs[slot]
      next == IF fresh THEN m.freeblock + 1 ELSE m.freeblock
      m2 == [m EXCEPT !.dinode[i].size = @ + 1, !.dinode[i].addrs[slot] = x, !.freeblock = next]
  IN  IF fbn < NDIRECT THEN m2
      ELSE [m2 EXCEPT !.ind[x][fbn - NDIRECT] = next, !.freeblock = @ + 1]

\* A file is named in the root directory, and its blocks are appended.
MkfsFile(m, f) ==
  LET i == m.freeinode
      named == [MkfsIalloc(m, "file") EXCEPT !.dents[ROOTINO][f.name] = i]
  IN  FoldLeft(LAMBDA im, k : Iappend(im, i), named, [k \in 1..f.size |-> k])

Image ==
  LET empty == [dinode |-> [i \in Inum |-> FreeInode], ind |-> [b \in Block |-> NoInd],
                dents |-> [i \in Inum |-> NoDents], freeinode |-> ROOTINO, freeblock |-> 1]
      root == [Iappend(MkfsIalloc(empty, "dir"), ROOTINO) EXCEPT
                 !.dents[ROOTINO] = [NoDents EXCEPT !["."] = ROOTINO, ![".."] = ROOTINO]]
  IN  FoldLeft(MkfsFile, root, Files)

\* init has the root directory as its cwd.
Init ==
  /\ dinode = Image.dinode
  /\ blk = [used |-> 1..(Image.freeblock - 1), ind |-> [b \in Block |-> Image.ind[b]]]
  /\ dents = Image.dents
  /\ cache = [e \in Entry |-> IF e = 1 THEN [FreeEntry EXCEPT !.inum = ROOTINO, !.ref = 1] ELSE FreeEntry]
  /\ ftable = [f \in File |-> FreeFile]
  /\ alive = {1}
  /\ cwd = [p \in Process |-> IF p = 1 THEN 1 ELSE NONE]
  /\ ofile = [p \in Process |-> [d \in Fd |-> NONE]]
  /\ logger = NONE
  /\ todo = [p \in Process |-> <<>>]
  /\ reg = [p \in Process |-> NoReg]
  /\ lost = {}
  /\ panicked = "no"

-----------------------------------------------------------------------------
(* Blocks.                                                                 *)

\* balloc(): the first block that is free; NONE where it panics.
FreeBlock(b) ==
  IF Block \subseteq b.used THEN NONE
  ELSE CHOOSE n \in Block \ b.used : \A m \in Block \ b.used : n <= m
Balloc(b) ==
  LET n == FreeBlock(b) IN
  IF n = NONE THEN [b EXCEPT !.used = @ \cup {NONE}]
  ELSE [used |-> b.used \cup {n}, ind |-> [b.ind EXCEPT ![n] = NoInd]]

\* bmap(): block bn of a file, allocated where it is missing.
Bmap(addrs, b, bn) ==
  LET slot == IF bn < NDIRECT THEN bn ELSE NDIRECT
      n == IF addrs[slot] = NONE THEN FreeBlock(b) ELSE addrs[slot]
      b1 == IF addrs[slot] = NONE THEN Balloc(b) ELSE b
      j == bn - NDIRECT
  IN  [addrs |-> [addrs EXCEPT ![slot] = n],
       blk |-> IF bn < NDIRECT \/ n = NONE THEN b1
               ELSE IF b1.ind[n][j] # NONE THEN b1
               ELSE [Balloc(b1) EXCEPT !.ind[n][j] = FreeBlock(b1)]]

\* Mutant: the blocks that an indirect block names are not freed.
BlocksOfDirect(addrs, b) ==
  {addrs[i] : i \in 0..NDIRECT} \ {NONE}

\* bfree() of the blocks in B, which must be in use.
BfreePanics(b, B) == ~(B \subseteq b.used)
Bfree(b, B) == [b EXCEPT !.used = @ \ B]

\* The blocks of an inode, which itrunc() gives to bfree().
BlocksOf(addrs, b) ==
  ({addrs[i] : i \in 0..NDIRECT}
   \cup (IF addrs[NDIRECT] = NONE THEN {}
         ELSE {b.ind[addrs[NDIRECT]][j] : j \in 0..(NINDIRECT - 1)})) \ {NONE}

\* readi() of a block at off: the blocks that are read, none at the end of d.
Readi(d, off) == IF off < d.size THEN 1 ELSE 0

\* writei() of n blocks at off writes all of them, or fails; then d and the
\* blocks are:
WriteiFails(d, off, n) == off > d.size \/ off + n > MAXFILE
Writei(d, b, off, n) ==
  LET more == FoldLeft(LAMBDA m, k : Bmap(m.addrs, m.blk, off + k - 1),
                       [addrs |-> d.addrs, blk |-> b], [k \in 1..n |-> k])
  IN  [inode |-> [d EXCEPT !.addrs = more.addrs, !.size = IF off + n > @ THEN off + n ELSE @],
       blk |-> more.blk]

-----------------------------------------------------------------------------
(* The inode cache.                                                        *)

\* iget(): the entry for inode i, and the cache with one more reference to it;
\* NONE where it panics.
IgetEntry(c, i) ==
  LET hit == {e \in Entry : c[e].ref > 0 /\ c[e].inum = i}
      empty == {e \in Entry : c[e].ref = 0}
      first(S) == IF S = {} THEN NONE ELSE CHOOSE e \in S : \A f \in S : e <= f
  IN  IF hit # {} THEN first(hit) ELSE first(empty)
Iget(c, i) ==
  LET e == IgetEntry(c, i) IN
  IF e = NONE THEN c
  ELSE [c EXCEPT ![e] = IF @.ref > 0 THEN [@ EXCEPT !.ref = @ + 1]
                        ELSE [FreeEntry EXCEPT !.inum = i, !.ref = 1]]

Idup(c, e) == [c EXCEPT ![e].ref = @ + 1]

\* ilock() by p of entry e: not while it is busy; reads the inode if need be.
CanLock(e) == cache[e].busy = NONE
Ilock(c, e, p) ==
  [c EXCEPT ![e] = IF @.valid THEN [@ EXCEPT !.busy = p]
                   ELSE [inum |-> @.inum, ref |-> @.ref, busy |-> p, valid |-> TRUE] @@ dinode[@.inum]]
Iunlock(c, e) == [c EXCEPT ![e].busy = NONE]

\* iupdate() of the entries E of cache c.
Iupdate(c, E) ==
  [i \in Inum |-> IF \E e \in E : c[e].inum = i
                  THEN Copy(c[CHOOSE e \in E : c[e].inum = i]) ELSE dinode[i]]

-----------------------------------------------------------------------------
(* Steps.                                                                  *)

Running(p) == panicked = "no" /\ p \in alive
At(p, step) == Running(p) /\ todo[p] # <<>> /\ Head(todo[p]) = step
Goto(p, steps) == todo' = [todo EXCEPT ![p] = steps]
Done(p) == Goto(p, Tail(todo[p]))
Same == UNCHANGED <<disk, ftable, procs, logger, lost, panicked>>
Panic(why) == panicked' = why /\ UNCHANGED <<disk, cache, ftable, procs, logger, todo, reg, lost>>
\* A step that changes nothing but the cache and what p does next.
Step(p, c, steps) == cache' = c /\ Goto(p, steps) /\ UNCHANGED reg /\ Same

\* log_write() panics outside of a transaction; one of another process will do.
LogWritePanics == logger = NONE

Begin(p) ==
  /\ At(p, "begin_trans") /\ logger = NONE
  /\ logger' = p
  /\ Done(p)
  /\ UNCHANGED <<disk, cache, ftable, procs, reg, lost, panicked>>

Commit(p) ==
  /\ At(p, "commit_trans")
  /\ logger' = NONE
  /\ Done(p)
  /\ UNCHANGED <<disk, cache, ftable, procs, reg, lost, panicked>>

\* The steps that work on the entry in a register.
IputStep == [cur |-> "iput cur", old |-> "iput old", ip |-> "iput ip", dp |-> "iput dp"]
ItruncStep == [cur |-> "itrunc cur", old |-> "itrunc old", ip |-> "itrunc ip", dp |-> "itrunc dp"]
IfreeStep == [cur |-> "ifree cur", old |-> "ifree old", ip |-> "ifree ip", dp |-> "ifree dp"]
IunlockStep == [ip |-> "iunlock ip", dp |-> "iunlock dp"]

\* Mutant: an inode without links is freed while others refer to it.
IputUnlinked(p) ==
  \E r \in DOMAIN IputStep :
    LET e == reg[p][r] IN
    /\ At(p, IputStep[r])
    /\ IF cache[e].valid /\ cache[e].nlink = 0
       THEN IF cache[e].busy # NONE THEN Panic("iput busy")
            ELSE Step(p, [cache EXCEPT ![e].busy = p],
                      <<ItruncStep[r], IfreeStep[r]>> \o Tail(todo[p]))
       ELSE Step(p, [cache EXCEPT ![e].ref = @ - 1], Tail(todo[p]))

\* iput() of the entry in register r.  The last reference to an inode without
\* links goes on to free it, with icache.lock released.
Iput(p) ==
  \E r \in DOMAIN IputStep :
    LET e == reg[p][r] IN
    /\ At(p, IputStep[r])
    /\ IF cache[e].ref = 1 /\ cache[e].valid /\ cache[e].nlink = 0
       THEN IF cache[e].busy # NONE THEN Panic("iput busy")
            ELSE Step(p, [cache EXCEPT ![e].busy = p],
                      <<ItruncStep[r], IfreeStep[r]>> \o Tail(todo[p]))
       ELSE Step(p, [cache EXCEPT ![e].ref = @ - 1], Tail(todo[p]))

\* itrunc(), type = 0 and iupdate().
Itrunc(p) ==
  \E r \in DOMAIN IputStep :
    LET e == reg[p][r]
        i == cache[e].inum
        gone == BlocksOf(cache[e].addrs, blk)
        c == [cache EXCEPT ![e] = [inum |-> i, ref |-> @.ref, busy |-> p, valid |-> TRUE] @@ FreeInode]
    IN
    /\ At(p, ItruncStep[r])
    /\ IF LogWritePanics THEN Panic("write outside of trans")
       ELSE IF BfreePanics(blk, gone) THEN Panic("freeing free block")
       ELSE /\ cache' = c
            /\ dinode' = Iupdate(c, {e})
            /\ blk' = Bfree(blk, gone)
            /\ dents' = [dents EXCEPT ![i] = NoDents]
            /\ lost' = lost \cup ({dents[i][n] : n \in Name} \ {NONE})
            /\ Done(p)
            /\ UNCHANGED <<ftable, procs, logger, reg, panicked>>

Ifree(p) ==
  \E r \in DOMAIN IputStep :
    /\ At(p, IfreeStep[r])
    /\ Step(p, [cache EXCEPT ![reg[p][r]] = [@ EXCEPT !.busy = NONE, !.valid = FALSE, !.ref = @ - 1]],
            Tail(todo[p]))

IunlockReg(p) ==
  \E r \in DOMAIN IunlockStep :
    LET e == reg[p][r] IN
    /\ At(p, IunlockStep[r])
    /\ IF cache[e].busy = NONE \/ cache[e].ref < 1 THEN Panic("iunlock")
       ELSE Step(p, Iunlock(cache, e), Tail(todo[p]))

-----------------------------------------------------------------------------
(* Directories and path names.  A failed lookup goes on with reg.bad.      *)

\* dirlookup(): the inode that a name in directory i stands for, or NONE.
Dirlookup(i, name) == dents[i][name]

\* dirlink() of a name that is not present.
Dirlink(i, name, inum) == [dents EXCEPT ![i][name] = inum]

\* skipelem(): the first element of a path, and the rest.
SkipElem(elems) == [name |-> Head(elems), rest |-> Tail(elems)]

\* namex() begins, at the root or at cwd.
NamexStart(p) ==
  \E step \in {"namei", "nameiparent"} :
    LET abs == reg[p].name = "/"
        e == IF abs THEN IgetEntry(cache, ROOTINO) ELSE cwd[p]
    IN
    /\ At(p, step)
    /\ IF e = NONE THEN Panic("iget: no inodes")
       ELSE /\ cache' = IF abs THEN Iget(cache, ROOTINO) ELSE Idup(cache, e)
            /\ reg' = [reg EXCEPT ![p].cur = e]
            /\ Goto(p, <<IF step = "namei" THEN "walk" ELSE "walk parent">> \o Tail(todo[p]))
            /\ Same

\* No more elements: that is the inode, and there is no parent.
WalkEnd(p) ==
  /\ reg[p].elems = <<>>
  /\ \/ /\ At(p, "walk")
        /\ reg' = [reg EXCEPT ![p].ip = reg[p].cur]
        /\ Done(p)
     \/ /\ At(p, "walk parent")
        /\ Goto(p, <<"iput cur">> \o reg[p].bad)
        /\ UNCHANGED reg
  /\ UNCHANGED cache /\ Same

\* Mutant: a name that is not found keeps the directory referenced.
WalkNoPut(p) ==
  \E step \in {"walk", "walk parent"} :
    LET e == reg[p].cur
        path == SkipElem(reg[p].elems)
        c == Ilock(cache, e, p)
        last == step = "walk parent" /\ path.rest = <<>>
        i == Dirlookup(c[e].inum, path.name)
    IN
    /\ At(p, step) /\ reg[p].elems # <<>>
    /\ CanLock(e)
    /\ IF c[e].type = "free" THEN Panic("ilock: no type")
       ELSE IF c[e].type # "dir" \/ (~last /\ i = NONE)
       THEN Step(p, Iunlock(c, e), reg[p].bad)
       ELSE IF last
       THEN /\ cache' = Iunlock(c, e)
            /\ reg' = [reg EXCEPT ![p].dp = e, ![p].name = path.name]
            /\ Done(p)
            /\ Same
       ELSE IF IgetEntry(c, i) = NONE THEN Panic("iget: no inodes")
       ELSE /\ cache' = Iget(Iunlock(c, e), i)
            /\ reg' = [reg EXCEPT ![p].cur = IgetEntry(c, i), ![p].old = e, ![p].elems = path.rest]
            /\ Goto(p, <<"iput old">> \o todo[p])
            /\ Same

\* One round of the loop: lock, look up, unlock.  The iput() of the directory
\* that is left is a step of its own.
Walk(p) ==
  \E step \in {"walk", "walk parent"} :
    LET e == reg[p].cur
        path == SkipElem(reg[p].elems)
        c == Ilock(cache, e, p)
        last == step = "walk parent" /\ path.rest = <<>>
        i == Dirlookup(c[e].inum, path.name)
    IN
    /\ At(p, step) /\ reg[p].elems # <<>>
    /\ CanLock(e)
    /\ IF c[e].type = "free" THEN Panic("ilock: no type")
       ELSE IF c[e].type # "dir" \/ (~last /\ i = NONE)
       THEN Step(p, Iunlock(c, e), <<"iput cur">> \o reg[p].bad)
       ELSE IF last
       THEN /\ cache' = Iunlock(c, e)
            /\ reg' = [reg EXCEPT ![p].dp = e, ![p].name = path.name]
            /\ Done(p)
            /\ Same
       ELSE IF IgetEntry(c, i) = NONE THEN Panic("iget: no inodes")
       ELSE /\ cache' = Iget(Iunlock(c, e), i)
            /\ reg' = [reg EXCEPT ![p].cur = IgetEntry(c, i), ![p].old = e, ![p].elems = path.rest]
            /\ Goto(p, <<"iput old">> \o todo[p])
            /\ Same

-----------------------------------------------------------------------------
(* create().                                                               *)

\* Mutant: the directory stays locked while the old file is locked.
CreateFindLocked(p) ==
  LET d == reg[p].dp
      c == Ilock(cache, d, p)
      i == Dirlookup(c[d].inum, reg[p].name)
  IN
  /\ At(p, "create") /\ CanLock(d)
  /\ IF i = NONE THEN Step(p, c, <<"ialloc", "create new", "iput dp">> \o Tail(todo[p]))
     ELSE IF IgetEntry(c, i) = NONE THEN Panic("iget: no inodes")
     ELSE /\ cache' = Iget(c, i)
          /\ reg' = [reg EXCEPT ![p].ip = IgetEntry(c, i)]
          /\ Goto(p, <<"create old", "iunlock dp", "iput dp">> \o Tail(todo[p]))
          /\ Same

\* The directory is locked and searched.  A name that exists is taken; else the
\* directory stays locked.
CreateFind(p) ==
  LET d == reg[p].dp
      c == Ilock(cache, d, p)
      i == Dirlookup(c[d].inum, reg[p].name)
  IN
  /\ At(p, "create") /\ CanLock(d)
  /\ IF i = NONE THEN Step(p, c, <<"ialloc", "create new", "iput dp">> \o Tail(todo[p]))
     ELSE IF IgetEntry(c, i) = NONE THEN Panic("iget: no inodes")
     ELSE /\ cache' = Iget(Iunlock(c, d), i)
          /\ reg' = [reg EXCEPT ![p].ip = IgetEntry(c, i)]
          /\ Goto(p, <<"iput dp", "create old">> \o Tail(todo[p]))
          /\ Same

CreateOld(p) ==
  LET e == reg[p].ip
      c == Ilock(cache, e, p)
  IN
  /\ At(p, "create old") /\ CanLock(e)
  /\ IF c[e].type = "free" THEN Panic("ilock: no type")
     ELSE IF reg[p].type = "file" /\ c[e].type = "file" THEN Step(p, c, Tail(todo[p]))
     ELSE Step(p, Iunlock(c, e), <<"iput ip">> \o reg[p].bad)

Ialloc(p) ==
  LET free == {i \in Inum : dinode[i].type = "free"}
      i == CHOOSE i \in free : \A j \in free : i <= j
  IN
  /\ At(p, "ialloc")
  /\ IF free = {} THEN Panic("ialloc: no inodes")
     ELSE IF IgetEntry(cache, i) = NONE THEN Panic("iget: no inodes")
     ELSE /\ dinode' = [dinode EXCEPT ![i] = [FreeInode EXCEPT !.type = reg[p].type]]
          /\ cache' = Iget(cache, i)
          /\ reg' = [reg EXCEPT ![p].ip = IgetEntry(cache, i)]
          /\ Done(p)
          /\ UNCHANGED <<blk, dents, ftable, procs, logger, lost, panicked>>

\* The new inode is locked, filled in and named, the directory unlocked.
CreateNew(p) ==
  LET e == reg[p].ip
      d == reg[p].dp
      i == cache[e].inum
      di == cache[d].inum
      isDir == reg[p].type = "dir"
      b == Bmap(NoAddrs, blk, 0)
      made == [nlink |-> 1, size |-> IF isDir THEN 1 ELSE 0,
               addrs |-> IF isDir THEN b.addrs ELSE NoAddrs]
      c == [Ilock(cache, e, p) EXCEPT ![e] = made @@ @,
                                      ![d].nlink = IF isDir THEN @ + 1 ELSE @]
  IN
  /\ At(p, "create new") /\ CanLock(e)
  /\ IF isDir /\ NONE \in b.blk.used THEN Panic("balloc: out of blocks")
     ELSE /\ cache' = Iunlock(c, d)
          /\ dinode' = Iupdate(c, {e, d})
          /\ blk' = IF isDir THEN b.blk ELSE blk
          /\ dents' = [dents EXCEPT
                         ![i] = IF isDir THEN [NoDents EXCEPT !["."] = i, ![".."] = di] ELSE @,
                         ![di][reg[p].name] = i]
          /\ Done(p)
          /\ UNCHANGED <<ftable, procs, logger, reg, lost, panicked>>

-----------------------------------------------------------------------------
(* link() and unlink().                                                    *)

LinkBad == <<"link bad", "iput ip", "commit_trans">>

\* The count goes up first; a directory cannot be linked.
LinkUp(p) ==
  LET e == reg[p].ip
      c == Ilock(cache, e, p)
      up == [c EXCEPT ![e].nlink = @ + 1]
  IN
  /\ At(p, "link") /\ CanLock(e)
  /\ IF c[e].type = "free" THEN Panic("ilock: no type")
     ELSE IF c[e].type = "dir" THEN Step(p, Iunlock(c, e), <<"iput ip", "commit_trans">>)
     ELSE /\ cache' = Iunlock(up, e)
          /\ dinode' = Iupdate(up, {e})
          /\ reg' = [reg EXCEPT ![p].elems = reg[p].new.elems,
                                ![p].name = IF reg[p].new.abs THEN "/" ELSE ".",
                                ![p].bad = LinkBad]
          /\ Done(p)
          /\ UNCHANGED <<blk, dents, ftable, procs, logger, lost, panicked>>

\* dirlink() of the new name fails when there is one, which it gets and puts.
LinkName(p) ==
  LET d == reg[p].dp
      c == Ilock(cache, d, p)
      i == Dirlookup(c[d].inum, reg[p].name)
  IN
  /\ At(p, "dirlink") /\ CanLock(d)
  /\ IF i # NONE
     THEN IF IgetEntry(c, i) = NONE THEN Panic("iget: no inodes")
          ELSE Step(p, Iunlock(c, d), <<"iput dp">> \o LinkBad)
     ELSE /\ cache' = Iunlock(c, d)
          /\ dents' = Dirlink(c[d].inum, reg[p].name, cache[reg[p].ip].inum)
          /\ Done(p)
          /\ UNCHANGED <<dinode, blk, ftable, procs, logger, reg, lost, panicked>>

\* Mutant: a failed link keeps its count.
LinkUndoForgets(p) ==
  LET e == reg[p].ip
      c == Ilock(cache, e, p)
  IN
  /\ At(p, "link bad") /\ CanLock(e)
  /\ cache' = Iunlock(c, e)
  /\ dinode' = Iupdate(c, {e})
  /\ Done(p)
  /\ UNCHANGED <<blk, dents, ftable, procs, logger, reg, lost, panicked>>

LinkUndo(p) ==
  LET e == reg[p].ip
      c == [Ilock(cache, e, p) EXCEPT ![e].nlink = @ - 1]
  IN
  /\ At(p, "link bad") /\ CanLock(e)
  /\ cache' = Iunlock(c, e)
  /\ dinode' = Iupdate(c, {e})
  /\ Done(p)
  /\ UNCHANGED <<blk, dents, ftable, procs, logger, reg, lost, panicked>>

\* The directory is locked and stays so while the file in it is locked.
UnlinkFind(p) ==
  LET d == reg[p].dp
      c == Ilock(cache, d, p)
      i == Dirlookup(c[d].inum, reg[p].name)
  IN
  /\ At(p, "unlink") /\ CanLock(d)
  /\ IF reg[p].name \in {".", ".."} \/ i = NONE
     THEN Step(p, Iunlock(c, d), <<"iput dp", "commit_trans">>)
     ELSE IF IgetEntry(c, i) = NONE THEN Panic("iget: no inodes")
     ELSE /\ cache' = Iget(c, i)
          /\ reg' = [reg EXCEPT ![p].ip = IgetEntry(c, i)]
          /\ Done(p)
          /\ Same

\* isdirempty() passes over "." and "..".
IsDirEmpty(i) == \A n \in Name : dents[i][n] = NONE

\* Mutant: the count of the parent is not written to the disk.
UnlinkNameStale(p) ==
  LET e == reg[p].ip
      d == reg[p].dp
      c == Ilock(cache, e, p)
      isDir == c[e].type = "dir"
      c2 == [c EXCEPT ![d].nlink = IF isDir THEN @ - 1 ELSE @]
  IN
  /\ At(p, "unlink name") /\ CanLock(e)
  /\ IF c[e].type = "free" THEN Panic("ilock: no type")
     ELSE IF c[e].nlink < 1 THEN Panic("unlink: nlink < 1")
     ELSE IF isDir /\ ~IsDirEmpty(c[e].inum)
     THEN Step(p, Iunlock(c, e),
               <<"iput ip", "iunlock dp", "iput dp", "commit_trans">>)
     ELSE /\ cache' = Iunlock(c2, d)
          /\ dents' = [dents EXCEPT ![c[d].inum][reg[p].name] = NONE]
          /\ Done(p)
          /\ UNCHANGED <<dinode, blk, ftable, procs, logger, reg, lost, panicked>>

UnlinkName(p) ==
  LET e == reg[p].ip
      d == reg[p].dp
      c == Ilock(cache, e, p)
      isDir == c[e].type = "dir"
      c2 == [c EXCEPT ![d].nlink = IF isDir THEN @ - 1 ELSE @]
  IN
  /\ At(p, "unlink name") /\ CanLock(e)
  /\ IF c[e].type = "free" THEN Panic("ilock: no type")
     ELSE IF c[e].nlink < 1 THEN Panic("unlink: nlink < 1")
     ELSE IF isDir /\ ~IsDirEmpty(c[e].inum)
     THEN Step(p, Iunlock(c, e),
               <<"iput ip", "iunlock dp", "iput dp", "commit_trans">>)
     ELSE /\ cache' = Iunlock(c2, d)
          /\ dinode' = Iupdate(c2, {d})
          /\ dents' = [dents EXCEPT ![c[d].inum][reg[p].name] = NONE]
          /\ Done(p)
          /\ UNCHANGED <<blk, ftable, procs, logger, reg, lost, panicked>>

\* Mutant: the file is put without being unlocked.
UnlinkDropLocked(p) ==
  LET e == reg[p].ip
      c == [cache EXCEPT ![e].nlink = @ - 1]
  IN
  /\ At(p, "unlink drop")
  /\ cache' = c
  /\ dinode' = Iupdate(c, {e})
  /\ Done(p)
  /\ UNCHANGED <<blk, dents, ftable, procs, logger, reg, lost, panicked>>

UnlinkDrop(p) ==
  LET e == reg[p].ip
      c == [cache EXCEPT ![e].nlink = @ - 1]
  IN
  /\ At(p, "unlink drop")
  /\ cache' = Iunlock(c, e)
  /\ dinode' = Iupdate(c, {e})
  /\ Done(p)
  /\ UNCHANGED <<blk, dents, ftable, procs, logger, reg, lost, panicked>>

-----------------------------------------------------------------------------
(* Open files.                                                             *)

\* open() without O_CREATE locks the inode; a directory is only read.
OpenLock(p) ==
  LET e == reg[p].ip
      c == Ilock(cache, e, p)
  IN
  /\ At(p, "open lock") /\ CanLock(e)
  /\ IF c[e].type = "free" THEN Panic("ilock: no type")
     ELSE IF c[e].type = "dir" /\ reg[p].writes THEN Step(p, Iunlock(c, e), <<"iput ip">>)
     ELSE Step(p, c, Tail(todo[p]))

FirstFree(S, isFree(_)) ==
  IF \E x \in S : isFree(x) THEN CHOOSE x \in S : isFree(x) /\ \A y \in S : isFree(y) => x <= y
  ELSE NONE
Filealloc == FirstFree(File, LAMBDA f : ftable[f].ref = 0)
Argfd(p, d) == ofile[p][d] # NONE
Fdalloc(p) == FirstFree(Fd, LAMBDA d : ofile[p][d] = NONE)

\* Mutant: without a free file or descriptor the inode stays referenced.
OpenFileNoPut(p) ==
  LET e == reg[p].ip IN
  /\ At(p, "open file")
  /\ IF Filealloc = NONE \/ Fdalloc(p) = NONE
     THEN Step(p, cache, <<"iunlock ip">>)
     ELSE /\ cache' = Iunlock(cache, e)
          /\ ftable' = [ftable EXCEPT ![Filealloc] =
                          [ref |-> 1, type |-> "inode", ip |-> e, off |-> 0, writable |-> reg[p].writes]]
          /\ ofile' = [ofile EXCEPT ![p][Fdalloc(p)] = Filealloc]
          /\ Done(p)
          /\ UNCHANGED <<disk, alive, cwd, logger, reg, lost, panicked>>

\* filealloc() and fdalloc(), and the inode is unlocked.
OpenFile(p) ==
  LET e == reg[p].ip IN
  /\ At(p, "open file")
  /\ IF Filealloc = NONE \/ Fdalloc(p) = NONE
     THEN Step(p, cache, <<"iunlock ip", "iput ip">>)
     ELSE /\ cache' = Iunlock(cache, e)
          /\ ftable' = [ftable EXCEPT ![Filealloc] =
                          [ref |-> 1, type |-> "inode", ip |-> e, off |-> 0, writable |-> reg[p].writes]]
          /\ ofile' = [ofile EXCEPT ![p][Fdalloc(p)] = Filealloc]
          /\ Done(p)
          /\ UNCHANGED <<disk, alive, cwd, logger, reg, lost, panicked>>

\* fileclose() by close() of descriptor d, or by exit() of the first one that is
\* open, gives up the entry before it puts the inode.
Fileclose(p, d, next) ==
  LET f == ofile[p][d]
      last == ftable[f].ref = 1
  IN
  IF ftable[f].ref < 1 THEN Panic("fileclose")
  ELSE /\ ofile' = [ofile EXCEPT ![p][d] = NONE]
       /\ ftable' = [ftable EXCEPT ![f] = IF last THEN FreeFile ELSE [@ EXCEPT !.ref = @ - 1]]
       /\ reg' = [reg EXCEPT ![p].ip = ftable[f].ip]
       /\ Goto(p, (IF last /\ ftable[f].type = "inode" THEN <<"begin_trans", "iput ip", "commit_trans">> ELSE <<>>) \o next)
       /\ UNCHANGED <<disk, cache, alive, cwd, logger, lost, panicked>>

Close(p) == At(p, "close") /\ Fileclose(p, reg[p].fd, Tail(todo[p]))

OpenFds(p) == {d \in Fd : ofile[p][d] # NONE}
CloseAll(p) ==
  /\ At(p, "close all")
  /\ \/ \E d \in OpenFds(p) : (\A x \in OpenFds(p) : d <= x) /\ Fileclose(p, d, todo[p])
     \/ OpenFds(p) = {} /\ Step(p, cache, Tail(todo[p]))

Filedup(t, f, n) == [t EXCEPT ![f].ref = @ + n]

Dup(p, d) ==
  LET f == ofile[p][d] IN
  /\ Running(p) /\ todo[p] = <<>> /\ "dup" \in Calls[p]
  /\ Argfd(p, d) /\ Fdalloc(p) # NONE
  /\ ofile' = [ofile EXCEPT ![p][Fdalloc(p)] = f]
  /\ ftable' = Filedup(ftable, f, 1)
  /\ UNCHANGED <<disk, cache, alive, cwd, logger, todo, reg, lost, panicked>>

\* Mutant: reading at the end of the file moves the offset.
ReadPast(p, d) ==
  LET f == ofile[p][d]
      e == ftable[f].ip
      c == Ilock(cache, e, p)
  IN
  /\ ftable[f].type = "inode" /\ CanLock(e)
  /\ c[e].type # "dev"
  /\ cache' = Iunlock(c, e)
  /\ ftable' = [ftable EXCEPT ![f].off = @ + 1]
  /\ UNCHANGED <<disk, procs, logger, todo, reg, lost, panicked>>

\* pipe(): pipealloc() takes two files, and gives back the first where there is
\* no second; two descriptors, or both files are given back.
PipeFile(writable) == [ref |-> 1, type |-> "pipe", ip |-> NONE, off |-> 0, writable |-> writable]
PipeFirst(p) ==
  /\ At(p, "pipe first")
  /\ IF Filealloc = NONE THEN Goto(p, <<>>) /\ UNCHANGED <<ftable, reg>>
     ELSE /\ ftable' = [ftable EXCEPT ![Filealloc] = PipeFile(FALSE)]
          /\ reg' = [reg EXCEPT ![p].fd = Filealloc]
          /\ Done(p)
  /\ UNCHANGED <<disk, cache, procs, logger, lost, panicked>>

PipeSecond(p) ==
  LET rf == reg[p].fd
      fd0 == Fdalloc(p)
      fd1 == FirstFree(Fd \ {fd0}, LAMBDA d : ofile[p][d] = NONE)
  IN
  /\ At(p, "pipe second")
  /\ IF NONE \in {Filealloc, fd0, fd1}
     THEN ftable' = [ftable EXCEPT ![rf] = FreeFile] /\ UNCHANGED ofile
     ELSE /\ ftable' = [ftable EXCEPT ![Filealloc] = PipeFile(TRUE)]
          /\ ofile' = [ofile EXCEPT ![p][fd0] = rf, ![p][fd1] = Filealloc]
  /\ Done(p)
  /\ UNCHANGED <<disk, cache, alive, cwd, logger, reg, lost, panicked>>

\* read() of a block, or at the end of the file of nothing.
Read(p, d) ==
  LET f == ofile[p][d]
      e == ftable[f].ip
      c == Ilock(cache, e, p)
  IN
  /\ ftable[f].type = "inode" /\ CanLock(e)
  /\ c[e].type # "dev"
  /\ cache' = Iunlock(c, e)
  /\ ftable' = [ftable EXCEPT ![f].off = @ + Readi(c[e], @)]
  /\ UNCHANGED <<disk, procs, logger, todo, reg, lost, panicked>>

\* filewrite() of one chunk of the blocks that are left; writei() writes all of
\* it or fails, which ends the call.
Write(p) ==
  LET f == ofile[p][reg[p].fd]
      e == ftable[f].ip
      off == ftable[f].off
      n == IF reg[p].n > MaxChunk THEN MaxChunk ELSE reg[p].n
      c == Ilock(cache, e, p)
      w == Writei(c[e], blk, off, n)
      c2 == [c EXCEPT ![e] = w.inode]
  IN
  /\ At(p, "write") /\ CanLock(e)
  /\ IF WriteiFails(c[e], off, n)
     THEN Step(p, Iunlock(c, e), <<"commit_trans">>)
     ELSE IF NONE \in w.blk.used THEN Panic("balloc: out of blocks")
     ELSE /\ cache' = Iunlock(c2, e)
          /\ dinode' = Iupdate(c2, {e})
          /\ blk' = w.blk
          /\ ftable' = [ftable EXCEPT ![f].off = @ + n]
          /\ reg' = [reg EXCEPT ![p].n = @ - n]
          /\ Goto(p, <<"commit_trans">> \o IF reg[p].n > n THEN <<"begin_trans", "write">> ELSE <<>>)
          /\ UNCHANGED <<dents, procs, logger, lost, panicked>>

-----------------------------------------------------------------------------
(* chdir(), fork() and exit().                                             *)

Chdir(p) ==
  LET e == reg[p].ip
      c == Ilock(cache, e, p)
  IN
  /\ At(p, "chdir") /\ CanLock(e)
  /\ IF c[e].type = "free" THEN Panic("ilock: no type")
     ELSE IF c[e].type # "dir" THEN Step(p, Iunlock(c, e), <<"iput ip">>)
     ELSE /\ cache' = Iunlock(c, e)
          /\ reg' = [reg EXCEPT ![p].old = cwd[p]]
          /\ Goto(p, <<"iput old", "set cwd">>)
          /\ Same

SetCwd(p) ==
  /\ At(p, "set cwd")
  /\ cwd' = [cwd EXCEPT ![p] = reg[p].ip]
  /\ Done(p)
  /\ UNCHANGED <<disk, cache, ftable, alive, ofile, logger, reg, lost, panicked>>

\* fork() duplicates the open files and the directory.
Fork(p, q) ==
  /\ Running(p) /\ todo[p] = <<>> /\ "fork" \in Calls[p]
  /\ q \notin alive
  /\ alive' = alive \cup {q}
  /\ ofile' = [ofile EXCEPT ![q] = ofile[p]]
  /\ ftable' = [f \in File |-> [ftable[f] EXCEPT !.ref = @ + Cardinality({d \in Fd : ofile[p][d] = f})]]
  /\ cwd' = [cwd EXCEPT ![q] = cwd[p]]
  /\ cache' = Idup(cache, cwd[p])
  /\ UNCHANGED <<disk, logger, todo, reg, lost, panicked>>

\* exit() closes every file and puts the directory, not in a transaction.
Exit(p) ==
  /\ Running(p) /\ todo[p] = <<>> /\ "exit" \in Calls[p]
  /\ p # 1
  /\ Goto(p, <<"close all", "iput old", "zombie">>)
  /\ reg' = [reg EXCEPT ![p] = [NoReg EXCEPT !.old = cwd[p]]]
  /\ UNCHANGED cache /\ Same

Zombie(p) ==
  /\ At(p, "zombie")
  /\ alive' = alive \ {p}
  /\ cwd' = [cwd EXCEPT ![p] = NONE]
  /\ reg' = [reg EXCEPT ![p] = NoReg]
  /\ Done(p)
  /\ UNCHANGED <<disk, cache, ftable, ofile, logger, lost, panicked>>

-----------------------------------------------------------------------------
(* The system calls.                                                       *)

On(path) == [NoReg EXCEPT !.elems = path.elems, !.name = IF path.abs THEN "/" ELSE "."]
Start(p, call, steps, r) ==
  /\ Running(p) /\ todo[p] = <<>> /\ call \in Calls[p]
  /\ Goto(p, steps)
  /\ reg' = [reg EXCEPT ![p] = r]
  /\ UNCHANGED cache /\ Same

SysOpen(p, path, writes) ==
  Start(p, "open", <<"namei", "open lock", "open file">>, [On(path) EXCEPT !.writes = writes])
SysCreat(p, path) ==
  Start(p, "creat", <<"begin_trans", "nameiparent", "create", "commit_trans", "open file">>,
        [On(path) EXCEPT !.writes = TRUE, !.bad = <<"commit_trans">>])
SysMake(p, path, type) ==
  Start(p, type,
        <<"begin_trans", "nameiparent", "create", "iunlock ip", "iput ip", "commit_trans">>,
        [On(path) EXCEPT !.type = type, !.bad = <<"commit_trans">>])
SysMkdir(p, path) == SysMake(p, path, "dir")
SysMknod(p, path) == SysMake(p, path, "dev")
SysLink(p, old, new) ==
  Start(p, "link", <<"namei", "begin_trans", "link", "nameiparent", "dirlink", "iput dp",
                     "iput ip", "commit_trans">>, [On(old) EXCEPT !.new = new])
SysUnlink(p, path) ==
  Start(p, "unlink", <<"nameiparent", "begin_trans", "unlink", "unlink name", "iput dp",
                       "unlink drop", "iput ip", "commit_trans">>, On(path))
SysPipe(p) == Start(p, "pipe", <<"pipe first", "pipe second">>, NoReg)
SysChdir(p, path) == Start(p, "chdir", <<"namei", "chdir">>, On(path))
SysClose(p, d) ==
  Argfd(p, d) /\ Start(p, "close", <<"close">>, [NoReg EXCEPT !.fd = d])

SysRead(p, d) == Running(p) /\ todo[p] = <<>> /\ "read" \in Calls[p] /\ Argfd(p, d) /\ Read(p, d)

SysWrite(p, d, n) ==
  LET f == ofile[p][d] IN
  /\ Argfd(p, d) /\ ftable[f].type = "inode" /\ ftable[f].writable /\ cache[ftable[f].ip].type # "dev"
  /\ Start(p, "write", <<"begin_trans", "write">>, [NoReg EXCEPT !.fd = d, !.n = n])

Call(p) ==
  \/ \E path \in Path[p] : \/ \E writes \in BOOLEAN : SysOpen(p, path, writes)
                           \/ SysCreat(p, path) \/ SysMkdir(p, path) \/ SysMknod(p, path)
                           \/ \E new \in Path[p] : SysLink(p, path, new)
                           \/ SysUnlink(p, path) \/ SysChdir(p, path)
  \/ \E d \in Fd : SysClose(p, d) \/ Dup(p, d) \/ SysRead(p, d) \/ \E n \in 1..MAXFILE : SysWrite(p, d, n)
  \/ \E q \in Process : Fork(p, q)
  \/ SysPipe(p) \/ Exit(p)

Continue(p) ==
  \/ Begin(p) \/ Commit(p) \/ Iput(p) \/ Itrunc(p) \/ Ifree(p) \/ IunlockReg(p)
  \/ NamexStart(p) \/ WalkEnd(p) \/ Walk(p)
  \/ CreateFind(p) \/ CreateOld(p) \/ Ialloc(p) \/ CreateNew(p)
  \/ LinkUp(p) \/ LinkName(p) \/ LinkUndo(p) \/ UnlinkFind(p) \/ UnlinkName(p) \/ UnlinkDrop(p)
  \/ OpenLock(p) \/ OpenFile(p) \/ Close(p) \/ CloseAll(p) \/ PipeFirst(p) \/ PipeSecond(p) \/ Write(p)
  \/ Chdir(p) \/ SetCwd(p) \/ Zombie(p)

Next == \E p \in Process : Call(p) \/ Continue(p)

Spec == Init /\ [][Next]_vars

-----------------------------------------------------------------------------
(* Properties.                                                             *)

\* An inode is in the cache once, so that its lock is one, and an entry that is
\* valid and not locked agrees with the disk: whoever changes an inode calls
\* iupdate() before it unlocks it.
CacheCoherent ==
  /\ \A e, f \in Entry : cache[e].ref > 0 /\ cache[f].ref > 0 /\ cache[e].inum = cache[f].inum => e = f
  /\ \A e \in Entry : cache[e].ref > 0 /\ cache[e].valid /\ cache[e].busy = NONE
       => Copy(cache[e]) = dinode[cache[e].inum]

\* The names of an inode: entries of directories, and ".." of subdirectories.
\* Nothing names the root in mkfs's image, where its count is 1.
NamesOf(i) ==
  Cardinality({m \in Inum \X Name : dents[m[1]][m[2]] = i})
  + Cardinality({d \in Inum \ {ROOTINO} : dents[d][".."] = i /\ dinode[d].nlink > 0})
  + IF i = ROOTINO THEN 1 ELSE 0

\* Between transactions, the link count of every inode is the number of its
\* names, and no name is of a free inode: whatever failed or ran at the same
\* time in create(), link() and unlink().
NlinkCounts ==
  logger = NONE /\ lost = {} /\ panicked = "no" =>
    \A i \in Inum : IF dinode[i].type = "free" THEN NamesOf(i) = 0 ELSE dinode[i].nlink = NamesOf(i)

\* Every block marked in the bitmap belongs to exactly one inode, and the others
\* to none: bmap() and itrunc() agree, through the indirect block too.
BlockUses(b) ==
  {m \in Inum \X (0..NDIRECT) : dinode[m[1]].addrs[m[2]] = b}
  \cup {m \in Inum \X (NDIRECT + 1 .. NDIRECT + NINDIRECT) :
          /\ dinode[m[1]].addrs[NDIRECT] # NONE
          /\ blk.ind[dinode[m[1]].addrs[NDIRECT]][m[2] - NDIRECT - 1] = b}
BlocksOwnedOnce ==
  \A b \in Block : Cardinality(BlockUses(b)) = IF b \in blk.used THEN 1 ELSE 0

\* An open file and a current directory keep their inode: iput() frees it only
\* when the last of them is gone, however unlink() and lookups interleave.
OpenNotFreed ==
  /\ \A f \in File : ftable[f].ref > 0 /\ ftable[f].type = "inode" =>
       cache[ftable[f].ip].ref > 0 /\ dinode[cache[ftable[f].ip].inum].type # "free"
  /\ \A p \in alive : todo[p] = <<>> =>
       cache[cwd[p]].ref > 0 /\ dinode[cache[cwd[p]].inum].type # "free"

\* File entries count the descriptors and the pipes being made, and when no call
\* is in progress inode entries count the open files and current directories:
\* no error path keeps or drops one too many.
RefsAccounted ==
  /\ \A f \in File : ftable[f].ref = Cardinality({m \in Process \X Fd : ofile[m[1]][m[2]] = f})
                                     + Cardinality({p \in alive : todo[p] = <<"pipe second">> /\ reg[p].fd = f})
  /\ (\A p \in Process : todo[p] = <<>>) =>
       \A e \in Entry : cache[e].ref = Cardinality({f \in File : ftable[f].ref > 0 /\ ftable[f].ip = e})
                                       + Cardinality({p \in alive : cwd[p] = e})

\* What the next step of p waits for: a process, or NONE.
WaitsFor(p) ==
  LET step == Head(todo[p])
      e == IF step \in {"walk", "walk parent"} /\ reg[p].elems # <<>> THEN reg[p].cur
           ELSE IF step \in {"create", "unlink", "dirlink"} THEN reg[p].dp
           ELSE IF step \in {"create old", "create new", "link", "link bad", "unlink name",
                             "open lock", "chdir"} THEN reg[p].ip
           ELSE IF step = "write" THEN ftable[ofile[p][reg[p].fd]].ip
           ELSE NONE
  IN  IF p \notin alive \/ todo[p] = <<>> THEN NONE
      ELSE IF step = "begin_trans" THEN logger
      ELSE IF e = NONE THEN NONE ELSE cache[e].busy

\* No set of processes waits for itself: unlink(), which holds a directory while
\* it locks the file in it, and lookups do not lock in opposite orders, and
\* nobody waits for the log with an inode locked that the log's owner needs.
NoDeadlock ==
  \A S \in SUBSET Process : S # {} => \E p \in S : WaitsFor(p) \notin S

\* The limits of the tables and the disk.
Limits == {"iget: no inodes", "ialloc: no inodes", "balloc: out of blocks"}

\* A current directory that was removed does not keep its parent, which ".."
\* still names.
Orphaned ==
  \E i \in Inum : dents[i][".."] # NONE /\ dinode[i].nlink = 0 /\ dinode[dents[i][".."]].type = "free"

\* The panics that check the code's own bookkeeping are not reached: only the
\* limits, log_write() outside of a transaction, and ilock() of a parent that
\* was freed before a removed directory in it.
OnlyLimitsPanic ==
  lost = {} => \/ panicked \in Limits \cup {"no", "write outside of trans"}
               \/ panicked = "ilock: no type" /\ Orphaned
=============================================================================
