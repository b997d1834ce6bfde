-------------------------------- MODULE Bio --------------------------------
(***************************************************************************)
(* The buffer cache (bio.c) over a disk driver: the IDE driver (ide.c)     *)
(* with its request queue and interrupt handler, or the memory disk        *)
(* (memide.c) that another build links in its place.                       *)
(*                                                                         *)
(* A critical section of bcache.lock or idelock is one step.  Sectors are  *)
(* numbered in the order in which callers ask for them while they hold     *)
(* others: an indirect block before the superblock, the bitmap and the     *)
(* blocks allocated from it (fs.c), a home block before its log block      *)
(* (log_write()).  Only install_trans() has the last two the other way     *)
(* round, and only the owner of the transaction asks for log blocks.       *)
(***************************************************************************)
EXTENDS Integers, FiniteSets, Sequences

CONSTANTS
  Proc, Val, NONE,
  Buf,        \* the buffers of bcache.buf, as numbers
  Sector,     \* sector numbers
  BadSector,  \* sectors that the disk reports as unreadable
  MaxHeld,    \* bound on the buffers a process holds at a time
  MaxDirty    \* bound on the buffers the log keeps dirty

ASSUME BufAssumption == Buf \subseteq Int /\ IsFiniteSet(Buf)
ASSUME ValAssumption == Val # {}
ASSUME SectorAssumption == Sector \subseteq Int /\ NONE \notin Sector \cup Buf \cup Proc

VARIABLES
  driver,   \* which iderw() is linked in: "ide" or "mem"
  lru,      \* the place of each buffer in the list from bcache.head.next on, most
            \* recently used first
  sector,   \* b->sector of each buffer, NONE while b->dev is -1
  flags,    \* b->flags
  data,     \* b->data
  idequeue, \* the buffers that wait for the disk; the first is being served
  cmd,      \* the command the disk controller has been given
  disk,     \* the sectors on disk
  pc,       \* where each process is
  want,     \* the argument of its bget()
  chan,     \* the buffer it sleeps on
  held,     \* the buffers it holds
  cur,      \* the argument of its iderw()
  panicked

cache == <<lru, sector, flags, data>>
device == <<idequeue, cmd, disk>>
procs == <<pc, want, chan, held, cur>>
vars == <<driver, cache, device, procs, panicked>>

Flag == {"BUSY", "VALID", "DIRTY"}
Cmd == [op : {"read", "write"}, sector : Sector, val : Val, done : BOOLEAN]
Pc == {"user", "bget", "sleep", "iderw", "io"}

ASSUME CmdAssumption == NONE \notin Cmd

\* Every field of the buffers, the queue and the processes keeps its type; the
\* places in the list are those of a list of all buffers.
TypeOK ==
  /\ driver \in {"ide", "mem"}
  /\ lru \in [Buf -> 1..Cardinality(Buf)] /\ \A b, c \in Buf : lru[b] = lru[c] => b = c
  /\ sector \in [Buf -> Sector \cup {NONE}]
  /\ flags \in [Buf -> SUBSET Flag]
  /\ data \in [Buf -> Val]
  /\ idequeue \in Seq(Buf)
  /\ cmd \in Cmd \cup {NONE}
  /\ disk \in [Sector -> Val]
  /\ pc \in [Proc -> Pc]
  /\ want \in [Proc -> Sector \cup {NONE}]
  /\ chan \in [Proc -> Buf \cup {NONE}]
  /\ held \in [Proc -> SUBSET Buf]
  /\ cur \in [Proc -> Buf \cup {NONE}]
  /\ panicked \in {"no", "bget", "iderw"}

\* binit(): the last buffer of the array is at the head of the list.
Init ==
  /\ driver \in {"ide", "mem"}
  /\ lru = [b \in Buf |-> Cardinality({c \in Buf : c >= b})]
  /\ sector = [b \in Buf |-> NONE]
  /\ flags = [b \in Buf |-> {}]
  /\ data = [b \in Buf |-> CHOOSE v \in Val : TRUE]
  /\ idequeue = <<>> /\ cmd = NONE
  /\ disk \in [Sector -> Val]
  /\ pc = [p \in Proc |-> "user"]
  /\ want = [p \in Proc |-> NONE] /\ chan = [p \in Proc |-> NONE]
  /\ held = [p \in Proc |-> {}] /\ cur = [p \in Proc |-> NONE]
  /\ panicked = "no"

-----------------------------------------------------------------------------
(* bio.c.                                                                  *)

\* Process p calls bread(s).
Bread(p, s) ==
  /\ pc[p] = "user" /\ Cardinality(held[p]) < MaxHeld
  /\ \A b \in held[p] : sector[b] < s
  /\ pc' = [pc EXCEPT ![p] = "bget"]
  /\ want' = [want EXCEPT ![p] = s]
  /\ UNCHANGED <<driver, cache, device, chan, held, cur, panicked>>

\* bget() has a buffer for p with flags f, and bread() looks at B_VALID.
Got(p, b, f) ==
  /\ flags' = [flags EXCEPT ![b] = f]
  /\ held' = [held EXCEPT ![p] = @ \cup {b}]
  /\ want' = [want EXCEPT ![p] = NONE]
  /\ pc' = [pc EXCEPT ![p] = IF "VALID" \in f THEN "user" ELSE "iderw"]
  /\ cur' = [cur EXCEPT ![p] = IF "VALID" \in f THEN NONE ELSE b]
  /\ UNCHANGED chan

\* The first loop of bget(): the sector is cached.
BgetHit(p, b) ==
  /\ pc[p] = "bget" /\ sector[b] = want[p]
  /\ IF "BUSY" \notin flags[b]
     THEN Got(p, b, flags[b] \cup {"BUSY"})
     ELSE /\ pc' = [pc EXCEPT ![p] = "sleep"]
          /\ chan' = [chan EXCEPT ![p] = b]
          /\ UNCHANGED <<flags, want, held, cur>>
  /\ UNCHANGED <<driver, lru, sector, data, device, panicked>>

\* Mutant: recycles a buffer that the log keeps dirty.
FreeAlsoDirty(b) == "BUSY" \notin flags[b]

\* A buffer the second loop of bget() may take, and the one it takes.
Free(b) == flags[b] \cap {"BUSY", "DIRTY"} = {}
LastFree(b) == Free(b) /\ \A c \in Buf : Free(c) => lru[c] <= lru[b]

\* Mutant: a busy buffer of the sector counts as not cached.
BgetRecycleBusy(p, b) ==
  /\ pc[p] = "bget"
  /\ \A c \in Buf : sector[c] = want[p] => "BUSY" \in flags[c]
  /\ LastFree(b)
  /\ sector' = [sector EXCEPT ![b] = want[p]]
  /\ Got(p, b, {"BUSY"})
  /\ UNCHANGED <<driver, lru, data, device, panicked>>
\* The second loop: the sector is not cached; take the last free buffer.
BgetRecycle(p, b) ==
  /\ pc[p] = "bget"
  /\ \A c \in Buf : sector[c] # want[p]
  /\ LastFree(b)
  /\ sector' = [sector EXCEPT ![b] = want[p]]
  /\ Got(p, b, {"BUSY"})
  /\ UNCHANGED <<driver, lru, data, device, panicked>>

\* "bget: no buffers".
BgetPanic(p) ==
  /\ pc[p] = "bget"
  /\ \A b \in Buf : sector[b] # want[p] /\ ~Free(b)
  /\ panicked' = "bget"
  /\ UNCHANGED <<driver, cache, device, procs>>

\* The holder of a buffer changes its contents and calls bwrite().
Bwrite(p, b, v) ==
  /\ pc[p] = "user" /\ b \in held[p]
  /\ data' = [data EXCEPT ![b] = v]
  /\ flags' = [flags EXCEPT ![b] = @ \cup {"DIRTY"}]
  /\ pc' = [pc EXCEPT ![p] = "iderw"]
  /\ cur' = [cur EXCEPT ![p] = b]
  /\ UNCHANGED <<driver, lru, sector, device, want, chan, held, panicked>>

\* The holder of a buffer changes its contents and log_write() marks it.
LogWrite(p, b, v) ==
  /\ pc[p] = "user" /\ b \in held[p]
  /\ Cardinality({x \in Buf : "DIRTY" \in flags[x]} \cup {b}) <= MaxDirty
  /\ data' = [data EXCEPT ![b] = v]
  /\ flags' = [flags EXCEPT ![b] = @ \cup {"DIRTY"}]
  /\ UNCHANGED <<driver, lru, sector, device, procs, panicked>>

\* Buffer b moves to the head of the list.
ToHead(b) == [c \in Buf |-> IF c = b THEN 1 ELSE IF lru[c] < lru[b] THEN lru[c] + 1 ELSE lru[c]]

\* Mutant: nobody is woken.
BrelseSilent(p, b) ==
  /\ pc[p] = "user" /\ b \in held[p]
  /\ lru' = ToHead(b)
  /\ flags' = [flags EXCEPT ![b] = @ \ {"BUSY"}]
  /\ held' = [held EXCEPT ![p] = @ \ {b}]
  /\ UNCHANGED <<driver, sector, data, device, pc, want, chan, cur, panicked>>
\* brelse(): to the head of the list, not busy, and wake who sleeps on it.
Brelse(p, b) ==
  /\ pc[p] = "user" /\ b \in held[p]
  /\ lru' = ToHead(b)
  /\ flags' = [flags EXCEPT ![b] = @ \ {"BUSY"}]
  /\ held' = [held EXCEPT ![p] = @ \ {b}]
  /\ pc' = [q \in Proc |-> IF chan[q] = b THEN "bget" ELSE pc[q]]
  /\ chan' = [q \in Proc |-> IF chan[q] = b THEN NONE ELSE chan[q]]
  /\ UNCHANGED <<driver, sector, data, device, want, cur, panicked>>

-----------------------------------------------------------------------------
(* ide.c, memide.c.                                                        *)

Synced(f) == (f \ {"DIRTY"}) \cup {"VALID"}

\* idestart(b), with the flags and data that b has now.
Command(b) ==
  [op |-> IF "DIRTY" \in flags[b] THEN "write" ELSE "read",
   sector |-> sector[b], val |-> data[b], done |-> FALSE]

\* iderw(): the checks both drivers begin with.
IderwPanics(b) ==
  \/ "BUSY" \notin flags[b]
  \/ "VALID" \in flags[b] /\ "DIRTY" \notin flags[b]

Iderw(p, b) ==
  /\ pc[p] = "iderw" /\ b = cur[p]
  /\ IderwPanics(b)
  /\ panicked' = "iderw"
  /\ UNCHANGED <<driver, cache, device, procs>>

\* iderw() of ide.c: append b to the queue, start the disk if b is first.
IderwQueue(p, b) ==
  /\ driver = "ide"
  /\ pc[p] = "iderw" /\ b = cur[p]
  /\ ~IderwPanics(b)
  /\ idequeue' = Append(idequeue, b)
  /\ cmd' = IF idequeue = <<>> THEN Command(b) ELSE cmd
  /\ pc' = [pc EXCEPT ![p] = "io"]
  /\ UNCHANGED <<driver, cache, disk, want, chan, held, cur, panicked>>

\* Mutant: waits until the whole queue is served.
IderwDoneDrained(p, b) ==
  /\ pc[p] = "io" /\ b = cur[p]
  /\ "VALID" \in flags[b] /\ "DIRTY" \notin flags[b] /\ idequeue = <<>>
  /\ pc' = [pc EXCEPT ![p] = "user"]
  /\ cur' = [cur EXCEPT ![p] = NONE]
  /\ UNCHANGED <<driver, cache, device, want, chan, held, panicked>>
\* The loop of iderw() ends: the interrupt handler has synced the buffer.
IderwDone(p, b) ==
  /\ pc[p] = "io" /\ b = cur[p]
  /\ "VALID" \in flags[b] /\ "DIRTY" \notin flags[b]
  /\ pc' = [pc EXCEPT ![p] = "user"]
  /\ cur' = [cur EXCEPT ![p] = NONE]
  /\ UNCHANGED <<driver, cache, device, want, chan, held, panicked>>

\* iderw() of memide.c.
IderwMem(p, b) ==
  /\ driver = "mem"
  /\ pc[p] = "iderw" /\ b = cur[p]
  /\ ~IderwPanics(b)
  /\ flags' = [flags EXCEPT ![b] = Synced(@)]
  /\ IF "DIRTY" \in flags[b]
     THEN disk' = [disk EXCEPT ![sector[b]] = data[b]] /\ UNCHANGED data
     ELSE data' = [data EXCEPT ![b] = disk[sector[b]]] /\ UNCHANGED disk
  /\ pc' = [pc EXCEPT ![p] = "user"]
  /\ cur' = [cur EXCEPT ![p] = NONE]
  /\ UNCHANGED <<driver, lru, sector, idequeue, cmd, want, chan, held, panicked>>

\* The disk carries out its command and raises the interrupt.
DiskDone ==
  /\ cmd # NONE /\ ~cmd.done
  /\ cmd' = [cmd EXCEPT !.done = TRUE,
                        !.val = IF cmd.op = "read" THEN disk[cmd.sector] ELSE @]
  /\ disk' = IF cmd.op = "write" THEN [disk EXCEPT ![cmd.sector] = cmd.val] ELSE disk
  /\ UNCHANGED <<driver, cache, idequeue, procs, panicked>>

\* ideintr(): the first request is done, a failed read notwithstanding; start
\* the next.
Ideintr ==
  LET b == Head(idequeue) IN
  /\ cmd # NONE /\ cmd.done /\ idequeue # <<>>
  /\ idequeue' = Tail(idequeue)
  /\ data' = IF "DIRTY" \notin flags[b] /\ sector[b] \notin BadSector
             THEN [data EXCEPT ![b] = cmd.val] ELSE data
  /\ flags' = [flags EXCEPT ![b] = Synced(@)]
  /\ cmd' = IF Len(idequeue) > 1 THEN Command(idequeue[2]) ELSE NONE
  /\ UNCHANGED <<driver, lru, sector, disk, procs, panicked>>

\* panic() stops the machine.
Halted ==
  /\ panicked # "no"
  /\ UNCHANGED vars

Step(p) ==
  \/ \E b \in Buf : BgetHit(p, b) \/ BgetRecycle(p, b) \/ Iderw(p, b) \/ IderwQueue(p, b)
                      \/ IderwDone(p, b) \/ IderwMem(p, b)
  \/ BgetPanic(p)

Next ==
  \/ /\ panicked = "no"
     /\ \/ \E p \in Proc : Step(p)
        \/ \E p \in Proc, s \in Sector : Bread(p, s)
        \/ \E p \in Proc, b \in Buf, v \in Val : Bwrite(p, b, v) \/ LogWrite(p, b, v)
        \/ \E p \in Proc, b \in Buf : Brelse(p, b)
        \/ DiskDone \/ Ideintr
  \/ Halted

Spec == Init /\ [][Next]_vars

\* The disk answers and interrupts the CPU, and a process in iderw() runs
\* again and again, because it spins with interrupts on.
Fairness ==
  /\ WF_vars(panicked = "no" /\ DiskDone)
  /\ WF_vars(panicked = "no" /\ Ideintr)
  /\ \A p \in Proc : WF_vars(panicked = "no" /\ Step(p))

FairSpec == Spec /\ Fairness

-----------------------------------------------------------------------------
(* Properties.                                                             *)

GoodSector == Sector \ BadSector
Holding(s) == {p \in Proc : \E b \in held[p] : sector[b] = s}
Holder == [s \in GoodSector |->
             IF Holding(s) = {} THEN NONE ELSE CHOOSE p \in Holding(s) : TRUE]
Contents ==
  [s \in GoodSector |->
     IF \E b \in Buf : sector[b] = s /\ "VALID" \in flags[b]
     THEN data[CHOOSE b \in Buf : sector[b] = s /\ "VALID" \in flags[b]]
     ELSE disk[s]]

Promise == INSTANCE BlockStore
             WITH Sector <- GoodSector, owner <- Holder, mem <- Contents,
                  calling <- {p \in Proc : pc[p] # "user"}

\* The cache implements BlockStore: a readable sector has one contents,
\* wherever the latest copy is, at most one process has it between bread() and
\* brelse(), and nobody else, nor the driver, changes it, through recycling of
\* buffers, queued requests and sleeping in bget().
StoreSpec == Promise!Spec

\* bget() caches a sector in one buffer only, also when a process sleeps there
\* and the buffer it slept on is used for another sector meanwhile.
OneBufPerSector ==
  \A b, c \in Buf : sector[b] = sector[c] /\ sector[b] # NONE => b = c

\* A buffer is B_BUSY exactly while a process has it, and then one process has.
BusyIsHeld ==
  \A b \in Buf :
    /\ "BUSY" \in flags[b] <=> \E p \in Proc : b \in held[p]
    /\ \A p, q \in Proc : b \in held[p] \cap held[q] => p = q

\* A bwrite() that has returned is on the disk: a valid buffer that is not
\* dirty has the contents of its sector, unless the sector is unreadable.
CleanIsSaved ==
  \A b \in Buf :
    sector[b] \in GoodSector /\ "VALID" \in flags[b] /\ "DIRTY" \notin flags[b] =>
      data[b] = disk[sector[b]]

\* The disk works on the first buffer of the queue, and every buffer in the
\* queue has a process that spins for it: ideintr() takes an answer for the
\* right request.
QueueServed ==
  /\ cmd = NONE <=> idequeue = <<>>
  /\ idequeue # <<>> => cmd.sector = sector[idequeue[1]]
  /\ \A i \in DOMAIN idequeue :
       \E p \in Proc : pc[p] = "io" /\ cur[p] = idequeue[i]

\* bget() misses no wakeup: a process sleeps on a buffer only while it is busy.
NoLostWakeup ==
  \A p \in Proc : pc[p] = "sleep" => chan[p] # NONE /\ "BUSY" \in flags[chan[p]]

\* No caller passes iderw() a buffer with nothing to do.
OnlyBgetPanics == panicked # "iderw"

\* A buffer with nothing to do for the driver.
InSync(b) == "VALID" \in flags[b] /\ "DIRTY" \notin flags[b]

\* What a process in a call has: a sector to find, a buffer to sleep on, a buffer
\* it holds and wants the driver to work on.
CallsOK ==
  \A p \in Proc :
    /\ pc[p] \in {"bget", "sleep"} => want[p] \in Sector
    /\ pc[p] = "sleep" <=> chan[p] # NONE
    /\ pc[p] \in {"iderw", "io"} => cur[p] \in held[p]
    /\ pc[p] = "iderw" => ~InSync(cur[p])
    /\ \A b \in held[p] : sector[b] \in Sector

\* The queue holds buffers with work to do, each once and each for a process
\* that spins for it.
QueueOK ==
  /\ \A i \in DOMAIN idequeue :
       ~InSync(idequeue[i]) /\ \E p \in Proc : pc[p] = "io" /\ cur[p] = idequeue[i]
  /\ \A i, j \in DOMAIN idequeue : idequeue[i] = idequeue[j] => i = j

\* The disk has been given the first request of the queue, with its data.
CmdOK ==
  /\ cmd = NONE <=> idequeue = <<>>
  /\ cmd # NONE =>
       LET b == Head(idequeue) IN
       /\ driver = "ide"
       /\ cmd.sector = sector[b]
       /\ cmd.op = "write" <=> "DIRTY" \in flags[b]
       /\ cmd.op = "write" => cmd.val = data[b]
       /\ cmd.done => cmd.val = disk[cmd.sector]

\* The properties above, the calls in progress and the agreement of the queue
\* with the disk, which together are inductive.
CacheInv ==
  /\ TypeOK /\ OneBufPerSector /\ BusyIsHeld /\ CallsOK /\ NoLostWakeup
  /\ QueueOK /\ CmdOK /\ CleanIsSaved /\ OnlyBgetPanics

\* A buffer has the contents of its sector from the return of bread() on, and
\* only such a buffer is changed.
ValidOK ==
  /\ \A p \in Proc : \A b \in held[p] :
       "VALID" \in flags[b] \/ (pc[p] \in {"iderw", "io"} /\ cur[p] = b)
  /\ \A b \in Buf : "DIRTY" \in flags[b] => "VALID" \in flags[b]

\* The invariant of the cache and the driver: the cache is in order, and what
\* it holds is valid unless it is being read.
BioInv == CacheInv /\ ValidOK

\* Every bread() and bwrite() that has reached the disk queue returns unless
\* the kernel panics, although its process spins and ideintr() sends no wakeup.
IoReturns == \A p \in Proc : pc[p] = "io" ~> pc[p] = "user" \/ panicked # "no"
=============================================================================
