-------------------------------- MODULE Pipe --------------------------------
(***************************************************************************)
(* A pipe (pipe.c) shared by processes that write and processes that read. *)
(* p->lock is held from the start of pipewrite() or piperead() until it    *)
(* returns or sleeps; killed is read without any lock that kill() takes.   *)
(* An end is closed when the last process that has it open closes it       *)
(* (fileclose() in file.c).                                                *)
(***************************************************************************)
EXTENDS Integers, FiniteSets

CONSTANTS
  Writers, Readers,  \* the processes that have the write end, the read end
  NONE,              \* no process
  Val,               \* bytes
  PIPESIZE,
  Wrap,              \* 2^32: nread and nwrite are uints
  Sizes,             \* the arguments n of read() and write()
  Killable           \* the processes kill() may be called for

ASSUME ProcAssumption ==
  /\ Writers \cap Readers = {} /\ Writers # {} /\ Readers # {}
  /\ NONE \notin Writers \cup Readers
ASSUME SizeAssumption == PIPESIZE \in Nat \ {0}
ASSUME WrapAssumption == Wrap \in Nat /\ Wrap % PIPESIZE = 0 /\ Wrap > PIPESIZE
ASSUME SizesAssumption == Sizes \subseteq Nat
ASSUME KillableAssumption == Killable \subseteq Writers \cup Readers

Proc == Writers \cup Readers

VARIABLES
  data, nread, nwrite, readopen, writeopen,  \* struct pipe
  freed,          \* kfree() was called on it
  lock,           \* the holder of p->lock
  pc, n, i,       \* per process: where it is, and n and i of its call
  killed,
  holds           \* the processes that still have their end open

fields == <<data, nread, nwrite, readopen, writeopen, freed>>
vars == <<fields, lock, pc, n, i, killed, holds>>

\* user, or: write and read, in the loops; full and empty, about to sleep;
\* wsleep on &nwrite and rsleep on &nread; wwoken and rwoken, to acquire the
\* lock again; copy, the second loop of piperead(); close, about to call
\* pipeclose(); gone, closed.
Pc == {"user", "write", "full", "wsleep", "wwoken",
       "read", "empty", "rsleep", "rwoken", "copy", "close", "gone"}

\* The pipe and the processes hold values of their types, and never more than
\* PIPESIZE bytes are in the buffer, also when the counters have wrapped.
TypeOK ==
  /\ data \in [0..(PIPESIZE - 1) -> Val]
  /\ nread \in 0..(Wrap - 1)
  /\ nwrite \in 0..(Wrap - 1)
  /\ (nwrite - nread) % Wrap <= PIPESIZE
  /\ readopen \in BOOLEAN /\ writeopen \in BOOLEAN /\ freed \in BOOLEAN
  /\ lock \in Proc \cup {NONE}
  /\ pc \in [Proc -> Pc]
  /\ n \in [Proc -> Sizes \cup {0}]
  /\ i \in [Proc -> Nat] /\ \A p \in Proc : i[p] <= n[p]
  /\ killed \in [Proc -> BOOLEAN]
  /\ holds \subseteq Proc

\* pipealloc() has made the pipe and fork() has handed out its ends.
Init ==
  /\ data \in [0..(PIPESIZE - 1) -> Val]
  /\ nread = 0 /\ nwrite = 0
  /\ readopen = TRUE /\ writeopen = TRUE /\ freed = FALSE
  /\ lock = NONE
  /\ pc = [p \in Proc |-> "user"]
  /\ n = [p \in Proc |-> 0]
  /\ i = [p \in Proc |-> 0]
  /\ killed = [p \in Proc |-> FALSE]
  /\ holds = Proc

\* Mutant: compares without wrapping.
FullUnwrapped == nwrite = nread + PIPESIZE

Full == nwrite = (nread + PIPESIZE) % Wrap
Empty == nread = nwrite

\* wakeup(&p->nread) and wakeup(&p->nwrite), applied to the program counters f.
WakeReaders(f) == [p \in Proc |-> IF f[p] = "rsleep" THEN "rwoken" ELSE f[p]]
WakeWriters(f) == [p \in Proc |-> IF f[p] = "wsleep" THEN "wwoken" ELSE f[p]]

\* A process calls read() or write(); trap() would have sent it to exit() had
\* it been killed.
Call(p, k, place) ==
  /\ pc[p] = "user" /\ p \in holds /\ ~killed[p]
  /\ lock = NONE
  /\ lock' = p
  /\ n' = [n EXCEPT ![p] = k]
  /\ i' = [i EXCEPT ![p] = 0]
  /\ pc' = [pc EXCEPT ![p] = place]
  /\ UNCHANGED <<fields, killed, holds>>

\* The lock is released and the call returns; f are the program counters
\* after the wakeups it made.
ReturnTo(p, f) ==
  /\ lock' = NONE
  /\ pc' = [f EXCEPT ![p] = "user"]
  /\ n' = [n EXCEPT ![p] = 0]
  /\ i' = [i EXCEPT ![p] = 0]
  /\ UNCHANGED <<killed, holds>>

\* sleep() returns after it has acquired the lock again.
Reacquire(p, from, place) ==
  /\ pc[p] = from
  /\ lock = NONE
  /\ lock' = p
  /\ pc' = [pc EXCEPT ![p] = place]
  /\ UNCHANGED <<fields, n, i, killed, holds>>

-----------------------------------------------------------------------------
(* pipewrite().                                                            *)

WriteCall(w, k) == Call(w, k, "write")

\* Mutant: increments nwrite before it indexes the buffer.
WriteByteNext(w, v) ==
  /\ pc[w] = "write" /\ i[w] < n[w]
  /\ ~Full
  /\ data' = [data EXCEPT ![(nwrite + 1) % PIPESIZE] = v]
  /\ nwrite' = (nwrite + 1) % Wrap
  /\ i' = [i EXCEPT ![w] = @ + 1]
  /\ UNCHANGED <<nread, readopen, writeopen, freed, lock, pc, n, killed, holds>>

\* There is room for the next byte.
WriteByte(w, v) ==
  /\ pc[w] = "write" /\ i[w] < n[w]
  /\ ~Full
  /\ data' = [data EXCEPT ![nwrite % PIPESIZE] = v]
  /\ nwrite' = (nwrite + 1) % Wrap
  /\ i' = [i EXCEPT ![w] = @ + 1]
  /\ UNCHANGED <<nread, readopen, writeopen, freed, lock, pc, n, killed, holds>>

\* The buffer is full: give up, or prepare to sleep.
WriteFull(w) ==
  /\ pc[w] = "write" /\ i[w] < n[w]
  /\ Full
  /\ IF ~readopen \/ killed[w]
     THEN ReturnTo(w, pc)
     ELSE /\ pc' = [pc EXCEPT ![w] = "full"]
          /\ UNCHANGED <<lock, n, i, killed, holds>>
  /\ UNCHANGED fields

\* Mutant: sleeps without waking the readers.
WriteSleepSilent(w) ==
  /\ pc[w] = "full"
  /\ pc' = [pc EXCEPT ![w] = "wsleep"]
  /\ lock' = NONE
  /\ UNCHANGED <<fields, n, i, killed, holds>>

\* Wake the readers and sleep.
WriteSleep(w) ==
  /\ pc[w] = "full"
  /\ pc' = [WakeReaders(pc) EXCEPT ![w] = "wsleep"]
  /\ lock' = NONE
  /\ UNCHANGED <<fields, n, i, killed, holds>>

WriteResume(w) == Reacquire(w, "wwoken", "write")

\* All bytes are written: wake the readers and return.
WriteDone(w) ==
  /\ pc[w] = "write" /\ i[w] = n[w]
  /\ ReturnTo(w, WakeReaders(pc))
  /\ UNCHANGED fields

-----------------------------------------------------------------------------
(* piperead().                                                             *)

ReadCall(r, k) == Call(r, k, "read")

\* There is something to read, or nothing will come any more.
ReadReady(r) ==
  /\ pc[r] = "read"
  /\ ~(Empty /\ writeopen)
  /\ pc' = [pc EXCEPT ![r] = "copy"]
  /\ UNCHANGED <<fields, lock, n, i, killed, holds>>

\* The buffer is empty: give up, or prepare to sleep.
ReadEmpty(r) ==
  /\ pc[r] = "read"
  /\ Empty /\ writeopen
  /\ IF killed[r]
     THEN ReturnTo(r, pc)
     ELSE /\ pc' = [pc EXCEPT ![r] = "empty"]
          /\ UNCHANGED <<lock, n, i, killed, holds>>
  /\ UNCHANGED fields

ReadSleep(r) ==
  /\ pc[r] = "empty"
  /\ pc' = [pc EXCEPT ![r] = "rsleep"]
  /\ lock' = NONE
  /\ UNCHANGED <<fields, n, i, killed, holds>>

ReadResume(r) == Reacquire(r, "rwoken", "read")

ReadByte(r) ==
  /\ pc[r] = "copy" /\ i[r] < n[r]
  /\ ~Empty
  /\ nread' = (nread + 1) % Wrap
  /\ i' = [i EXCEPT ![r] = @ + 1]
  /\ UNCHANGED <<data, nwrite, readopen, writeopen, freed, lock, pc, n, killed, holds>>

\* Mutant: starts again when it has read nothing.
ReadDoneRetries(r) ==
  /\ pc[r] = "copy"
  /\ i[r] = n[r] \/ Empty
  /\ IF i[r] < n[r] /\ i[r] = 0
     THEN /\ pc' = [WakeWriters(pc) EXCEPT ![r] = "rwoken"]
          /\ lock' = NONE
          /\ UNCHANGED <<n, i, killed, holds>>
     ELSE ReturnTo(r, WakeWriters(pc))
  /\ UNCHANGED fields

\* Enough is read, or the buffer is empty: wake the writers and return.
ReadDone(r) ==
  /\ pc[r] = "copy"
  /\ i[r] = n[r] \/ Empty
  /\ ReturnTo(r, WakeWriters(pc))
  /\ UNCHANGED fields

-----------------------------------------------------------------------------
(* Closing, killing, and starting over.                                    *)

Peers(p) == IF p \in Writers THEN Writers ELSE Readers

\* Mutant: calls pipeclose() although others have the end open.
FileCloseAll(p) ==
  /\ pc[p] = "user" /\ p \in holds
  /\ holds' = holds \ {p}
  /\ pc' = [pc EXCEPT ![p] = "close"]
  /\ UNCHANGED <<fields, lock, n, i, killed>>

\* A process closes its end or exits: fileclose() drops its reference, and
\* calls pipeclose() if it was the last.
FileClose(p) ==
  /\ pc[p] = "user" /\ p \in holds
  /\ holds' = holds \ {p}
  /\ pc' = [pc EXCEPT ![p] = IF holds \cap Peers(p) = {p} THEN "close" ELSE "gone"]
  /\ UNCHANGED <<fields, lock, n, i, killed>>

PipeClose(p) ==
  /\ pc[p] = "close"
  /\ lock = NONE
  /\ IF p \in Writers
     THEN /\ writeopen' = FALSE
          /\ pc' = [WakeReaders(pc) EXCEPT ![p] = "gone"]
          /\ UNCHANGED readopen
     ELSE /\ readopen' = FALSE
          /\ pc' = [WakeWriters(pc) EXCEPT ![p] = "gone"]
          /\ UNCHANGED writeopen
  /\ freed' = (~readopen' /\ ~writeopen')
  /\ UNCHANGED <<data, nread, nwrite, lock, n, i, killed, holds>>

\* kill() marks a process, and wakes it if it is asleep.
Kill(p) ==
  /\ p \in Killable
  /\ ~killed[p]
  /\ pc[p] # "gone"
  /\ killed' = [killed EXCEPT ![p] = TRUE]
  /\ pc' = [pc EXCEPT ![p] = IF @ = "rsleep" THEN "rwoken"
                             ELSE IF @ = "wsleep" THEN "wwoken" ELSE @]
  /\ UNCHANGED <<fields, lock, n, i, holds>>

\* pipealloc(): a new pipe in the freed page, for new processes.
PipeAlloc ==
  /\ freed /\ \A p \in Proc : pc[p] = "gone"
  /\ nread' = 0 /\ nwrite' = 0
  /\ readopen' = TRUE /\ writeopen' = TRUE /\ freed' = FALSE
  /\ pc' = [p \in Proc |-> "user"]
  /\ killed' = [p \in Proc |-> FALSE]
  /\ holds' = Proc
  /\ UNCHANGED <<data, lock, n, i>>

\* A step inside a call.
WriteStep(w) ==
  \/ \E v \in Val : WriteByte(w, v)
  \/ WriteFull(w) \/ WriteSleep(w) \/ WriteResume(w) \/ WriteDone(w)
ReadStep(r) ==
  \/ ReadReady(r) \/ ReadEmpty(r) \/ ReadSleep(r) \/ ReadResume(r)
  \/ ReadByte(r) \/ ReadDone(r)

Next ==
  \/ \E w \in Writers : WriteStep(w) \/ \E k \in Sizes : WriteCall(w, k)
  \/ \E r \in Readers : ReadStep(r) \/ \E k \in Sizes : ReadCall(r, k)
  \/ \E p \in Proc : FileClose(p) \/ PipeClose(p) \/ Kill(p)
  \/ PipeAlloc

Spec == Init /\ [][Next]_vars

\* The scheduler runs every process that is not asleep, and a process that
\* wants the lock gets it in the end.
Fairness ==
  /\ \A w \in Writers : SF_vars(WriteStep(w))
  /\ \A r \in Readers : SF_vars(ReadStep(r))
  /\ \A p \in Proc : SF_vars(PipeClose(p))

FairSpec == Spec /\ Fairness

-----------------------------------------------------------------------------
(* Properties.                                                             *)

\* The bytes in the buffer, oldest first.
Queue == [k \in 1..((nwrite - nread) % Wrap) |-> data[(nread + k - 1) % PIPESIZE]]

Promise == INSTANCE Fifo
             WITH queue <- Queue, Size <- PIPESIZE,
                  readable <- readopen, writable <- writeopen

\* A pipe is a bounded FIFO queue: the circular buffer and its wrapping
\* counters lose, repeat and reorder nothing, whoever writes, reads, sleeps,
\* closes or is killed.
FifoSpec == Promise!Spec

\* The page of the pipe is freed only when nobody is in, or will enter, a call
\* on it.
NotFreedInUse == freed => \A p \in Proc : pc[p] = "gone" /\ p \notin holds

\* Nobody sleeps through what it waits for: "we can be guaranteed that we
\* won't miss any wakeup" (sleep() in proc.c).  While a reader sleeps the pipe
\* is empty and can still be written, while a writer sleeps it is full and can
\* still be read, or else a process in a call holds the lock.  A writer that
\* was killed is the exception: it leaves pipewrite() without waking readers.
NoLostWakeup ==
  \A p \in Proc :
    /\ pc[p] = "rsleep" /\ lock = NONE =>
         (Empty /\ writeopen) \/ \E w \in Writers : killed[w]
    /\ pc[p] = "wsleep" /\ lock = NONE => Full /\ readopen

\* Closing one end reaches those blocked on the other: once the write end is
\* closed every read() returns, with its end of file, and once the read end is
\* closed every write() does.
ClosedSeen ==
  /\ \A r \in Readers :
       pc[r] \in {"rsleep", "rwoken", "read"} /\ ~writeopen ~> pc[r] = "user"
  /\ \A w \in Writers :
       pc[w] \in {"wsleep", "wwoken", "write"} /\ ~readopen ~> pc[w] = "user"
=============================================================================
