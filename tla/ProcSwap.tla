----------------------------- MODULE ProcSwap -----------------------------
(***************************************************************************)
(* Swapping on a machine with one CPU, for every size of the process       *)
(* table: where the memory of a process is, and that no wakeup is lost.    *)
(*                                                                         *)
(* The argument is that swapOut() is not preempted: sleep() has set the    *)
(* state to SLEEPING before, and trap() makes only a RUNNING process       *)
(* yield().  With one CPU nobody else runs until the process is suspended. *)
(***************************************************************************)
EXTENDS Proc, TLAPS

\* The addresses that occur as processes, CPUs and channels.
LEMMA Places ==
  /\ Slot \subseteq Nat \ {0} /\ CPU \subseteq Nat \ {0}
  /\ initproc \in Slot /\ inswapper \in Slot /\ initproc # inswapper
  /\ {NULL, SwapFlagChan, TicksChan} \subseteq Nat
  /\ \A i \in Nat : InodeChan(i) \in Nat
  /\ \A p \in Slot : p + 1 \in 1..(NPROC + 1)
  /\ 1 \in 1..(NPROC + 1)
BY NPROCAssumption, NCPUAssumption
   DEF Slot, CPU, initproc, inswapper, NULL, SwapFlagChan, TicksChan, InodeChan

\* Places that are not those of processes: the channels of system calls.
CallChan == Nat \ Slot

LEMMA CallChans ==
  /\ SwapFlagChan \in CallChan /\ TicksChan \in CallChan
  /\ \A j \in Nat : InodeChan(j) \in CallChan
  /\ \A i \in Inode : InodeChan(i) \notin {SwapFlagChan, TicksChan}
  /\ \A i \in Inode, j \in Nat : InodeChan(j) = InodeChan(i) => j = i
BY NPROCAssumption, NINODEAssumption
   DEF CallChan, SwapFlagChan, TicksChan, InodeChan, Slot, Inode

LEMMA TargetNat ==
  ASSUME TypeOK, NEW p \in Slot
  PROVE  Target(p) \in Nat
BY Zenon DEF Target, RootDir, TypeOK, StackType

-----------------------------------------------------------------------------
(* The invariant.                                                          *)

SwapJobs == {"create", "save"}
LoadJobs == {"open", "unlink"}

\* The work of a process that is at the place k of the kernel code.
JobsAt(k) ==
  IF k = "forking" THEN {"fork"}
  ELSE IF k = "waiting" THEN {"wait"}
  ELSE IF k \in {"sleeping", "sleepcheck"} THEN {"sleep"}
  ELSE IF k \in {"sleep2", "sleep2ret"} THEN {"sleep2"}
  ELSE IF k \in {"ilock", "icheck", "held", "iwake"} THEN {"write", "read", "create", "open", "unlink"}
  ELSE IF k = "begin" THEN {"write", "create", "save", "unlink"}
  ELSE IF k = "commit" THEN {"write", "create", "unlink"}
  ELSE IF k = "save" THEN {"save"}
  ELSE IF k = "swapped" THEN SwapJobs
  ELSE IF k = "load" THEN {"open"}
  ELSE IF k = "loaded" THEN {"unlink"}
  ELSE {"none"}

\* Only inswapper executes swapIn(), and it does nothing else.
StacksOK ==
  \A p \in Slot :
    /\ job[p] \in JobsAt(pc[p])
    /\ p = inswapper <=> pc[p] = "scan" \/ job[p] \in LoadJobs
    /\ state[p] \in {"UNUSED", "EMBRYO", "ZOMBIE"} => pc[p] = "user"

\* inswapper may find itself RUNNABLE while it runs: it wakes the sleepers for
\* the root directory, which makes it RUNNABLE if one is suspended.
CurrentRuns ==
  /\ \A p \in Slot : state[p] = "RUNNING" => cur[1] = p
  /\ cur[1] \in {NULL, inswapper} \/ state[cur[1]] = "RUNNING" \/ swappingOut[cur[1]]

\* A process that swaps itself out has the CPU, and has its memory until it is
\* saved.
SwapsAlone ==
  \A p \in Slot :
    /\ swappingOut[p] <=> job[p] \in SwapJobs
    /\ swappingOut[p] =>
         /\ cur[1] = p /\ state[p] = "SLEEPING" /\ swapFlag /\ pid[p] > 3
         /\ pc[p] # "swapped" => resident[p]
         /\ outer[p] \in {"wait", "sleep", "sleep2", "read", "write"}

\* The process that inswapper brings back stays RUNNABLE_SUSPENDED meanwhile.
Loading ==
  LET t == loc[inswapper] IN
  /\ job[inswapper] \in LoadJobs => t \in Slot /\ state[t] = "RUNNABLE_SUSPENDED"
  /\ job[inswapper] = "unlink" => resident[t]
  /\ pc[inswapper] = "loaded" => swapFile[t] # "full"

\* init and inswapper are never suspended, and inswapper has no children.
Founders ==
  /\ \A p \in {initproc, inswapper} :
       pid[p] = p /\ state[p] \in {"RUNNABLE", "RUNNING", "SLEEPING"}
  /\ parent[initproc] = NULL
  /\ \A p \in Slot : parent[p] \notin {p, inswapper}

\* No complete swap file waits for the next process of an entry.
EntriesClean ==
  \A p \in Slot :
    /\ state[p] \in {"UNUSED", "EMBRYO"} => swapFile[p] # "full"
    /\ state[p] = "ZOMBIE" => resident[p]

\* ImageOnce, for the provers.
ImageKept ==
  \A p \in Slot :
    /\ state[p] \notin {"UNUSED", "EMBRYO"} => resident[p] \/ swapFile[p] = "full"
    /\ state[p] \notin {"UNUSED", "EMBRYO"} /\ resident[p] /\ swapFile[p] = "full" =>
         job[inswapper] = "unlink" /\ loc[inswapper] = p

ImageInv ==
  /\ StacksOK /\ CurrentRuns /\ SwapsAlone /\ Loading /\ Founders /\ ForksApart /\ EntriesClean
  /\ RunnableIsResident /\ ImageKept

-----------------------------------------------------------------------------
(* Steps that leave every process where it is.                             *)

\* Sleepers are woken; inswapper may be, for them.
Eased(S) ==
  \A q \in S :
    \/ state'[q] = state[q]
    \/ state[q] = "SLEEPING" /\ ~swappingOut[q] /\ state'[q] = "RUNNABLE"
    \/ state[q] = "SLEEPING_SUSPENDED" /\ state'[q] = "RUNNABLE_SUSPENDED"
    \/ q = inswapper /\ state'[q] = "RUNNABLE"

\* p gets on in the kernel, neither in fork() nor at the end of swapOut() or
\* swapIn().
Goes(p) ==
  /\ cur[1] = p
  /\ UNCHANGED outer
  /\ \A q \in Slot \ {p} : pc'[q] = pc[q] /\ job'[q] = job[q] /\ loc'[q] = loc[q]
  /\ job'[p] \in JobsAt(pc'[p])
  /\ pc[p] \notin {"forking", "swapped", "loaded"} /\ pc'[p] \notin {"forking", "swapped", "loaded"}
  /\ \/ job'[p] = job[p] /\ loc'[p] = loc[p] /\ pc[p] # "scan" /\ pc'[p] # "scan"
     \/ /\ p # inswapper /\ pc'[p] # "scan"
        /\ job[p] \notin SwapJobs \cup LoadJobs /\ job'[p] \notin SwapJobs \cup LoadJobs
     \/ /\ p = inswapper /\ pc[p] = "scan" /\ job'[p] = "open"
        /\ loc'[p] \in Slot /\ state[loc'[p]] = "RUNNABLE_SUSPENDED"

Calm ==
  /\ Eased(Slot)
  /\ UNCHANGED <<pid, parent, chan, swappingOut, swapFlag, cur, resident, swapFile>>
  /\ UNCHANGED stacks \/ \E p \in Slot : Goes(p)

\* The only CPU, and the types of what the proofs are about.
StateTyped == state \in [Slot -> ProcState]
OriginTyped == parent \in [Slot -> Slot \cup {NULL}] /\ pid \in [Slot -> Nat]
FlagsTyped == swappingOut \in [Slot -> BOOLEAN] /\ swapFlag \in BOOLEAN
PlaceTyped == pc \in [Slot -> Pc] /\ job \in [Slot -> Job]
FrameTyped == outer \in [Slot -> Job] /\ loc \in [Slot -> Nat]
ImageTyped == resident \in [Slot -> BOOLEAN] /\ swapFile \in [Slot -> {"none", "partial", "full"}]

Typed ==
  /\ cur[1] \in Slot \cup {NULL} /\ NULL \notin Slot
  /\ StateTyped /\ OriginTyped /\ FlagsTyped /\ PlaceTyped /\ FrameTyped /\ ImageTyped

LEMMA Types == TypeOK => Typed
<1>1. 1 \in CPU
  BY NCPUAssumption DEF CPU
<1>2. TypeOK => cur[1] \in Slot \cup {NULL}
  BY <1>1, Zenon DEF TypeOK, CpuType
<1>3. NULL \notin Slot
  BY Places, Zenon DEF NULL
<1> QED
  BY <1>2, <1>3, Zenon
     DEF TypeOK, TableType, GlobalType, StackType, FileType, Typed, StateTyped, OriginTyped, FlagsTyped,
         PlaceTyped, FrameTyped, ImageTyped

LEMMA TypesThen == TypeOK' => Typed'
BY Types, PTL

\* The process that has the CPU is RUNNING, or swaps itself out, or is inswapper.
LEMMA Current ==
  ASSUME TypeOK, ImageInv, NEW p \in Slot, cur[1] = p
  PROVE  /\ p # inswapper /\ ~swappingOut[p] => state[p] = "RUNNING"
         /\ swappingOut[p] => state[p] = "SLEEPING"
         /\ state[p] \in {"RUNNING", "RUNNABLE", "SLEEPING"}
BY Places, Zenon DEF ImageInv, CurrentRuns, SwapsAlone, Founders, NULL

LEMMA Swapper ==
  ASSUME TypeOK, ImageInv
  PROVE  /\ \A q \in Slot : swappingOut[q] => q \notin {initproc, inswapper}
         /\ resident[inswapper] /\ inswapper \in Slot /\ initproc \in Slot
<1>1. \A q \in Slot : swappingOut[q] => q \notin {initproc, inswapper}
  BY Places DEF ImageInv, SwapsAlone, Founders, initproc, inswapper
<1> QED
  BY <1>1, Places, Zenon DEF ImageInv, RunnableIsResident, Founders

LEMMA CalmStep ==
  ASSUME TypeOK, TypeOK', ImageInv, Calm
  PROVE  ImageInv'
<1>u. Typed'
  BY TypesThen, Zenon
<1>1. /\ Eased(Slot)
      /\ UNCHANGED <<pid, parent, chan, swappingOut, swapFlag, cur, resident, swapFile>>
  BY Zenon DEF Calm
<1>dead. \A q \in Slot : state'[q] \in {"UNUSED", "EMBRYO", "ZOMBIE", "RUNNING"} => state'[q] = state[q]
  BY <1>1, Zenon DEF Eased
<1>sw. \A q \in Slot : swappingOut[q] => state[q] = "SLEEPING" /\ state'[q] = "SLEEPING"
  BY <1>1, Swapper, Zenon DEF Eased, ImageInv, SwapsAlone
<1>2. CurrentRuns'
  BY <1>u, <1>1, Zenon DEF ImageInv, CurrentRuns, Eased, Typed
<1>3. Founders'
  BY <1>1, Places, Zenon DEF ImageInv, Founders, Eased
<1>4. EntriesClean'
  BY <1>1, <1>dead, Zenon DEF ImageInv, EntriesClean
<1>5. RunnableIsResident'
  BY <1>1, Swapper, Zenon DEF ImageInv, RunnableIsResident, Eased
<1>rs. \A q \in Slot : state[q] = "RUNNABLE_SUSPENDED" => state'[q] = "RUNNABLE_SUSPENDED"
  BY <1>1, Zenon DEF ImageInv, Founders, Eased
<1>em. \A q \in Slot : state[q] \in {"UNUSED", "EMBRYO"} => state'[q] = state[q]
  BY <1>1, Zenon DEF ImageInv, Founders, Eased
<1>6. ASSUME UNCHANGED stacks PROVE ImageInv'
  <2>1. StacksOK'
    BY <1>6, <1>dead, Zenon DEF ImageInv, StacksOK, stacks
  <2>2. SwapsAlone'
    BY <1>1, <1>6, <1>sw, Zenon DEF ImageInv, SwapsAlone, stacks
  <2>3. Loading'
    BY <1>1, <1>6, <1>rs, Zenon DEF ImageInv, Loading, stacks
  <2>4. ForksApart'
    BY <1>6, <1>em, Zenon DEF ImageInv, ForksApart, stacks
  <2>5. ImageKept'
    BY <1>1, <1>6, <1>em, Zenon DEF ImageInv, ImageKept, stacks
  <2> QED
    BY <1>2, <1>3, <1>4, <1>5, <2>1, <2>2, <2>3, <2>4, <2>5, Zenon DEF ImageInv
<1>7. ASSUME NEW p \in Slot, Goes(p) PROVE ImageInv'
  <2>0. /\ cur[1] = p /\ state[p] \in {"RUNNING", "RUNNABLE", "SLEEPING"}
    BY <1>7, Current, Zenon DEF Goes
  <2>1. StacksOK'
    BY <1>7, <1>dead, <2>0 DEF ImageInv, StacksOK, Goes, LoadJobs
  <2>2. SwapsAlone'
    <3>1. \A q \in Slot : job'[q] \in SwapJobs <=> job[q] \in SwapJobs
      BY <1>7 DEF Goes, SwapJobs, ImageInv, StacksOK, JobsAt
    <3>2. \A q \in Slot : pc'[q] # "swapped" => pc[q] # "swapped"
      BY <1>7, Zenon DEF Goes
    <3> QED
      BY <1>1, <1>7, <1>sw, <3>1, <3>2, Zenon DEF ImageInv, SwapsAlone, Goes
  <2>i. \/ job'[inswapper] = job[inswapper] /\ loc'[inswapper] = loc[inswapper]
           /\ (pc'[inswapper] = "loaded" => pc[inswapper] = "loaded")
        \/ /\ job[inswapper] = "none" /\ job'[inswapper] = "open" /\ pc'[inswapper] # "loaded"
           /\ loc'[inswapper] \in Slot /\ state[loc'[inswapper]] = "RUNNABLE_SUSPENDED"
    BY <1>7, Places, Zenon DEF Goes, ImageInv, StacksOK, JobsAt
  <2>3. Loading'
    BY <1>1, <2>i, <1>rs, Zenon DEF ImageInv, Loading
  <2>4. ForksApart'
    <3>1. \A q \in Slot : pc'[q] = "forking" <=> pc[q] = "forking" /\ q # p
      BY <1>7, Zenon DEF Goes
    <3>2. \A q \in Slot : pc'[q] = "forking" => loc'[q] = loc[q]
      BY <1>7, Zenon DEF Goes
    <3> QED
      BY <3>1, <3>2, <1>em DEF ImageInv, ForksApart
  <2>5. ImageKept'
    BY <1>1, <2>i, <1>em, Zenon DEF ImageInv, ImageKept
  <2> QED
    BY <1>2, <1>3, <1>4, <1>5, <2>1, <2>2, <2>3, <2>4, <2>5, Zenon DEF ImageInv
<1> QED
  BY <1>6, <1>7, Zenon DEF Calm

LEMMA TheCpu ==
  ASSUME NCPU = 1, NEW c \in CPU
  PROVE  c = 1
BY DEF CPU

\* A process in user mode is RUNNING, and nobody swaps itself out meanwhile.
LEMMA InUser ==
  ASSUME NCPU = 1, TypeOK, ImageInv, NEW c \in CPU, NEW p \in Slot, At(c, p, "user")
  PROVE  /\ cur[1] = p /\ p # inswapper /\ job[p] = "none" /\ state[p] = "RUNNING"
         /\ \A q \in Slot : ~swappingOut[q]
<1>1. cur[1] = p /\ pc[p] = "user"
  BY TheCpu, Zenon DEF At
<1>2. job[p] = "none" /\ p # inswapper
  BY <1>1, Zenon DEF ImageInv, StacksOK, JobsAt, LoadJobs
<1>3. \A q \in Slot : ~swappingOut[q]
  BY <1>1, <1>2, Zenon DEF ImageInv, SwapsAlone, SwapJobs
<1> QED
  BY <1>1, <1>2, <1>3, Current, Zenon

UserMoves(c, p) ==
  \/ WaitCall(c, p) \/ Sleep2Call(c, p) \/ SleepCall(c, p)
  \/ \E call \in {"write", "read"}, i \in Inode : FileCall(c, p, call, i)

KernelMoves(c, p) ==
  \/ Sleep2Return(c, p) \/ SleepAcquire(c, p) \/ SleepReturn(c, p)
  \/ BeginTrans(c, p) \/ IlockAcquire(c, p) \/ IlockTake(c, p)
  \/ Iunlock(c, p) \/ CommitTrans(c, p)

LEMMA UserMove ==
  ASSUME NCPU = 1, TypeOK, ImageInv, NEW c \in CPU, NEW p \in Slot, UserMoves(c, p)
  PROVE  Goes(p) /\ UNCHANGED <<table, globals, cur, resident, swapFile>>
<1>1. At(c, p, "user")
  BY Zenon DEF UserMoves, WaitCall, Sleep2Call, SleepCall, FileCall, Call
<1>2. cur[1] = p /\ p # inswapper /\ job[p] = "none" /\ pc[p] = "user"
  BY <1>1, InUser, Zenon DEF At
<1>3. UNCHANGED <<table, globals, cur, resident, swapFile, outer>>
  BY Zenon DEF UserMoves, WaitCall, Sleep2Call, SleepCall, FileCall, cpus, memory
<1>4. \E k \in {"waiting", "sleep2", "sleeping", "begin", "ilock"}, j \in {"wait", "sleep2", "sleep", "write", "read"} :
        pc' = [pc EXCEPT ![p] = k] /\ job' = [job EXCEPT ![p] = j] /\ j \in JobsAt(k)
  BY Zenon DEF UserMoves, WaitCall, Sleep2Call, SleepCall, FileCall, JobsAt
<1>5. \A q \in Slot \ {p} : loc'[q] = loc[q]
  BY Types, Zenon DEF UserMoves, WaitCall, Sleep2Call, SleepCall, FileCall, Typed, FrameTyped
<1> QED
  BY <1>2, <1>3, <1>4, <1>5, Types, Zenon DEF Goes, Typed, PlaceTyped, SwapJobs, LoadJobs

LEMMA KernelMove ==
  ASSUME NCPU = 1, TypeOK, ImageInv, NEW c \in CPU, NEW p \in Slot, KernelMoves(c, p)
  PROVE  Goes(p) /\ UNCHANGED <<table, globals, cur, resident, swapFile>>
<1>0. cur[1] = p /\ job[p] \in JobsAt(pc[p]) /\ (p = inswapper => pc[p] = "scan" \/ job[p] \in LoadJobs)
  BY TheCpu, Zenon
     DEF KernelMoves, Sleep2Return, SleepAcquire, SleepReturn, BeginTrans, IlockAcquire, IlockTake,
         Iunlock, CommitTrans, At, ImageInv, StacksOK
<1>1. UNCHANGED <<table, globals, cur, resident, swapFile, outer>>
  BY Zenon DEF KernelMoves, Sleep2Return, SleepAcquire, SleepReturn, BeginTrans, IlockAcquire, IlockTake,
         Iunlock, CommitTrans, cpus, memory, Return
<1>2. CASE Sleep2Return(c, p) \/ SleepReturn(c, p) \/ CommitTrans(c, p)
  <2>1. /\ pc' = [pc EXCEPT ![p] = "user"] /\ job' = [job EXCEPT ![p] = "none"]
        /\ loc' = [loc EXCEPT ![p] = 0] /\ pc[p] \in {"sleep2ret", "sleepcheck", "commit"}
        /\ pc[p] = "commit" => job[p] = "write"
    BY <1>2, Zenon DEF Sleep2Return, SleepReturn, CommitTrans, Return, At
  <2>2. job[p] \in {"sleep2", "sleep", "write"} /\ p # inswapper
    BY <1>0, <2>1, Zenon DEF JobsAt, LoadJobs
  <2> QED
    BY <1>0, <1>1, <2>1, Types, Zenon DEF Goes, Typed, PlaceTyped, FrameTyped, SwapJobs, LoadJobs, JobsAt
<1>3. CASE ~(Sleep2Return(c, p) \/ SleepReturn(c, p) \/ CommitTrans(c, p))
  <2>1. /\ UNCHANGED <<job, loc>>
        /\ \E k \in {"sleepcheck", "save", "ilock", "icheck", "held", "iwake"} :
             /\ pc' = [pc EXCEPT ![p] = k] /\ pc[p] \in {"sleeping", "begin", "ilock", "icheck", "held"}
             /\ job[p] \in JobsAt(k)
    BY <1>0, <1>3, Zenon
       DEF KernelMoves, SleepAcquire, BeginTrans, IlockAcquire, IlockTake, Iunlock, At, JobsAt
  <2> QED
    BY <1>0, <1>1, <2>1, Types, Zenon DEF Goes, Typed, StateTyped, PlaceTyped
<1> QED
  BY <1>2, <1>3, Zenon

LEMMA SwapInMove ==
  ASSUME NCPU = 1, TypeOK, ImageInv, NEW c \in CPU, NEW t \in Slot, SwapInFound(c, t)
  PROVE  Goes(inswapper) /\ UNCHANGED <<table, globals, cur, resident, swapFile>>
BY TheCpu, Types, Places, Zenon DEF SwapInFound, At, Goes, Typed, PlaceTyped, FrameTyped, JobsAt, memory

LEMMA WaitMove ==
  ASSUME NCPU = 1, TypeOK, ImageInv, NEW c \in CPU, NEW p \in Slot, At(c, p, "waiting"), Return(p)
  PROVE  Goes(p)
<1>1. cur[1] = p /\ pc[p] = "waiting" /\ job[p] = "wait" /\ p # inswapper
  BY TheCpu, Zenon DEF At, ImageInv, StacksOK, JobsAt, LoadJobs
<1> QED
  BY <1>1, Types, Zenon DEF Return, Goes, Typed, PlaceTyped, FrameTyped, JobsAt, SwapJobs, LoadJobs

\* wakeup1(), and kill().
LEMMA WakeEases ==
  ASSUME NEW chs, NEW S, S \subseteq Slot, \A q \in S : state'[q] = WokenState(chs)[q]
  PROVE  Eased(S)
BY Zenon DEF Eased, WokenState, Asleep, Suspended

LEMMA KillEases ==
  ASSUME NCPU = 1, TypeOK, ImageInv, NEW c \in CPU, NEW p \in Slot, NEW n \in Killable, Kill(c, p, n)
  PROVE  Eased(Slot)
<1>1. \A q \in Slot : ~swappingOut[q]
  BY InUser, Zenon DEF Kill, Call
<1>2. PICK q \in Slot :
        IF state[q] = "SLEEPING_SUSPENDED"
        THEN state' = [state EXCEPT ![q] = "RUNNABLE_SUSPENDED", ![inswapper] = "RUNNABLE"]
        ELSE state' = [state EXCEPT ![q] = IF @ = "SLEEPING" THEN "RUNNABLE" ELSE @]
  BY Zenon DEF Kill
<1> QED
  BY <1>1, <1>2, Types DEF Eased, Typed, StateTyped

LEMMA UnlockMove ==
  ASSUME NCPU = 1, TypeOK, ImageInv, NEW c \in CPU, NEW p \in Slot, IunlockWakeup(c, p)
  PROVE  Goes(p)
<1>1. cur[1] = p /\ pc[p] = "iwake" /\ job[p] \in JobsAt("iwake")
      /\ (p = inswapper => job[p] \in LoadJobs)
  BY TheCpu, Zenon DEF IunlockWakeup, At, ImageInv, StacksOK
<1>2. CASE job[p] = "read"
  BY <1>1, Types
     DEF IunlockWakeup, Return, Goes, Typed, PlaceTyped, FrameTyped, JobsAt, SwapJobs, LoadJobs
<1>3. CASE job[p] # "read"
  BY <1>1, <1>3, Types DEF IunlockWakeup, Goes, Typed, PlaceTyped, JobsAt
<1> QED
  BY <1>2, <1>3, Zenon

\* wait() gives up.
WaitGivesUp(c, p) ==
  At(c, p, "waiting") /\ Return(p) /\ UNCHANGED <<table, globals, cur, files, memory>>

\* The steps that leave every process where it is.
Calms(c, p) ==
  \/ Tick \/ ScanEnd(c) \/ UserMoves(c, p) \/ KernelMoves(c, p) \/ IunlockWakeup(c, p)
  \/ Wakeup2(c, p) \/ (\E n \in Killable : Kill(c, p, n))
  \/ (\E t \in Slot : SwapInFound(c, t))
  \/ (\E root \in BOOLEAN : Chdir(c, p, root))
  \/ WaitGivesUp(c, p)

LEMMA CalmSteps ==
  ASSUME NCPU = 1, TypeOK, ImageInv, NEW c \in CPU, NEW p \in Slot, Calms(c, p)
  PROVE  Calm
<1>same. ASSUME UNCHANGED <<table, globals, cur, resident, swapFile>>,
                UNCHANGED stacks \/ \E q \in Slot : Goes(q)
         PROVE  Calm
  BY <1>same, Zenon DEF Calm, Eased, table, globals
<1>1. ASSUME Tick PROVE Calm
  <2>1. Eased(Slot)
    BY <1>1, WakeEases, Zenon DEF Tick
  <2> QED
    BY <1>1, <2>1, Zenon DEF Tick, Calm, cpus, memory
<1>2. ASSUME ScanEnd(c) PROVE Calm
  BY <1>2, <1>same, Zenon DEF ScanEnd, memory
<1>3. ASSUME UserMoves(c, p) PROVE Calm
  BY <1>3, <1>same, UserMove, Zenon
<1>4. ASSUME KernelMoves(c, p) PROVE Calm
  BY <1>4, <1>same, KernelMove, Zenon
<1>5. ASSUME IunlockWakeup(c, p) PROVE Calm
  <2>1. Eased(Slot)
    BY <1>5, WakeEases, Zenon DEF IunlockWakeup
  <2> QED
    BY <1>5, <2>1, UnlockMove, Zenon DEF IunlockWakeup, Calm, memory
<1>6. ASSUME Wakeup2(c, p) PROVE Calm
  <2>1. Eased(Slot)
    BY <1>6, WakeEases, Zenon DEF Wakeup2
  <2> QED
    BY <1>6, <2>1, Zenon DEF Wakeup2, Calm, cpus, memory
<1>7. ASSUME NEW n \in Killable, Kill(c, p, n) PROVE Calm
  <2>1. Eased(Slot)
    BY <1>7, KillEases, Zenon
  <2> QED
    BY <1>7, <2>1, Zenon DEF Kill, Calm, cpus, memory
<1>8. ASSUME NEW t \in Slot, SwapInFound(c, t) PROVE Calm
  BY <1>8, <1>same, SwapInMove, Places, Zenon
<1>9. ASSUME NEW root \in BOOLEAN, Chdir(c, p, root) PROVE Calm
  BY <1>9, <1>same, Zenon DEF Chdir, cpus
<1>10. ASSUME WaitGivesUp(c, p) PROVE Calm
  BY <1>10, <1>same, WaitMove, Zenon DEF WaitGivesUp, memory
<1> QED
  BY <1>1, <1>2, <1>3, <1>4, <1>5, <1>6, <1>7, <1>8, <1>9, <1>10, Zenon DEF Calms

-----------------------------------------------------------------------------
(* The other steps.                                                        *)

LEMMA DispatchStep ==
  ASSUME NCPU = 1, TypeOK, TypeOK', ImageInv, NEW c \in CPU, NEW p \in Slot, Dispatch(c, p)
  PROVE  ImageInv'
<1>t. Typed
  BY Types, Zenon
<1>u. Typed'
  BY TypesThen, Zenon
<1>1. /\ cur[1] = NULL /\ state[p] = "RUNNABLE" /\ cur'[1] = p
      /\ state' = [state EXCEPT ![p] = "RUNNING"]
      /\ UNCHANGED <<pid, parent, swappingOut, swapFlag, stacks, memory>>
  BY TheCpu DEF Dispatch, globals, TypeOK, CpuType
<1>2. \A q \in Slot : ~swappingOut[q] /\ state[q] # "RUNNING"
  BY <1>u, <1>1, Zenon DEF ImageInv, SwapsAlone, CurrentRuns, Typed
<1>3. StacksOK' /\ CurrentRuns'
  BY <1>u, <1>1, Zenon DEF ImageInv, StacksOK, CurrentRuns, Typed, StateTyped, FrameTyped, stacks
<1>4. SwapsAlone'
  BY <1>1, <1>2, Zenon DEF ImageInv, SwapsAlone, stacks
<1>5. Loading' /\ ForksApart'
  BY <1>t, <1>1 DEF ImageInv, Loading, ForksApart, Typed, StateTyped, stacks, memory
<1>6. Founders' /\ EntriesClean' /\ RunnableIsResident'
  BY <1>t, <1>1 DEF ImageInv, Founders, EntriesClean, RunnableIsResident, Typed, StateTyped, memory
<1>7. ImageKept'
  BY <1>u, <1>1, Zenon DEF ImageInv, ImageKept, Typed, StateTyped, stacks, memory
<1> QED
  BY <1>3, <1>4, <1>5, <1>6, <1>7, Zenon DEF ImageInv

LEMMA YieldStep ==
  ASSUME NCPU = 1, TypeOK, TypeOK', ImageInv, NEW c \in CPU, NEW p \in Slot, Yield(c, p)
  PROVE  ImageInv'
<1>t. Typed
  BY Types, Zenon
<1>1. /\ cur[1] = p /\ state[p] = "RUNNING" /\ cur'[1] = NULL
      /\ state' = [state EXCEPT ![p] = "RUNNABLE"]
      /\ UNCHANGED <<pid, parent, swappingOut, swapFlag, stacks, memory>>
  BY TheCpu DEF Yield, Sched, globals, TypeOK, CpuType
<1>2. \A q \in Slot : ~swappingOut[q]
  BY <1>1, Zenon DEF ImageInv, SwapsAlone
<1>3. StacksOK' /\ CurrentRuns'
  BY <1>t, <1>1 DEF ImageInv, StacksOK, CurrentRuns, Typed, StateTyped, stacks
<1>4. SwapsAlone'
  BY <1>1, Zenon DEF ImageInv, SwapsAlone, stacks
<1>5. Loading' /\ ForksApart'
  BY <1>t, <1>1 DEF ImageInv, Loading, ForksApart, Typed, StateTyped, stacks, memory
<1>6. Founders' /\ EntriesClean' /\ RunnableIsResident'
  BY <1>t, <1>1 DEF ImageInv, Founders, EntriesClean, RunnableIsResident, Typed, StateTyped, memory
<1>7. ImageKept'
  BY <1>t, <1>1, Zenon DEF ImageInv, ImageKept, Typed, StateTyped, stacks, memory
<1> QED
  BY <1>3, <1>4, <1>5, <1>6, <1>7, Zenon DEF ImageInv

LEMMA ForkAllocStep ==
  ASSUME NCPU = 1, TypeOK, TypeOK', ImageInv, NEW c \in CPU, NEW p \in Slot, NEW q \in Slot,
         ForkAlloc(c, p, q)
  PROVE  ImageInv'
<1>t. Typed
  BY Types, Zenon
<1>1. /\ state[q] = "UNUSED" /\ state' = [state EXCEPT ![q] = "EMBRYO"]
      /\ pid' = [pid EXCEPT ![q] = nextpid]
      /\ pc' = [pc EXCEPT ![p] = "forking"] /\ job' = [job EXCEPT ![p] = "fork"]
      /\ loc' = [loc EXCEPT ![p] = q]
      /\ UNCHANGED <<parent, swappingOut, swapFlag, cur, outer, resident, swapFile>>
  BY Zenon DEF ForkAlloc, cpus, memory
<1>2. /\ cur[1] = p /\ p # inswapper /\ job[p] = "none" /\ state[p] = "RUNNING" /\ pc[p] = "user"
      /\ \A r \in Slot : ~swappingOut[r]
  BY InUser, Zenon DEF ForkAlloc, Call, At
<1>3. StacksOK' /\ CurrentRuns'
  BY <1>t, <1>1, <1>2, SMT, SMTT(30)
     DEF ImageInv, StacksOK, CurrentRuns, Typed, StateTyped, PlaceTyped, JobsAt, LoadJobs
<1>4. SwapsAlone'
  BY <1>t, <1>1, <1>2, Zenon DEF ImageInv, SwapsAlone, SwapJobs, Typed, PlaceTyped
<1>5. Loading'
  BY <1>t, <1>1, <1>2, SMT, SMTT(30) DEF ImageInv, Loading, Typed, StateTyped, PlaceTyped, FrameTyped
<1>8. ForksApart'
  BY <1>t, <1>1, Zenon DEF ImageInv, ForksApart, Typed, StateTyped, PlaceTyped, FrameTyped
<1>6. Founders' /\ EntriesClean' /\ RunnableIsResident'
  BY <1>t, <1>1, SMT, SMTT(30) DEF ImageInv, Founders, EntriesClean, RunnableIsResident, Typed, StateTyped, OriginTyped
<1>7. ImageKept'
  <2>1. \A r \in Slot : state'[r] \notin {"UNUSED", "EMBRYO"} => state[r] \notin {"UNUSED", "EMBRYO"}
    BY <1>t, <1>1, Zenon DEF Typed, StateTyped
  <2>2. job'[inswapper] = job[inswapper] /\ loc'[inswapper] = loc[inswapper]
    BY <1>t, <1>1, <1>2, Places, Zenon DEF Typed, PlaceTyped, FrameTyped
  <2> QED
    BY <1>1, <2>1, <2>2, Zenon DEF ImageInv, ImageKept
<1> QED
  BY <1>3, <1>4, <1>5, <1>6, <1>7, <1>8, Zenon DEF ImageInv

LEMMA ForkFailStep ==
  ASSUME NCPU = 1, TypeOK, TypeOK', ImageInv, NEW c \in CPU, NEW p \in Slot, ForkFail(c, p)
  PROVE  ImageInv'
<1>t. Typed
  BY Types, Zenon
<1>1. /\ cur[1] = p /\ pc[p] = "forking" /\ job[p] = "fork" /\ p # inswapper
      /\ loc[p] \in Slot /\ state[loc[p]] = "EMBRYO"
  BY TheCpu, Zenon DEF ForkFail, At, ImageInv, StacksOK, JobsAt, LoadJobs, ForksApart
<1>2. /\ state' = [state EXCEPT ![loc[p]] = "UNUSED"]
      /\ pc' = [pc EXCEPT ![p] = "user"] /\ job' = [job EXCEPT ![p] = "none"]
      /\ loc' = [loc EXCEPT ![p] = 0]
      /\ UNCHANGED <<pid, parent, swappingOut, swapFlag, cur, outer, resident, swapFile>>
  BY Zenon DEF ForkFail, globals, cpus, memory
<1>9. \A r \in Slot : ~swappingOut[r]
  BY <1>1, Zenon DEF ImageInv, SwapsAlone, SwapJobs
<1>3. StacksOK' /\ CurrentRuns'
  BY <1>t, <1>1, <1>2, SMT, SMTT(30)
     DEF ImageInv, StacksOK, CurrentRuns, Typed, StateTyped, PlaceTyped, JobsAt, LoadJobs
<1>4. SwapsAlone'
  BY <1>t, <1>2, <1>9, SMT, SMTT(30) DEF ImageInv, SwapsAlone, SwapJobs, Typed, StateTyped, PlaceTyped
<1>5. Loading'
  BY <1>t, <1>1, <1>2, SMT, SMTT(30) DEF ImageInv, Loading, Typed, StateTyped, PlaceTyped, FrameTyped
<1>8. ForksApart'
  BY <1>t, <1>1, <1>2, SMT, SMTT(30) DEF ImageInv, ForksApart, Typed, StateTyped, PlaceTyped, FrameTyped
<1>6. Founders' /\ EntriesClean' /\ RunnableIsResident'
  BY <1>t, <1>1, <1>2, SMT, SMTT(30) DEF ImageInv, Founders, EntriesClean, RunnableIsResident, Typed, StateTyped
<1>7. ImageKept'
  BY <1>t, <1>2, SMT, SMTT(30) DEF ImageInv, ImageKept, Typed, StateTyped, PlaceTyped, FrameTyped
<1> QED
  BY <1>3, <1>4, <1>5, <1>6, <1>7, <1>8, Zenon DEF ImageInv

LEMMA ForkDoneStep ==
  ASSUME NCPU = 1, TypeOK, TypeOK', ImageInv, NEW c \in CPU, NEW p \in Slot, ForkDone(c, p)
  PROVE  ImageInv'
<1>t. Typed
  BY Types, Zenon
<1>1. /\ cur[1] = p /\ pc[p] = "forking" /\ job[p] = "fork" /\ p # inswapper
      /\ loc[p] \in Slot /\ state[loc[p]] = "EMBRYO"
  BY TheCpu, Zenon DEF ForkDone, At, ImageInv, StacksOK, JobsAt, LoadJobs, ForksApart
<1>2. /\ state' = [state EXCEPT ![loc[p]] = "RUNNABLE"]
      /\ parent' = [parent EXCEPT ![loc[p]] = p]
      /\ resident' = [resident EXCEPT ![loc[p]] = TRUE]
      /\ pc' = [pc EXCEPT ![p] = "user", ![loc[p]] = "user"]
      /\ job' = [job EXCEPT ![p] = "none", ![loc[p]] = "none"]
      /\ loc' = [loc EXCEPT ![p] = 0]
      /\ UNCHANGED <<pid, swappingOut, swapFlag, cur, outer, swapFile>>
  BY Zenon DEF ForkDone, globals, cpus
<1>9. /\ \A r \in Slot : ~swappingOut[r]
      /\ p # loc[p] /\ loc[p] \notin {initproc, inswapper} /\ pc[loc[p]] = "user" /\ job[loc[p]] = "none"
  BY <1>1, Zenon DEF ImageInv, SwapsAlone, SwapJobs, Founders, StacksOK, JobsAt
<1>3. StacksOK' /\ CurrentRuns'
  BY <1>t, <1>1, <1>2, SMT, SMTT(30)
     DEF ImageInv, StacksOK, CurrentRuns, Typed, StateTyped, PlaceTyped, JobsAt, LoadJobs
<1>4. SwapsAlone'
  BY <1>t, <1>2, <1>9, SMT, SMTT(30) DEF ImageInv, SwapsAlone, SwapJobs, Typed, StateTyped, PlaceTyped, ImageTyped
<1>5. Loading'
  BY <1>t, <1>1, <1>2, <1>9, Places, SMT, SMTT(30)
     DEF ImageInv, Loading, Typed, StateTyped, PlaceTyped, FrameTyped, ImageTyped
<1>8. ForksApart'
  BY <1>t, <1>1, <1>2, SMT, SMTT(30) DEF ImageInv, ForksApart, Typed, StateTyped, PlaceTyped, FrameTyped
<1>6. Founders' /\ EntriesClean' /\ RunnableIsResident'
  BY <1>t, <1>1, <1>2, <1>9, SMT, SMTT(30)
     DEF ImageInv, Founders, EntriesClean, RunnableIsResident, Typed, StateTyped, OriginTyped,
         ImageTyped
<1>7. ImageKept'
  BY <1>t, <1>1, <1>2, <1>9, Places, SMT, SMTT(30)
     DEF ImageInv, ImageKept, EntriesClean, Typed, StateTyped, PlaceTyped, FrameTyped, ImageTyped
<1> QED
  BY <1>3, <1>4, <1>5, <1>6, <1>7, <1>8, Zenon DEF ImageInv

LEMMA ExitingStep ==
  ASSUME NCPU = 1, TypeOK, TypeOK', ImageInv, NEW c \in CPU, NEW p \in Slot, Exit(c, p)
  PROVE  ImageInv'
<1>u. Typed'
  BY TypesThen, Zenon
<1>1. /\ cur[1] = p /\ p # inswapper /\ p # initproc /\ job[p] = "none" /\ state[p] = "RUNNING"
      /\ pc[p] = "user" /\ \A q \in Slot : ~swappingOut[q]
  BY InUser, Zenon DEF Exit, At
<1>2. /\ state'[p] = "ZOMBIE" /\ cur'[1] = NULL
      /\ UNCHANGED <<pid, swappingOut, swapFlag, stacks, resident, swapFile>>
  BY TheCpu, SMT, SMTT(30) DEF Exit, Sched, TypeOK, CpuType, WokenState, memory
<1>3. \A q \in Slot : parent'[q] = IF parent[q] = p THEN initproc ELSE parent[q]
  BY Zenon DEF Exit, Children
<1>4. Eased(Slot \ {p})
  <2>1. \A q \in Slot \ {p} : state'[q] = WokenState(ExitWakes(p))[q]
    BY Zenon DEF Exit, WokenState
  <2> QED
    BY <2>1, WakeEases, Zenon
<1>5. \A q \in Slot \ {p} : state'[q] \in {"UNUSED", "EMBRYO", "ZOMBIE", "RUNNING"} => state'[q] = state[q]
  BY <1>4, Zenon DEF Eased
<1>6. \A q \in Slot : state[q] \in {"UNUSED", "EMBRYO", "RUNNABLE_SUSPENDED"} => state'[q] = state[q]
  BY <1>1, <1>4, Places, Zenon DEF Eased, ImageInv, Founders
<1>7. StacksOK'
  BY <1>1, <1>2, <1>5, Zenon DEF ImageInv, StacksOK, stacks
<1>8. CurrentRuns'
  BY <1>1, <1>2, <1>5, Zenon DEF ImageInv, CurrentRuns
<1>9. SwapsAlone'
  BY <1>1, <1>2, Zenon DEF ImageInv, SwapsAlone, stacks
<1>10. Loading' /\ ForksApart'
  BY <1>2, <1>6, Zenon DEF ImageInv, Loading, ForksApart, stacks
<1>11. Founders'
  BY <1>u, <1>1, <1>2, <1>3, <1>4, Places, SMT, SMTT(30) DEF ImageInv, Founders, Eased, Typed
<1>12. EntriesClean'
  BY <1>1, <1>2, <1>5, Zenon DEF ImageInv, EntriesClean, RunnableIsResident
<1>13. RunnableIsResident'
  BY <1>2, <1>4, Swapper, Zenon DEF ImageInv, RunnableIsResident, Eased
<1>14. ImageKept'
  BY <1>2, <1>6, Zenon DEF ImageInv, ImageKept, stacks
<1> QED
  BY <1>7, <1>8, <1>9, <1>10, <1>11, <1>12, <1>13, <1>14, Zenon DEF ImageInv

LEMMA WaitReapStep ==
  ASSUME NCPU = 1, TypeOK, TypeOK', ImageInv, NEW c \in CPU, NEW p \in Slot, NEW q \in Slot,
         WaitReap(c, p, q)
  PROVE  ImageInv'
<1>t. Typed
  BY Types, Zenon
<1>u. Typed'
  BY TypesThen, Zenon
<1>1. /\ cur[1] = p /\ pc[p] = "waiting" /\ job[p] = "wait" /\ p # inswapper
      /\ state[q] = "ZOMBIE" /\ resident[q]
  BY TheCpu, Zenon DEF WaitReap, At, ImageInv, StacksOK, JobsAt, LoadJobs, EntriesClean
<1>2. /\ state' = [state EXCEPT ![q] = "UNUSED"] /\ pid' = [pid EXCEPT ![q] = 0]
      /\ parent' = [parent EXCEPT ![q] = NULL] /\ resident' = [resident EXCEPT ![q] = FALSE]
      /\ pc' = [pc EXCEPT ![p] = "user"] /\ job' = [job EXCEPT ![p] = "none"]
      /\ loc' = [loc EXCEPT ![p] = 0]
      /\ UNCHANGED <<swappingOut, swapFlag, cur, outer, swapFile>>
  BY Zenon DEF WaitReap, Return, globals
<1>3. /\ \A r \in Slot : ~swappingOut[r]
      /\ q # p /\ q \notin {initproc, inswapper}
  BY <1>1, Current, Zenon DEF ImageInv, SwapsAlone, SwapJobs, Founders
<1>4. StacksOK' /\ CurrentRuns'
  BY <1>t, <1>1, <1>2, SMT, SMTT(30)
     DEF ImageInv, StacksOK, CurrentRuns, Typed, StateTyped, PlaceTyped, JobsAt, LoadJobs
<1>5. SwapsAlone'
  BY <1>t, <1>2, <1>3, SMT, SMTT(30)
     DEF ImageInv, SwapsAlone, SwapJobs, Typed, StateTyped, OriginTyped, PlaceTyped, ImageTyped
<1>6. Loading'
  BY <1>t, <1>1, <1>2, SMT, SMTT(30)
     DEF ImageInv, Loading, LoadJobs, Typed, StateTyped, PlaceTyped, FrameTyped, ImageTyped
<1>7. ForksApart'
  BY <1>t, <1>1, <1>2, SMT, SMTT(30) DEF ImageInv, ForksApart, Typed, StateTyped, PlaceTyped, FrameTyped
<1>8. Founders'
  BY <1>t, <1>2, <1>3, Places, SMT, SMTT(30) DEF ImageInv, Founders, Typed, StateTyped, OriginTyped
<1>9. EntriesClean'
  <2>1. swapFile[q] # "full"
    BY <1>1, Zenon DEF ImageInv, ImageKept, Loading, LoadJobs
  <2> QED
    BY <1>t, <1>2, <2>1, Zenon DEF ImageInv, EntriesClean, Typed, StateTyped, ImageTyped
<1>10. RunnableIsResident'
  BY <1>u, <1>2, Zenon DEF ImageInv, RunnableIsResident, Typed, StateTyped, ImageTyped
<1>11. ImageKept'
  BY <1>t, <1>1, <1>2, SMT, SMTT(30) DEF ImageInv, ImageKept, Typed, StateTyped, PlaceTyped, FrameTyped, ImageTyped
<1> QED
  BY <1>4, <1>5, <1>6, <1>7, <1>8, <1>9, <1>10, <1>11, Zenon DEF ImageInv

LEMMA SetSwappingStep ==
  ASSUME NCPU = 1, TypeOK, TypeOK', ImageInv, NEW c \in CPU, NEW p \in Slot, NEW on \in BOOLEAN,
         SetSwapping(c, p, on)
  PROVE  ImageInv'
<1>1. \A q \in Slot : ~swappingOut[q]
  BY InUser, Zenon DEF SetSwapping, Call
<1>2. UNCHANGED <<state, pid, parent, swappingOut, cur, pc, job, outer, loc, resident, swapFile>>
  BY Zenon DEF SetSwapping, table, cpus, stacks, memory
<1>3. StacksOK' /\ CurrentRuns' /\ Loading'
  BY <1>2, Zenon DEF ImageInv, StacksOK, CurrentRuns, Loading
<1>4. SwapsAlone'
  BY <1>1, <1>2, Zenon DEF ImageInv, SwapsAlone
<1>5. Founders' /\ ForksApart' /\ EntriesClean'
  BY <1>2, Zenon DEF ImageInv, Founders, ForksApart, EntriesClean
<1>6. RunnableIsResident' /\ ImageKept'
  BY <1>2, Zenon DEF ImageInv, RunnableIsResident, ImageKept
<1> QED
  BY <1>3, <1>4, <1>5, <1>6, Zenon DEF ImageInv

\* The processes that call sleep(): they have the CPU, and swap themselves out
\* already if they wait for the root directory in swapOut().
Sleeps(c, p) == \E ch \in Nat, lk \in Lock : Sleep(c, p, ch, lk)

LEMMA SleepingStep ==
  ASSUME NCPU = 1, TypeOK, TypeOK', ImageInv, NEW c \in CPU, NEW p \in Slot, cur[1] = p,
         pc[p] \in {"waiting", "sleep2", "sleepcheck", "icheck"}, Sleeps(c, p)
  PROVE  ImageInv'
<1>t. Typed
  BY Types, Zenon
<1>u. Typed'
  BY TypesThen, Zenon
<1>1. /\ job[p] \in {"wait", "sleep", "sleep2", "write", "read", "create", "open", "unlink"}
      /\ p = inswapper <=> job[p] \in LoadJobs
      /\ swappingOut[p] <=> job[p] = "create"
  BY Zenon DEF ImageInv, StacksOK, JobsAt, SwapsAlone, SwapJobs
<1>2. \A q \in Slot : swappingOut[q] => q = p
  BY Zenon DEF ImageInv, SwapsAlone
<1>3. /\ state' = [state EXCEPT ![p] = "SLEEPING"]
      /\ UNCHANGED <<pid, parent, swapFlag, loc, resident, swapFile>>
  BY Zenon DEF Sleeps, Sleep, globals, memory
<1>4. state[p] \in {"RUNNING", "RUNNABLE", "SLEEPING"} /\ resident[p]
  <2>1. state[p] \in {"RUNNING", "RUNNABLE", "SLEEPING"}
    BY Current, Zenon
  <2> QED
    BY <2>1, Zenon DEF ImageInv, RunnableIsResident, SwapsAlone
<1>5. Founders' /\ EntriesClean'
  BY <1>t, <1>3, SMT, SMTT(30) DEF ImageInv, Founders, EntriesClean, Typed, StateTyped
<1>6. RunnableIsResident'
  <2>1. \A q \in Slot \ {p} : state'[q] = state[q] /\ resident'[q] = resident[q] /\ ~swappingOut[q]
    BY <1>u, <1>2, <1>3, Zenon DEF Typed, StateTyped
  <2>2. resident'[p]
    BY <1>3, <1>4, Zenon
  <2> QED
    BY <2>1, <2>2, Zenon DEF ImageInv, RunnableIsResident
<1>7. CASE swapFlag /\ pid[p] > 3
  <2>1. /\ swappingOut' = [swappingOut EXCEPT ![p] = TRUE] /\ UNCHANGED cur
        /\ pc' = [pc EXCEPT ![p] = "begin"] /\ job' = [job EXCEPT ![p] = "create"]
        /\ outer' = [outer EXCEPT ![p] = IF job[p] = "create" THEN @ ELSE job[p]]
    BY <1>7, Zenon DEF Sleeps, Sleep
  <2>2. p \notin {initproc, inswapper}
    BY <1>7, SMT, SMTT(30) DEF ImageInv, Founders, initproc, inswapper
  <2>3. StacksOK' /\ CurrentRuns'
    BY <1>t, <1>3, <2>1, <2>2, SMT, SMTT(30)
       DEF ImageInv, StacksOK, CurrentRuns, Typed, StateTyped, FlagsTyped, PlaceTyped, JobsAt, LoadJobs
  <2>4. SwapsAlone'
    <3>1. outer'[p] \in {"wait", "sleep", "sleep2", "read", "write"}
      BY <1>t, <1>1, <2>1, <2>2, Zenon DEF ImageInv, SwapsAlone, Typed, FrameTyped, LoadJobs
    <3>2. \A q \in Slot \ {p} : ~swappingOut'[q] /\ job'[q] = job[q] /\ ~swappingOut[q]
      BY <1>u, <1>2, <2>1, Zenon DEF Typed, FlagsTyped, PlaceTyped
    <3>3. swappingOut'[p] /\ job'[p] = "create" /\ pc'[p] = "begin" /\ state'[p] = "SLEEPING" /\ resident'[p]
      BY <1>u, <1>3, <1>4, <2>1, Zenon DEF Typed, StateTyped, FlagsTyped, PlaceTyped
    <3> QED
      BY <1>3, <1>7, <2>1, <3>1, <3>3, SMT, SMTT(30) DEF ImageInv, SwapsAlone, SwapJobs
  <2>5. Loading' /\ ImageKept'
    BY <1>t, <1>3, <1>4, <2>1, <2>2, SMT, SMTT(30) DEF ImageInv, Loading, ImageKept, Typed, StateTyped, PlaceTyped
  <2>6. ForksApart'
    BY <1>t, <1>3, <1>4, <2>1, SMT, SMTT(30) DEF ImageInv, ForksApart, Typed, StateTyped, PlaceTyped
  <2> QED
    BY <1>5, <1>6, <2>3, <2>4, <2>5, <2>6, Zenon DEF ImageInv
<1>8. CASE ~(swapFlag /\ pid[p] > 3)
  <2>1. /\ cur' = [cur EXCEPT ![c] = NULL] /\ pc' = [pc EXCEPT ![p] = Resume(job[p])]
        /\ UNCHANGED <<swappingOut, outer, job>>
    BY <1>8, Zenon DEF Sleeps, Sleep, Sched
  <2>2. cur'[1] = NULL
    BY <2>1, TheCpu, SMT, SMTT(30) DEF TypeOK, CpuType
  <2>3. \A q \in Slot : ~swappingOut[q]
    BY <1>8, Zenon DEF ImageInv, SwapsAlone
  <2>4. /\ job[p] \in JobsAt(Resume(job[p])) /\ Resume(job[p]) \notin {"scan", "loaded", "forking", "user"}
        /\ pc[p] # "scan"
    BY <1>1, Zenon DEF Resume, JobsAt
  <2>5. StacksOK' /\ CurrentRuns'
    BY <1>t, <1>3, <2>1, <2>2, <2>4, Zenon
       DEF ImageInv, StacksOK, CurrentRuns, Typed, StateTyped, PlaceTyped
  <2>6. SwapsAlone'
    BY <2>1, <2>3, Zenon DEF ImageInv, SwapsAlone
  <2>7. Loading' /\ ImageKept'
    BY <1>t, <1>3, <1>4, <2>1, <2>4, SMT, SMTT(30) DEF ImageInv, Loading, ImageKept, Typed, StateTyped, PlaceTyped
  <2>8. ForksApart'
    BY <1>t, <1>3, <1>4, <2>1, <2>4, SMT, SMTT(30) DEF ImageInv, ForksApart, Typed, StateTyped, PlaceTyped
  <2> QED
    BY <1>5, <1>6, <2>5, <2>6, <2>7, <2>8, Zenon DEF ImageInv
<1> QED
  BY <1>7, <1>8, Zenon

\* swapOut(): the process has the CPU and is SLEEPING.
LEMMA SwapOutStep ==
  ASSUME NCPU = 1, TypeOK, TypeOK', ImageInv, NEW c \in CPU, NEW p \in Slot,
         SwapOutCreate(c, p) \/ SwapOutSave(c, p) \/ SwapOutFail(c, p)
  PROVE  ImageInv'
<1>t. Typed
  BY Types, Zenon
<1>u. Typed'
  BY TypesThen, Zenon
<1>1. /\ cur[1] = p /\ pc[p] \in {"commit", "save"} /\ job[p] \in SwapJobs
      /\ (SwapOutCreate(c, p) => job[p] = "create")
  BY TheCpu, Zenon DEF SwapOutCreate, SwapOutSave, SwapOutFail, At, ImageInv, StacksOK, JobsAt, SwapJobs
<1>2. swappingOut[p] /\ state[p] = "SLEEPING" /\ resident[p] /\ p # inswapper
  BY <1>1, Swapper, Zenon DEF ImageInv, SwapsAlone
<1>3. UNCHANGED <<state, pid, parent, swappingOut, swapFlag, cur, outer, loc>>
  BY Zenon DEF SwapOutCreate, SwapOutSave, SwapOutFail, table, globals, cpus
<1>4. /\ \E k \in {"begin", "swapped"} : pc' = [pc EXCEPT ![p] = k]
      /\ \E j \in SwapJobs : job' = [job EXCEPT ![p] = j] /\ j \in JobsAt(pc'[p])
  BY <1>t, <1>1, SMT, SMTT(30) DEF SwapOutCreate, SwapOutSave, SwapOutFail, SwapJobs, JobsAt, Typed, PlaceTyped
<1>5. \/ resident' = resident /\ swapFile' = [swapFile EXCEPT ![p] = "partial"]
      \/ resident' = [resident EXCEPT ![p] = FALSE] /\ swapFile' = [swapFile EXCEPT ![p] = "full"]
         /\ pc'[p] = "swapped"
      \/ UNCHANGED <<resident, swapFile>>
  BY <1>t, Zenon DEF SwapOutCreate, SwapOutSave, SwapOutFail, memory, Typed, PlaceTyped
<1>6. StacksOK' /\ CurrentRuns'
  BY <1>t, <1>2, <1>3, <1>4, SMT, SMTT(30) DEF ImageInv, StacksOK, CurrentRuns, Typed, PlaceTyped, SwapJobs, LoadJobs
<1>7. SwapsAlone'
  <2>1. \A q \in Slot \ {p} : job'[q] = job[q] /\ ~swappingOut[q]
    BY <1>t, <1>1, <1>4, SMT, SMTT(30) DEF ImageInv, SwapsAlone, Typed, PlaceTyped
  <2>2. job'[p] \in SwapJobs /\ (pc'[p] # "swapped" => resident'[p])
    BY <1>u, <1>2, <1>4, <1>5, Zenon DEF Typed, PlaceTyped
  <2> QED
    BY <1>2, <1>3, <2>1, <2>2, Zenon DEF ImageInv, SwapsAlone
<1>8. Loading'
  <2>1. job[inswapper] \in LoadJobs => loc[inswapper] # p
    BY <1>2, Zenon DEF ImageInv, Loading
  <2>2. pc[inswapper] = "loaded" => job[inswapper] = "unlink"
    BY Places, Zenon DEF ImageInv, StacksOK, JobsAt
  <2>3. pc'[inswapper] = pc[inswapper] /\ job'[inswapper] = job[inswapper]
    BY <1>t, <1>2, <1>4, Places, Zenon
       DEF Typed, StateTyped, OriginTyped, FlagsTyped, PlaceTyped, FrameTyped, ImageTyped
  <2> QED
    BY <1>t, <1>3, <1>5, <2>1, <2>2, <2>3, Zenon DEF ImageInv, Loading, LoadJobs, Typed, ImageTyped
<1>9. Founders' /\ EntriesClean'
  BY <1>t, <1>2, <1>3, <1>5, SMT, SMTT(30) DEF ImageInv, Founders, EntriesClean, Typed, ImageTyped
<1>10. ForksApart'
  BY <1>t, <1>3, <1>4, SMT, SMTT(30) DEF ImageInv, ForksApart, Typed, PlaceTyped
<1>11. RunnableIsResident'
  BY <1>t, <1>2, <1>3, <1>5, Zenon DEF ImageInv, RunnableIsResident, Typed, ImageTyped
<1>12. ImageKept'
  <2>1. swapFile[p] # "full"
    BY <1>2, Zenon DEF ImageInv, ImageKept, Loading, LoadJobs
  <2>2. job'[inswapper] = job[inswapper]
    BY <1>u, <1>2, <1>4, Places, Zenon DEF Typed, StateTyped, PlaceTyped
  <2> QED
    BY <1>t, <1>3, <1>5, <2>1, <2>2, SMT, SMTT(30) DEF ImageInv, ImageKept, Typed, PlaceTyped, ImageTyped
<1> QED
  BY <1>6, <1>7, <1>8, <1>9, <1>10, <1>11, <1>12, Zenon DEF ImageInv

LEMMA SwapOutEndStep ==
  ASSUME NCPU = 1, TypeOK, TypeOK', ImageInv, NEW c \in CPU, NEW p \in Slot, SwapOutEnd(c, p)
  PROVE  ImageInv'
<1>t. Typed
  BY Types, Zenon
<1>u. Typed'
  BY TypesThen, Zenon
<1>1. /\ cur[1] = p /\ pc[p] = "swapped" /\ job[p] \in SwapJobs
  BY TheCpu, Zenon DEF SwapOutEnd, At, ImageInv, StacksOK, JobsAt
<1>2. /\ swappingOut[p] /\ state[p] = "SLEEPING" /\ p # inswapper /\ p # initproc
      /\ outer[p] \in {"wait", "sleep", "sleep2", "read", "write"}
      /\ \A q \in Slot \ {p} : ~swappingOut[q]
  BY <1>1, Swapper, Zenon DEF ImageInv, SwapsAlone
<1>3. /\ swappingOut' = [swappingOut EXCEPT ![p] = FALSE]
      /\ pc' = [pc EXCEPT ![p] = Resume(outer[p])] /\ job' = [job EXCEPT ![p] = outer[p]]
      /\ UNCHANGED <<pid, parent, swapFlag, loc, resident, swapFile>>
  BY Zenon DEF SwapOutEnd, globals, memory
<1>4. cur'[1] = NULL
  BY TheCpu, SMT, SMTT(30) DEF SwapOutEnd, Sched, TypeOK, CpuType
<1>5. /\ state'[p] \in {"RUNNABLE_SUSPENDED", "SLEEPING_SUSPENDED"}
      /\ \A q \in Slot \ {p} : state'[q] = state[q] \/ (q = inswapper /\ state'[q] = "RUNNABLE")
  BY <1>u, <1>2, Zenon DEF SwapOutEnd, Typed, StateTyped
<1>6. \A q \in Slot : state[q] # "RUNNING" /\ state'[q] # "RUNNING"
  BY <1>1, <1>2, <1>5, Zenon DEF ImageInv, CurrentRuns
<1>7. StacksOK'
  <2>1. outer[p] \in JobsAt(Resume(outer[p])) /\ Resume(outer[p]) # "scan"
    BY <1>2, Zenon DEF Resume, JobsAt
  <2> QED
    BY <1>t, <1>2, <1>3, <1>5, <2>1, Zenon DEF ImageInv, StacksOK, Typed, PlaceTyped, LoadJobs
<1>8. CurrentRuns' /\ SwapsAlone'
  BY <1>t, <1>2, <1>3, <1>4, <1>6, Zenon
     DEF ImageInv, CurrentRuns, SwapsAlone, SwapJobs, Typed, FlagsTyped, PlaceTyped
<1>9. Loading'
  BY <1>t, <1>2, <1>3, <1>5, SMT, SMTT(30) DEF ImageInv, Loading, Founders, Typed, PlaceTyped, FrameTyped
<1>10. Founders' /\ EntriesClean'
  BY <1>2, <1>3, <1>5, Places, SMT, SMTT(30) DEF ImageInv, Founders, EntriesClean
<1>11. ForksApart'
  <2>1. \A q \in Slot : pc'[q] = "forking" => pc[q] = "forking" /\ q # p
    BY <1>t, <1>3, SMT, SMTT(30) DEF Typed, PlaceTyped, Resume
  <2>2. \A q \in Slot : state[q] = "EMBRYO" => state'[q] = "EMBRYO"
    BY <1>2, <1>5, Zenon DEF ImageInv, Founders
  <2> QED
    BY <1>3, <2>1, <2>2, Zenon DEF ImageInv, ForksApart
<1>12. RunnableIsResident'
  <2>1. resident'[inswapper] /\ state'[p] \notin {"RUNNABLE", "RUNNING", "SLEEPING"}
    BY <1>3, <1>5, Swapper, Zenon
  <2>2. \A q \in Slot \ {p, inswapper} : state'[q] = state[q] /\ ~swappingOut[q] /\ resident'[q] = resident[q]
    BY <1>2, <1>3, <1>5, Zenon
  <2> QED
    BY <2>1, <2>2, Zenon DEF ImageInv, RunnableIsResident
<1>13. ImageKept'
  <2>1. \A q \in Slot : state[q] \in {"UNUSED", "EMBRYO"} => state'[q] = state[q]
    BY <1>2, <1>5, Zenon DEF ImageInv, Founders
  <2>2. job'[inswapper] = job[inswapper]
    BY <1>t, <1>2, <1>3, SMT, SMTT(30) DEF Typed, PlaceTyped
  <2> QED
    BY <1>3, <2>1, <2>2, Zenon DEF ImageInv, ImageKept
<1> QED
  BY <1>7, <1>8, <1>9, <1>10, <1>11, <1>12, <1>13, Zenon DEF ImageInv

\* swapIn(): inswapper has the CPU, so nobody swaps itself out.
LEMMA InSwapIn ==
  ASSUME NCPU = 1, TypeOK, ImageInv, NEW c \in CPU, cur[c] = inswapper
  PROVE  /\ cur[1] = inswapper /\ \A q \in Slot : ~swappingOut[q]
         /\ \A q \in Slot : state[q] = "RUNNING" => q = inswapper
BY TheCpu, Swapper, Zenon DEF ImageInv, SwapsAlone, CurrentRuns

LEMMA RestartStep ==
  ASSUME NCPU = 1, TypeOK, TypeOK', ImageInv, NEW c \in CPU, cur[c] = inswapper,
         pc[inswapper] \in {"scan", "load"}, SwapInRestart(c)
  PROVE  ImageInv'
<1>t. Typed
  BY Types, Zenon
<1>u. Typed'
  BY TypesThen, Zenon
<1>1. /\ cur[1] = inswapper /\ \A q \in Slot : ~swappingOut[q]
      /\ \A q \in Slot : state[q] = "RUNNING" => q = inswapper
  BY InSwapIn, Zenon
<1>2. /\ loc' = [loc EXCEPT ![inswapper] = 1] /\ pc' = [pc EXCEPT ![inswapper] = "scan"]
      /\ job' = [job EXCEPT ![inswapper] = "none"]
      /\ UNCHANGED <<outer, pid, parent, swappingOut, swapFlag, resident, swapFile>>
  BY Zenon DEF SwapInRestart, globals, memory
<1>3. \/ UNCHANGED <<state, cur>>
      \/ state' = [state EXCEPT ![inswapper] = "SLEEPING"] /\ cur'[1] \in {NULL, inswapper}
  <2>1. 1 \in CPU /\ cur \in [CPU -> Slot \cup {NULL}] /\ c = 1
    BY TheCpu, Zenon DEF TypeOK, CpuType
  <2>2. Sched(c, inswapper) => cur'[1] = NULL
    BY <2>1, Zenon DEF Sched
  <2>3. CASE swappedout > 0
    BY <2>3, Zenon DEF SwapInRestart
  <2>4. CASE ~(swappedout > 0)
    <3>1. /\ state' = [state EXCEPT ![inswapper] = "SLEEPING"]
          /\ Sched(c, inswapper) \/ UNCHANGED cur
      BY <2>4, Zenon DEF SwapInRestart
    <3> QED
      BY <1>1, <2>2, <3>1, Zenon
  <2> QED
    BY <2>3, <2>4, Zenon
<1>4. \A q \in Slot : state'[q] = state[q] \/ (q = inswapper /\ state'[q] = "SLEEPING")
  BY <1>u, <1>3, Zenon DEF Typed, StateTyped
<1>5. state[inswapper] \in {"RUNNABLE", "RUNNING", "SLEEPING"} /\ job[inswapper] # "unlink" /\ inswapper \in Slot
  BY Places, Zenon DEF ImageInv, Founders, StacksOK, JobsAt
<1>6. StacksOK' /\ CurrentRuns'
  BY <1>t, <1>1, <1>2, <1>3, SMT, SMTT(30) DEF ImageInv, StacksOK, CurrentRuns, Typed, StateTyped, PlaceTyped, JobsAt
<1>7. SwapsAlone' /\ Loading'
  BY <1>t, <1>1, <1>2, <1>5, Zenon
     DEF ImageInv, SwapsAlone, SwapJobs, LoadJobs, Loading, Typed, PlaceTyped
<1>8. Founders' /\ EntriesClean' /\ RunnableIsResident'
  BY <1>2, <1>4, Swapper, SMT, SMTT(30) DEF ImageInv, Founders, EntriesClean, RunnableIsResident
<1>9. ForksApart'
  BY <1>t, <1>2, <1>4, <1>5, SMT, SMTT(30) DEF ImageInv, ForksApart, Typed, StateTyped, PlaceTyped, FrameTyped
<1>10. ImageKept'
  BY <1>2, <1>4, <1>5, Zenon DEF ImageInv, ImageKept
<1> QED
  BY <1>6, <1>7, <1>8, <1>9, <1>10, Zenon DEF ImageInv

LEMMA LoadStep ==
  ASSUME NCPU = 1, TypeOK, TypeOK', ImageInv, NEW c \in CPU, SwapInLoad(c)
  PROVE  ImageInv'
<1>t. Typed
  BY Types, Zenon
<1> DEFINE t == loc[inswapper]
<1>1. /\ cur[1] = inswapper /\ (\A q \in Slot : ~swappingOut[q]) /\ inswapper \in Slot
  BY InSwapIn, Places, Zenon DEF SwapInLoad, At
<1>2. pc[inswapper] = "load" /\ job[inswapper] = "open"
  BY <1>1, Zenon DEF SwapInLoad, At, ImageInv, StacksOK, JobsAt
<1>3. t \in Slot /\ state[t] = "RUNNABLE_SUSPENDED"
  BY <1>2, Zenon DEF ImageInv, Loading, LoadJobs
<1>4. UNCHANGED <<state, pid, parent, swappingOut, swapFlag, cur, outer, loc, swapFile>>
  BY Zenon DEF SwapInLoad, table, globals, cpus
<1>5. CASE resident[t]
  <2>1. UNCHANGED <<resident, pc, job>>
    BY <1>5, Zenon DEF SwapInLoad
  <2> QED
    BY <1>4, <2>1, SMT, SMTT(30)
       DEF ImageInv, StacksOK, CurrentRuns, SwapsAlone, Loading, Founders, ForksApart, EntriesClean,
           RunnableIsResident, ImageKept
<1>6. CASE ~resident[t]
  <2>1. /\ resident' = [resident EXCEPT ![t] = TRUE]
        /\ pc' = [pc EXCEPT ![inswapper] = "begin"] /\ job' = [job EXCEPT ![inswapper] = "unlink"]
    BY <1>6, Zenon DEF SwapInLoad
  <2>2. StacksOK' /\ CurrentRuns'
    BY <1>t, <1>4, <2>1, SMT, SMTT(30) DEF ImageInv, StacksOK, CurrentRuns, Typed, PlaceTyped, JobsAt, LoadJobs
  <2>3. SwapsAlone' /\ Loading'
    BY <1>t, <1>2, <1>4, <2>1, SMT, SMTT(30)
       DEF ImageInv, SwapsAlone, SwapJobs, LoadJobs, Loading, Typed, PlaceTyped, ImageTyped
  <2>4. Founders' /\ EntriesClean' /\ RunnableIsResident'
    BY <1>t, <1>4, <2>1, Zenon DEF ImageInv, Founders, EntriesClean, RunnableIsResident, Typed, ImageTyped
  <2>5. ForksApart'
    BY <1>t, <1>4, <2>1, Zenon DEF ImageInv, ForksApart, Typed, PlaceTyped
  <2>6. ImageKept'
    BY <1>t, <1>1, <1>4, <2>1, Zenon DEF ImageInv, ImageKept, Typed, PlaceTyped, ImageTyped
  <2> QED
    BY <2>2, <2>3, <2>4, <2>5, <2>6, Zenon DEF ImageInv
<1> QED
  BY <1>5, <1>6, Zenon

LEMMA UnlinkStep ==
  ASSUME NCPU = 1, TypeOK, TypeOK', ImageInv, NEW c \in CPU, SwapInUnlink(c)
  PROVE  ImageInv'
<1>t. Typed
  BY Types, Zenon
<1>u. Typed'
  BY TypesThen, Zenon
<1> DEFINE t == loc[inswapper]
<1>1. /\ cur[1] = inswapper /\ (\A q \in Slot : ~swappingOut[q]) /\ inswapper \in Slot
  BY InSwapIn, Places, Zenon DEF SwapInUnlink, At
<1>2. pc[inswapper] = "commit" /\ job[inswapper] = "unlink"
  BY <1>1, Zenon DEF SwapInUnlink, At, ImageInv, StacksOK, JobsAt, LoadJobs
<1>3. t \in Slot /\ state[t] = "RUNNABLE_SUSPENDED" /\ resident[t]
  BY <1>2, Zenon DEF ImageInv, Loading, LoadJobs
<1>4. /\ UNCHANGED <<state, pid, parent, swappingOut, swapFlag, cur, outer, loc, job, resident>>
      /\ swapFile' = [swapFile EXCEPT ![t] = "none"] /\ pc' = [pc EXCEPT ![inswapper] = "loaded"]
  BY Zenon DEF SwapInUnlink, table, globals, cpus
<1>5. StacksOK' /\ CurrentRuns'
  BY <1>t, <1>2, <1>4, SMT, SMTT(30) DEF ImageInv, StacksOK, CurrentRuns, Typed, PlaceTyped, JobsAt
<1>6. SwapsAlone' /\ Loading'
  BY <1>u, <1>1, <1>3, <1>4, Zenon DEF ImageInv, SwapsAlone, Loading, Typed, ImageTyped
<1>7. Founders' /\ EntriesClean' /\ RunnableIsResident'
  BY <1>t, <1>4, Zenon DEF ImageInv, Founders, EntriesClean, RunnableIsResident, Typed, ImageTyped
<1>8. ForksApart'
  BY <1>t, <1>4, Zenon DEF ImageInv, ForksApart, Typed, PlaceTyped
<1>9. ImageKept'
  BY <1>t, <1>3, <1>4, Zenon DEF ImageInv, ImageKept, Typed, ImageTyped
<1> QED
  BY <1>5, <1>6, <1>7, <1>8, <1>9, Zenon DEF ImageInv

LEMMA LoadedStep ==
  ASSUME NCPU = 1, TypeOK, TypeOK', ImageInv, NEW c \in CPU, SwapInDone(c)
  PROVE  ImageInv'
<1>t. Typed
  BY Types, Zenon
<1> DEFINE t == loc[inswapper]
<1>1. /\ cur[1] = inswapper /\ (\A q \in Slot : ~swappingOut[q]) /\ inswapper \in Slot
      /\ \A q \in Slot : state[q] = "RUNNING" => q = inswapper
  BY InSwapIn, Places, Zenon DEF SwapInDone, At
<1>2. pc[inswapper] = "loaded" /\ job[inswapper] = "unlink"
  BY <1>1, Zenon DEF SwapInDone, At, ImageInv, StacksOK, JobsAt
<1>3. t \in Slot /\ state[t] = "RUNNABLE_SUSPENDED" /\ resident[t] /\ swapFile[t] # "full" /\ t # inswapper
  BY <1>2, Zenon DEF ImageInv, Loading, LoadJobs, Founders
<1>4. /\ UNCHANGED <<pid, parent, swappingOut, swapFlag, cur, outer, resident, swapFile>>
      /\ state' = [state EXCEPT ![t] = "RUNNABLE"] /\ loc' = [loc EXCEPT ![inswapper] = t + 1]
      /\ pc' = [pc EXCEPT ![inswapper] = "scan"] /\ job' = [job EXCEPT ![inswapper] = "none"]
  BY Zenon DEF SwapInDone, memory
<1>5. StacksOK' /\ CurrentRuns'
  BY <1>t, <1>2, <1>3, <1>4, SMT, SMTT(30) DEF ImageInv, StacksOK, CurrentRuns, Typed, StateTyped, PlaceTyped, JobsAt
<1>6. SwapsAlone' /\ Loading'
  BY <1>t, <1>1, <1>4, Zenon DEF ImageInv, SwapsAlone, Loading, SwapJobs, LoadJobs, Typed, PlaceTyped
<1>7. Founders' /\ EntriesClean' /\ RunnableIsResident'
  BY <1>t, <1>3, <1>4, SMT, SMTT(30) DEF ImageInv, Founders, EntriesClean, RunnableIsResident, Typed, StateTyped
<1>8. ForksApart'
  BY <1>t, <1>3, <1>4, SMT, SMTT(30) DEF ImageInv, ForksApart, Typed, StateTyped, PlaceTyped, FrameTyped
<1>9. ImageKept'
  BY <1>t, <1>3, <1>4, Zenon DEF ImageInv, ImageKept, Typed, StateTyped
<1> QED
  BY <1>5, <1>6, <1>7, <1>8, <1>9, Zenon DEF ImageInv

-----------------------------------------------------------------------------
(* Where the memory of a process is.                                       *)

\* A process on the CPU calls sleep(): for an inode only if that is locked, on
\* its own address only if wait() found no reason not to.
Dozes(c, p) ==
  /\ cur[c] = p /\ pc[p] \in {"waiting", "sleep2", "sleepcheck", "icheck"}
  /\ \E ch \in Nat, lk \in Lock :
       /\ Sleep(c, p, ch, lk)
       /\ \A i \in Inode : ch = InodeChan(i) => inodeOwner[i] # NULL
       /\ ch \in Slot => /\ ch = p /\ ~killed[p]
                         /\ \A r \in Slot : parent[r] = p => state[r] # "ZOMBIE"

LEMMA Dozing ==
  ASSUME TypeOK, NEW c \in CPU, NEW p \in Slot,
         Sleep2Sleep(c, p) \/ SleepMore(c, p) \/ IlockSleep(c, p)
  PROVE  Dozes(c, p)
<1>1. Target(p) \in Nat
  BY TargetNat, Zenon
<1>2. ASSUME NEW ch \in CallChan, NEW lk \in Lock, Sleep(c, p, ch, lk), cur[c] = p,
             pc[p] \in {"waiting", "sleep2", "sleepcheck", "icheck"},
             \A i \in Inode : ch = InodeChan(i) => inodeOwner[i] # NULL
      PROVE  Dozes(c, p)
  BY <1>2, Zenon DEF Dozes, CallChan
<1>3. CASE Sleep2Sleep(c, p)
  BY <1>2, <1>3, CallChans, Zenon DEF Sleep2Sleep, At, Lock
<1>4. CASE SleepMore(c, p)
  BY <1>2, <1>4, CallChans, Zenon DEF SleepMore, At, Lock
<1>5. CASE IlockSleep(c, p)
  BY <1>1, <1>2, <1>5, CallChans, SMT, SMTT(30) DEF IlockSleep, At, Lock
<1> QED
  BY <1>3, <1>4, <1>5, Zenon

LEMMA WaitDozes ==
  ASSUME NEW c \in CPU, NEW p \in Slot, WaitNone(c, p)
  PROVE  WaitGivesUp(c, p) \/ Dozes(c, p)
<1>1. CASE killed[p] \/ \A r \in Slot : parent[r] # p
  BY <1>1, Zenon DEF WaitNone, WaitGivesUp
<1>2. CASE ~(killed[p] \/ \A r \in Slot : parent[r] # p)
  <2>1. /\ Sleep(c, p, p, "ptable") /\ cur[c] = p /\ pc[p] = "waiting" /\ ~killed[p]
        /\ \A r \in Slot : parent[r] = p => state[r] # "ZOMBIE"
    BY <1>2, Zenon DEF WaitNone, At
  <2>2. \A i \in Inode : p # InodeChan(i)
    BY CallChans, SMT, SMTT(30) DEF CallChan, Inode
  <2>3. p \in Nat /\ "ptable" \in Lock
    BY Places, Zenon DEF Lock
  <2> QED
    BY <2>1, <2>2, <2>3, Zenon DEF Dozes
<1> QED
  BY <1>1, <1>2, Zenon

\* The steps of the kernel, as the proofs distinguish them.
StepOf(c, p) ==
  \/ Calms(c, p) \/ Dozes(c, p) \/ Dispatch(c, p) \/ Yield(c, p)
  \/ (\E q \in Slot : ForkAlloc(c, p, q)) \/ ForkFail(c, p) \/ ForkDone(c, p)
  \/ Exit(c, p) \/ (\E q \in Slot : WaitReap(c, p, q))
  \/ (\E on \in BOOLEAN : SetSwapping(c, p, on))
  \/ (SwapOutCreate(c, p) \/ SwapOutSave(c, p) \/ SwapOutFail(c, p)) \/ SwapOutEnd(c, p)
  \/ (cur[c] = inswapper /\ pc[inswapper] \in {"scan", "load"} /\ SwapInRestart(c))
  \/ SwapInLoad(c) \/ SwapInUnlink(c) \/ SwapInDone(c)

LEMMA Steps ==
  ASSUME NCPU = 1, TypeOK, Next
  PROVE  \E c \in CPU, p \in Slot : StepOf(c, p)
<1>0. 1 \in CPU /\ 1 \in Slot
  BY NCPUAssumption, NPROCAssumption, SMT, SMTT(30) DEF CPU, Slot
<1>1. ASSUME NEW c \in CPU, ScanEnd(c) \/ SwapInStep(c) PROVE StepOf(c, 1)
  BY <1>1, Zenon DEF SwapInStep, SwapInScanned, SwapInBreak, At, Calms, StepOf
<1>2. ASSUME NEW c \in CPU, NEW p \in Slot, KernelStep(c, p) PROVE StepOf(c, p)
  <2>1. CASE WaitNone(c, p)
    BY <2>1, WaitDozes, Zenon DEF StepOf, Calms
  <2>2. CASE Sleep2Sleep(c, p) \/ SleepMore(c, p) \/ IlockSleep(c, p)
    BY <2>2, Dozing, Zenon DEF StepOf
  <2> QED
    BY <1>2, <2>1, <2>2, Zenon DEF KernelStep, StepOf, Calms, KernelMoves
<1>3. ASSUME NEW c \in CPU, NEW p \in Slot, Dispatch(c, p) \/ Yield(c, p) \/ UserStep(c, p)
      PROVE  StepOf(c, p)
  BY <1>3, Zenon DEF UserStep, StepOf, Calms, UserMoves
<1>4. ASSUME Tick PROVE StepOf(1, 1)
  BY <1>4, Zenon DEF StepOf, Calms
<1> QED
  BY <1>0, <1>1, <1>2, <1>3, <1>4, Zenon DEF Next

LEMMA ImageStep ==
  ASSUME NCPU = 1, TypeOK, TypeOK', ImageInv, [Next]_vars
  PROVE  ImageInv'
<1>1. CASE UNCHANGED vars
  BY <1>1, SMT, SMTT(30)
     DEF vars, table, globals, cpus, stacks, memory, ImageInv, StacksOK, CurrentRuns, SwapsAlone,
         Loading, Founders, ForksApart, EntriesClean, RunnableIsResident, ImageKept
<1>2. CASE Next
  <2>1. PICK c \in CPU, p \in Slot : StepOf(c, p)
    BY <1>2, Steps, Zenon
  <2>2. ASSUME Calms(c, p) PROVE ImageInv'
    BY <2>2, CalmSteps, CalmStep, Zenon
  <2>3. ASSUME Dozes(c, p) PROVE ImageInv'
    <3>1. cur[1] = p /\ pc[p] \in {"waiting", "sleep2", "sleepcheck", "icheck"} /\ Sleeps(c, p)
      BY <2>3, TheCpu, Zenon DEF Dozes, Sleeps
    <3> QED
      BY <3>1, SleepingStep, Zenon
  <2> QED
    BY <2>1, <2>2, <2>3, DispatchStep, YieldStep, ForkAllocStep, ForkFailStep, ForkDoneStep,
       ExitingStep, WaitReapStep, SetSwappingStep, SwapOutStep, SwapOutEndStep, RestartStep,
       LoadStep, UnlinkStep, LoadedStep, Zenon
       DEF StepOf
<1> QED
  BY <1>1, <1>2, Zenon

LEMMA ImageInit == NCPU = 1 /\ Init => ImageInv
<1> SUFFICES ASSUME NCPU = 1, Init PROVE ImageInv
  OBVIOUS
<1>1. initproc \in Slot /\ inswapper \in Slot /\ initproc # inswapper /\ NULL \notin Slot /\ 1 \in CPU
  BY Places, NCPUAssumption, SMT, SMTT(30) DEF NULL, CPU
<1>2. initproc \notin Started /\ Started \subseteq Slot
  BY StartedAssumption, SMT, SMTT(30) DEF initproc, Slot
<1>3. StacksOK
  BY Zenon DEF Init, StacksOK, JobsAt, LoadJobs
<1>4. CurrentRuns /\ SwapsAlone /\ ForksApart
  BY <1>1, Zenon DEF Init, CurrentRuns, SwapsAlone, SwapJobs, ForksApart
<1>5. Loading /\ EntriesClean /\ RunnableIsResident /\ ImageKept
  BY <1>1, Zenon DEF Init, Loading, LoadJobs, EntriesClean, RunnableIsResident, ImageKept
<1>6. Founders
  BY <1>1, <1>2, Zenon DEF Init, Founders
<1> QED
  BY <1>3, <1>4, <1>5, <1>6, Zenon DEF ImageInv

-----------------------------------------------------------------------------
(* Wakeups.                                                                *)

Resting == {"SLEEPING", "SLEEPING_SUSPENDED"}

WakeInv == NoMissedWakeup /\ NoMissedExit /\ KilledNotWaiting

\* Nobody falls asleep, loses a wakeup or is killed asleep; no child becomes a
\* ZOMBIE; no inode is unlocked and no wakeup() for one is completed.
Steady ==
  /\ \A q \in Slot :
       state'[q] \in Resting =>
         /\ state[q] \in Resting /\ chan'[q] = chan[q]
         /\ (wokenUp[q] => wokenUp'[q]) /\ (killed'[q] => killed[q])
  /\ \A q \in Slot : state'[q] = "ZOMBIE" => state[q] = "ZOMBIE" /\ parent'[q] = parent[q]
  /\ \A i \in Inode : inodeOwner[i] # NULL => inodeOwner'[i] # NULL
  /\ \A q \in Slot : pc[q] = "iwake" => pc'[q] = "iwake" /\ job'[q] = job[q] /\ loc'[q] = loc[q]

LEMMA SteadyStep ==
  ASSUME WakeInv, Steady
  PROVE  WakeInv'
<1>1. NoMissedWakeup'
  <2>1. \A q \in Slot : pc[q] = "iwake" => pc'[q] = "iwake" /\ Target(q)' = Target(q)
    BY Zenon DEF Steady, Target
  <2> SUFFICES ASSUME NEW p \in Slot, NEW i \in Inode, state'[p] \in Resting, chan'[p] = InodeChan(i)
               PROVE  \/ inodeOwner'[i] # NULL \/ wokenUp'[p]
                      \/ \E q \in Slot : pc'[q] = "iwake" /\ Target(q)' = i
    BY Zenon DEF NoMissedWakeup, Resting
  <2>2. state[p] \in Resting /\ chan[p] = InodeChan(i) /\ (wokenUp[p] => wokenUp'[p])
    BY Zenon DEF Steady
  <2>3. inodeOwner[i] # NULL \/ wokenUp[p] \/ \E q \in Slot : pc[q] = "iwake" /\ Target(q) = i
    BY <2>2, Zenon DEF WakeInv, NoMissedWakeup, Resting
  <2> QED
    BY <2>1, <2>2, <2>3, Zenon DEF Steady
<1>2. NoMissedExit'
  <2> SUFFICES ASSUME NEW p \in Slot, NEW q \in Slot, state'[p] \in Resting, chan'[p] = p,
                      parent'[q] = p, state'[q] = "ZOMBIE"
               PROVE  wokenUp'[p]
    BY Zenon DEF NoMissedExit, Resting
  <2>1. state[p] \in Resting /\ chan[p] = p /\ (wokenUp[p] => wokenUp'[p])
    BY Zenon DEF Steady
  <2>2. parent[q] = p /\ state[q] = "ZOMBIE"
    BY Zenon DEF Steady
  <2>3. wokenUp[p]
    BY <2>1, <2>2, Zenon DEF WakeInv, NoMissedExit, Resting
  <2> QED
    BY <2>1, <2>3, SMT, SMTT(30)
<1>3. KilledNotWaiting'
  BY Zenon DEF WakeInv, Steady, KilledNotWaiting, Resting
<1> QED
  BY <1>1, <1>2, <1>3, Zenon DEF WakeInv

\* A step that changes nothing of the table but where p is in the kernel.
LEMMA MovesSteady ==
  ASSUME NEW p \in Slot, UNCHANGED <<state, parent, chan, killed, wokenUp, inodeOwner>>,
         pc[p] # "iwake", \A q \in Slot \ {p} : pc'[q] = pc[q] /\ job'[q] = job[q] /\ loc'[q] = loc[q]
  PROVE  Steady
BY Zenon DEF Steady

\* wakeup1() and kill().
LEMMA WakesSteady ==
  ASSUME TypeOK, NEW chs, state' = WokenState(chs), Wakeup1(chs),
         UNCHANGED <<chan, parent, killed, inodeOwner, stacks>>
  PROVE  Steady
<1>1. \A q \in Slot : state'[q] \in {state[q], "RUNNABLE", "RUNNABLE_SUSPENDED"}
  BY Zenon DEF WokenState
<1>2. \A q \in Slot : wokenUp[q] => wokenUp'[q]
  BY Zenon DEF Wakeup1
<1> QED
  BY <1>1, <1>2, Zenon DEF Steady, Resting, stacks

LEMMA KillSteady ==
  ASSUME TypeOK, NEW c \in CPU, NEW p \in Slot, NEW n \in Killable, Kill(c, p, n)
  PROVE  Steady
<1>1. PICK q \in Slot :
        /\ killed' = [killed EXCEPT ![q] = TRUE]
        /\ IF state[q] = "SLEEPING_SUSPENDED"
           THEN state' = [state EXCEPT ![q] = "RUNNABLE_SUSPENDED", ![inswapper] = "RUNNABLE"]
           ELSE state' = [state EXCEPT ![q] = IF @ = "SLEEPING" THEN "RUNNABLE" ELSE @]
  BY Zenon DEF Kill
<1>2. state'[q] \notin Resting /\ \A r \in Slot : state'[r] \in {state[r], "RUNNABLE", "RUNNABLE_SUSPENDED"}
  BY <1>1, Types, SMT, SMTT(30) DEF Resting, Typed, StateTyped
<1>3. \A r \in Slot \ {q} : killed'[r] = killed[r]
  BY <1>1, Zenon DEF TypeOK, TableType
<1>4. UNCHANGED <<chan, parent, wokenUp, inodeOwner, pc, job, loc>>
  BY Zenon DEF Kill, files, stacks
<1> QED
  BY <1>2, <1>3, <1>4, Zenon DEF Steady, Resting

LEMMA IlockSteady ==
  ASSUME TypeOK, NEW c \in CPU, NEW p \in Slot, IlockTake(c, p)
  PROVE  Steady
<1>1. /\ pc[p] = "icheck" /\ UNCHANGED <<state, parent, chan, killed, wokenUp, job, loc>>
      /\ pc' = [pc EXCEPT ![p] = "held"]
      /\ inodeOwner' = [inodeOwner EXCEPT ![Target(p)] = p]
  BY Zenon DEF IlockTake, At, table
<1>2. \A i \in Inode : inodeOwner'[i] \in {inodeOwner[i], p}
  BY <1>1, Zenon DEF TypeOK, FileType
<1>3. p # NULL
  BY Places, Zenon DEF NULL
<1> QED
  BY <1>1, <1>2, Types, Zenon DEF Steady, Typed, PlaceTyped

\* The calm steps but iunlock().
LEMMA CalmSteady ==
  ASSUME NCPU = 1, TypeOK, ImageInv, NEW c \in CPU, NEW p \in Slot, Calms(c, p),
         ~Iunlock(c, p), ~IunlockWakeup(c, p)
  PROVE  Steady
<1>1. ASSUME Tick \/ Wakeup2(c, p) PROVE Steady
  BY <1>1, WakesSteady, Zenon DEF Tick, Wakeup2, files
<1>2. ASSUME ScanEnd(c) \/ \E root \in BOOLEAN : Chdir(c, p, root) PROVE Steady
  BY <1>2, Zenon DEF ScanEnd, Chdir, table, stacks, files, Steady
<1>3. ASSUME UserMoves(c, p) PROVE Steady
  <2>1. pc[p] = "user"
    BY <1>3, Zenon DEF UserMoves, WaitCall, Sleep2Call, SleepCall, FileCall, Call, At
  <2>2. UNCHANGED inodeOwner
    BY <1>3, Zenon DEF UserMoves, WaitCall, Sleep2Call, SleepCall, FileCall, files
  <2>3. Goes(p) /\ UNCHANGED table
    BY <1>3, UserMove, Zenon
  <2> QED
    BY <2>1, <2>2, <2>3, MovesSteady, Zenon DEF Goes, table
<1>4. ASSUME KernelMoves(c, p), ~IlockTake(c, p) PROVE Steady
  <2>1. pc[p] # "iwake" /\ UNCHANGED inodeOwner
    BY <1>4, Zenon
       DEF KernelMoves, Sleep2Return, SleepAcquire, SleepReturn, BeginTrans, IlockAcquire, CommitTrans,
           At, files
  <2>2. Goes(p) /\ UNCHANGED table
    BY <1>4, KernelMove, Zenon
  <2> QED
    BY <2>1, <2>2, MovesSteady, Zenon DEF Goes, table
<1>5. ASSUME NEW t \in Slot, SwapInFound(c, t) PROVE Steady
  <2>1. pc[inswapper] = "scan" /\ UNCHANGED inodeOwner
    BY <1>5, Zenon DEF SwapInFound, At, files
  <2>2. Goes(inswapper) /\ UNCHANGED table
    BY <1>5, SwapInMove, Zenon
  <2> QED
    BY <2>1, <2>2, MovesSteady, Places, Zenon DEF Goes, table
<1>6. ASSUME WaitGivesUp(c, p) PROVE Steady
  <2>1. pc[p] = "waiting" /\ UNCHANGED <<table, inodeOwner>>
    BY <1>6, Zenon DEF WaitGivesUp, At, files
  <2>2. Goes(p)
    BY <1>6, WaitMove, Zenon DEF WaitGivesUp
  <2> QED
    BY <2>1, <2>2, MovesSteady, Zenon DEF Goes, table
<1> QED
  BY <1>1, <1>2, <1>3, <1>4, <1>5, <1>6, KillSteady, IlockSteady, Zenon DEF Calms

\* The other steps, but sleep(), exit() and the sleep of inswapper.
LEMMA OthersSteady ==
  ASSUME NCPU = 1, TypeOK, ImageInv, NEW c \in CPU, NEW p \in Slot, StepOf(c, p),
         ~Calms(c, p), ~Dozes(c, p), ~Exit(c, p),
         ~(cur[c] = inswapper /\ pc[inswapper] \in {"scan", "load"} /\ SwapInRestart(c))
  PROVE  Steady
<1>t. Typed
  BY Types, Zenon
<1>1. ASSUME Dispatch(c, p) \/ Yield(c, p) PROVE Steady
  <2>1. /\ \E st \in {"RUNNING", "RUNNABLE"} : state' = [state EXCEPT ![p] = st]
        /\ UNCHANGED <<parent, killed, wokenUp, inodeOwner, stacks>>
        /\ chan' = [chan EXCEPT ![p] = NULL] \/ UNCHANGED chan
    BY <1>1, Zenon DEF Dispatch, Yield, files
  <2>2. \A q \in Slot \ {p} : chan'[q] = chan[q] /\ state'[q] = state[q]
    BY <2>1, Zenon DEF TypeOK, TableType
  <2>3. state'[p] \notin Resting \cup {"ZOMBIE"}
    BY <1>t, <2>1, Zenon DEF Typed, StateTyped, Resting
  <2> QED
    BY <2>1, <2>2, <2>3, Zenon DEF Steady, stacks
<1>2. ASSUME NEW q \in Slot, ForkAlloc(c, p, q) PROVE Steady
  <2>1. /\ state' = [state EXCEPT ![q] = "EMBRYO"] /\ pc[p] = "user"
        /\ pc' = [pc EXCEPT ![p] = "forking"] /\ job' = [job EXCEPT ![p] = "fork"]
        /\ loc' = [loc EXCEPT ![p] = q] /\ UNCHANGED <<parent, chan, killed, wokenUp, inodeOwner>>
    BY <1>2, Zenon DEF ForkAlloc, Call, At, files
  <2> QED
    BY <1>t, <2>1, Zenon DEF Steady, Typed, StateTyped, PlaceTyped, FrameTyped, Resting
<1>3. ASSUME ForkFail(c, p) PROVE Steady
  <2>1. /\ state' = [state EXCEPT ![loc[p]] = "UNUSED"] /\ pc[p] = "forking"
        /\ pc' = [pc EXCEPT ![p] = "user"] /\ job' = [job EXCEPT ![p] = "none"]
        /\ loc' = [loc EXCEPT ![p] = 0] /\ UNCHANGED <<parent, chan, killed, wokenUp, inodeOwner>>
    BY <1>3, Zenon DEF ForkFail, At, files
  <2> QED
    BY <1>t, <2>1, Zenon DEF Steady, Typed, StateTyped, PlaceTyped, FrameTyped, Resting
<1>4. ASSUME ForkDone(c, p) PROVE Steady
  <2>1. /\ state' = [state EXCEPT ![loc[p]] = "RUNNABLE"] /\ pc[p] = "forking"
        /\ pc' = [pc EXCEPT ![p] = "user", ![loc[p]] = "user"]
        /\ job' = [job EXCEPT ![p] = "none", ![loc[p]] = "none"]
        /\ parent' = [parent EXCEPT ![loc[p]] = p]
        /\ loc' = [loc EXCEPT ![p] = 0] /\ UNCHANGED <<chan, killed, wokenUp, inodeOwner>>
    BY <1>4, Zenon DEF ForkDone, At, files
  <2>2. pc[loc[p]] = "user" /\ loc[p] \in Slot
    BY <2>1, Zenon DEF ImageInv, ForksApart, StacksOK
  <2> QED
    BY <1>t, <2>1, <2>2, Zenon DEF Steady, Typed, StateTyped, OriginTyped, PlaceTyped, FrameTyped, Resting
<1>5. ASSUME NEW q \in Slot, WaitReap(c, p, q) PROVE Steady
  <2>1. /\ state' = [state EXCEPT ![q] = "UNUSED"] /\ pc[p] = "waiting"
        /\ parent' = [parent EXCEPT ![q] = NULL] /\ killed' = [killed EXCEPT ![q] = FALSE]
        /\ pc' = [pc EXCEPT ![p] = "user"] /\ job' = [job EXCEPT ![p] = "none"]
        /\ loc' = [loc EXCEPT ![p] = 0] /\ UNCHANGED <<chan, wokenUp, inodeOwner>>
    BY <1>5, Zenon DEF WaitReap, Return, At, files
  <2>2. \A r \in Slot \ {q} : killed'[r] = killed[r]
    BY <2>1, Zenon DEF TypeOK, TableType
  <2> QED
    BY <1>t, <2>1, <2>2, Zenon
       DEF Steady, Typed, StateTyped, OriginTyped, PlaceTyped, FrameTyped, Resting
<1>6. ASSUME NEW on \in BOOLEAN, SetSwapping(c, p, on) PROVE Steady
  BY <1>6, Zenon DEF SetSwapping, table, stacks, files, Steady
<1>7. ASSUME SwapOutCreate(c, p) \/ SwapOutSave(c, p) \/ SwapOutFail(c, p) PROVE Steady
  <2>1. /\ UNCHANGED <<table, inodeOwner, loc>> /\ pc[p] # "iwake"
        /\ \E k \in {"begin", "swapped"} : pc' = [pc EXCEPT ![p] = k]
        /\ job' = job \/ job' = [job EXCEPT ![p] = "save"]
    BY <1>7, Zenon DEF SwapOutCreate, SwapOutSave, SwapOutFail, At
  <2> QED
    BY <1>t, <2>1, MovesSteady, Zenon DEF table, Typed, PlaceTyped
<1>8. ASSUME SwapOutEnd(c, p) PROVE Steady
  <2>1. /\ pc[p] = "swapped" /\ wokenUp' = [wokenUp EXCEPT ![p] = FALSE]
        /\ state' = IF wokenUp[p]
                    THEN [state EXCEPT ![p] = "RUNNABLE_SUSPENDED", ![inswapper] = "RUNNABLE"]
                    ELSE [state EXCEPT ![p] = "SLEEPING_SUSPENDED"]
        /\ UNCHANGED <<parent, chan, killed, inodeOwner, loc>>
        /\ \A q \in Slot \ {p} : pc'[q] = pc[q] /\ job'[q] = job[q]
    BY <1>8, <1>t, Zenon DEF SwapOutEnd, At, files, Typed, PlaceTyped
  <2>2. state[p] = "SLEEPING" /\ p # inswapper
    <3>1. swappingOut[p]
      BY <2>1, Zenon DEF ImageInv, StacksOK, SwapsAlone, JobsAt
    <3> QED
      BY <3>1, Swapper, Zenon DEF ImageInv, SwapsAlone
  <2>3. \A q \in Slot \ {p} : state'[q] \in {state[q], "RUNNABLE"} /\ wokenUp'[q] = wokenUp[q]
    BY <2>1, Zenon DEF TypeOK, TableType
  <2>4. state'[p] \in Resting => ~wokenUp[p]
    BY <1>t, <2>1, Zenon DEF Typed, StateTyped, Resting
  <2>5. state'[p] # "ZOMBIE" /\ state[p] \in Resting
    BY <1>t, <2>1, <2>2, Zenon DEF Typed, StateTyped, Resting
  <2> QED
    BY <2>1, <2>3, <2>4, <2>5, Zenon DEF Steady, Resting
<1>9. ASSUME SwapInLoad(c) \/ SwapInUnlink(c) PROVE Steady
  <2>1. /\ UNCHANGED <<table, inodeOwner, loc>> /\ pc[inswapper] # "iwake"
        /\ pc' = pc \/ \E k \in {"begin", "loaded"} : pc' = [pc EXCEPT ![inswapper] = k]
        /\ job' = job \/ job' = [job EXCEPT ![inswapper] = "unlink"]
    BY <1>9, Zenon DEF SwapInLoad, SwapInUnlink, At, files
  <2> QED
    BY <1>t, <2>1, MovesSteady, Places, Zenon DEF table, Typed, PlaceTyped
<1>10. ASSUME SwapInDone(c) PROVE Steady
  <2>1. /\ state' = [state EXCEPT ![loc[inswapper]] = "RUNNABLE"] /\ pc[inswapper] = "loaded"
        /\ pc' = [pc EXCEPT ![inswapper] = "scan"] /\ job' = [job EXCEPT ![inswapper] = "none"]
        /\ loc' = [loc EXCEPT ![inswapper] = loc[inswapper] + 1]
        /\ UNCHANGED <<parent, chan, killed, wokenUp, inodeOwner>>
    BY <1>10, Zenon DEF SwapInDone, At, files
  <2> QED
    BY <1>t, <2>1, Zenon DEF Steady, Typed, StateTyped, PlaceTyped, FrameTyped, Resting
<1> QED
  BY <1>1, <1>2, <1>3, <1>4, <1>5, <1>6, <1>7, <1>8, <1>9, <1>10, Zenon DEF StepOf

\* iunlock(): from clearing I_BUSY to the end of wakeup() the process is at "iwake".
LEMMA UnlockStep ==
  ASSUME TypeOK, WakeInv, NEW c \in CPU, NEW p \in Slot, Iunlock(c, p)
  PROVE  WakeInv'
<1>1. /\ pc[p] = "held" /\ pc' = [pc EXCEPT ![p] = "iwake"]
      /\ inodeOwner' = [inodeOwner EXCEPT ![Target(p)] = NULL]
      /\ UNCHANGED <<state, parent, chan, killed, wokenUp, job, loc>>
  BY Zenon DEF Iunlock, At, table
<1>2. \A q \in Slot : Target(q)' = Target(q) /\ (pc[q] = "iwake" => pc'[q] = "iwake") /\ pc'[p] = "iwake"
  BY <1>1, Types, Zenon DEF Target, Typed, PlaceTyped
<1>3. \A i \in Inode : inodeOwner'[i] = inodeOwner[i] \/ i = Target(p)
  BY <1>1, Zenon DEF TypeOK, FileType
<1>4. NoMissedWakeup'
  <2> SUFFICES ASSUME NEW s \in Slot, NEW i \in Inode, state'[s] \in Resting, chan'[s] = InodeChan(i)
               PROVE  \/ inodeOwner'[i] # NULL \/ wokenUp'[s]
                      \/ \E q \in Slot : pc'[q] = "iwake" /\ Target(q)' = i
    BY Zenon DEF NoMissedWakeup, Resting, InodeChan
  <2>1. inodeOwner[i] # NULL \/ wokenUp[s] \/ \E q \in Slot : pc[q] = "iwake" /\ Target(q) = i
    BY <1>1, Zenon DEF WakeInv, NoMissedWakeup, Resting
  <2>2. inodeOwner[i] = inodeOwner'[i] \/ (pc'[p] = "iwake" /\ Target(p)' = i)
    BY <1>2, <1>3, Zenon
  <2> QED
    BY <1>1, <1>2, <2>1, <2>2, Zenon
<1>5. NoMissedExit' /\ KilledNotWaiting'
  BY <1>1, Zenon DEF WakeInv, NoMissedExit, KilledNotWaiting
<1> QED
  BY <1>4, <1>5, Zenon DEF WakeInv

\* Who still rests after wakeup1() did so before, and waits for something else
\* or has the wakeup noted.
LEMMA StillResting ==
  ASSUME TypeOK, NEW chs, Wakeup1(chs), NEW q \in Slot, WokenState(chs)[q] \in Resting
  PROVE  /\ state[q] \in Resting /\ (chan[q] \in chs => wokenUp'[q])
         /\ wokenUp[q] => wokenUp'[q]
BY Zenon DEF WokenState, Asleep, Suspended, Wakeup1, Resting

LEMMA UnlockWakesStep ==
  ASSUME NCPU = 1, TypeOK, ImageInv, WakeInv, NEW c \in CPU, NEW p \in Slot, IunlockWakeup(c, p)
  PROVE  WakeInv'
<1>1. /\ pc[p] = "iwake" /\ state' = WokenState({InodeChan(Target(p))})
      /\ Wakeup1({InodeChan(Target(p))}) /\ UNCHANGED <<parent, chan, killed, inodeOwner>>
  BY ZenonT(30) DEF IunlockWakeup, At, files
<1>2. \A q \in Slot \ {p} : pc'[q] = pc[q] /\ Target(q)' = Target(q)
  BY UnlockMove, SMT, SMTT(30) DEF Goes, Target
<1>3. \A q \in Slot : state'[q] \in Resting =>
        /\ state[q] \in Resting /\ (chan[q] = InodeChan(Target(p)) => wokenUp'[q])
        /\ wokenUp[q] => wokenUp'[q]
  BY <1>1, StillResting, Zenon
<1>4. \A q \in Slot : state'[q] = "ZOMBIE" => state[q] = "ZOMBIE"
  BY <1>1, Zenon DEF WokenState
<1>5. NoMissedWakeup'
  BY <1>1, <1>2, <1>3, SMT, SMTT(30) DEF WakeInv, NoMissedWakeup, Resting
<1>6. NoMissedExit' /\ KilledNotWaiting'
  BY <1>1, <1>3, <1>4, Zenon DEF WakeInv, NoMissedExit, KilledNotWaiting, Resting
<1> QED
  BY <1>5, <1>6, Zenon DEF WakeInv

\* sleep(), for something that has not happened yet.
LEMMA DozeStep ==
  ASSUME TypeOK, WakeInv, NEW c \in CPU, NEW p \in Slot, Dozes(c, p)
  PROVE  WakeInv'
<1>t. Typed
  BY Types, Zenon
<1>1. PICK ch \in Nat, lk \in Lock :
        /\ Sleep(c, p, ch, lk)
        /\ \A i \in Inode : ch = InodeChan(i) => inodeOwner[i] # NULL
        /\ ch \in Slot => /\ ch = p /\ ~killed[p]
                          /\ \A r \in Slot : parent[r] = p => state[r] # "ZOMBIE"
  BY Zenon DEF Dozes
<1>2. /\ pc[p] # "iwake" /\ chan' = [chan EXCEPT ![p] = ch] /\ state' = [state EXCEPT ![p] = "SLEEPING"]
      /\ UNCHANGED <<parent, killed, inodeOwner, loc>>
  BY <1>1, Zenon DEF Dozes, Sleep, files
<1>3. \A q \in Slot \ {p} : wokenUp'[q] = wokenUp[q] /\ pc'[q] = pc[q] /\ job'[q] = job[q]
  <2>1. pc' = [pc EXCEPT ![p] = "begin"] \/ pc' = [pc EXCEPT ![p] = Resume(job[p])]
    BY <1>1, Zenon DEF Sleep
  <2>2. job' = job \/ job' = [job EXCEPT ![p] = "create"]
    BY <1>1, Zenon DEF Sleep
  <2>3. wokenUp' = wokenUp \/ wokenUp' = [wokenUp EXCEPT ![p] = FALSE]
    BY <1>1, Zenon DEF Sleep
  <2> QED
    BY <1>t, <2>1, <2>2, <2>3, Zenon DEF Typed, PlaceTyped, TypeOK, TableType
<1>4. \A q \in Slot \ {p} : chan'[q] = chan[q] /\ state'[q] = state[q]
  BY <1>2, Zenon DEF TypeOK, TableType
<1>5. chan'[p] = ch /\ state'[p] = "SLEEPING"
  BY <1>2, Zenon DEF TypeOK, TableType
<1>6. NoMissedWakeup'
  <2>1. \A q \in Slot : pc[q] = "iwake" => pc'[q] = "iwake" /\ Target(q)' = Target(q)
    BY <1>2, <1>3, Zenon DEF Target
  <2>2. \A i \in Inode : chan'[p] = InodeChan(i) => inodeOwner'[i] # NULL
    BY <1>1, <1>2, <1>5, Zenon
  <2>3. ASSUME NEW q \in Slot \ {p}, NEW i \in Inode, state'[q] \in Resting, chan'[q] = InodeChan(i),
               inodeOwner'[i] = NULL, ~wokenUp'[q]
        PROVE  \E r \in Slot : pc'[r] = "iwake" /\ Target(r)' = i
    <3>1. PICK r \in Slot : pc[r] = "iwake" /\ Target(r) = i
      BY <1>2, <1>3, <2>3, SMT, SMTT(30) DEF WakeInv, NoMissedWakeup, Resting
    <3> QED
      BY <2>1, <3>1, Zenon
  <2> QED
    BY <2>2, <2>3, Zenon DEF NoMissedWakeup, Resting
<1>7. NoMissedExit'
  <2>1. \A q \in Slot : state'[q] = "ZOMBIE" => state[q] = "ZOMBIE"
    BY <1>4, <1>5, Zenon
  <2> QED
    <3>1. ASSUME NEW q \in Slot \ {p}, NEW r \in Slot, state'[q] \in Resting, chan'[q] = q,
                 parent'[r] = q, state'[r] = "ZOMBIE"
          PROVE  wokenUp'[q]
      <4>1. state[q] \in Resting /\ chan[q] = q /\ wokenUp'[q] = wokenUp[q]
        BY <1>3, <1>4, <3>1, Zenon
      <4>2. parent[r] = q /\ state[r] = "ZOMBIE"
        BY <1>2, <2>1, <3>1, Zenon
      <4>3. wokenUp[q]
        BY <4>1, <4>2, Zenon DEF WakeInv, NoMissedExit, Resting
      <4> QED
        BY <4>1, <4>3, SMT, SMTT(30)
    <3>2. ASSUME NEW r \in Slot, chan'[p] = p, parent'[r] = p
          PROVE  state'[r] # "ZOMBIE"
      BY <1>1, <1>2, <1>5, <2>1, <3>2, Zenon
    <3> QED
      BY <3>1, <3>2, Zenon DEF NoMissedExit, Resting
<1>8. KilledNotWaiting'
  BY <1>1, <1>2, <1>5, SMT, SMTT(30) DEF WakeInv, KilledNotWaiting
<1> QED
  BY <1>6, <1>7, <1>8, Zenon DEF WakeInv

\* exit(): nobody swaps itself out meanwhile, so whoever it wakes does not rest
\* any more.
LEMMA ExitWakeStep ==
  ASSUME NCPU = 1, TypeOK, ImageInv, WakeInv, NEW c \in CPU, NEW p \in Slot, Exit(c, p)
  PROVE  WakeInv'
<1>1. (\A q \in Slot : ~swappingOut[q]) /\ p # inswapper
  BY InUser, Zenon DEF Exit
<1>2. /\ state' = [WokenState(ExitWakes(p)) EXCEPT ![p] = "ZOMBIE"] /\ Wakeup1(ExitWakes(p))
      /\ parent' = [q \in Slot |-> IF q \in Children(p) THEN initproc ELSE parent[q]]
      /\ UNCHANGED <<chan, killed, inodeOwner, pc, job, loc>>
  BY Zenon DEF Exit, stacks, files
<1>3. /\ state'[p] = "ZOMBIE" /\ \A q \in Slot \ {p} : state'[q] = WokenState(ExitWakes(p))[q]
  BY <1>2, Zenon DEF WokenState
<1>4. \A q \in Slot : state'[q] \in Resting =>
        state[q] \in Resting /\ chan[q] \notin ExitWakes(p) /\ (wokenUp[q] => wokenUp'[q])
  <2>1. \A q \in Slot : wokenUp[q] => wokenUp'[q]
    BY <1>2, Zenon DEF Wakeup1
  <2>2. \A q \in Slot \ {p} : WokenState(ExitWakes(p))[q] \in Resting =>
          state[q] \in Resting /\ chan[q] \notin ExitWakes(p)
    BY <1>1, Zenon DEF WokenState, Asleep, Suspended, Resting
  <2> QED
    BY <1>3, <2>1, <2>2, Zenon DEF Resting
<1>5. \A q \in Slot \ {p} : state'[q] = "ZOMBIE" => state[q] = "ZOMBIE"
  BY <1>3, Zenon DEF WokenState
<1>6. NoMissedWakeup'
  <2>1. \A q \in Slot : Target(q)' = Target(q)
    BY <1>2, Zenon DEF Target
  <2> QED
    BY <1>2, <1>4, <2>1, SMT, SMTT(30) DEF WakeInv, NoMissedWakeup, Resting
<1>7. NoMissedExit'
  <2> SUFFICES ASSUME NEW w \in Slot, NEW z \in Slot, state'[w] \in Resting, chan'[w] = w,
                      parent'[z] = w, state'[z] = "ZOMBIE"
               PROVE  wokenUp'[w]
    BY Zenon DEF NoMissedExit, Resting
  <2>1. w \notin ExitWakes(p) /\ state[w] \in Resting /\ chan[w] = w /\ (wokenUp[w] => wokenUp'[w])
    BY <1>2, <1>4, Zenon
  <2>2. z # p
    <3>1. z = p => parent[p] = w
      BY <1>2, Zenon DEF Children, ImageInv, Founders
    <3> QED
      BY <2>1, <3>1, Zenon DEF ExitWakes
  <2>3. parent[z] = w /\ state[z] = "ZOMBIE"
    BY <1>2, <1>5, <2>1, <2>2, Zenon DEF ExitWakes
  <2> QED
    BY <2>1, <2>3, Zenon DEF WakeInv, NoMissedExit, Resting
<1>8. KilledNotWaiting'
  BY <1>2, <1>4, Zenon DEF WakeInv, KilledNotWaiting, Resting
<1> QED
  BY <1>6, <1>7, <1>8, Zenon DEF WakeInv

\* inswapper sleeps on its own address; it has no children.
LEMMA RestartWakeStep ==
  ASSUME TypeOK, ImageInv, WakeInv, NEW c \in CPU, pc[inswapper] \in {"scan", "load"}, SwapInRestart(c)
  PROVE  WakeInv'
<1>t. Typed /\ inswapper \in Slot
  BY Types, Places, Zenon
<1>1. /\ pc' = [pc EXCEPT ![inswapper] = "scan"] /\ job' = [job EXCEPT ![inswapper] = "none"]
      /\ loc' = [loc EXCEPT ![inswapper] = 1] /\ UNCHANGED <<parent, killed, wokenUp, inodeOwner>>
  BY Zenon DEF SwapInRestart, files
<1>2. \/ UNCHANGED <<state, chan>>
      \/ state' = [state EXCEPT ![inswapper] = "SLEEPING"] /\ chan' = [chan EXCEPT ![inswapper] = inswapper]
  BY Zenon DEF SwapInRestart
<1>3. /\ \A q \in Slot \ {inswapper} : state'[q] = state[q] /\ chan'[q] = chan[q]
      /\ UNCHANGED <<state, chan>> \/ (state'[inswapper] = "SLEEPING" /\ chan'[inswapper] = inswapper)
  BY <1>t, <1>2, ZenonT(30) DEF TypeOK, TableType
<1>4. NoMissedWakeup'
  <2>1. \A q \in Slot : pc[q] = "iwake" => pc'[q] = "iwake" /\ Target(q)' = Target(q)
    BY <1>t, <1>1, Zenon DEF Target, Typed, PlaceTyped, FrameTyped
  <2>2. \A i \in Inode : InodeChan(i) # inswapper
    BY <1>t, CallChans, SMT, SMTT(30) DEF CallChan, Inode
  <2> QED
    BY <1>1, <1>3, <2>1, <2>2, SMT, SMTT(30) DEF WakeInv, NoMissedWakeup
<1>5. NoMissedExit'
  <2>1. \A q \in Slot : parent[q] # inswapper
    BY Zenon DEF ImageInv, Founders
  <2>2. \A q \in Slot : state'[q] = "ZOMBIE" => state[q] = "ZOMBIE"
    BY <1>3, Zenon
  <2> QED
    BY <1>1, <1>3, <2>1, SMT, SMTT(30) DEF WakeInv, NoMissedExit
<1>6. KilledNotWaiting'
  BY <1>1, <1>3, Zenon DEF WakeInv, KilledNotWaiting
<1> QED
  BY <1>4, <1>5, <1>6, Zenon DEF WakeInv

LEMMA WakeStep ==
  ASSUME NCPU = 1, TypeOK, ImageInv, WakeInv, [Next]_vars
  PROVE  WakeInv'
<1>1. CASE UNCHANGED vars
  <2>1. Steady
    BY <1>1, Zenon DEF vars, table, stacks, files, Steady
  <2> QED
    BY <2>1, SteadyStep, Zenon
<1>2. CASE Next
  <2>1. PICK c \in CPU, p \in Slot : StepOf(c, p)
    BY <1>2, Steps, Zenon
  <2>2. CASE Calms(c, p)
    BY <2>2, CalmSteady, SteadyStep, UnlockStep, UnlockWakesStep, Zenon
  <2>3. CASE Dozes(c, p)
    BY <2>3, DozeStep, Zenon
  <2>4. CASE Exit(c, p)
    BY <2>4, ExitWakeStep, Zenon
  <2>5. CASE cur[c] = inswapper /\ pc[inswapper] \in {"scan", "load"} /\ SwapInRestart(c)
    BY <2>5, RestartWakeStep, Zenon
  <2> QED
    BY <2>1, <2>2, <2>3, <2>4, <2>5, OthersSteady, SteadyStep, Zenon
<1> QED
  BY <1>1, <1>2, Zenon

-----------------------------------------------------------------------------
(* Parents and pids.                                                       *)

KinInv == ParentAlive /\ PidInv

LEMMA KinInit == Init => KinInv
<1> SUFFICES ASSUME Init PROVE KinInv
  OBVIOUS
<1>1. initproc \notin Started
  BY StartedAssumption, SMT, SMTT(30) DEF initproc
<1>2. ParentAlive
  BY Places, Zenon DEF Init, ParentAlive, NULL
<1>3. /\ pid = [s \in Slot |-> IF s \in {1, 2} THEN s
                               ELSE IF s \in Started THEN s + 1 ELSE 0]
      /\ state = [s \in Slot |-> IF s \in {1, 2} \cup Started
                                 THEN "RUNNABLE" ELSE "UNUSED"]
      /\ nextpid = IF Started = {} THEN 3 ELSE NPROC + 2
  BY Zenon DEF Init, initproc, inswapper
<1>4. UniquePids
  BY <1>3, SMT, SMTT(30) DEF UniquePids, Slot
<1>5. ASSUME NEW s \in Slot PROVE pid[s] < nextpid
  <2>1. s \in Nat /\ s <= NPROC /\ NPROC \in Nat
    BY NPROCAssumption, SMT, SMTT(30) DEF Slot
  <2>2. nextpid \in Nat /\ nextpid >= 3 /\ (Started # {} => nextpid = NPROC + 2)
    BY <1>3, NPROCAssumption, SMT, SMTT(30)
  <2>3. pid[s] = IF s \in {1, 2} THEN s ELSE IF s \in Started THEN s + 1 ELSE 0
    BY <1>3, Zenon
  <2> QED
    BY <2>1, <2>2, <2>3, SMT, SMTT(30)
<1> QED
  BY <1>2, <1>4, <1>5, Zenon DEF KinInv, PidInv, PidsIssued

\* Entries that are not those of living processes.
Absent == {"UNUSED", "EMBRYO", "ZOMBIE"}

\* Nobody is born, dies or is reaped, and nobody changes parents or pids.
Settled ==
  /\ \A q \in Slot : state[q] \in Absent \/ state'[q] \in Absent => state'[q] = state[q]
  /\ UNCHANGED <<parent, pid, nextpid>>

LEMMA SettledStep ==
  ASSUME TypeOK, KinInv, Settled
  PROVE  KinInv'
<1>1. PidInv'
  BY Zenon DEF KinInv, PidInv, PidsIssued, UniquePids, Settled, Absent
<1>2. ASSUME NEW q \in Slot \ {initproc}, state'[q] \notin {"UNUSED", "EMBRYO"}
      PROVE  parent[q] \in Slot /\ state[parent[q]] \notin Absent
  BY <1>2, Types, Zenon DEF KinInv, ParentAlive, Settled, Absent, Typed, OriginTyped
<1>3. ParentAlive'
  BY <1>2, Places, Zenon DEF ParentAlive, Settled, Absent, NULL
<1> QED
  BY <1>1, <1>3, Zenon DEF KinInv

\* Only allocproc() issues pids.
LEMMA CalmPids ==
  ASSUME NCPU = 1, TypeOK, ImageInv, NEW c \in CPU, NEW p \in Slot, Calms(c, p)
  PROVE  UNCHANGED nextpid
<1>1. ASSUME UNCHANGED globals PROVE UNCHANGED nextpid
  BY <1>1, Zenon DEF globals
<1>2. ASSUME Tick \/ Wakeup2(c, p) \/ IunlockWakeup(c, p) \/ \E n \in Killable : Kill(c, p, n)
      PROVE  UNCHANGED nextpid
  BY <1>2, Zenon DEF Tick, Wakeup2, IunlockWakeup, Kill
<1>3. ASSUME ScanEnd(c) \/ WaitGivesUp(c, p) \/ \E root \in BOOLEAN : Chdir(c, p, root)
      PROVE  UNCHANGED nextpid
  BY <1>1, <1>3, Zenon DEF ScanEnd, WaitGivesUp, Chdir
<1> QED
  BY <1>1, <1>2, <1>3, UserMove, KernelMove, SwapInMove, Zenon DEF Calms

\* All steps but those of fork(), exit() and wait().
LEMMA SettledSteps ==
  ASSUME NCPU = 1, TypeOK, ImageInv, NEW c \in CPU, NEW p \in Slot, StepOf(c, p),
         ~(\E q \in Slot : ForkAlloc(c, p, q)), ~ForkFail(c, p), ~ForkDone(c, p), ~Exit(c, p),
         ~(\E q \in Slot : WaitReap(c, p, q))
  PROVE  Settled
<1>t. Typed
  BY Types, Zenon
<1>f. inswapper \in Slot /\ state[inswapper] \notin Absent
  BY Places, Zenon DEF ImageInv, Founders, Absent
<1>1. ASSUME Calms(c, p) PROVE Settled
  <2>1. Eased(Slot) /\ UNCHANGED <<parent, pid, nextpid>>
    BY <1>1, CalmSteps, CalmPids, Zenon DEF Calm
  <2> QED
    BY <1>f, <2>1, Zenon DEF Eased, Settled, Absent
<1>2. ASSUME NEW q \in Slot, state[q] \notin Absent, NEW st, st \notin Absent,
             state' = [state EXCEPT ![q] = st], UNCHANGED <<parent, pid, nextpid>>
      PROVE  Settled
  BY <1>t, <1>2, Zenon DEF Settled, Typed, StateTyped
<1>3. ASSUME cur[c] = p PROVE state[p] \notin Absent
  BY <1>3, TheCpu, Current, Zenon DEF Absent
<1>4. ASSUME Dozes(c, p) PROVE Settled
  <2>1. /\ state' = [state EXCEPT ![p] = "SLEEPING"]
        /\ UNCHANGED <<parent, pid, nextpid>> /\ cur[c] = p
    BY <1>4, Zenon DEF Dozes, Sleep, globals
  <2> QED
    BY <1>2, <1>3, <2>1, Zenon DEF Absent
<1>5. ASSUME Dispatch(c, p) \/ Yield(c, p) PROVE Settled
  <2>1. /\ \E st \in {"RUNNING", "RUNNABLE"} : state' = [state EXCEPT ![p] = st]
        /\ state[p] \in {"RUNNING", "RUNNABLE"} /\ UNCHANGED <<parent, pid, nextpid>>
    BY <1>5, Zenon DEF Dispatch, Yield, globals
  <2> QED
    BY <1>2, <2>1, Zenon DEF Absent
<1>6. ASSUME \/ \E on \in BOOLEAN : SetSwapping(c, p, on)
             \/ SwapOutCreate(c, p) \/ SwapOutSave(c, p) \/ SwapOutFail(c, p)
             \/ SwapInLoad(c) \/ SwapInUnlink(c)
      PROVE  Settled
  <2>1. UNCHANGED <<state, parent, pid, nextpid>>
    BY <1>6, Zenon DEF SetSwapping, SwapOutCreate, SwapOutSave, SwapOutFail, SwapInLoad, SwapInUnlink,
                       table, globals
  <2> QED
    BY <2>1, Zenon DEF Settled
<1>7. ASSUME SwapOutEnd(c, p) PROVE Settled
  <2>1. /\ state' = IF wokenUp[p]
                    THEN [state EXCEPT ![p] = "RUNNABLE_SUSPENDED", ![inswapper] = "RUNNABLE"]
                    ELSE [state EXCEPT ![p] = "SLEEPING_SUSPENDED"]
        /\ UNCHANGED <<parent, pid, nextpid>> /\ cur[c] = p
    BY <1>7, Zenon DEF SwapOutEnd, At, globals
  <2> QED
    BY <1>t, <1>f, <1>3, <2>1, Zenon DEF Settled, Typed, StateTyped, Absent
<1>8. ASSUME cur[c] = inswapper /\ pc[inswapper] \in {"scan", "load"} /\ SwapInRestart(c) PROVE Settled
  <2>1. /\ state' = state \/ state' = [state EXCEPT ![inswapper] = "SLEEPING"]
        /\ UNCHANGED <<parent, pid, nextpid>>
    BY <1>8, Zenon DEF SwapInRestart, globals
  <2> QED
    BY <1>2, <1>f, <2>1, Zenon DEF Settled, Absent
<1>9. ASSUME SwapInDone(c) PROVE Settled
  <2>1. /\ state' = [state EXCEPT ![loc[inswapper]] = "RUNNABLE"]
        /\ UNCHANGED <<parent, pid, nextpid>> /\ pc[inswapper] = "loaded"
    BY <1>9, Zenon DEF SwapInDone, At
  <2>2. loc[inswapper] \in Slot /\ state[loc[inswapper]] = "RUNNABLE_SUSPENDED"
    BY <1>f, <2>1, Zenon DEF ImageInv, StacksOK, Loading
  <2> QED
    BY <1>2, <2>1, <2>2, Zenon DEF Absent
<1> QED
  BY <1>1, <1>4, <1>5, <1>6, <1>7, <1>8, <1>9, Zenon DEF StepOf

\* fork(): allocproc() gives an unused entry the next pid; nobody has an
\* EMBRYO as parent.
LEMMA BirthStep ==
  ASSUME NCPU = 1, TypeOK, ImageInv, KinInv, NEW c \in CPU, NEW p \in Slot, NEW q \in Slot,
         ForkAlloc(c, p, q)
  PROVE  KinInv'
<1>1. /\ state[q] = "UNUSED" /\ state' = [state EXCEPT ![q] = "EMBRYO"]
      /\ pid' = [pid EXCEPT ![q] = nextpid] /\ nextpid' = nextpid + 1 /\ parent' = parent
  BY Zenon DEF ForkAlloc
<1>2. Typed /\ nextpid \in Nat
  BY Types, Zenon DEF TypeOK, GlobalType
<1>3. PidInv'
  BY <1>1, <1>2, SMT, SMTT(30) DEF KinInv, PidInv, PidsIssued, UniquePids, Typed, StateTyped, OriginTyped
<1>4. ParentAlive'
  BY <1>1, <1>2, Zenon DEF KinInv, ParentAlive, Typed, StateTyped, OriginTyped
<1> QED
  BY <1>3, <1>4, Zenon DEF KinInv

\* The child is a process of the caller, or its entry is given back.
LEMMA GrownStep ==
  ASSUME NCPU = 1, TypeOK, ImageInv, KinInv, NEW c \in CPU, NEW p \in Slot,
         ForkFail(c, p) \/ ForkDone(c, p)
  PROVE  KinInv'
<1>0. Typed /\ UNCHANGED <<pid, nextpid>>
  BY Types, Zenon DEF ForkFail, ForkDone, globals
<1>1. cur[c] = p /\ loc[p] \in Slot /\ state[loc[p]] = "EMBRYO"
  BY Zenon DEF ForkFail, ForkDone, At, ImageInv, ForksApart
<1>2. state[p] \notin Absent
  BY <1>1, TheCpu, Current, Zenon DEF Absent
<1>3. /\ \E st \in {"UNUSED", "RUNNABLE"} : state' = [state EXCEPT ![loc[p]] = st]
      /\ \/ state' = [state EXCEPT ![loc[p]] = "UNUSED"] /\ parent' = parent
         \/ parent' = [parent EXCEPT ![loc[p]] = p]
  BY Zenon DEF ForkFail, ForkDone
<1>4. PidInv'
  BY <1>0, <1>1, <1>3, SMT, SMTT(30) DEF KinInv, PidInv, PidsIssued, UniquePids, Typed, StateTyped
<1>5. \A q \in Slot \ {loc[p]} : state'[q] = state[q] /\ parent'[q] = parent[q]
  BY <1>0, <1>3, Zenon DEF Typed, StateTyped, OriginTyped
<1>6. state'[loc[p]] = "UNUSED" \/ parent'[loc[p]] = p
  BY <1>0, <1>1, <1>3, Zenon DEF Typed, StateTyped, OriginTyped
<1>7. p # loc[p] /\ p # NULL
  BY <1>0, <1>1, <1>2, Zenon DEF Absent, Typed
<1>8. ParentAlive'
  <2>1. ASSUME NEW q \in Slot \ {initproc, loc[p]}, state'[q] \notin {"UNUSED", "EMBRYO"}
        PROVE  parent'[q] \in Slot \ {loc[p]} /\ state'[parent'[q]] \notin Absent
    BY <1>0, <1>1, <1>5, <2>1, SMT, SMTT(30) DEF KinInv, ParentAlive, Typed, OriginTyped, Absent
  <2> QED
    BY <1>0, <1>2, <1>5, <1>6, <1>7, <2>1, Zenon DEF ParentAlive, Typed, Absent
<1> QED
  BY <1>4, <1>8, Zenon DEF KinInv

\* exit() gives the children to init before the process is a ZOMBIE, so that
\* nobody is left with a parent that will be reaped.
LEMMA DeathStep ==
  ASSUME NCPU = 1, TypeOK, ImageInv, KinInv, NEW c \in CPU, NEW p \in Slot, Exit(c, p)
  PROVE  KinInv'
<1>0. Typed /\ initproc \in Slot /\ inswapper \in Slot /\ initproc # NULL /\ p # initproc
  BY Types, Places, Zenon DEF Exit, NULL
<1>1. state[p] = "RUNNING"
  BY InUser, Zenon DEF Exit
<1>2. /\ state' = [WokenState(ExitWakes(p)) EXCEPT ![p] = "ZOMBIE"]
      /\ parent' = [q \in Slot |-> IF q \in Children(p) THEN initproc ELSE parent[q]]
      /\ UNCHANGED <<pid, nextpid>>
  BY Zenon DEF Exit
<1>3. state[initproc] \notin Absent /\ state[inswapper] \notin Absent /\ parent[initproc] = NULL
  BY Zenon DEF ImageInv, Founders, Absent
<1>4. \A q \in Slot \ {p} : state[q] \in Absent \/ state'[q] \in Absent => state'[q] = state[q]
  BY <1>2, <1>3, Zenon DEF WokenState, Asleep, Suspended, Absent
<1>5. state'[p] = "ZOMBIE"
  BY <1>2, Zenon DEF WokenState
<1>6. PidInv'
  BY <1>1, <1>2, <1>4, Zenon DEF KinInv, PidInv, PidsIssued, UniquePids, Absent
<1>7. ASSUME NEW q \in Slot \ {initproc}, state'[q] \notin {"UNUSED", "EMBRYO"}
      PROVE  parent'[q] # NULL /\ state'[parent'[q]] \notin Absent
  <2>1. parent[q] \in Slot /\ state[parent[q]] \notin Absent
    BY <1>0, <1>1, <1>4, <1>7, Zenon DEF KinInv, ParentAlive, Typed, OriginTyped, Absent
  <2>2. CASE parent[q] = p
    <3>1. parent'[q] = initproc
      BY <1>2, <2>2, Zenon DEF Children
    <3> QED
      BY <1>0, <1>3, <1>4, <3>1, Zenon
  <2>3. CASE parent[q] # p
    <3>1. parent'[q] = parent[q]
      BY <1>2, <2>3, Zenon DEF Children
    <3> QED
      BY <1>0, <1>4, <2>1, <2>3, <3>1, Zenon DEF Typed
  <2> QED
    BY <2>2, <2>3, Zenon
<1>8. ParentAlive'
  BY <1>7, Zenon DEF ParentAlive, Absent
<1> QED
  BY <1>6, <1>8, Zenon DEF KinInv

\* wait() frees a ZOMBIE, which is nobody's parent.
LEMMA ReapStep ==
  ASSUME NCPU = 1, TypeOK, ImageInv, KinInv, NEW c \in CPU, NEW p \in Slot, NEW q \in Slot,
         WaitReap(c, p, q)
  PROVE  KinInv'
<1>1. /\ state[q] = "ZOMBIE" /\ state' = [state EXCEPT ![q] = "UNUSED"]
      /\ pid' = [pid EXCEPT ![q] = 0] /\ nextpid' = nextpid /\ parent' = [parent EXCEPT ![q] = NULL]
  BY Zenon DEF WaitReap, globals
<1>2. Typed /\ nextpid \in Nat
  BY Types, Zenon DEF TypeOK, GlobalType
<1>3. PidInv'
  BY <1>1, <1>2, SMT, SMTT(30) DEF KinInv, PidInv, PidsIssued, UniquePids, Typed, StateTyped, OriginTyped
<1>4. ParentAlive'
  BY <1>1, <1>2, Zenon DEF KinInv, ParentAlive, Typed, StateTyped, OriginTyped
<1> QED
  BY <1>3, <1>4, Zenon DEF KinInv

LEMMA KinStep ==
  ASSUME NCPU = 1, TypeOK, ImageInv, KinInv, [Next]_vars
  PROVE  KinInv'
<1>1. CASE UNCHANGED vars
  BY <1>1, SettledStep, Zenon DEF vars, table, globals, Settled
<1>2. CASE Next
  <2>1. PICK c \in CPU, p \in Slot : StepOf(c, p)
    BY <1>2, Steps, Zenon
  <2> QED
    BY <2>1, BirthStep, GrownStep, DeathStep, ReapStep, SettledSteps, SettledStep, Zenon
<1> QED
  BY <1>1, <1>2, Zenon

=============================================================================
