---------------------------- MODULE ProcTable -----------------------------
(***************************************************************************)
(* The process table of a kernel that never swaps, for every size of the   *)
(* table and every number of CPUs: the steps preserve NoSwapInv.           *)
(***************************************************************************)
EXTENDS Proc, FiniteSetTheorems, TLAPS

\* Counting the entries of the process table.
LEMMA EntryCounts ==
  /\ Cardinality({}) = 0
  /\ \A S \in SUBSET Slot : Cardinality(S) \in Nat
  /\ \A T \in SUBSET Slot : \A S \in SUBSET T : Cardinality(S) <= Cardinality(T)
  /\ \A S, T \in SUBSET Slot : S \cap T = {} => Cardinality(S \cup T) = Cardinality(S) + Cardinality(T)
  /\ \A S \in SUBSET Slot : \A p \in Slot \ S : Cardinality(S \cup {p}) = Cardinality(S) + 1
  /\ \A S \in SUBSET Slot : \A p \in S : Cardinality(S \ {p}) = Cardinality(S) - 1
<1>1. IsFiniteSet(Slot)
  BY NPROCAssumption, FS_Interval DEF Slot
<1>2. \A S \in SUBSET Slot : IsFiniteSet(S)
  BY <1>1, FS_Subset, Zenon
<1>3. \A S \in SUBSET Slot : Cardinality(S) \in Nat
  BY <1>2, FS_CardinalityType, Zenon
<1>4. Cardinality({}) = 0
  BY FS_EmptySet, Zenon
<1>5. \A T \in SUBSET Slot : \A S \in SUBSET T : Cardinality(S) <= Cardinality(T)
  BY <1>2, FS_Subset, Zenon
<1>6. ASSUME NEW S \in SUBSET Slot, NEW T \in SUBSET Slot, S \cap T = {}
      PROVE  Cardinality(S \cup T) = Cardinality(S) + Cardinality(T)
  <2>1. Cardinality(S \cup T) = Cardinality(S) + Cardinality(T) - Cardinality(S \cap T)
    BY <1>2, FS_Union, Zenon
  <2>2. Cardinality(S) \in Nat /\ Cardinality(T) \in Nat /\ Cardinality(S \cap T) = 0
    BY <1>3, <1>4, <1>6, Zenon
  <2> QED
    BY <2>1, <2>2
<1>7. \A S \in SUBSET Slot : \A p \in Slot \ S : Cardinality(S \cup {p}) = Cardinality(S) + 1
  BY <1>2, FS_AddElement, Zenon
<1>8. \A S \in SUBSET Slot : \A p \in S : Cardinality(S \ {p}) = Cardinality(S) - 1
  BY <1>2, FS_RemoveElement, Zenon
<1> QED
  BY <1>3, <1>4, <1>5, <1>6, <1>7, <1>8, Zenon

\* The addresses that occur as processes, CPUs and channels.
LEMMA Addresses ==
  /\ Slot \subseteq Nat \ {0} /\ CPU \subseteq Nat \ {0}
  /\ initproc \in Slot /\ inswapper \in Slot /\ initproc # inswapper
  /\ {NULL, SwapFlagChan, TicksChan} \subseteq Nat
  /\ \A i \in Nat : InodeChan(i) \in Nat
  /\ \A p \in Slot : p + 1 \in 1..(NPROC + 1)
  /\ 1 \in 1..(NPROC + 1)
BY NPROCAssumption, NCPUAssumption
   DEF Slot, CPU, initproc, inswapper, NULL, SwapFlagChan, TicksChan, InodeChan

-----------------------------------------------------------------------------
(* What the actions amount to when swapping is never enabled.              *)

\* sleep() without swapping: the process leaves its CPU in the same step.
LEMMA SleepPlain ==
  ASSUME NoSwapping, NEW c \in CPU, NEW p \in Slot, NEW ch,
         NEW lk \in Lock, Sleep(c, p, ch, lk)
  PROVE  /\ lk = "ptable" \/ lock["ptable"] = NULL
         /\ chan' = [chan EXCEPT ![p] = ch]
         /\ state' = [state EXCEPT ![p] = "SLEEPING"]
         /\ lock' = [lock EXCEPT ![lk] = NULL, !["ptable"] = c]
         /\ pc' = [pc EXCEPT ![p] = Resume(job[p])]
         /\ Sched(c, p)
         /\ UNCHANGED <<wokenUp, swappingOut, outer, job, pid, parent, killed,
                        globals, loc, files, memory, panicked>>
BY Zenon DEF Sleep, NoSwapping

\* A step of sys_chdir(), which matters only to where swap files are created.
ChangesDir == \E c \in CPU, p \in Slot, root \in BOOLEAN : Chdir(c, p, root)

\* The steps of a kernel that does not swap.
Napping(c, p) ==
  \/ Sleep2Sleep(c, p) \/ SleepMore(c, p) \/ IlockSleep(c, p)

LEMMA Reachable ==
  ASSUME ~MaySwap, TypeOK, NoSwapping, Next, ~ChangesDir
  PROVE  \/ Tick
         \/ \E c \in CPU : ScanEnd(c) \/ SwapInScanned(c)
         \/ \E c \in CPU, p \in Slot :
              \/ Dispatch(c, p) \/ Yield(c, p) \/ ForkFail(c, p) \/ ForkDone(c, p)
              \/ \E q \in Slot : WaitReap(c, p, q)
              \/ WaitNone(c, p) \/ Napping(c, p) \/ Sleep2Return(c, p)
              \/ SleepAcquire(c, p) \/ SleepReturn(c, p)
              \/ BeginTrans(c, p) \/ IlockAcquire(c, p) \/ IlockTake(c, p)
              \/ Iunlock(c, p) \/ IunlockWakeup(c, p) \/ CommitTrans(c, p)
              \/ \E q \in Slot : ForkAlloc(c, p, q)
              \/ Exit(c, p) \/ WaitCall(c, p)
              \/ \E n \in Killable : Kill(c, p, n)
              \/ Sleep2Call(c, p) \/ Wakeup2(c, p) \/ SleepCall(c, p)
              \/ \E call \in {"write", "read"}, i \in Inode : FileCall(c, p, call, i)
<1>1. \A c \in CPU, p \in Slot :
        /\ ~SwapOutCreate(c, p) /\ ~SwapOutSave(c, p) /\ ~SwapOutFail(c, p)
        /\ ~SwapOutEnd(c, p)
        /\ \A on \in BOOLEAN : ~SetSwapping(c, p, on)
  BY DEF NoSwapping, SwapOutCreate, SwapOutSave, SwapOutFail, SwapOutEnd,
         SetSwapping, At
<1>2. \A c \in CPU :
        /\ \A t \in Slot : ~SwapInFound(c, t)
        /\ ~SwapInBreak(c) /\ ~SwapInLoad(c) /\ ~SwapInUnlink(c) /\ ~SwapInDone(c)
  BY Addresses, Zenon
     DEF NoSwapping, SwapInFound, SwapInBreak, SwapInLoad, SwapInUnlink,
         SwapInDone, At
<1>3. \A c \in CPU, p \in Slot :
        KernelStep(c, p) =>
          \/ ForkFail(c, p) \/ ForkDone(c, p)
          \/ \E q \in Slot : WaitReap(c, p, q)
          \/ WaitNone(c, p) \/ Napping(c, p) \/ Sleep2Return(c, p)
          \/ SleepAcquire(c, p) \/ SleepReturn(c, p)
          \/ BeginTrans(c, p) \/ IlockAcquire(c, p) \/ IlockTake(c, p)
          \/ Iunlock(c, p) \/ IunlockWakeup(c, p) \/ CommitTrans(c, p)
  BY <1>1, Zenon DEF KernelStep, Napping
<1>4. \A c \in CPU : SwapInStep(c) => SwapInScanned(c)
  BY <1>2, Zenon DEF SwapInStep
<1>5. \A c \in CPU, p \in Slot :
        UserStep(c, p) =>
          \/ \E q \in Slot : ForkAlloc(c, p, q)
          \/ Exit(c, p) \/ WaitCall(c, p)
          \/ \E n \in Killable : Kill(c, p, n)
          \/ Sleep2Call(c, p) \/ Wakeup2(c, p) \/ SleepCall(c, p)
          \/ \E call \in {"write", "read"}, i \in Inode : FileCall(c, p, call, i)
  BY <1>1, Zenon DEF UserStep, ChangesDir
<1> QED
  BY <1>3, <1>4, <1>5, Zenon DEF Next

\* wakeup1() without swapping makes the sleepers RUNNABLE and nothing else.
LEMMA WakeupPlain ==
  ASSUME TypeOK, NoSwapping, NEW chs, Wakeup1(chs)
  PROVE  /\ WokenState(chs) = [q \in Slot |-> IF Asleep(q, chs) THEN "RUNNABLE"
                                              ELSE state[q]]
         /\ wokenUp' = wokenUp
         /\ swappedout' = 0
<1>1. SuspendedOn(chs) = {} /\ \A q \in Slot : ~Suspended(q, chs)
  BY Zenon DEF NoSwapping, SuspendedOn, Suspended
<1>2. wokenUp' = wokenUp
  BY Zenon DEF NoSwapping, Wakeup1, TypeOK, TableType
<1>3. swappedout' = 0
  BY <1>1, EntryCounts DEF NoSwapping, Wakeup1
<1>4. WokenState(chs) = [q \in Slot |-> IF Asleep(q, chs) THEN "RUNNABLE"
                                        ELSE state[q]]
  BY <1>1, Zenon DEF WokenState, NoSwapping
<1> QED
  BY <1>2, <1>3, <1>4, Zenon

\* Addresses that are not those of processes: the channels of system calls.
OtherChan == Nat \ Slot

LEMMA Channels ==
  /\ SwapFlagChan \in OtherChan /\ TicksChan \in OtherChan
  /\ \A j \in Nat : InodeChan(j) \in OtherChan
  /\ \A i \in Inode : InodeChan(i) \notin {SwapFlagChan, TicksChan}
  /\ \A i \in Inode, j \in Nat : InodeChan(j) = InodeChan(i) => j = i
BY NPROCAssumption, NINODEAssumption
   DEF OtherChan, SwapFlagChan, TicksChan, InodeChan, Slot, Inode

LEMMA TargetType ==
  ASSUME TypeOK, NEW p \in Slot
  PROVE  Target(p) \in Nat
BY Zenon DEF Target, RootDir, TypeOK, StackType

\* What a system call that goes to sleep on ch, holding lk, does.
Naps(c, p, ch, lk) ==
  /\ cur[c] = p /\ pc[p] \in Held(lk) /\ pc[p] # "iwake"
  /\ \A i \in Inode : ch = InodeChan(i) => inodeOwner[i] # NULL
  /\ lock["ptable"] = NULL
  /\ chan' = [chan EXCEPT ![p] = ch]
  /\ state' = [state EXCEPT ![p] = "SLEEPING"]
  /\ lock' = [lock EXCEPT ![lk] = NULL, !["ptable"] = c]
  /\ pc' = [pc EXCEPT ![p] = Resume(job[p])]
  /\ Sched(c, p)
  /\ UNCHANGED <<wokenUp, swappingOut, outer, job, pid, parent, killed, globals,
                 loc, files, memory, panicked>>

LEMMA NapPlain ==
  ASSUME TypeOK, NoSwapping, NEW c \in CPU, NEW p \in Slot, Napping(c, p)
  PROVE  \E lk \in {"icache", "ticks"}, ch \in OtherChan :
           Naps(c, p, ch, lk)
<1>1. ASSUME NEW lk \in {"icache", "ticks"},
             NEW ch \in OtherChan,
             cur[c] = p, pc[p] \in Held(lk), pc[p] # "iwake",
             \A i \in Inode : ch = InodeChan(i) => inodeOwner[i] # NULL,
             Sleep(c, p, ch, lk)
      PROVE  Naps(c, p, ch, lk)
  <2>1. lk \in Lock /\ lk # "ptable"
    BY Zenon DEF Lock
  <2> QED
    BY <1>1, <2>1, SleepPlain DEF Naps
<1>2. CASE Sleep2Sleep(c, p)
  BY <1>1, <1>2, Channels, Zenon DEF Sleep2Sleep, At, Held
<1>3. CASE SleepMore(c, p)
  BY <1>1, <1>3, Channels, Zenon DEF SleepMore, At, Held
<1>4. CASE IlockSleep(c, p)
  <2>1. /\ Target(p) \in Nat /\ InodeChan(Target(p)) \in OtherChan
        /\ \A i \in Inode : InodeChan(Target(p)) = InodeChan(i) => Target(p) = i
    BY TargetType, Channels, Zenon
  <2> QED
    BY <1>1, <1>4, <2>1, Zenon DEF IlockSleep, At, Held
<1> QED
  BY <1>2, <1>3, <1>4, Zenon DEF Napping

\* wait() that finds no ZOMBIE child, without swapping: it returns or sleeps.
LEMMA WaitPlain ==
  ASSUME NoSwapping, NEW c \in CPU, NEW p \in Slot, WaitNone(c, p)
  PROVE  /\ cur[c] = p /\ pc[p] = "waiting"
         /\ \/ /\ lock' = [lock EXCEPT !["ptable"] = NULL]
               /\ Return(p)
               /\ UNCHANGED <<table, globals, cur, scan, files, memory, panicked>>
            \/ /\ chan' = [chan EXCEPT ![p] = p]
               /\ state' = [state EXCEPT ![p] = "SLEEPING"]
               /\ lock' = [lock EXCEPT !["ptable"] = c]
               /\ pc' = [pc EXCEPT ![p] = Resume(job[p])]
               /\ Sched(c, p)
               /\ ~killed[p]
               /\ UNCHANGED <<wokenUp, swappingOut, outer, job, pid, parent, killed,
                              globals, loc, files, memory, panicked>>
<1>2. CASE Sleep(c, p, p, "ptable") /\ ~killed[p]
  <2>0. ~swapFlag
    BY Zenon DEF NoSwapping
  <2>1. lock' = [lock EXCEPT !["ptable"] = NULL, !["ptable"] = c]
    BY <1>2, <2>0, Zenon DEF Sleep
  <2>2. lock' = [lock EXCEPT !["ptable"] = c]
    BY <2>1, Zenon
  <2>3. cur[c] = p /\ pc[p] = "waiting"
    BY Zenon DEF WaitNone, At
  <2>4. /\ chan' = [chan EXCEPT ![p] = p]
        /\ state' = [state EXCEPT ![p] = "SLEEPING"]
        /\ pc' = [pc EXCEPT ![p] = Resume(job[p])]
        /\ Sched(c, p)
        /\ UNCHANGED <<wokenUp, swappingOut, outer, job, pid, parent, killed,
                       globals, loc, files, memory, panicked>>
    BY <1>2, <2>0, Zenon DEF Sleep
  <2> QED
    BY <1>2, <2>2, <2>3, <2>4, Zenon
<1>3. CASE ~(Sleep(c, p, p, "ptable") /\ ~killed[p])
  BY <1>3, Zenon DEF WaitNone, At
<1> QED
  BY <1>2, <1>3, Zenon

\* kill() without swapping.
LEMMA KillPlain ==
  ASSUME NoSwapping, NEW c \in CPU, NEW p \in Slot, NEW n \in Killable,
         Kill(c, p, n)
  PROVE  /\ \E q \in Slot :
              /\ killed' = [killed EXCEPT ![q] = TRUE]
              /\ state' = [state EXCEPT ![q] = IF @ = "SLEEPING" THEN "RUNNABLE"
                                               ELSE @]
         /\ UNCHANGED <<pid, parent, chan, swappingOut, wokenUp, globals, cpus,
                        stacks, files, memory, panicked>>
BY Zenon DEF Kill, NoSwapping, globals

\* The loop of inswapper without swapping: back to sleep.
LEMMA SwapInPlain ==
  ASSUME TypeOK, NoSwapping, CpuInv, NEW c \in CPU, SwapInScanned(c)
  PROVE  /\ cur[c] = inswapper /\ lock["ptable"] = c
         /\ chan' = [chan EXCEPT ![inswapper] = inswapper]
         /\ state' = [state EXCEPT ![inswapper] = "SLEEPING"]
         /\ loc' = [loc EXCEPT ![inswapper] = 1]
         /\ pc' = [pc EXCEPT ![inswapper] = "scan"]
         /\ job' = [job EXCEPT ![inswapper] = "none"]
         /\ Sched(c, inswapper)
         /\ UNCHANGED <<outer, panicked, pid, parent, killed, swappingOut,
                        wokenUp, globals, lock, files, memory>>
<1>1. cur[c] = inswapper /\ pc[inswapper] = "scan"
  BY Zenon DEF SwapInScanned, At
<1>2. lock["ptable"] = c
  BY <1>1, Addresses, Zenon DEF CpuInv, LocksHeld, Held, Lock, NULL
<1>3. ~(swappedout > 0)
  BY DEF NoSwapping
<1> QED
  BY <1>1, <1>2, <1>3, Zenon DEF SwapInScanned, SwapInRestart

\* exit() without swapping: the caller becomes a ZOMBIE, its children those of
\* init, and the sleepers on chs, the parents concerned, wake up.
Exits(c, p, chs) ==
  /\ cur[c] = p /\ pc[p] = "user" /\ p # initproc /\ lock["ptable"] = NULL
  /\ parent[p] \in chs
  /\ (\E q \in Slot : parent[q] = p /\ state[q] = "ZOMBIE") => initproc \in chs
  /\ state' = [q \in Slot |-> IF q = p THEN "ZOMBIE"
                              ELSE IF Asleep(q, chs) THEN "RUNNABLE" ELSE state[q]]
  /\ parent' = [q \in Slot |-> IF parent[q] = p THEN initproc ELSE parent[q]]
  /\ lock' = [lock EXCEPT !["ptable"] = c]
  /\ Sched(c, p)
  /\ UNCHANGED <<pid, chan, killed, swappingOut, wokenUp, globals, stacks, files,
                 memory, panicked>>

LEMMA ExitPlain ==
  ASSUME TypeOK, NoSwapping, NEW c \in CPU, NEW p \in Slot, Exit(c, p)
  PROVE  \E chs : Exits(c, p, chs)
<1> DEFINE chs == ExitWakes(p)
<1>1. /\ state' = [WokenState(chs) EXCEPT ![p] = "ZOMBIE"]
      /\ Wakeup1(chs)
      /\ parent' = [q \in Slot |-> IF q \in Children(p) THEN initproc ELSE parent[q]]
  BY Zenon DEF Exit
<1>2. (\E q \in Slot : parent[q] = p /\ state[q] = "ZOMBIE") => initproc \in chs
  BY Zenon DEF ExitWakes, Children
<1>3. parent[p] \in chs
  BY Zenon DEF ExitWakes
<1>4. parent' = [q \in Slot |-> IF parent[q] = p THEN initproc ELSE parent[q]]
  BY <1>1, Zenon DEF Children
<1> HIDE DEF chs
<1>5. state' = [q \in Slot |-> IF q = p THEN "ZOMBIE"
                               ELSE IF Asleep(q, chs) THEN "RUNNABLE" ELSE state[q]]
  BY <1>1, WakeupPlain, Zenon
<1>6. wokenUp' = wokenUp /\ swappedout' = swappedout
  BY <1>1, WakeupPlain, Zenon DEF NoSwapping
<1>7. Exits(c, p, chs)
  BY <1>2, <1>3, <1>4, <1>5, <1>6, Zenon DEF Exit, Exits, At, globals
<1> QED
  BY <1>7, Zenon

-----------------------------------------------------------------------------
(* The steps by what they do to the process table.                         *)

\* wakeup() on a channel that is not a process.
WokenOn(ch) ==
  /\ state' = [q \in Slot |-> IF Asleep(q, {ch}) THEN "RUNNABLE" ELSE state[q]]
  /\ UNCHANGED <<pid, parent, chan, killed, wokenUp, swappingOut, globals>>

\* A process that a CPU executes goes to sleep.
SleepsOn(p, ch) ==
  /\ \E c \in CPU : cur[c] = p
  /\ state' = [state EXCEPT ![p] = "SLEEPING"]
  /\ chan' = [chan EXCEPT ![p] = ch]
  /\ UNCHANGED <<pid, parent, killed, wokenUp, swappingOut, globals>>

\* The timer interrupt, sys_wakeup2() and iunlock() wake up a channel each.
LEMMA WakersPlain ==
  ASSUME TypeOK, NoSwapping
  PROVE  /\ Tick => WokenOn(TicksChan)
         /\ \A c \in CPU, p \in Slot :
              /\ Wakeup2(c, p) => WokenOn(SwapFlagChan)
              /\ IunlockWakeup(c, p) => WokenOn(InodeChan(Target(p)))
<1>1. ASSUME Tick PROVE WokenOn(TicksChan)
  BY <1>1, WakeupPlain, Zenon DEF Tick, WokenOn, globals, NoSwapping
<1>2. ASSUME NEW c \in CPU, NEW p \in Slot, Wakeup2(c, p)
      PROVE  WokenOn(SwapFlagChan)
  BY <1>2, WakeupPlain, Zenon DEF Wakeup2, WokenOn, globals, NoSwapping
<1>3. ASSUME NEW c \in CPU, NEW p \in Slot, IunlockWakeup(c, p)
      PROVE  WokenOn(InodeChan(Target(p)))
  BY <1>3, WakeupPlain, Zenon DEF IunlockWakeup, WokenOn, globals, NoSwapping
<1> QED
  BY <1>1, <1>2, <1>3, Zenon

\* wakeup() changes the state of sleepers only.
LEMMA WokenOnly ==
  ASSUME NEW ch, WokenOn(ch), NEW q \in Slot
  PROVE  /\ state'[q] \in {state[q], "RUNNABLE"}
         /\ state[q] # "SLEEPING" => state'[q] = state[q]
         /\ state'[q] = "SLEEPING" => state[q] = "SLEEPING" /\ chan[q] # ch
BY Zenon DEF WokenOn, Asleep

LEMMA TableSteps ==
  ASSUME ~MaySwap, TypeOK, NoSwapping, CpuInv, Next, ~ChangesDir
  PROVE  \/ UNCHANGED <<table, globals>>
         \/ \E ch \in OtherChan :
              WokenOn(ch) \/ \E p \in Slot : SleepsOn(p, ch)
         \/ SleepsOn(inswapper, inswapper)
         \/ \E c \in CPU, p \in Slot :
              \/ Dispatch(c, p) \/ Yield(c, p) \/ ForkFail(c, p) \/ ForkDone(c, p)
              \/ \E q \in Slot : WaitReap(c, p, q) \/ ForkAlloc(c, p, q)
              \/ WaitNone(c, p) /\ SleepsOn(p, p) /\ ~killed[p]
              \/ Exit(c, p)
              \/ \E n \in Killable : Kill(c, p, n)
<1>1. ASSUME NEW c \in CPU, ScanEnd(c) PROVE UNCHANGED <<table, globals>>
  BY <1>1, Zenon DEF ScanEnd
<1>2. ASSUME NEW c \in CPU, NEW p \in Slot,
             \/ WaitCall(c, p) \/ Sleep2Call(c, p) \/ Sleep2Return(c, p)
             \/ SleepCall(c, p) \/ SleepAcquire(c, p) \/ SleepReturn(c, p)
             \/ \E call \in {"write", "read"}, i \in Inode : FileCall(c, p, call, i)
             \/ BeginTrans(c, p) \/ IlockAcquire(c, p) \/ IlockTake(c, p)
             \/ Iunlock(c, p) \/ CommitTrans(c, p)
      PROVE  UNCHANGED <<table, globals>>
  BY <1>2, Zenon
     DEF WaitCall, Sleep2Call, Sleep2Return, SleepCall, SleepAcquire,
         SleepReturn, FileCall, BeginTrans, IlockAcquire, IlockTake, Iunlock,
         CommitTrans
<1>3. /\ Tick => WokenOn(TicksChan)
      /\ \A c \in CPU, p \in Slot :
           /\ Wakeup2(c, p) => WokenOn(SwapFlagChan)
           /\ IunlockWakeup(c, p) => WokenOn(InodeChan(Target(p)))
  BY WakersPlain, Zenon
<1>6. ASSUME NEW c \in CPU, NEW p \in Slot, Napping(c, p)
      PROVE  \E ch \in OtherChan : SleepsOn(p, ch)
  <2>1. PICK lk \in {"icache", "ticks"}, ch \in OtherChan :
          Naps(c, p, ch, lk)
    BY <1>6, NapPlain, Zenon
  <2>2. SleepsOn(p, ch)
    BY <2>1, Zenon DEF SleepsOn, Naps
  <2> QED
    BY <2>2, Zenon
<1>7. ASSUME NEW c \in CPU, SwapInScanned(c)
      PROVE  SleepsOn(inswapper, inswapper)
  BY <1>7, SwapInPlain, Zenon DEF SleepsOn
<1>8. ASSUME NEW c \in CPU, NEW p \in Slot, WaitNone(c, p)
      PROVE  UNCHANGED <<table, globals>> \/ (SleepsOn(p, p) /\ ~killed[p])
  BY <1>8, WaitPlain, Zenon DEF SleepsOn
<1> QED
  BY <1>1, <1>2, <1>3, <1>6, <1>7, <1>8, Reachable, Channels, TargetType, SMT, SMTT(30)

-----------------------------------------------------------------------------
(* Without swapping, steps preserve what NoSwapInv says of the process      *)
(* table and of the sleepers on inodes.                                    *)

\* Pids stay below nextpid and unique.
LEMMA PidStep ==
  ASSUME ~MaySwap, TypeOK, NoSwapInv, Next, ~ChangesDir
  PROVE  PidInv'
<1> DEFINE Known == PidInv /\ ForksApart /\ NoSwapping /\ TypeOK
<1>0. Known /\ CpuInv
  BY Zenon DEF NoSwapInv, CpuInv
<1> USE DEF PidInv, PidsIssued, UniquePids, ForksApart, TypeOK, TableType,
            GlobalType, StackType, globals
<1>1. ASSUME UNCHANGED <<table, globals>> PROVE PidInv'
  BY <1>0, <1>1, Zenon DEF table
<1>2. ASSUME NEW ch \in OtherChan,
             WokenOn(ch) \/ \E p \in Slot : SleepsOn(p, ch)
      PROVE  PidInv'
  BY <1>0, <1>2, SMT, SMTT(30) DEF WokenOn, SleepsOn, Asleep, CpuInv, RunningIsCurrent
<1>3. ASSUME SleepsOn(inswapper, inswapper) PROVE PidInv'
  BY <1>0, <1>3, Addresses, SMT, SMTT(30) DEF SleepsOn, CpuInv, RunningIsCurrent
<1>4. ASSUME NEW c \in CPU, NEW p \in Slot, Dispatch(c, p) \/ Yield(c, p)
      PROVE  PidInv'
  BY <1>0, <1>4, SMT, SMTT(30) DEF Dispatch, Yield
<1>5. ASSUME NEW c \in CPU, NEW p \in Slot, ForkFail(c, p) \/ ForkDone(c, p)
      PROVE  PidInv'
  BY <1>0, <1>5, SMT, SMTT(30) DEF ForkFail, ForkDone, At
<1>6. ASSUME NEW c \in CPU, NEW p \in Slot, NEW q \in Slot, WaitReap(c, p, q)
      PROVE  PidInv'
  BY <1>0, <1>6, SMT, SMTT(30) DEF WaitReap
<1>7. ASSUME NEW c \in CPU, NEW p \in Slot, NEW q \in Slot, ForkAlloc(c, p, q)
      PROVE  PidInv'
  BY <1>0, <1>7, SMT, SMTT(30) DEF ForkAlloc
<1>8. ASSUME NEW c \in CPU, NEW p \in Slot, SleepsOn(p, p) PROVE PidInv'
  BY <1>0, <1>8, SMT, SMTT(30) DEF SleepsOn, CpuInv, RunningIsCurrent
<1>9. ASSUME NEW c \in CPU, NEW p \in Slot, Exit(c, p) PROVE PidInv'
  <2>1. PICK chs : Exits(c, p, chs)
    BY <1>0, <1>9, ExitPlain, Zenon
  <2>2. state[p] = "RUNNING"
    BY <1>0, <2>1, Zenon DEF CpuInv, RunningIsCurrent, Exits
  <2>3. \A q \in Slot : state'[q] # "UNUSED" => state[q] # "UNUSED"
    BY <2>1, <2>2, Zenon DEF Asleep, Exits
  <2>4. UNCHANGED <<pid, nextpid>>
    BY <2>1, Zenon DEF Exits
  <2> QED
    BY <1>0, <2>3, <2>4, Zenon
<1>10. ASSUME NEW c \in CPU, NEW p \in Slot, NEW n \in Killable, Kill(c, p, n)
       PROVE  PidInv'
  BY <1>0, <1>10, KillPlain, SMT, SMTT(30)
<1> HIDE DEF PidInv, TypeOK
<1> QED
  BY <1>0, <1>1, <1>2, <1>3, <1>4, <1>5, <1>6, <1>7, <1>8, <1>9, <1>10, TableSteps, Zenon

\* init stays alive and every process keeps a live parent.
LEMMA ParentStep ==
  ASSUME ~MaySwap, TypeOK, NoSwapInv, Next, ~ChangesDir
  PROVE  InitAlive' /\ ParentAlive'
<1>0. NoSwapping /\ CpuInv /\ RunningIsCurrent /\ ForksApart /\ InitAlive /\ ParentAlive
  BY Zenon DEF NoSwapInv, CpuInv, FamilyInv
<1> USE <1>0, Addresses
    DEF InitAlive, ParentAlive, RunningIsCurrent, TypeOK, TableType, NULL
<1>1. ASSUME UNCHANGED <<table, globals>> PROVE InitAlive' /\ ParentAlive'
  BY <1>1, Zenon DEF table
<1>2. ASSUME NEW ch \in OtherChan, WokenOn(ch)
      PROVE  InitAlive' /\ ParentAlive'
  BY <1>2, SMT, SMTT(30) DEF WokenOn, Asleep
<1>3. ASSUME NEW p \in Slot, NEW ch, SleepsOn(p, ch)
      PROVE  InitAlive' /\ ParentAlive'
  BY <1>3, SMT, SMTT(30) DEF SleepsOn
<1>4. ASSUME NEW c \in CPU, NEW p \in Slot, Dispatch(c, p)
      PROVE  InitAlive' /\ ParentAlive'
  BY <1>4, SMT, SMTT(30) DEF Dispatch
<1>5. ASSUME NEW c \in CPU, NEW p \in Slot, Yield(c, p)
      PROVE  InitAlive' /\ ParentAlive'
  BY <1>5, SMT, SMTT(30) DEF Yield
<1>6. ASSUME NEW c \in CPU, NEW p \in Slot, ForkFail(c, p)
      PROVE  InitAlive' /\ ParentAlive'
  BY <1>6, SMT, SMTT(30) DEF ForkFail, At, ForksApart
<1>9. ASSUME NEW c \in CPU, NEW p \in Slot, ForkDone(c, p)
      PROVE  InitAlive' /\ ParentAlive'
  BY <1>9, SMT, SMTT(30) DEF ForkDone, At, ForksApart
<1>10. ASSUME NEW c \in CPU, NEW p \in Slot, NEW q \in Slot, WaitReap(c, p, q)
      PROVE  InitAlive' /\ ParentAlive'
  BY <1>10, SMT, SMTT(30) DEF WaitReap
<1>11. ASSUME NEW c \in CPU, NEW p \in Slot, NEW q \in Slot, ForkAlloc(c, p, q)
      PROVE  InitAlive' /\ ParentAlive'
  BY <1>11, SMT, SMTT(30) DEF ForkAlloc
<1>7. ASSUME NEW c \in CPU, NEW p \in Slot, Exit(c, p)
      PROVE  InitAlive' /\ ParentAlive'
  <2>1. PICK chs : Exits(c, p, chs)
    BY <1>7, ExitPlain, Zenon
  <2>2. InitAlive'
    BY <2>1, SMT, SMTT(30) DEF Exits
  <2>3. ASSUME NEW q \in Slot \ {initproc}, state'[q] \notin {"UNUSED", "EMBRYO"}
        PROVE  /\ parent'[q] # NULL
               /\ state'[parent'[q]] \notin {"UNUSED", "EMBRYO", "ZOMBIE"}
    <3>1. state[q] \notin {"UNUSED", "EMBRYO"}
      BY <2>1, <2>3, Zenon DEF Asleep, Exits
    <3>2. parent[q] \in Slot /\ state[parent[q]] \notin {"UNUSED", "EMBRYO", "ZOMBIE"}
      BY <3>1, SMT, SMTT(30) DEF Exits
    <3>3. CASE parent[q] = p
      BY <2>1, <2>2, <3>3, Zenon DEF Exits
    <3>4. CASE parent[q] # p
      BY <2>1, <3>2, <3>4, Zenon DEF Exits
    <3> QED
      BY <3>3, <3>4, Zenon
  <2> QED
    BY <2>2, <2>3, Zenon
<1>8. ASSUME NEW c \in CPU, NEW p \in Slot, NEW n \in Killable, Kill(c, p, n)
      PROVE  InitAlive' /\ ParentAlive'
  <2>1. PICK q \in Slot :
          state' = [state EXCEPT ![q] = IF @ = "SLEEPING" THEN "RUNNABLE" ELSE @]
    BY <1>8, KillPlain, Zenon
  <2>2. parent' = parent
    BY <1>8, Zenon DEF Kill
  <2> QED
    BY <2>1, <2>2, SMT, SMTT(30)
<1> HIDE DEF InitAlive, ParentAlive, TypeOK
<1> QED
  BY <1>1, <1>2, <1>3, <1>4, <1>5, <1>6, <1>7, <1>8, <1>9, <1>10, <1>11,
     TableSteps, Zenon

\* A process asleep in wait() has no ZOMBIE child.
LEMMA ExitStep ==
  ASSUME ~MaySwap, TypeOK, NoSwapInv, Next, ~ChangesDir
  PROVE  NoMissedExit'
<1>0. /\ NoSwapping /\ CpuInv /\ RunningIsCurrent /\ ForksApart
      /\ InitAlive /\ NoMissedExit
  BY Zenon DEF NoSwapInv, CpuInv, FamilyInv
<1> USE <1>0, Addresses
    DEF InitAlive, NoMissedExit, RunningIsCurrent, NoSwapping, TypeOK, TableType, NULL
<1>1. ASSUME UNCHANGED <<table, globals>> PROVE NoMissedExit'
  BY <1>1, SMT, SMTT(30) DEF table
<1>2. ASSUME NEW ch \in OtherChan, WokenOn(ch)
      PROVE  NoMissedExit'
  BY <1>2, SMT, SMTT(30) DEF WokenOn
<1>3. ASSUME NEW ch \in OtherChan, NEW p \in Slot,
             SleepsOn(p, ch)
      PROVE  NoMissedExit'
  <2>1. ch # p
    BY <1>3, Zenon DEF OtherChan
  <2> QED
    BY <1>3, <2>1, SMT, SMTT(30) DEF SleepsOn
<1>4. ASSUME SleepsOn(inswapper, inswapper) PROVE NoMissedExit'
  BY <1>4, SMT, SMTT(30) DEF SleepsOn
<1>5. ASSUME NEW c \in CPU, NEW p \in Slot, Dispatch(c, p) PROVE NoMissedExit'
  BY <1>5, SMT, SMTT(30) DEF Dispatch
<1>6. ASSUME NEW c \in CPU, NEW p \in Slot, Yield(c, p) PROVE NoMissedExit'
  BY <1>6, SMT, SMTT(30) DEF Yield
<1>7. ASSUME NEW c \in CPU, NEW p \in Slot, ForkFail(c, p) PROVE NoMissedExit'
  BY <1>7, SMT, SMTT(30) DEF ForkFail
<1>8. ASSUME NEW c \in CPU, NEW p \in Slot, ForkDone(c, p) PROVE NoMissedExit'
  BY <1>8, SMT, SMTT(30) DEF ForkDone
<1>9. ASSUME NEW c \in CPU, NEW p \in Slot, NEW q \in Slot, WaitReap(c, p, q)
      PROVE  NoMissedExit'
  BY <1>9, SMT, SMTT(30) DEF WaitReap
<1>10. ASSUME NEW c \in CPU, NEW p \in Slot, NEW q \in Slot, ForkAlloc(c, p, q)
       PROVE  NoMissedExit'
  BY <1>10, SMT, SMTT(30) DEF ForkAlloc
<1>11. ASSUME NEW c \in CPU, NEW p \in Slot, WaitNone(c, p), SleepsOn(p, p)
       PROVE  NoMissedExit'
  BY <1>11, SMT, SMTT(30) DEF WaitNone, SleepsOn
<1>12. ASSUME NEW c \in CPU, NEW p \in Slot, Exit(c, p) PROVE NoMissedExit'
  <2>1. PICK chs : Exits(c, p, chs)
    BY <1>12, ExitPlain, Zenon
  <2> SUFFICES ASSUME NEW r \in Slot, NEW q \in Slot,
                      state'[r] = "SLEEPING", chan[r] = r,
                      parent'[q] = r, state'[q] = "ZOMBIE"
               PROVE  FALSE
    <3>1. \A r \in Slot : state'[r] # "SLEEPING_SUSPENDED"
      BY <2>1, Zenon DEF Exits
    <3> QED
      BY <2>1, SMT, SMTT(30) DEF Exits
  <2>2. r # p /\ state[r] = "SLEEPING" /\ r \notin chs
    BY <2>1, Zenon DEF Asleep, Exits
  <2>3. CASE q = p
    BY <2>1, <2>2, <2>3, Zenon DEF Exits
  <2>4. CASE q # p
    <3>1. state[q] = "ZOMBIE"
      BY <2>1, <2>4, Zenon DEF Exits
    <3>2. CASE parent[q] = p
      BY <2>1, <2>2, <3>1, <3>2, Zenon DEF Exits
    <3>3. CASE parent[q] # p
      BY <2>1, <2>2, <3>1, <3>3, Zenon DEF Exits
    <3> QED
      BY <3>2, <3>3, Zenon
  <2> QED
    BY <2>3, <2>4, Zenon
<1>13. ASSUME NEW c \in CPU, NEW p \in Slot, NEW n \in Killable, Kill(c, p, n)
       PROVE  NoMissedExit'
  <2>1. PICK q \in Slot :
          state' = [state EXCEPT ![q] = IF @ = "SLEEPING" THEN "RUNNABLE" ELSE @]
    BY <1>13, KillPlain, Zenon
  <2>2. UNCHANGED <<parent, chan, wokenUp>>
    BY <1>13, KillPlain, Zenon
  <2> QED
    BY <2>1, <2>2, SMT, SMTT(30)
<1> HIDE DEF NoMissedExit, NoSwapping, TypeOK
<1> QED
  BY <1>1, <1>2, <1>3, <1>4, <1>5, <1>6, <1>7, <1>8, <1>9, <1>10, <1>11,
     <1>12, <1>13, TableSteps, SMT, SMTT(30)

\* A killed process does not sleep in wait().
LEMMA KilledStep ==
  ASSUME ~MaySwap, TypeOK, NoSwapInv, Next, ~ChangesDir
  PROVE  KilledNotWaiting'
<1>0. /\ NoSwapping /\ CpuInv /\ RunningIsCurrent /\ ForksApart /\ KilledNotWaiting
  BY Zenon DEF NoSwapInv, CpuInv, FamilyInv
<1> USE <1>0, Addresses
    DEF KilledNotWaiting, RunningIsCurrent, TypeOK, TableType, NULL
<1>1. ASSUME UNCHANGED <<table, globals>> PROVE KilledNotWaiting'
  BY <1>1, Zenon DEF table
<1>2. ASSUME NEW ch \in OtherChan, WokenOn(ch)
      PROVE  KilledNotWaiting'
  BY <1>2, Zenon DEF WokenOn, Asleep
<1>3. ASSUME NEW ch \in OtherChan, NEW p \in Slot,
             SleepsOn(p, ch)
      PROVE  KilledNotWaiting'
  <2>1. ch # p
    BY <1>3, Zenon DEF OtherChan
  <2> QED
    BY <1>3, <2>1, Zenon DEF SleepsOn
<1>4. ASSUME SleepsOn(inswapper, inswapper) PROVE KilledNotWaiting'
  BY <1>4, Zenon DEF SleepsOn
<1>5. ASSUME NEW c \in CPU, NEW p \in Slot, Dispatch(c, p)
      PROVE  KilledNotWaiting'
  BY <1>5, SMT, SMTT(30) DEF Dispatch
<1>6. ASSUME NEW c \in CPU, NEW p \in Slot, Yield(c, p) PROVE KilledNotWaiting'
  BY <1>6, SMT, SMTT(30) DEF Yield
<1>7. ASSUME NEW c \in CPU, NEW p \in Slot, ForkFail(c, p)
      PROVE  KilledNotWaiting'
  BY <1>7, Zenon DEF ForkFail
<1>8. ASSUME NEW c \in CPU, NEW p \in Slot, ForkDone(c, p)
      PROVE  KilledNotWaiting'
  BY <1>8, Zenon DEF ForkDone
<1>9. ASSUME NEW c \in CPU, NEW p \in Slot, NEW q \in Slot, WaitReap(c, p, q)
      PROVE  KilledNotWaiting'
  BY <1>9, Zenon DEF WaitReap
<1>10. ASSUME NEW c \in CPU, NEW p \in Slot, NEW q \in Slot, ForkAlloc(c, p, q)
       PROVE  KilledNotWaiting'
  BY <1>10, SMT, SMTT(30) DEF ForkAlloc
<1>11. ASSUME NEW c \in CPU, NEW p \in Slot, SleepsOn(p, p), ~killed[p]
       PROVE  KilledNotWaiting'
  BY <1>11, Zenon DEF SleepsOn
<1>12. ASSUME NEW c \in CPU, NEW p \in Slot, Exit(c, p) PROVE KilledNotWaiting'
  <2>1. PICK chs : Exits(c, p, chs)
    BY <1>12, ExitPlain, Zenon
  <2>2. UNCHANGED <<chan, killed>>
    BY <1>12, Zenon DEF Exit
  <2> QED
    BY <2>1, Zenon DEF Exits
<1>13. ASSUME NEW c \in CPU, NEW p \in Slot, NEW n \in Killable, Kill(c, p, n)
       PROVE  KilledNotWaiting'
  <2>1. PICK q \in Slot :
          /\ killed' = [killed EXCEPT ![q] = TRUE]
          /\ state' = [state EXCEPT ![q] = IF @ = "SLEEPING" THEN "RUNNABLE" ELSE @]
    BY <1>13, KillPlain, Zenon
  <2>2. chan' = chan /\ state[q] # "SLEEPING_SUSPENDED"
    BY <1>13, KillPlain, Zenon DEF NoSwapping
  <2> QED
    BY <2>1, <2>2, Zenon
<1> HIDE DEF KilledNotWaiting, TypeOK
<1> QED
  BY <1>1, <1>2, <1>3, <1>4, <1>5, <1>6, <1>7, <1>8, <1>9, <1>10, <1>11,
     <1>12, <1>13, TableSteps, SMT, SMTT(30)

\* Each process is executed by one CPU at most, and is RUNNING when it is.
LEMMA RunStep ==
  ASSUME ~MaySwap, TypeOK, NoSwapInv, Next, ~ChangesDir
  PROVE  OneCpu' /\ RunningIsCurrent'
<1> DEFINE Stays == /\ cur' = cur
                    /\ \A q \in Slot : state'[q] = "RUNNING" <=> state[q] = "RUNNING"
           Leaves(c, p) ==
             /\ cur[c] = p /\ cur' = [cur EXCEPT ![c] = NULL]
             /\ \A q \in Slot : state'[q] = "RUNNING" <=> state[q] = "RUNNING" /\ q # p
<1>quiet. NoSwapping /\ CpuInv
  BY Zenon DEF NoSwapInv
<1>cpu. OneCpu /\ RunningIsCurrent
  BY Zenon DEF NoSwapInv, CpuInv
<1>st. state \in [Slot -> ProcState]
  BY Zenon DEF TypeOK, TableType
<1>cur. cur \in [CPU -> Slot \cup {NULL}]
  BY Zenon DEF TypeOK, CpuType
<1>1. ASSUME NEW c \in CPU, ScanEnd(c) PROVE Stays
  BY <1>1, Zenon DEF ScanEnd, table
<1>2. ASSUME NEW c \in CPU, NEW p \in Slot,
             \/ WaitCall(c, p) \/ Sleep2Call(c, p) \/ Sleep2Return(c, p)
             \/ SleepCall(c, p) \/ SleepAcquire(c, p) \/ SleepReturn(c, p)
             \/ \E call \in {"write", "read"}, i \in Inode : FileCall(c, p, call, i)
             \/ BeginTrans(c, p) \/ IlockAcquire(c, p) \/ IlockTake(c, p)
             \/ Iunlock(c, p) \/ CommitTrans(c, p)
      PROVE  Stays
  BY <1>2, Zenon
     DEF WaitCall, Sleep2Call, Sleep2Return, SleepCall, SleepAcquire,
         SleepReturn, FileCall, BeginTrans, IlockAcquire, IlockTake, Iunlock,
         CommitTrans, table, cpus
<1>3. ASSUME Tick PROVE Stays
  <2>1. WokenOn(TicksChan)
    BY <1>quiet, <1>3, WakersPlain, Zenon
  <2> QED
    BY <1>3, <2>1, WokenOnly, Zenon DEF Tick, cpus
<1>4. ASSUME NEW c \in CPU, NEW p \in Slot, Wakeup2(c, p) PROVE Stays
  <2>1. WokenOn(SwapFlagChan)
    BY <1>quiet, <1>4, WakersPlain, Zenon
  <2> QED
    BY <1>4, <2>1, WokenOnly, Zenon DEF Wakeup2, cpus
<1>5. ASSUME NEW c \in CPU, NEW p \in Slot, IunlockWakeup(c, p) PROVE Stays
  <2>1. WokenOn(InodeChan(Target(p)))
    BY <1>quiet, <1>5, WakersPlain, Zenon
  <2>2. cur' = cur
    BY <1>5, Zenon DEF IunlockWakeup
  <2> QED
    BY <2>1, <2>2, WokenOnly, Zenon
<1>6. ASSUME NEW c \in CPU, NEW p \in Slot, Napping(c, p) PROVE Leaves(c, p)
  BY <1>quiet, <1>st, <1>6, NapPlain, SMT, SMTT(30) DEF Sched, Naps
<1>7. ASSUME NEW c \in CPU, SwapInScanned(c) PROVE Leaves(c, inswapper)
  BY <1>quiet, <1>st, <1>7, SwapInPlain, Zenon DEF Sched
<1>8. ASSUME NEW c \in CPU, NEW p \in Slot, WaitNone(c, p)
      PROVE  Stays \/ Leaves(c, p)
  <2>1. cur[c] = p
    BY <1>8, Zenon DEF WaitNone, At
  <2>2. CASE UNCHANGED <<table, cur>>
    BY <2>2, Zenon DEF table
  <2>3. CASE state' = [state EXCEPT ![p] = "SLEEPING"] /\ Sched(c, p)
    BY <1>st, <2>1, <2>3, Zenon DEF Sched
  <2> QED
    BY <1>quiet, <1>8, <2>2, <2>3, WaitPlain, Zenon
<1>9. ASSUME NEW c \in CPU, NEW p \in Slot, Yield(c, p) PROVE Leaves(c, p)
  BY <1>st, <1>9, Zenon DEF Yield, Sched
<1>10. ASSUME NEW c \in CPU, NEW p \in Slot, ForkFail(c, p) \/ ForkDone(c, p)
       PROVE  Stays
  <2>1. loc[p] \in Slot /\ state[loc[p]] = "EMBRYO"
    BY <1>quiet, <1>10, Zenon DEF ForkFail, ForkDone, At, CpuInv, ForksApart
  <2> QED
    BY <1>st, <1>10, <2>1, Zenon DEF ForkFail, ForkDone, cpus
<1>11. ASSUME NEW c \in CPU, NEW p \in Slot, NEW q \in Slot,
              WaitReap(c, p, q) \/ ForkAlloc(c, p, q)
       PROVE  Stays
  BY <1>st, <1>11, Zenon DEF WaitReap, ForkAlloc, cpus
<1>12. ASSUME NEW c \in CPU, NEW p \in Slot, Exit(c, p) PROVE Leaves(c, p)
  <2>1. PICK chs : Exits(c, p, chs)
    BY <1>quiet, <1>12, ExitPlain, Zenon
  <2> QED
    BY <2>1, Zenon DEF Sched, Asleep, Exits
<1>13. ASSUME NEW c \in CPU, NEW p \in Slot, NEW n \in Killable, Kill(c, p, n)
       PROVE  Stays
  BY <1>quiet, <1>st, <1>13, KillPlain, Zenon DEF cpus
<1>14. ASSUME Stays PROVE OneCpu' /\ RunningIsCurrent'
  BY <1>cpu, <1>14, Zenon DEF OneCpu, RunningIsCurrent
<1>15. ASSUME NEW c \in CPU, NEW p \in Slot, Leaves(c, p)
       PROVE  OneCpu' /\ RunningIsCurrent'
  BY <1>cpu, <1>cur, <1>15, Addresses, SMT, SMTT(30) DEF OneCpu, RunningIsCurrent, NULL
<1>16. ASSUME NEW c \in CPU, NEW p \in Slot, Dispatch(c, p)
       PROVE  OneCpu' /\ RunningIsCurrent'
  BY <1>cpu, <1>st, <1>cur, <1>16, Addresses, SMT, SMTT(30) DEF Dispatch, OneCpu, RunningIsCurrent, NULL
<1> HIDE DEF Stays, Leaves
<1> QED
  BY <1>quiet, <1>1, <1>2, <1>3, <1>4, <1>5, <1>6, <1>7, <1>8, <1>9, <1>10,
     <1>11, <1>12, <1>13, <1>14, <1>15, <1>16, Reachable, Addresses, SMT, SMTT(30)

\* fork() fills an EMBRYO of its own.
LEMMA ForkStep ==
  ASSUME ~MaySwap, TypeOK, NoSwapInv, Next, ~ChangesDir
  PROVE  ForksApart'
<1> DEFINE Keeps ==
             /\ \A q \in Slot : pc'[q] = "forking" => pc[q] = "forking" /\ loc'[q] = loc[q]
             /\ \A q \in Slot : state[q] = "EMBRYO" => state'[q] = "EMBRYO"
<1>quiet. NoSwapping /\ CpuInv
  BY Zenon DEF NoSwapInv
<1>forks. ForksApart /\ RunningIsCurrent
  BY Zenon DEF NoSwapInv, CpuInv
<1>st. state \in [Slot -> ProcState]
  BY Zenon DEF TypeOK, TableType
<1>pc. pc \in [Slot -> Pc] /\ loc \in [Slot -> Nat]
  BY Zenon DEF TypeOK, StackType
<1>1. ASSUME NEW c \in CPU, ScanEnd(c) PROVE Keeps
  BY <1>1, Zenon DEF ScanEnd, table, stacks
<1>2. ASSUME NEW c \in CPU, NEW p \in Slot,
             \/ WaitCall(c, p) \/ Sleep2Call(c, p) \/ Sleep2Return(c, p)
             \/ SleepCall(c, p) \/ SleepAcquire(c, p) \/ SleepReturn(c, p)
             \/ \E call \in {"write", "read"}, i \in Inode : FileCall(c, p, call, i)
             \/ BeginTrans(c, p) \/ IlockAcquire(c, p) \/ IlockTake(c, p)
             \/ Iunlock(c, p) \/ CommitTrans(c, p)
      PROVE  Keeps
  BY <1>pc, <1>2, Zenon
     DEF WaitCall, Sleep2Call, Sleep2Return, SleepCall, SleepAcquire,
         SleepReturn, FileCall, BeginTrans, IlockAcquire, IlockTake, Iunlock,
         CommitTrans, Return, table
<1>3. ASSUME Tick PROVE Keeps
  <2>1. WokenOn(TicksChan)
    BY <1>quiet, <1>3, WakersPlain, Zenon
  <2> QED
    BY <1>3, <2>1, WokenOnly, Zenon DEF Tick, stacks
<1>4. ASSUME NEW c \in CPU, NEW p \in Slot, Wakeup2(c, p) PROVE Keeps
  <2>1. WokenOn(SwapFlagChan)
    BY <1>quiet, <1>4, WakersPlain, Zenon
  <2> QED
    BY <1>4, <2>1, WokenOnly, Zenon DEF Wakeup2, stacks
<1>5. ASSUME NEW c \in CPU, NEW p \in Slot, IunlockWakeup(c, p) PROVE Keeps
  <2>1. \A q \in Slot : state[q] = "EMBRYO" => state'[q] = "EMBRYO"
    BY <1>quiet, <1>5, WakersPlain, WokenOnly, Zenon
  <2>2. \A q \in Slot : pc'[q] = "forking" => pc[q] = "forking" /\ loc'[q] = loc[q]
    BY <1>pc, <1>5, Zenon DEF IunlockWakeup, Return
  <2> QED
    BY <2>1, <2>2, Zenon
<1>6. ASSUME NEW c \in CPU, NEW p \in Slot, Napping(c, p) PROVE Keeps
  <2>1. /\ cur[c] = p /\ state' = [state EXCEPT ![p] = "SLEEPING"]
        /\ pc' = [pc EXCEPT ![p] = Resume(job[p])] /\ loc' = loc
    BY <1>quiet, <1>6, NapPlain, Zenon DEF Naps
  <2>2. state[p] = "RUNNING"
    BY <1>forks, <2>1, Zenon DEF RunningIsCurrent
  <2> QED
    BY <1>st, <1>pc, <2>1, <2>2, Zenon DEF Resume
<1>7. ASSUME NEW c \in CPU, SwapInScanned(c) PROVE Keeps
  <2>1. state[inswapper] = "RUNNING" /\ inswapper \in Slot
    BY <1>quiet, <1>forks, <1>7, SwapInPlain, Addresses, Zenon DEF RunningIsCurrent
  <2> QED
    BY <1>quiet, <1>st, <1>pc, <1>7, <2>1, SwapInPlain, Zenon
<1>8. ASSUME NEW c \in CPU, NEW p \in Slot, WaitNone(c, p) PROVE Keeps
  <2>1. cur[c] = p /\ state[p] = "RUNNING"
    BY <1>forks, <1>8, Zenon DEF WaitNone, At, RunningIsCurrent
  <2>2. CASE UNCHANGED table /\ Return(p)
    BY <1>pc, <2>2, Zenon DEF table, Return
  <2>3. CASE /\ state' = [state EXCEPT ![p] = "SLEEPING"]
             /\ pc' = [pc EXCEPT ![p] = Resume(job[p])] /\ loc' = loc
    BY <1>st, <1>pc, <2>1, <2>3, Zenon DEF Resume
  <2> QED
    BY <1>quiet, <1>8, <2>2, <2>3, WaitPlain, ZenonT(30)
<1>9. ASSUME NEW c \in CPU, NEW p \in Slot, Dispatch(c, p) \/ Yield(c, p)
      PROVE  Keeps
  BY <1>st, <1>9, Zenon DEF Dispatch, Yield, stacks
<1>10. ASSUME NEW c \in CPU, NEW p \in Slot, NEW q \in Slot, WaitReap(c, p, q)
       PROVE  Keeps
  BY <1>st, <1>pc, <1>10, Zenon DEF WaitReap, Return
<1>11. ASSUME NEW c \in CPU, NEW p \in Slot, Exit(c, p) PROVE Keeps
  <2>1. PICK chs : Exits(c, p, chs)
    BY <1>quiet, <1>11, ExitPlain, Zenon
  <2>2. state[p] = "RUNNING"
    BY <1>forks, <2>1, Zenon DEF RunningIsCurrent, Exits
  <2> QED
    BY <2>1, <2>2, Zenon DEF Asleep, stacks, Exits
<1>12. ASSUME NEW c \in CPU, NEW p \in Slot, NEW n \in Killable, Kill(c, p, n)
       PROVE  Keeps
  BY <1>quiet, <1>st, <1>12, KillPlain, Zenon DEF stacks
<1>13. ASSUME Keeps PROVE ForksApart'
  <2> SUFFICES ASSUME NEW p \in Slot, pc'[p] = "forking"
               PROVE  /\ loc'[p] \in Slot /\ state'[loc'[p]] = "EMBRYO"
                      /\ \A q \in Slot : pc'[q] = "forking" /\ loc'[q] = loc'[p] => q = p
    BY Zenon DEF ForksApart
  <2>1. pc[p] = "forking" /\ loc'[p] = loc[p]
    BY <1>13, Zenon
  <2>2. loc[p] \in Slot /\ state[loc[p]] = "EMBRYO"
    BY <1>forks, <2>1, Zenon DEF ForksApart
  <2>3. state'[loc[p]] = "EMBRYO"
    BY <1>13, <2>2, Zenon
  <2>4. ASSUME NEW q \in Slot, pc'[q] = "forking", loc'[q] = loc'[p] PROVE q = p
    <3>1. pc[q] = "forking" /\ loc[q] = loc[p]
      BY <1>13, <2>1, <2>4, Zenon
    <3> QED
      BY <1>forks, <2>1, <3>1, Zenon DEF ForksApart
  <2> QED
    BY <2>1, <2>2, <2>3, <2>4, Zenon
<1>14. ASSUME NEW c \in CPU, NEW p \in Slot, ForkFail(c, p) PROVE ForksApart'
  BY <1>forks, <1>st, <1>pc, <1>14, Zenon DEF ForkFail, At, ForksApart
<1>15. ASSUME NEW c \in CPU, NEW p \in Slot, ForkDone(c, p) PROVE ForksApart'
  BY <1>forks, <1>pc, <1>15, SMT, SMTT(30) DEF ForkDone, At, ForksApart
<1>16. ASSUME NEW c \in CPU, NEW p \in Slot, NEW q \in Slot, ForkAlloc(c, p, q)
       PROVE  ForksApart'
  BY <1>forks, <1>st, <1>pc, <1>16, Zenon DEF ForkAlloc, ForksApart
<1> HIDE DEF Keeps
<1> QED
  BY <1>quiet, <1>1, <1>2, <1>3, <1>4, <1>5, <1>6, <1>7, <1>8, <1>9, <1>10,
     <1>11, <1>12, <1>13, <1>14, <1>15, <1>16, Reachable, SMT, SMTT(30)

\* Nothing starts to swap.
LEMMA QuietStep ==
  ASSUME ~MaySwap, TypeOK, NoSwapInv, Next, ~ChangesDir
  PROVE  NoSwapping'
<1> DEFINE GlobalsQuiet == ~swapFlag /\ swappedout = 0
           TableQuiet ==
             /\ state[inswapper] \in {"RUNNABLE", "RUNNING", "SLEEPING"}
             /\ \A q \in Slot :
                  /\ ~swappingOut[q] /\ ~wokenUp[q]
                  /\ state[q] \notin {"SLEEPING_SUSPENDED", "RUNNABLE_SUSPENDED"}
                  /\ parent[q] # inswapper
           StackQuiet ==
             /\ pc[inswapper] = "scan" /\ loc[inswapper] = 1
             /\ \A q \in Slot :
                  /\ job[q] \notin {"create", "save", "open", "unlink"}
                  /\ pc[q] \notin {"save", "swapped", "load", "loaded"}
                  /\ pc[q] = "scan" => q = inswapper
<1>quiet. NoSwapping /\ CpuInv
  BY Zenon DEF NoSwapInv
<1>forks. ForksApart
  BY Zenon DEF NoSwapInv, CpuInv
<1>st. state \in [Slot -> ProcState] /\ parent \in [Slot -> Slot \cup {NULL}]
  BY Zenon DEF TypeOK, TableType
<1>pc. /\ pc \in [Slot -> Pc] /\ job \in [Slot -> Job] /\ loc \in [Slot -> Nat]
       /\ inswapper \in Slot
  BY Addresses, Zenon DEF TypeOK, StackType
<1>tab. GlobalsQuiet /\ TableQuiet
  BY <1>quiet, Zenon DEF NoSwapping
<1>stk. StackQuiet
  BY <1>quiet, Zenon DEF NoSwapping
<1>1. GlobalsQuiet' /\ TableQuiet'
  <2>1. ASSUME UNCHANGED <<table, globals>> PROVE GlobalsQuiet' /\ TableQuiet'
    BY <1>tab, <2>1, Zenon DEF table, globals
  <2>2. ASSUME NEW ch \in OtherChan, WokenOn(ch)
        PROVE  GlobalsQuiet' /\ TableQuiet'
    <3>1. \A q \in Slot : state'[q] \in {state[q], "RUNNABLE"}
      BY <2>2, WokenOnly, Zenon
    <3> QED
      BY <1>tab, <1>pc, <2>2, <3>1, Zenon DEF WokenOn, globals
  <2>3. ASSUME NEW p \in Slot, NEW ch, SleepsOn(p, ch)
        PROVE  GlobalsQuiet' /\ TableQuiet'
    BY <1>tab, <1>st, <1>pc, <2>3, Zenon DEF SleepsOn, globals
  <2>4. ASSUME NEW c \in CPU, NEW p \in Slot, Dispatch(c, p)
        PROVE  GlobalsQuiet' /\ TableQuiet'
    BY <1>tab, <1>st, <1>pc, <2>4, Zenon DEF Dispatch, globals
  <2>10. ASSUME NEW c \in CPU, NEW p \in Slot, Yield(c, p)
        PROVE  GlobalsQuiet' /\ TableQuiet'
    BY <1>tab, <1>st, <1>pc, <2>10, Zenon DEF Yield, globals
  <2>5. ASSUME NEW c \in CPU, NEW p \in Slot, ForkFail(c, p)
        PROVE  GlobalsQuiet' /\ TableQuiet'
    <3>1. loc[p] \in Slot /\ state[loc[p]] = "EMBRYO"
      BY <1>forks, <2>5, Zenon DEF ForkFail, At, ForksApart
    <3> QED
      BY <1>tab, <1>st, <1>pc, <2>5, <3>1, Zenon DEF ForkFail, globals
  <2>6. ASSUME NEW c \in CPU, NEW p \in Slot, ForkDone(c, p)
        PROVE  GlobalsQuiet' /\ TableQuiet'
    <3>1. loc[p] \in Slot /\ state[loc[p]] = "EMBRYO" /\ p # inswapper
      BY <1>forks, <1>stk, <2>6, Zenon DEF ForkDone, At, ForksApart
    <3> QED
      BY <1>tab, <1>st, <1>pc, <2>6, <3>1, Zenon DEF ForkDone, globals
  <2>7. ASSUME NEW c \in CPU, NEW p \in Slot, NEW q \in Slot, WaitReap(c, p, q)
        PROVE  GlobalsQuiet' /\ TableQuiet'
    BY <1>tab, <1>st, <1>pc, <2>7, Addresses, Zenon DEF WaitReap, globals, NULL
  <2>11. ASSUME NEW c \in CPU, NEW p \in Slot, NEW q \in Slot, ForkAlloc(c, p, q)
        PROVE  GlobalsQuiet' /\ TableQuiet'
    BY <1>tab, <1>st, <1>pc, <2>11, Zenon DEF ForkAlloc
  <2>8. ASSUME NEW c \in CPU, NEW p \in Slot, Exit(c, p)
        PROVE  GlobalsQuiet' /\ TableQuiet'
    <3>1. PICK chs : Exits(c, p, chs)
      BY <1>quiet, <2>8, ExitPlain, Zenon
    <3>2. p # inswapper /\ initproc # inswapper
      BY <1>stk, <3>1, Addresses, Zenon DEF Exits
    <3> QED
      BY <1>tab, <1>pc, <3>1, <3>2, Zenon DEF globals, Exits
  <2>9. ASSUME NEW c \in CPU, NEW p \in Slot, NEW n \in Killable, Kill(c, p, n)
        PROVE  GlobalsQuiet' /\ TableQuiet'
    <3>1. PICK q \in Slot : state' = [state EXCEPT ![q] = IF @ = "SLEEPING" THEN "RUNNABLE" ELSE @]
      BY <1>quiet, <2>9, KillPlain, Zenon
    <3>2. UNCHANGED <<swappingOut, wokenUp, parent, swapFlag, swappedout>>
      BY <1>quiet, <2>9, KillPlain, Zenon DEF globals
    <3>3. \A s \in Slot : state'[s] = state[s] \/ (state[s] = "SLEEPING" /\ state'[s] = "RUNNABLE")
      BY <1>st, <3>1, Zenon
    <3> QED
      BY <1>quiet, <1>tab, <3>2, <3>3, Addresses, Zenon
  <2> HIDE DEF GlobalsQuiet, TableQuiet
  <2> QED
    BY <1>quiet, <1>pc, <2>1, <2>2, <2>3, <2>4, <2>5, <2>6, <2>7, <2>8, <2>9,
       <2>10, <2>11, TableSteps, SMT, SMTT(30)
<1>2. StackQuiet'
  <2> DEFINE Moves(p) ==
        /\ p # inswapper /\ \A q \in Slot \ {p} : pc'[q] = pc[q] /\ job'[q] = job[q]
        /\ pc'[p] \notin {"save", "swapped", "load", "loaded", "scan"}
        /\ job'[p] \notin {"create", "save", "open", "unlink"}
        /\ loc'[inswapper] = loc[inswapper]
  <2>1. ASSUME NEW p \in Slot, Moves(p) PROVE StackQuiet'
    BY <1>stk, <1>pc, <2>1, Zenon
  <2>2. ASSUME UNCHANGED stacks PROVE StackQuiet'
    BY <1>stk, <2>2, Zenon DEF stacks
  <2>3. ASSUME \/ Tick
               \/ \E c \in CPU : ScanEnd(c)
               \/ \E c \in CPU, p \in Slot :
                    Dispatch(c, p) \/ Yield(c, p) \/ Exit(c, p) \/ Wakeup2(c, p)
               \/ \E c \in CPU, p \in Slot, n \in Killable : Kill(c, p, n)
        PROVE  UNCHANGED stacks
    BY <2>3, SMT, SMTT(30) DEF Tick, ScanEnd, Dispatch, Yield, Exit, Wakeup2, Kill
  <2>4. ASSUME NEW c \in CPU, NEW p \in Slot,
               \/ WaitCall(c, p) \/ Sleep2Call(c, p) \/ SleepCall(c, p)
               \/ \E call \in {"write", "read"}, i \in Inode : FileCall(c, p, call, i)
        PROVE  Moves(p)
    BY <1>stk, <1>pc, <2>4, ZenonT(30) DEF WaitCall, Sleep2Call, SleepCall, FileCall, Call, At
  <2>5. ASSUME NEW c \in CPU, NEW p \in Slot,
               \/ SleepAcquire(c, p) \/ BeginTrans(c, p) \/ IlockAcquire(c, p)
               \/ IlockTake(c, p) \/ Iunlock(c, p)
        PROVE  Moves(p)
    BY <1>stk, <1>pc, <2>5, Zenon
       DEF SleepAcquire, BeginTrans, IlockAcquire, IlockTake, Iunlock, At
  <2>6. ASSUME NEW c \in CPU, NEW p \in Slot,
               \/ Sleep2Return(c, p) \/ SleepReturn(c, p) \/ CommitTrans(c, p)
               \/ \E q \in Slot : WaitReap(c, p, q)
               \/ IunlockWakeup(c, p)
        PROVE  Moves(p)
    BY <1>stk, <1>pc, <2>6, Zenon
       DEF Sleep2Return, SleepReturn, CommitTrans, WaitReap, IunlockWakeup,
           Return, At
  <2>7. ASSUME NEW c \in CPU, NEW p \in Slot, NEW q \in Slot, ForkAlloc(c, p, q)
        PROVE  Moves(p)
    BY <1>stk, <1>pc, <2>7, Zenon DEF ForkAlloc, Call, At
  <2>8. ASSUME NEW c \in CPU, NEW p \in Slot, ForkFail(c, p) PROVE Moves(p)
    BY <1>stk, <1>pc, <2>8, Zenon DEF ForkFail, At
  <2>9. ASSUME NEW c \in CPU, NEW p \in Slot, ForkDone(c, p) PROVE StackQuiet'
    <3>1. loc[p] \in Slot /\ state[loc[p]] = "EMBRYO" /\ p # inswapper
      BY <1>forks, <1>stk, <2>9, Zenon DEF ForkDone, At, ForksApart
    <3>2. loc[p] # inswapper
      BY <1>tab, <3>1, Zenon
    <3> QED
      BY <1>stk, <1>pc, <2>9, <3>1, <3>2, Zenon DEF ForkDone
  <2>10. ASSUME NEW c \in CPU, NEW p \in Slot, Napping(c, p) PROVE Moves(p)
    <3>0. PICK lk \in {"icache", "ticks"},
               ch \in OtherChan : Naps(c, p, ch, lk)
      BY <1>quiet, <2>10, NapPlain, Zenon
    <3>1. /\ p # inswapper /\ loc' = loc /\ job' = job
          /\ pc' = [pc EXCEPT ![p] = Resume(job[p])]
      BY <1>stk, <3>0, Zenon DEF Held, Naps
    <3> QED
      BY <1>stk, <1>pc, <3>1, Zenon DEF Resume
  <2>11. ASSUME NEW c \in CPU, NEW p \in Slot, WaitNone(c, p) PROVE Moves(p)
    <3>1. p # inswapper
      BY <1>stk, <2>11, Zenon DEF WaitNone, At
    <3>2. CASE Return(p)
      BY <1>stk, <1>pc, <3>1, <3>2, Zenon DEF Return
    <3>3. CASE pc' = [pc EXCEPT ![p] = Resume(job[p])] /\ loc' = loc /\ job' = job
      BY <1>stk, <1>pc, <3>1, <3>3, Zenon DEF Resume
    <3> QED
      BY <1>quiet, <2>11, <3>2, <3>3, WaitPlain, Zenon
  <2>12. ASSUME NEW c \in CPU, SwapInScanned(c) PROVE StackQuiet'
    BY <1>quiet, <1>stk, <1>pc, <2>12, SwapInPlain, ZenonT(30)
  <2> HIDE DEF StackQuiet, Moves
  <2> QED
    BY <1>quiet, <2>1, <2>2, <2>3, <2>4, <2>5, <2>6, <2>7, <2>8, <2>9, <2>10,
       <2>11, <2>12, Reachable, SMT, SMTT(30)
<1> QED
  BY <1>1, <1>2, Zenon DEF NoSwapping

\* A sleeper on the inode is woken by the process that clears I_BUSY.
LEMMA InodeStep ==
  ASSUME ~MaySwap, TypeOK, NoSwapInv, Next, ~ChangesDir
  PROVE  NoMissedWakeup'
<1>quiet. NoSwapping /\ CpuInv
  BY Zenon DEF NoSwapInv
<1>st. state \in [Slot -> ProcState] /\ chan \in [Slot -> Nat]
  BY Zenon DEF TypeOK, TableType
<1>pc. pc \in [Slot -> Pc] /\ job \in [Slot -> Job] /\ loc \in [Slot -> Nat]
  BY Zenon DEF TypeOK, StackType
<1>own. inodeOwner \in [Inode -> Slot \cup {NULL}]
  BY Zenon DEF TypeOK, FileType
<1>all. ASSUME NEW i \in Inode
        PROVE  \A q \in Slot :
                 state'[q] = "SLEEPING" /\ chan'[q] = InodeChan(i) =>
                   \/ inodeOwner'[i] # NULL
                   \/ \E r \in Slot : pc'[r] = "iwake" /\ Target(r)' = i
  <2> DEFINE Sleeper(q) == state[q] = "SLEEPING" /\ chan[q] = InodeChan(i)
             Waker(q) == pc[q] = "iwake" /\ Target(q) = i
             Covered == inodeOwner[i] # NULL \/ \E q \in Slot : Waker(q)
             Asks == \A q \in Slot : Sleeper(q)' => Sleeper(q)
             Stands(q) == pc'[q] = pc[q] /\ job'[q] = job[q] /\ loc'[q] = loc[q]
             Frames == \A q \in Slot : pc[q] = "iwake" => Stands(q)
             Keeps == Asks /\ inodeOwner' = inodeOwner /\ Frames
             Good == Asks /\ (Covered => Covered')
  <2>inv. \A q \in Slot : Sleeper(q) => Covered
    BY <1>quiet, Zenon DEF NoSwapInv, NoMissedWakeup, NoSwapping
  <2>stand. ASSUME NEW q \in Slot, Stands(q), Waker(q) PROVE Waker(q)'
    BY <2>stand, Zenon DEF Target
  <2>keeps. ASSUME Keeps PROVE Good
    BY <2>keeps, <2>stand, Zenon
  <2>1. ASSUME NEW c \in CPU, ScanEnd(c) PROVE Keeps
    BY <2>1, Zenon DEF ScanEnd, table, stacks, files
  <2>2. ASSUME NEW c \in CPU, NEW p \in Slot,
               \/ WaitCall(c, p) \/ Sleep2Call(c, p) \/ Sleep2Return(c, p)
               \/ SleepCall(c, p) \/ SleepAcquire(c, p) \/ SleepReturn(c, p)
               \/ \E call \in {"write", "read"}, k \in Inode : FileCall(c, p, call, k)
               \/ BeginTrans(c, p) \/ IlockAcquire(c, p) \/ CommitTrans(c, p)
        PROVE  Keeps
    <3>1. UNCHANGED <<state, chan, inodeOwner>>
      BY <2>2, Zenon
         DEF WaitCall, Sleep2Call, Sleep2Return, SleepCall, SleepAcquire,
             SleepReturn, FileCall, BeginTrans, IlockAcquire, CommitTrans,
             table, files
    <3>2. pc[p] # "iwake" /\ \A q \in Slot \ {p} : Stands(q)
      BY <1>pc, <2>2, ZenonT(30)
         DEF WaitCall, Sleep2Call, Sleep2Return, SleepCall, SleepAcquire,
             SleepReturn, FileCall, BeginTrans, IlockAcquire, CommitTrans,
             Return, Call, At
    <3> QED
      BY <3>1, <3>2, Zenon
  <2>3. ASSUME NEW c \in CPU, NEW p \in Slot, IlockTake(c, p) PROVE Good
    <3>1. Asks
      BY <2>3, Zenon DEF IlockTake, table
    <3>2. inodeOwner[i] # NULL => inodeOwner'[i] # NULL
      BY <1>own, <2>3, Addresses, Zenon DEF IlockTake, NULL
    <3>3. Frames
      BY <1>pc, <2>3, Zenon DEF IlockTake, At
    <3> QED
      BY <3>1, <3>2, <3>3, <2>stand, Zenon
  <2>4. ASSUME NEW c \in CPU, NEW p \in Slot, Iunlock(c, p) PROVE Good
    <3>1. Asks
      BY <2>4, ZenonT(30) DEF Iunlock, table
    <3>2. Frames
      BY <1>pc, <2>4, Zenon DEF Iunlock, At
    <3>3. CASE Target(p) = i
      <4>1. Waker(p)'
        BY <1>pc, <2>4, <3>3, Zenon DEF Iunlock, Target
      <4> QED
        BY <3>1, <4>1, Zenon
    <3>4. CASE Target(p) # i
      <4>1. inodeOwner'[i] = inodeOwner[i]
        BY <1>own, <2>4, <3>4, Zenon DEF Iunlock
      <4> QED
        BY <3>1, <3>2, <4>1, <2>stand, Zenon
    <3> QED
      BY <3>3, <3>4, ZenonT(30)
  <2>5. ASSUME Tick PROVE Keeps
    <3>1. WokenOn(TicksChan)
      BY <1>quiet, <2>5, WakersPlain, Zenon
    <3>2. Asks
      BY <3>1, WokenOnly, Zenon DEF WokenOn
    <3> QED
      BY <2>5, <3>2, Zenon DEF Tick, stacks, files
  <2>6. ASSUME NEW c \in CPU, NEW p \in Slot, Wakeup2(c, p) PROVE Keeps
    <3>1. WokenOn(SwapFlagChan)
      BY <1>quiet, <2>6, WakersPlain, Zenon
    <3>2. Asks
      BY <3>1, WokenOnly, Zenon DEF WokenOn
    <3> QED
      BY <2>6, <3>2, Zenon DEF Wakeup2, stacks, files
  <2>7. ASSUME NEW c \in CPU, NEW p \in Slot, IunlockWakeup(c, p)
        PROVE  Good \/ \A q \in Slot : ~Sleeper(q)'
    <3>1. WokenOn(InodeChan(Target(p))) /\ chan' = chan
      BY <1>quiet, <2>7, WakersPlain, Zenon DEF WokenOn
    <3>2. CASE Target(p) = i
      BY <3>1, <3>2, WokenOnly, Zenon
    <3>3. CASE Target(p) # i
      <4>1. Asks
        BY <3>1, WokenOnly, Zenon
      <4>2. inodeOwner' = inodeOwner
        BY <2>7, Zenon DEF IunlockWakeup, files
      <4>3. \A q \in Slot \ {p} : Stands(q)
        BY <1>pc, <2>7, Zenon DEF IunlockWakeup, Return
      <4> QED
        BY <3>3, <4>1, <4>2, <4>3, <2>stand, Zenon
    <3> QED
      BY <3>2, <3>3, Zenon
  <2>8. ASSUME NEW c \in CPU, NEW p \in Slot, Napping(c, p)
        PROVE  Keeps \/ Covered'
    <3>1. PICK lk \in {"icache", "ticks"}, ch \in OtherChan : Naps(c, p, ch, lk)
      BY <1>quiet, <2>8, NapPlain, Zenon
    <3>2. CASE ch = InodeChan(i)
      BY <3>1, <3>2, Zenon DEF files, Naps
    <3>3. CASE ch # InodeChan(i)
      <4>1. Asks
        BY <1>st, <3>1, <3>3, Zenon DEF Naps
      <4>2. inodeOwner' = inodeOwner /\ Frames
        BY <1>pc, <3>1, Zenon DEF Naps, files
      <4> QED
        BY <4>1, <4>2, Zenon
    <3> QED
      BY <3>2, <3>3, Zenon
  <2>9. ASSUME NEW c \in CPU, SwapInScanned(c) PROVE Keeps
    <3>1. inswapper # InodeChan(i) /\ inswapper \in Slot /\ pc[inswapper] = "scan"
      BY <1>quiet, Channels, Addresses, SMT, SMTT(30) DEF NoSwapping, OtherChan, Inode
    <3>2. Asks
      BY <1>quiet, <1>st, <2>9, <3>1, SwapInPlain, Zenon
    <3> QED
      BY <1>quiet, <1>pc, <2>9, <3>1, <3>2, SwapInPlain, Zenon DEF files
  <2>10. ASSUME NEW c \in CPU, NEW p \in Slot, WaitNone(c, p) PROVE Keeps
    <3>1. p # InodeChan(i) /\ pc[p] = "waiting"
      BY <2>10, Channels, SMT, SMTT(30) DEF WaitNone, At, OtherChan, Inode
    <3>2. CASE UNCHANGED <<table, files>> /\ Return(p)
      BY <1>pc, <3>1, <3>2, Zenon DEF Return, table, files
    <3>3. CASE /\ chan' = [chan EXCEPT ![p] = p]
               /\ state' = [state EXCEPT ![p] = "SLEEPING"]
               /\ pc' = [pc EXCEPT ![p] = Resume(job[p])]
               /\ UNCHANGED <<job, loc, files>>
      <4>1. Asks
        BY <1>st, <3>1, <3>3, Zenon
      <4> QED
        BY <1>pc, <3>1, <3>3, <4>1, Zenon DEF files
    <3> QED
      BY <1>quiet, <2>10, <3>2, <3>3, WaitPlain, Zenon
  <2>11. ASSUME NEW c \in CPU, NEW p \in Slot, Dispatch(c, p) \/ Yield(c, p)
         PROVE  Keeps
    BY <1>st, <2>11, Zenon DEF Dispatch, Yield, stacks, files
  <2>12. ASSUME NEW c \in CPU, NEW p \in Slot, NEW q \in Slot,
                WaitReap(c, p, q) \/ ForkAlloc(c, p, q)
         PROVE  Keeps
    <3>1. Asks
      BY <1>st, <2>12, Zenon DEF WaitReap, ForkAlloc
    <3> QED
      BY <1>pc, <2>12, <3>1, Zenon DEF WaitReap, ForkAlloc, Call, Return, At, files
  <2>13. ASSUME NEW c \in CPU, NEW p \in Slot, Exit(c, p) PROVE Keeps
    <3>1. PICK chs : Exits(c, p, chs)
      BY <1>quiet, <2>13, ExitPlain, Zenon
    <3> QED
      BY <3>1, Zenon DEF stacks, files, Exits
  <2>14. ASSUME NEW c \in CPU, NEW p \in Slot, NEW n \in Killable, Kill(c, p, n)
         PROVE  Keeps
    BY <1>quiet, <1>st, <2>14, KillPlain, Zenon DEF stacks, files
  <2>15. ASSUME NEW c \in CPU, NEW p \in Slot, ForkFail(c, p) \/ ForkDone(c, p)
         PROVE  Keeps
    <3>1. loc[p] \in Slot /\ state[loc[p]] = "EMBRYO"
      BY <1>quiet, <2>15, Zenon DEF ForkFail, ForkDone, At, CpuInv, ForksApart
    <3>2. pc[p] # "iwake" /\ pc[loc[p]] # "iwake"
      BY <1>quiet, <2>15, <3>1, Zenon DEF ForkFail, ForkDone, At, CpuInv, LocksHeld, Held
    <3>3. Asks
      BY <1>st, <2>15, <3>1, Zenon DEF ForkFail, ForkDone
    <3>4. Frames
      BY <1>pc, <2>15, <3>1, <3>2, Zenon DEF ForkFail, ForkDone
    <3> QED
      BY <2>15, <3>3, <3>4, Zenon DEF ForkFail, ForkDone, files
  <2>16. ASSUME \/ Good \/ Covered' \/ \A q \in Slot : ~Sleeper(q)'
         PROVE  \A q \in Slot : Sleeper(q)' => Covered'
    BY <2>inv, <2>16, Zenon
  <2>17. \A q \in Slot : Sleeper(q)' => Covered'
    <3> HIDE DEF Keeps, Good, Covered, Sleeper
    <3> QED
      BY <1>quiet, <2>1, <2>2, <2>3, <2>4, <2>5, <2>6, <2>7, <2>8, <2>9, <2>10,
         <2>11, <2>12, <2>13, <2>14, <2>15, <2>16, <2>keeps, Reachable, SMT, SMTT(30)
  <2> QED
    BY <2>17, Zenon
<1>old. \A q \in Slot : ~wokenUp'[q] /\ state'[q] # "SLEEPING_SUSPENDED"
  BY QuietStep, Zenon DEF NoSwapping
<1> QED
  BY <1>all, <1>old, Zenon DEF NoMissedWakeup

\* The spinlocks are held by the CPUs whose code holds them.
LEMMA LockStep ==
  ASSUME ~MaySwap, TypeOK, NoSwapInv, Next, ~ChangesDir
  PROVE  LocksHeld'
<1> DEFINE InUse == \A c \in CPU, l \in Lock :
             cur[c] # NULL => (lock[l] = c <=> pc[cur[c]] \in Held(l))
           Idle == \A c \in CPU :
             cur[c] = NULL => lock["icache"] # c /\ lock["ticks"] # c
           OnCpu == \A q \in Slot :
             pc[q] \in Held("icache") \cup Held("ticks") => state[q] = "RUNNING"
           \* p moves from pc[p] to k, acquiring and releasing what it must.
           Moves(c, p, k) ==
             /\ cur[c] = p /\ cur' = cur
             /\ pc' = [pc EXCEPT ![p] = k]
             /\ \A q \in Slot : state[q] = "RUNNING" => state'[q] = "RUNNING"
             /\ \A l \in Lock :
                  \/ lock'[l] = lock[l] /\ (k \in Held(l) <=> pc[p] \in Held(l))
                  \/ lock[l] = NULL /\ lock'[l] = c /\ k \in Held(l)
                  \/ lock[l] = c /\ lock'[l] = NULL /\ k \notin Held(l)
           \* p gives up its CPU to the scheduler, which holds ptable.lock.
           Leaves(c, p, k) ==
             /\ cur[c] = p /\ cur' = [cur EXCEPT ![c] = NULL]
             /\ pc' = [pc EXCEPT ![p] = k]
             /\ k \notin Held("icache") \cup Held("ticks")
             /\ \A q \in Slot \ {p} : state[q] = "RUNNING" => state'[q] = "RUNNING"
             /\ lock["ptable"] \in {NULL, c} /\ lock'["ptable"] = c
             /\ \A l \in Lock \ {"ptable"} :
                  \/ lock'[l] = lock[l] /\ lock[l] # c
                  \/ lock[l] = c /\ lock'[l] = NULL
<1>quiet. NoSwapping /\ CpuInv
  BY Zenon DEF NoSwapInv
<1>cpu. OneCpu /\ RunningIsCurrent
  BY <1>quiet, Zenon DEF CpuInv
<1>use. InUse
  BY <1>quiet, Zenon DEF CpuInv, LocksHeld
<1>idle. Idle
  BY <1>quiet, Zenon DEF CpuInv, LocksHeld
<1>on. OnCpu
  BY <1>quiet, Zenon DEF CpuInv, LocksHeld
<1>st. state \in [Slot -> ProcState]
  BY Zenon DEF TypeOK, TableType
<1>pc. pc \in [Slot -> Pc]
  BY Zenon DEF TypeOK, StackType
<1>cur. /\ cur \in [CPU -> Slot \cup {NULL}] /\ lock \in [Lock -> CPU \cup {NULL}]
        /\ NULL \notin Slot /\ NULL \notin CPU
  BY Addresses, Zenon DEF TypeOK, CpuType, NULL
<1>lock. Lock = {"ptable", "icache", "ticks"}
  BY Zenon DEF Lock
\* A process holds a spinlock exactly at the places of Held.
<1>held. \A c \in CPU, p \in Slot, l \in Lock :
           cur[c] = p => (lock[l] = c <=> pc[p] \in Held(l))
  BY <1>use, <1>cur, SMT, SMTT(30)
<1>1. ASSUME NEW c \in CPU, NEW p \in Slot, NEW k, Moves(c, p, k)
      PROVE  LocksHeld'
  <2>1. \A d \in CPU : cur[d] = p => d = c
    BY <1>cpu, <1>cur, <1>1, Zenon DEF OneCpu
  <2>2. state[p] = "RUNNING"
    BY <1>cpu, <1>1, Zenon DEF RunningIsCurrent
  <2>3. OnCpu'
    BY <1>on, <1>pc, <1>1, <2>2, Zenon
  <2>4. Idle'
    BY <1>idle, <1>cur, <1>lock, <1>1, Zenon
  <2>5. InUse'
    <3> SUFFICES ASSUME NEW d \in CPU, NEW l \in Lock, cur[d] # NULL
                 PROVE  lock'[l] = d <=> pc'[cur[d]] \in Held(l)
      BY <1>1, Zenon
    <3>1. CASE d = c
      <4>1. cur[d] = p /\ pc'[p] = k /\ (lock[l] = c <=> pc[p] \in Held(l))
        BY <1>held, <1>pc, <1>1, <3>1, Zenon
      <4> QED
        BY <1>cur, <1>1, <3>1, <4>1, SMT, SMTT(30)
    <3>2. CASE d # c
      <4>1. cur[d] # p /\ pc'[cur[d]] = pc[cur[d]]
        BY <1>pc, <1>cur, <1>1, <2>1, <3>2, Zenon
      <4>2. lock'[l] = d <=> lock[l] = d
        BY <1>cur, <1>1, <3>2, SMT, SMTT(30)
      <4> QED
        BY <1>use, <4>1, <4>2, Zenon
    <3> QED
      BY <3>1, <3>2, Zenon
  <2> QED
    BY <2>3, <2>4, <2>5, Zenon DEF LocksHeld
<1>2. ASSUME NEW c \in CPU, NEW p \in Slot, NEW k, Leaves(c, p, k)
      PROVE  LocksHeld'
  <2>1. \A d \in CPU : cur[d] = p => d = c
    BY <1>cpu, <1>cur, <1>2, Zenon DEF OneCpu
  <2>2. OnCpu'
    BY <1>on, <1>pc, <1>2, Zenon
  <2>3. Idle'
    BY <1>idle, <1>cur, <1>lock, <1>2, Zenon
  <2>4. InUse'
    <3> SUFFICES ASSUME NEW d \in CPU, NEW l \in Lock, cur'[d] # NULL
                 PROVE  lock'[l] = d <=> pc'[cur'[d]] \in Held(l)
      OBVIOUS
    <3>1. d # c /\ cur'[d] = cur[d] /\ cur[d] # p /\ cur[d] \in Slot
      BY <1>cur, <1>2, <2>1, Zenon
    <3>2. pc'[cur'[d]] = pc[cur[d]]
      BY <1>pc, <1>2, <3>1, Zenon
    <3>3. lock'[l] = d <=> lock[l] = d
      BY <1>cur, <1>lock, <1>2, <3>1, Zenon
    <3> QED
      BY <1>use, <3>1, <3>2, <3>3, Zenon
  <2> QED
    BY <2>2, <2>3, <2>4, Zenon DEF LocksHeld
<1>3. ASSUME NEW c \in CPU, NEW p \in Slot, WaitCall(c, p)
      PROVE  Moves(c, p, "waiting")
  BY <1>held, <1>cur, <1>lock, <1>3, Zenon
     DEF WaitCall, Call, At, Held, table, cpus
<1>4. ASSUME NEW c \in CPU, NEW p \in Slot, Sleep2Call(c, p)
      PROVE  Moves(c, p, "sleep2")
  BY <1>held, <1>cur, <1>lock, <1>4, Zenon
     DEF Sleep2Call, Call, At, Held, table, cpus
<1>5. ASSUME NEW c \in CPU, NEW p \in Slot, Sleep2Return(c, p)
      PROVE  Moves(c, p, "user")
  BY <1>held, <1>cur, <1>lock, <1>5, Zenon
     DEF Sleep2Return, Return, At, Held, table, cpus
<1>6. ASSUME NEW c \in CPU, NEW p \in Slot, SleepCall(c, p)
      PROVE  Moves(c, p, "sleeping")
  BY <1>held, <1>cur, <1>lock, <1>6, Zenon
     DEF SleepCall, Call, At, Held, table, cpus
<1>7. ASSUME NEW c \in CPU, NEW p \in Slot, SleepAcquire(c, p)
      PROVE  Moves(c, p, "sleepcheck")
  BY <1>held, <1>cur, <1>lock, <1>7, Zenon
     DEF SleepAcquire, At, Held, table, cpus
<1>8. ASSUME NEW c \in CPU, NEW p \in Slot, SleepReturn(c, p)
      PROVE  Moves(c, p, "user")
  <2>1. cur[c] = p /\ pc[p] = "sleepcheck" /\ lock["ticks"] = c
    BY <1>held, <1>lock, <1>8, Zenon DEF SleepReturn, At, Held
  <2> QED
    BY <1>cur, <1>lock, <1>8, <2>1, Zenon DEF SleepReturn, Return, Held, table
<1>9. ASSUME NEW c \in CPU, NEW p \in Slot, IlockAcquire(c, p)
      PROVE  Moves(c, p, "icheck")
  BY <1>held, <1>cur, <1>lock, <1>9, Zenon
     DEF IlockAcquire, At, Held, table, cpus
<1>10. ASSUME NEW c \in CPU, NEW p \in Slot, IlockTake(c, p)
       PROVE  Moves(c, p, "held")
  <2>1. cur[c] = p /\ pc[p] = "icheck" /\ lock["icache"] = c
    BY <1>held, <1>lock, <1>10, Zenon DEF IlockTake, At, Held
  <2> QED
    BY <1>cur, <1>lock, <1>10, <2>1, Zenon DEF IlockTake, Held, table
<1>11. ASSUME NEW c \in CPU, NEW p \in Slot, Iunlock(c, p)
       PROVE  Moves(c, p, "iwake")
  BY <1>held, <1>cur, <1>lock, <1>11, Zenon
     DEF Iunlock, At, Held, table, cpus
<1>12. ASSUME NEW c \in CPU, NEW p \in Slot, CommitTrans(c, p)
       PROVE  Moves(c, p, "user")
  BY <1>held, <1>cur, <1>lock, <1>12, Zenon
     DEF CommitTrans, Return, At, Held, table, cpus
<1>13. ASSUME NEW c \in CPU, NEW p \in Slot, ForkFail(c, p)
       PROVE  Moves(c, p, "user")
  <2>1. loc[p] \in Slot /\ state[loc[p]] = "EMBRYO"
    BY <1>quiet, <1>13, Zenon DEF ForkFail, At, CpuInv, ForksApart
  <2> QED
    BY <1>13, <2>1, SMT, SMTT(30) DEF ForkFail, At, Held, cpus
<1>14. ASSUME NEW c \in CPU, NEW p \in Slot, BeginTrans(c, p)
       PROVE  Moves(c, p, IF job[p] = "save" THEN "save" ELSE "ilock")
  BY <1>held, <1>cur, <1>lock, <1>14, Zenon
     DEF BeginTrans, At, Held, table, cpus
<1>15. ASSUME NEW c \in CPU, NEW p \in Slot, NEW call, NEW i, FileCall(c, p, call, i)
       PROVE  Moves(c, p, IF call = "write" THEN "begin" ELSE "ilock")
  BY <1>held, <1>cur, <1>lock, <1>15, ZenonT(30)
     DEF FileCall, Call, At, Held, table, cpus
<1>16. ASSUME NEW c \in CPU, NEW p \in Slot, NEW q \in Slot, ForkAlloc(c, p, q)
       PROVE  Moves(c, p, "forking")
  BY <1>16, SMT, SMTT(30) DEF ForkAlloc, Call, At, Held, cpus
<1>17. ASSUME NEW c \in CPU, NEW p \in Slot, NEW q \in Slot, WaitReap(c, p, q)
       PROVE  Moves(c, p, "user")
  <2>1. lock["ptable"] = c
    BY <1>held, <1>lock, <1>17, Zenon DEF WaitReap, At, Held
  <2> QED
    BY <1>st, <1>cur, <1>lock, <1>17, <2>1, Zenon DEF WaitReap, Return, At, Held
<1>18. ASSUME NEW c \in CPU, NEW p \in Slot, IunlockWakeup(c, p)
       PROVE  \E k : Moves(c, p, k)
  <2>1. lock["icache"] = c /\ cur[c] = p /\ cur' = cur
    BY <1>held, <1>lock, <1>18, Zenon DEF IunlockWakeup, At, Held
  <2>2. \A q \in Slot : state[q] = "RUNNING" => state'[q] = "RUNNING"
    BY <1>quiet, <1>18, WakersPlain, WokenOnly, Zenon
  <2>3. PICK k \in {"user", "load", "commit"} : pc' = [pc EXCEPT ![p] = k]
    BY <1>18, Zenon DEF IunlockWakeup, Return
  <2>4. lock' = [lock EXCEPT !["icache"] = NULL] /\ pc[p] = "iwake"
    BY <1>18, Zenon DEF IunlockWakeup, At
  <2>5. Moves(c, p, k)
    BY <1>cur, <1>lock, <2>1, <2>2, <2>3, <2>4, Zenon DEF Held
  <2> QED
    BY <2>5, Zenon
<1>19. ASSUME NEW c \in CPU, NEW p \in Slot, Yield(c, p)
       PROVE  Leaves(c, p, pc[p])
  <2>1. cur[c] = p /\ \A l \in Lock : lock[l] # c
    BY <1>19, Zenon DEF Yield, InterruptsOn
  <2>2. pc[p] \notin Held("icache") \cup Held("ticks")
    BY <1>held, <1>lock, <2>1, Zenon
  <2>3. pc' = [pc EXCEPT ![p] = pc[p]]
    BY <1>pc, <1>19, Zenon DEF Yield, stacks
  <2> QED
    BY <1>st, <1>cur, <1>lock, <1>19, <2>1, <2>2, <2>3, Zenon DEF Yield, Sched
<1>20. ASSUME NEW c \in CPU, NEW p \in Slot, Exit(c, p)
       PROVE  Leaves(c, p, "user")
  <2>1. PICK chs : Exits(c, p, chs)
    BY <1>quiet, <1>20, ExitPlain, Zenon
  <2>0. cur[c] = p /\ pc[p] = "user"
    BY <2>1, Zenon DEF Exits
  <2>2. \A l \in Lock : lock[l] # c
    BY <1>held, <1>lock, <2>0, SMT, SMTT(30) DEF Held
  <2>3. pc' = [pc EXCEPT ![p] = "user"]
    BY <1>pc, <2>1, Zenon DEF stacks, Exits
  <2> QED
    BY <1>cur, <1>lock, <2>1, <2>2, <2>3, Zenon DEF Sched, Asleep, Held, Exits
<1>21. ASSUME NEW c \in CPU, NEW p \in Slot, Napping(c, p)
       PROVE  Leaves(c, p, Resume(job[p]))
  <2>1. PICK lk \in {"icache", "ticks"}, ch \in OtherChan :
          Naps(c, p, ch, lk)
    BY <1>quiet, <1>21, NapPlain, Zenon
  <2>0. cur[c] = p /\ pc[p] \in Held(lk)
    BY <2>1, Zenon DEF Naps
  <2>2. \A l \in Lock : lock[l] = c <=> l = lk
    <3> TAKE l \in Lock
    <3>1. lock[l] = c <=> pc[p] \in Held(l)
      BY <1>held, <2>0, Zenon
    <3>2. pc[p] \in Held(l) <=> l = lk
      BY <1>lock, <2>0, Zenon DEF Held
    <3> QED
      BY <3>1, <3>2, Zenon
  <2> QED
    BY <1>st, <1>cur, <1>lock, <2>1, <2>2, Zenon DEF Sched, Held, Resume, Naps
<1>22. ASSUME NEW c \in CPU, NEW p \in Slot, WaitNone(c, p)
       PROVE  Moves(c, p, "user") \/ Leaves(c, p, Resume(job[p]))
  <2>1. cur[c] = p /\ pc[p] = "waiting"
    BY <1>22, Zenon DEF WaitNone, At
  <2>0. \A l \in Lock : "waiting" \in Held(l) <=> l = "ptable"
    BY <1>lock, Zenon DEF Held
  <2>2. \A l \in Lock : lock[l] = c <=> l = "ptable"
    <3> TAKE l \in Lock
    <3>1. lock[l] = c <=> pc[p] \in Held(l)
      BY <1>held, <2>1, Zenon
    <3> QED
      BY <2>0, <2>1, <3>1, Zenon
  <2>3. CASE /\ UNCHANGED <<table, cur>> /\ Return(p)
             /\ lock' = [lock EXCEPT !["ptable"] = NULL]
    BY <1>cur, <1>lock, <2>1, <2>2, <2>3, Zenon DEF Return, Held, table
  <2>4. CASE /\ state' = [state EXCEPT ![p] = "SLEEPING"]
             /\ lock' = [lock EXCEPT !["ptable"] = c]
             /\ pc' = [pc EXCEPT ![p] = Resume(job[p])]
             /\ Sched(c, p)
    BY <1>st, <1>cur, <1>lock, <2>1, <2>2, <2>4, Zenon DEF Sched, Held, Resume
  <2> QED
    BY <1>quiet, <1>22, <2>3, <2>4, WaitPlain, Zenon
<1>23. ASSUME NEW c \in CPU, SwapInScanned(c)
       PROVE  Leaves(c, inswapper, "scan")
  <2>0. \A l \in Lock : "scan" \in Held(l) <=> l = "ptable"
    BY <1>lock, Zenon DEF Held
  <2>1. \A l \in Lock : lock[l] = c <=> l = "ptable"
    <3> TAKE l \in Lock
    <3>1. cur[c] = inswapper /\ pc[inswapper] = "scan"
      BY <1>23, Zenon DEF SwapInScanned, At
    <3>2. lock[l] = c <=> pc[inswapper] \in Held(l)
      BY <1>held, <3>1, Addresses, Zenon
    <3> QED
      BY <2>0, <3>1, <3>2, Zenon
  <2> QED
    BY <1>quiet, <1>st, <1>lock, <1>23, <2>1, SwapInPlain, Zenon DEF Sched, Held
<1>24. ASSUME NEW c \in CPU, ScanEnd(c) PROVE LocksHeld'
  <2>1. InUse'
    BY <1>use, <1>cur, <1>24, SMT, SMTT(30) DEF ScanEnd, stacks
  <2>2. Idle' /\ OnCpu'
    BY <1>idle, <1>on, <1>cur, <1>lock, <1>24, Zenon DEF ScanEnd, table, stacks
  <2> QED
    BY <2>1, <2>2, ZenonT(30) DEF LocksHeld
<1>25. ASSUME NEW c \in CPU, NEW p \in Slot, Dispatch(c, p) PROVE LocksHeld'
  <2>1. /\ pc[p] \notin Held("icache") \cup Held("ticks")
        /\ \A d \in CPU : cur[d] # p
    BY <1>cpu, <1>on, <1>25, Zenon DEF Dispatch, RunningIsCurrent
  <2>2. InUse'
    <3> SUFFICES ASSUME NEW d \in CPU, NEW l \in Lock, cur'[d] # NULL
                 PROVE  lock'[l] = d <=> pc[cur'[d]] \in Held(l)
      BY <1>25, Zenon DEF Dispatch, stacks
    <3>1. CASE d = c
      BY <1>idle, <1>cur, <1>lock, <1>25, <2>1, <3>1, Zenon DEF Dispatch, Held
    <3>2. CASE d # c
      <4>1. cur'[d] = cur[d] /\ (lock'[l] = d <=> lock[l] = d)
        BY <1>cur, <1>lock, <1>25, <3>2, Zenon DEF Dispatch
      <4> QED
        BY <1>use, <4>1, Zenon
    <3> QED
      BY <3>1, <3>2, Zenon
  <2>3. Idle'
    BY <1>idle, <1>cur, <1>lock, <1>25, Zenon DEF Dispatch
  <2>4. OnCpu'
    BY <1>on, <1>st, <1>25, Zenon DEF Dispatch, stacks
  <2> QED
    BY <2>2, <2>3, <2>4, Zenon DEF LocksHeld
<1>26. ASSUME NEW c \in CPU, NEW p \in Slot, ForkDone(c, p) PROVE LocksHeld'
  <2>1. cur[c] = p /\ pc[p] = "forking" /\ loc[p] \in Slot /\ state[loc[p]] = "EMBRYO"
    BY <1>quiet, <1>26, ZenonT(30) DEF ForkDone, At, CpuInv, ForksApart
  <2>2. state[p] = "RUNNING" /\ \A d \in CPU : cur[d] # loc[p]
    BY <1>cpu, <2>1, Zenon DEF RunningIsCurrent
  <2>3. \A q \in Slot : pc'[q] = IF q \in {p, loc[p]} THEN "user" ELSE pc[q]
    BY <1>pc, <1>26, <2>1, Zenon DEF ForkDone
  <2>4. \A q \in Slot : state[q] = "RUNNING" => state'[q] = "RUNNING"
    BY <1>st, <1>26, <2>1, Zenon DEF ForkDone
  <2>5. UNCHANGED <<cur, lock>>
    BY <1>26, Zenon DEF ForkDone, cpus
  <2>6. InUse'
    <3> SUFFICES ASSUME NEW d \in CPU, NEW l \in Lock, cur[d] # NULL
                 PROVE  lock[l] = d <=> pc'[cur[d]] \in Held(l)
      BY <2>5, Zenon
    <3>1. cur[d] \in Slot /\ cur[d] # loc[p]
      BY <1>cur, <2>2, Zenon
    <3>2. "forking" \notin Held(l) /\ "user" \notin Held(l)
      BY <1>lock, Zenon DEF Held
    <3>3. pc'[cur[d]] \in Held(l) <=> pc[cur[d]] \in Held(l)
      BY <2>1, <2>3, <3>1, <3>2, Zenon
    <3> QED
      BY <1>use, <3>3, Zenon
  <2>7. Idle'
    BY <1>idle, <2>5, Zenon
  <2>8. OnCpu'
    BY <1>on, <2>3, <2>4, Zenon DEF Held
  <2> QED
    BY <2>6, <2>7, <2>8, Zenon DEF LocksHeld
<1>27. ASSUME /\ UNCHANGED <<cpus, stacks>>
             /\ \A q \in Slot : state[q] = "RUNNING" => state'[q] = "RUNNING"
      PROVE  LocksHeld'
  <2>1. InUse' /\ Idle'
    BY <1>use, <1>idle, <1>27, Zenon DEF cpus, stacks
  <2>2. OnCpu'
    BY <1>on, <1>27, Zenon DEF stacks
  <2> QED
    BY <2>1, <2>2, Zenon DEF LocksHeld
<1>28. ASSUME Tick PROVE LocksHeld'
  <2>1. \A q \in Slot : state[q] = "RUNNING" => state'[q] = "RUNNING"
    BY <1>quiet, <1>28, WakersPlain, WokenOnly, Zenon
  <2>2. UNCHANGED <<cpus, stacks>>
    BY <1>28, Zenon DEF Tick
  <2> QED
    BY <1>27, <2>1, <2>2, Zenon
<1>29. ASSUME NEW c \in CPU, NEW p \in Slot, Wakeup2(c, p) PROVE LocksHeld'
  <2>1. \A q \in Slot : state[q] = "RUNNING" => state'[q] = "RUNNING"
    BY <1>quiet, <1>29, WakersPlain, WokenOnly, Zenon
  <2>2. UNCHANGED <<cpus, stacks>>
    BY <1>29, Zenon DEF Wakeup2
  <2> QED
    BY <1>27, <2>1, <2>2, Zenon
<1>30. ASSUME NEW c \in CPU, NEW p \in Slot, NEW n \in Killable, Kill(c, p, n)
      PROVE  LocksHeld'
  <2>1. \A q \in Slot : state[q] = "RUNNING" => state'[q] = "RUNNING"
    BY <1>quiet, <1>st, <1>30, KillPlain, Zenon
  <2>2. UNCHANGED <<cpus, stacks>>
    BY <1>30, Zenon DEF Kill
  <2> QED
    BY <1>27, <2>1, <2>2, Zenon
<1> HIDE DEF Moves, Leaves, InUse, Idle, OnCpu
<1>31. ASSUME NEW c \in CPU, NEW p \in Slot,
              \/ WaitCall(c, p) \/ Sleep2Call(c, p) \/ Sleep2Return(c, p)
              \/ SleepCall(c, p) \/ SleepAcquire(c, p) \/ SleepReturn(c, p)
              \/ IlockAcquire(c, p) \/ IlockTake(c, p) \/ Iunlock(c, p)
              \/ CommitTrans(c, p) \/ ForkFail(c, p)
       PROVE  LocksHeld'
  BY <1>1, <1>3, <1>4, <1>5, <1>6, <1>7, <1>8, <1>9, <1>10, <1>11, <1>12, <1>13,
     <1>31, SMT, SMTT(30)
<1>32. ASSUME NEW c \in CPU, NEW p \in Slot,
              \/ BeginTrans(c, p) \/ IunlockWakeup(c, p)
              \/ \E call \in {"write", "read"}, i \in Inode : FileCall(c, p, call, i)
              \/ \E q \in Slot : ForkAlloc(c, p, q) \/ WaitReap(c, p, q)
       PROVE  LocksHeld'
  BY <1>1, <1>14, <1>15, <1>16, <1>17, <1>18, <1>32, Zenon
<1>33. ASSUME NEW c \in CPU, NEW p \in Slot,
              Yield(c, p) \/ Exit(c, p) \/ Napping(c, p) \/ WaitNone(c, p)
       PROVE  LocksHeld'
  BY <1>1, <1>2, <1>19, <1>20, <1>21, <1>22, <1>33, Zenon
<1>34. ASSUME NEW c \in CPU, SwapInScanned(c) PROVE LocksHeld'
  BY <1>2, <1>23, <1>34, Addresses, Zenon
<1> QED
  BY <1>quiet, <1>24, <1>25, <1>26, <1>28, <1>29, <1>30, <1>31, <1>32, <1>33,
     <1>34, Reachable, SMT, SMTT(30)

=============================================================================
