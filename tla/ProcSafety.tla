---------------------------- MODULE ProcSafety ----------------------------
(***************************************************************************)
(* Safety of the process table: the types always, the table, the CPUs and  *)
(* the sleepers for every number of CPUs when swapping is never enabled,   *)
(* and the memory images and the sleepers on one CPU with swapping.        *)
(***************************************************************************)
EXTENDS ProcTable, ProcSwap

-----------------------------------------------------------------------------
(* Types.                                                                  *)

\* The number of suspended sleepers that wakeup1() adds to swappedout.
LEMMA WokenCount ==
  ASSUME NEW chs
  PROVE  SuspendedOn(chs) \subseteq Slot /\ Cardinality(SuspendedOn(chs)) \in Nat
BY EntryCounts, Zenon DEF SuspendedOn

\* What wakeup1() leaves in the fields it assigns.
LEMMA WakeupType ==
  ASSUME TypeOK, NEW chs, Wakeup1(chs)
  PROVE  /\ WokenState(chs) \in [Slot -> ProcState]
         /\ wokenUp' \in [Slot -> BOOLEAN]
         /\ swappedout' \in Int
<1>1. WokenState(chs) \in [Slot -> ProcState]
  BY Zenon DEF TypeOK, TableType, WokenState, ProcState
<1>2. wokenUp' \in [Slot -> BOOLEAN]
  BY Zenon DEF Wakeup1
<1>3. swappedout' \in Int
  <2>1. Cardinality(SuspendedOn(chs)) \in Nat
    BY WokenCount, Zenon
  <2>2. swappedout' = swappedout + Cardinality(SuspendedOn(chs))
    BY Zenon DEF Wakeup1
  <2>3. swappedout \in Int
    BY Zenon DEF TypeOK, GlobalType
  <2> QED
    BY <2>2, SMT, SMTT(30)
<1> QED
  BY <1>1, <1>2, <1>3, Zenon

\* sleep() keeps the types, whatever it is called with.
LEMMA SleepType ==
  ASSUME TypeOK, NEW c \in CPU, NEW p \in Slot, NEW ch \in Nat,
         NEW lk \in Lock, Sleep(c, p, ch, lk)
  PROVE  TypeOK'
<1>1. TableType'
  BY Zenon DEF Sleep, TypeOK, TableType, ProcState
<1>2. GlobalType'
  BY Zenon DEF Sleep, TypeOK, GlobalType, globals
<1>3. CpuType'
  BY Addresses, SMT, SMTT(30) DEF Sleep, Sched, TypeOK, CpuType
<1>4. StackType'
  BY SMT, SMTT(30) DEF Sleep, Resume, TypeOK, StackType, Pc, Job
<1>5. FileType'
  BY Zenon DEF Sleep, TypeOK, FileType, files, memory
<1> QED
  BY <1>1, <1>2, <1>3, <1>4, <1>5, Zenon DEF TypeOK

\* Each operation keeps the types.
LEMMA StepType ==
  ASSUME TypeOK
  PROVE  [Next]_vars => TypeOK'
<1>1. ASSUME NEW c \in CPU, NEW p \in Slot, Dispatch(c, p) PROVE TypeOK'
  BY <1>1, Addresses, Zenon
     DEF Dispatch, globals, stacks, files, memory, ProcState, TypeOK, TableType, GlobalType, CpuType,
         StackType, FileType
<1>2. ASSUME NEW c \in CPU, ScanEnd(c) PROVE TypeOK'
  BY <1>2, Addresses, SMT, SMTT(30)
     DEF ScanEnd, table, globals, stacks, files, memory, Lock, TypeOK, TableType, GlobalType, CpuType,
         StackType, FileType
<1>3. ASSUME NEW c \in CPU, NEW p \in Slot, Yield(c, p) PROVE TypeOK'
  BY <1>3, Addresses, SMT, SMTT(30)
     DEF Yield, Sched, globals, stacks, files, memory, ProcState, Lock, TypeOK, TableType, GlobalType,
         CpuType, StackType, FileType
<1>4. ASSUME Tick PROVE TypeOK'
  BY <1>4, WakeupType, Zenon
     DEF Tick, cpus, stacks, files, memory, TypeOK, TableType, GlobalType,
         CpuType, StackType, FileType, NULL
<1>5. ASSUME NEW c \in CPU, NEW p \in Slot, NEW q \in Slot, ForkAlloc(c, p, q)
      PROVE TypeOK'
  <2>1. TableType'
    BY <1>5, Zenon DEF TypeOK, ForkAlloc, TableType, GlobalType, ProcState
  <2>2. GlobalType'
    BY <1>5, Addresses, SMT, SMTT(30) DEF TypeOK, ForkAlloc, GlobalType
  <2>3. CpuType'
    BY <1>5, Zenon DEF TypeOK, ForkAlloc, CpuType, cpus
  <2>4. StackType'
    BY <1>5, Addresses, Zenon DEF TypeOK, ForkAlloc, StackType, Pc, Job
  <2>5. FileType'
    BY <1>5, Zenon DEF TypeOK, ForkAlloc, FileType, files, memory
  <2> QED
    BY <2>1, <2>2, <2>3, <2>4, <2>5, Zenon DEF TypeOK
<1>6. ASSUME NEW c \in CPU, NEW p \in Slot, ForkFail(c, p) PROVE TypeOK'
  BY <1>6, Zenon
     DEF ForkFail, globals, cpus, files, memory, ProcState, Pc, Job, TypeOK,
         TableType, GlobalType, CpuType, StackType, FileType, NULL
<1>7. ASSUME NEW c \in CPU, NEW p \in Slot, ForkDone(c, p) PROVE TypeOK'
  BY <1>7, ZenonT(30)
     DEF ForkDone, globals, cpus, files, ProcState, Pc, Job, TypeOK, TableType, GlobalType, CpuType,
         StackType, FileType
<1>8. ASSUME NEW c \in CPU, NEW p \in Slot, Exit(c, p) PROVE TypeOK'
  BY <1>8, WakeupType, Addresses, ZenonT(30)
     DEF Exit, Children, Sched, stacks, files, memory, ProcState, Lock, TypeOK,
         TableType, GlobalType, CpuType, StackType, FileType, NULL
<1>9. ASSUME NEW c \in CPU, NEW p \in Slot, WaitCall(c, p) PROVE TypeOK'
  BY <1>9, Addresses, Zenon
     DEF WaitCall, table, globals, files, memory, Pc, Job, Lock, TypeOK,
         TableType, GlobalType, CpuType, StackType, FileType, NULL
<1>10. ASSUME NEW c \in CPU, NEW p \in Slot, NEW q \in Slot, WaitReap(c, p, q)
      PROVE TypeOK'
  BY <1>10, Addresses, Zenon
     DEF WaitReap, Return, globals, files, ProcState, Pc, Job, Lock, TypeOK,
         TableType, GlobalType, CpuType, StackType, FileType, NULL
<1>11. ASSUME NEW c \in CPU, NEW p \in Slot, NEW n \in Killable, Kill(c, p, n)
      PROVE TypeOK'
  <2>1. TableType'
    BY <1>11, Addresses, SMT, SMTT(30) DEF TypeOK, Kill, TableType, ProcState
  <2>2. GlobalType'
    BY <1>11, Addresses, SMT, SMTT(30) DEF TypeOK, Kill, GlobalType
  <2>3. CpuType'
    BY <1>11, Zenon DEF TypeOK, Kill, CpuType, cpus
  <2>4. StackType'
    BY <1>11, Zenon DEF TypeOK, Kill, StackType, stacks
  <2>5. FileType'
    BY <1>11, Addresses, Zenon DEF TypeOK, Kill, FileType, files, memory
  <2> QED
    BY <2>1, <2>2, <2>3, <2>4, <2>5, Zenon DEF TypeOK
<1>12. ASSUME NEW c \in CPU, NEW p \in Slot, Sleep2Call(c, p)
      PROVE TypeOK'
  BY <1>12, Addresses, ZenonT(30)
     DEF Sleep2Call, table, globals, files, memory, Pc, Job, Lock, TypeOK,
         TableType, GlobalType, CpuType, StackType, FileType, NULL
<1>13. ASSUME NEW c \in CPU, NEW p \in Slot, Sleep2Return(c, p)
      PROVE TypeOK'
  BY <1>13, ZenonT(30)
     DEF Sleep2Return, Return, table, globals, cpus, files, memory, Pc, Job,
         TypeOK, TableType, GlobalType, CpuType, StackType, FileType, NULL
<1>14. ASSUME NEW c \in CPU, NEW p \in Slot, Wakeup2(c, p) PROVE TypeOK'
  BY <1>14, WakeupType, ZenonT(30)
     DEF Wakeup2, cpus, stacks, files, memory, TypeOK, TableType, GlobalType,
         CpuType, StackType, FileType, NULL
<1>15. ASSUME NEW c \in CPU, NEW p \in Slot, SleepCall(c, p)
      PROVE TypeOK'
  BY <1>15, Zenon
     DEF SleepCall, table, globals, cpus, files, memory, Pc, Job, TypeOK,
         TableType, GlobalType, CpuType, StackType, FileType, NULL
<1>16. ASSUME NEW c \in CPU, NEW p \in Slot, SleepAcquire(c, p)
      PROVE TypeOK'
  BY <1>16, Zenon
     DEF SleepAcquire, table, globals, files, memory, Pc, Lock, TypeOK,
         TableType, GlobalType, CpuType, StackType, FileType, NULL
<1>17. ASSUME NEW c \in CPU, NEW p \in Slot, SleepReturn(c, p)
      PROVE TypeOK'
  BY <1>17, Addresses, Zenon
     DEF SleepReturn, Return, table, globals, files, memory, Pc, Job, Lock,
         TypeOK, TableType, GlobalType, CpuType, StackType, FileType, NULL
<1>18. ASSUME NEW c \in CPU, NEW p \in Slot, NEW on \in BOOLEAN, SetSwapping(c, p, on)
      PROVE TypeOK'
  BY <1>18, Zenon
     DEF SetSwapping, table, cpus, stacks, files, memory, TypeOK, TableType,
         GlobalType, CpuType, StackType, FileType, NULL
<1>19. ASSUME NEW c \in CPU, NEW p \in Slot, NEW call \in {"write", "read"},
             NEW i \in Inode, FileCall(c, p, call, i)
      PROVE TypeOK'
  <2>1. i \in Nat
    BY NINODEAssumption, SMT, SMTT(30) DEF Inode
  <2> QED
    BY <1>19, <2>1, Zenon
       DEF FileCall, table, globals, cpus, files, memory, Pc, Job, TypeOK,
           TableType, GlobalType, CpuType, StackType, FileType, NULL
<1>20. ASSUME NEW c \in CPU, NEW p \in Slot, BeginTrans(c, p)
      PROVE TypeOK'
  BY <1>20, Zenon
     DEF BeginTrans, table, globals, cpus, memory, Pc, TypeOK, TableType,
         GlobalType, CpuType, StackType, FileType, NULL
<1>21. ASSUME NEW c \in CPU, NEW p \in Slot, IlockAcquire(c, p)
      PROVE TypeOK'
  BY <1>21, Zenon
     DEF IlockAcquire, table, globals, files, memory, Pc, Lock, TypeOK,
         TableType, GlobalType, CpuType, StackType, FileType, NULL
<1>22. ASSUME NEW c \in CPU, NEW p \in Slot, IlockTake(c, p)
      PROVE TypeOK'
  BY <1>22, Zenon
     DEF IlockTake, table, globals, memory, Pc, Lock, TypeOK, TableType,
         GlobalType, CpuType, StackType, FileType, NULL
<1>23. ASSUME NEW c \in CPU, NEW p \in Slot, Iunlock(c, p) PROVE TypeOK'
  BY <1>23, Zenon
     DEF Iunlock, table, globals, memory, Pc, TypeOK, TableType, GlobalType, CpuType, StackType,
         FileType, NULL
<1>24. ASSUME NEW c \in CPU, NEW p \in Slot, IunlockWakeup(c, p)
      PROVE TypeOK'
  <2>1. TableType' /\ GlobalType'
    BY <1>24, WakeupType, Zenon DEF IunlockWakeup, TypeOK, TableType, GlobalType
  <2>2. CpuType'
    BY <1>24, Zenon DEF IunlockWakeup, TypeOK, CpuType
  <2>3. StackType'
    BY <1>24, SMT, SMTT(30) DEF IunlockWakeup, Return, TypeOK, StackType, Pc, Job
  <2>4. FileType'
    BY <1>24, Zenon DEF IunlockWakeup, files, memory, TypeOK, FileType
  <2> QED
    BY <2>1, <2>2, <2>3, <2>4, Zenon DEF TypeOK
<1>25. ASSUME NEW c \in CPU, NEW p \in Slot, CommitTrans(c, p)
      PROVE TypeOK'
  BY <1>25, ZenonT(30)
     DEF CommitTrans, Return, table, globals, cpus, memory, Pc, Job, TypeOK,
         TableType, GlobalType, CpuType, StackType, FileType, NULL
<1>26. ASSUME NEW c \in CPU, NEW p \in Slot, SwapOutCreate(c, p)
      PROVE TypeOK'
  BY <1>26, ZenonT(30)
     DEF SwapOutCreate, table, globals, cpus, Pc, Job, TypeOK, TableType,
         GlobalType, CpuType, StackType, FileType, NULL
<1>27. ASSUME NEW c \in CPU, NEW p \in Slot, SwapOutSave(c, p)
      PROVE TypeOK'
  BY <1>27, Zenon
     DEF SwapOutSave, table, globals, cpus, Pc, TypeOK, TableType, GlobalType, CpuType, StackType,
         FileType
<1>28. ASSUME NEW c \in CPU, NEW p \in Slot, SwapOutFail(c, p)
      PROVE TypeOK'
  BY <1>28, ZenonT(30)
     DEF SwapOutFail, table, globals, cpus, memory, Pc, TypeOK, TableType,
         GlobalType, CpuType, StackType, FileType, NULL
<1>29. ASSUME NEW c \in CPU, NEW p \in Slot, SwapOutEnd(c, p)
      PROVE TypeOK'
  BY <1>29, Addresses, ZenonT(30)
     DEF SwapOutEnd, Sched, Resume, globals, files, memory, ProcState, Pc,
         Job, Lock, TypeOK, TableType, GlobalType, CpuType, StackType,
         FileType, NULL
<1>30. ASSUME NEW c \in CPU, NEW t \in Slot, SwapInFound(c, t)
      PROVE TypeOK'
  BY <1>30, Addresses, Zenon
     DEF SwapInFound, table, globals, files, memory, Pc, Job, Lock, TypeOK,
         TableType, GlobalType, CpuType, StackType, FileType, NULL
<1>31. ASSUME NEW c \in CPU, SwapInRestart(c) PROVE TypeOK'
  <2>1. TableType'
    <3>1. inswapper \in Slot /\ inswapper \in Nat
      BY Addresses, SMT, SMTT(30)
    <3>2. CASE swappedout > 0
      BY <1>31, <3>2, Zenon DEF TypeOK, SwapInRestart, TableType
    <3>3. CASE ~(swappedout > 0)
      BY <1>31, <3>1, Zenon DEF TypeOK, SwapInRestart, TableType, ProcState
    <3> QED
      BY <3>2, <3>3, Zenon
  <2>2. GlobalType'
    BY <1>31, Zenon DEF TypeOK, SwapInRestart, GlobalType, globals
  <2>3. CpuType'
    BY <1>31, Addresses, ZenonT(30) DEF TypeOK, SwapInRestart, Sched, CpuType, NULL
  <2>4. StackType'
    BY <1>31, Zenon DEF TypeOK, SwapInRestart, StackType, Pc, Job
  <2>5. FileType'
    BY <1>31, Zenon DEF TypeOK, SwapInRestart, FileType, files, memory
  <2> QED
    BY <2>1, <2>2, <2>3, <2>4, <2>5, Zenon DEF TypeOK
<1>32. ASSUME NEW c \in CPU, SwapInLoad(c) PROVE TypeOK'
  <2>1. TableType' /\ GlobalType' /\ CpuType'
    <3>1. UNCHANGED <<table, globals, cpus>>
      BY <1>32, Zenon DEF SwapInLoad
    <3> QED
      BY <3>1, Zenon DEF TypeOK, TableType, GlobalType, CpuType, table, globals, cpus
  <2>2. StackType'
    BY <1>32, Zenon DEF TypeOK, SwapInLoad, StackType, Pc, Job
  <2>3. FileType'
    BY <1>32, Zenon DEF TypeOK, SwapInLoad, FileType, files
  <2> QED
    BY <2>1, <2>2, <2>3, Zenon DEF TypeOK
<1>33. ASSUME NEW c \in CPU, SwapInUnlink(c) PROVE TypeOK'
  BY <1>33, Zenon
     DEF SwapInUnlink, table, globals, cpus, Pc, TypeOK, TableType,
         GlobalType, CpuType, StackType, FileType, NULL
<1>34. ASSUME NEW c \in CPU, SwapInDone(c) PROVE TypeOK'
  <2>1. TableType'
    BY <1>34, Zenon DEF TypeOK, SwapInDone, TableType, ProcState
  <2>2. GlobalType'
    BY <1>34, Addresses, SMT, SMTT(30) DEF TypeOK, SwapInDone, GlobalType
  <2>3. CpuType'
    BY <1>34, Zenon DEF TypeOK, SwapInDone, CpuType
  <2>4. StackType'
    BY <1>34, Addresses, SMT, SMTT(30) DEF TypeOK, SwapInDone, StackType, Pc, Job
  <2>5. FileType'
    BY <1>34, Zenon DEF TypeOK, SwapInDone, FileType, files, memory
  <2> QED
    BY <2>1, <2>2, <2>3, <2>4, <2>5, Zenon DEF TypeOK
<1>35. ASSUME NEW c \in CPU, NEW p \in Slot, WaitNone(c, p) PROVE TypeOK'
  <2>1. CASE Sleep(c, p, p, "ptable")
    BY <2>1, SleepType, Addresses, Zenon DEF Lock
  <2>2. CASE ~Sleep(c, p, p, "ptable")
    <3> USE <1>35, <2>2 DEF WaitNone, TypeOK
    <3>1. TableType'
      BY Zenon DEF TableType, table
    <3>2. GlobalType'
      BY Zenon DEF GlobalType, globals
    <3>3. CpuType'
      BY Zenon DEF CpuType, Lock
    <3>4. StackType'
      BY SMT, SMTT(30) DEF StackType, Return, Pc, Job
    <3>5. FileType'
      BY Zenon DEF FileType, files, memory
    <3> QED
      BY <3>1, <3>2, <3>3, <3>4, <3>5, SMT, SMTT(30)
  <2> QED
    BY <2>1, <2>2, Zenon
<1>36. ASSUME NEW c \in CPU, NEW p \in Slot, Sleep2Sleep(c, p)
      PROVE TypeOK'
  BY <1>36, SleepType, Addresses, Zenon DEF Sleep2Sleep, Lock
<1>37. ASSUME NEW c \in CPU, NEW p \in Slot, SleepMore(c, p)
      PROVE TypeOK'
  BY <1>37, SleepType, Addresses, Zenon DEF SleepMore, Lock
<1>38. ASSUME NEW c \in CPU, NEW p \in Slot, IlockSleep(c, p)
      PROVE TypeOK'
  <2>1. Target(p) \in Nat
    BY SMT, SMTT(30) DEF Target, RootDir, TypeOK, StackType
  <2> QED
    BY <1>38, <2>1, SleepType, Addresses, Zenon DEF IlockSleep, Lock
<1>39. ASSUME NEW c \in CPU, SwapInScanned(c) PROVE TypeOK'
  BY <1>39, <1>31, Zenon DEF SwapInScanned
<1>40. ASSUME NEW c \in CPU, SwapInBreak(c) PROVE TypeOK'
  BY <1>40, <1>31, Zenon DEF SwapInBreak
<1>45. ASSUME NEW c \in CPU, NEW p \in Slot, NEW root \in BOOLEAN, Chdir(c, p, root)
      PROVE TypeOK'
  BY <1>45, ZenonT(30)
     DEF Chdir, table, globals, cpus, stacks, files, TypeOK, TableType,
         GlobalType, CpuType, StackType, FileType, NULL
<1>41. ASSUME NEW c \in CPU, NEW p \in Slot, KernelStep(c, p)
      PROVE TypeOK'
  BY <1>41, <1>6, <1>7, <1>10, <1>35, <1>36, <1>13, <1>16, <1>17, <1>37, <1>20,
     <1>21, <1>22, <1>38, <1>23, <1>24, <1>25, <1>26, <1>27, <1>28, <1>29, SMT, SMTT(30)
     DEF KernelStep
<1>42. ASSUME NEW c \in CPU, SwapInStep(c) PROVE TypeOK'
  BY <1>42, <1>30, <1>39, <1>40, <1>32, <1>33, <1>34, SMT, SMTT(30) DEF SwapInStep
<1>43. ASSUME NEW c \in CPU, NEW p \in Slot, UserStep(c, p) PROVE TypeOK'
  BY <1>43, <1>5, <1>8, <1>9, <1>11, <1>12, <1>14, <1>15, <1>18, <1>19, <1>45, SMT, SMTT(30) DEF UserStep
<1>44. ASSUME UNCHANGED vars PROVE TypeOK'
  BY <1>44, Zenon
     DEF vars, table, globals, cpus, stacks, files, memory, TypeOK, TableType,
         GlobalType, CpuType, StackType, FileType, NULL
<1> QED
  BY <1>1, <1>2, <1>3, <1>4, <1>41, <1>42, <1>43, <1>44, Zenon
     DEF Next

\* Every field keeps its type in every behaviour of the kernel, for any number
\* of processes and CPUs, with and without swapping.
THEOREM TypeCorrect == Spec => []TypeOK
<1>1. Init => TypeOK
  <2> SUFFICES ASSUME Init PROVE TypeOK
    OBVIOUS
  <2>1. TableType
    <3>1. state \in [Slot -> ProcState]
      BY Zenon DEF Init, ProcState
    <3>2. pid \in [Slot -> Nat] /\ chan \in [Slot -> Nat]
      BY Addresses, NPROCAssumption, SMT, SMTT(30) DEF Init
    <3>3. parent \in [Slot -> Slot \cup {NULL}]
      BY Addresses, Zenon DEF Init
    <3>4. /\ killed \in [Slot -> BOOLEAN] /\ swappingOut \in [Slot -> BOOLEAN]
          /\ wokenUp \in [Slot -> BOOLEAN]
      BY Zenon DEF Init
    <3> QED
      BY <3>1, <3>2, <3>3, <3>4, Zenon DEF TableType
  <2>2. GlobalType
    <3>1. nextpid \in Nat
      <4>1. nextpid = IF Started = {} THEN 3 ELSE NPROC + 2
        BY Zenon DEF Init
      <4>2. NPROC + 2 \in Nat
        BY NPROCAssumption, SMT, SMTT(30)
      <4> QED
        BY <4>1, <4>2, Zenon
    <3>2. swapFlag \in BOOLEAN
      BY Zenon DEF Init
    <3>3. swappedout \in Int
      <4>1. swappedout = 0
        BY Zenon DEF Init
      <4> QED
        BY <4>1, SMT, SMTT(30)
    <3> QED
      BY <3>1, <3>2, <3>3, Zenon DEF GlobalType
  <2>3. CpuType
    BY Addresses, Zenon DEF Init, CpuType
  <2>4. StackType
    BY Zenon DEF Init, StackType, Pc, Job
  <2>5. FileType
    BY SMT, SMTT(30) DEF Init, FileType
  <2> QED
    BY <2>1, <2>2, <2>3, <2>4, <2>5, Zenon DEF TypeOK
<1>2. TypeOK /\ [Next]_vars => TypeOK'
  BY StepType, Zenon
<1> QED
  BY <1>1, <1>2, PTL DEF Spec

-----------------------------------------------------------------------------
(* Without swapping.                                                       *)

\* The invariant holds in every state of a kernel that never swaps: scheduler(),
\* fork(), exit(), wait(), kill(), sleep(), wakeup() and ilock() preserve it.
THEOREM Invariance ==
  ASSUME ~MaySwap
  PROVE  Spec => []NoSwapInv
<1>1. Init => NoSwapInv
  <2> SUFFICES ASSUME Init PROVE NoSwapInv
    OBVIOUS
  <2> USE Addresses DEF Init
  <2>1. NoSwapping
    BY Zenon DEF NoSwapping, NULL
  <2>2. OneCpu /\ RunningIsCurrent /\ ForksApart
    BY Zenon DEF OneCpu, RunningIsCurrent, ForksApart, NULL
  <2>3. LocksHeld
    BY Zenon DEF LocksHeld, Held, Lock, NULL
  <2>started. initproc \notin Started
    BY StartedAssumption, SMT, SMTT(30) DEF initproc
  <2>4. InitAlive
    BY <2>started, Zenon DEF InitAlive, NULL
  <2>5. ParentAlive /\ PidInv
    BY KinInit, Zenon DEF KinInv
  <2>6. NoMissedExit /\ KilledNotWaiting
    BY Zenon DEF NoMissedExit, KilledNotWaiting
  <2>7. NoMissedWakeup
    BY Zenon DEF NoMissedWakeup
  <2> QED
    BY <2>1, <2>2, <2>3, <2>4, <2>5, <2>6, <2>7, Zenon DEF NoSwapInv, CpuInv, FamilyInv
<1>2. TypeOK /\ NoSwapInv /\ [Next]_vars => NoSwapInv'
  <2>1. ASSUME TypeOK, NoSwapInv, Next, ~ChangesDir PROVE NoSwapInv'
    <3>1. CpuInv'
      BY <2>1, RunStep, ForkStep, LockStep, Zenon DEF CpuInv
    <3>2. FamilyInv'
      BY <2>1, ParentStep, ExitStep, KilledStep, Zenon DEF FamilyInv
    <3> QED
      BY <2>1, <3>1, <3>2, QuietStep, PidStep, InodeStep, Zenon DEF NoSwapInv
  <2>2. ASSUME NoSwapInv, UNCHANGED <<table, globals, cpus, stacks, files>>
        PROVE  NoSwapInv'
    <3>0. /\ UNCHANGED <<state, pid, parent, chan, killed, swappingOut, wokenUp>>
          /\ UNCHANGED <<nextpid, swapFlag, swappedout, lock, cur, scan>>
          /\ UNCHANGED <<pc, job, outer, loc, logOwner, inodeOwner>>
      BY <2>2, SMT, SMTT(30) DEF table, globals, cpus, stacks, files
    <3>1. NoSwapping'
      BY <2>2, <3>0, Zenon DEF NoSwapInv, NoSwapping
    <3>2. OneCpu' /\ RunningIsCurrent' /\ ForksApart'
      BY <2>2, <3>0, SMT, SMTT(30) DEF NoSwapInv, CpuInv, OneCpu, RunningIsCurrent, ForksApart
    <3>3. LocksHeld'
      BY <2>2, <3>0, Zenon DEF NoSwapInv, CpuInv, LocksHeld
    <3>4. InitAlive' /\ ParentAlive' /\ KilledNotWaiting'
      BY <2>2, <3>0, Zenon DEF NoSwapInv, FamilyInv, InitAlive, ParentAlive,
                        KilledNotWaiting
    <3>5. NoMissedExit'
      BY <2>2, <3>0, Zenon DEF NoSwapInv, FamilyInv, NoMissedExit
    <3>6. PidInv'
      BY <2>2, <3>0, Zenon DEF NoSwapInv, PidInv, PidsIssued, UniquePids
    <3>7. NoMissedWakeup'
      BY <2>2, <3>0, SMT, SMTT(30) DEF NoSwapInv, NoMissedWakeup, Target
    <3> QED
      BY <3>1, <3>2, <3>3, <3>4, <3>5, <3>6, <3>7, Zenon DEF NoSwapInv, CpuInv, FamilyInv
  <2>3. ChangesDir \/ UNCHANGED vars =>
          UNCHANGED <<table, globals, cpus, stacks, files>>
    BY Zenon DEF ChangesDir, Chdir, vars
  <2> QED
    BY <2>1, <2>2, <2>3, Zenon
<1> QED
  BY <1>1, <1>2, TypeCorrect, PTL DEF Spec

\* Without swapping, no two CPUs ever execute the same process, for any number
\* of processes and CPUs (scheduler(), yield(), sleep(), exit()).
THEOREM OneCpuHolds ==
  ASSUME ~MaySwap
  PROVE  Spec => []OneCpu
<1>1. NoSwapInv => OneCpu
  BY Zenon DEF NoSwapInv, CpuInv
<1> QED
  BY <1>1, Invariance, PTL

\* Without swapping, RUNNING means exactly that a CPU executes the process.
THEOREM RunningIsCurrentHolds ==
  ASSUME ~MaySwap
  PROVE  Spec => []RunningIsCurrent
<1>1. NoSwapInv => RunningIsCurrent
  BY Zenon DEF NoSwapInv, CpuInv
<1> QED
  BY <1>1, Invariance, PTL

\* Without swapping, a process that sleeps for an inode is never forgotten
\* (ilock(), iunlock(), sleep(), wakeup()).
THEOREM NoMissedWakeupHolds ==
  ASSUME ~MaySwap
  PROVE  Spec => []NoMissedWakeup
<1>1. NoSwapInv => NoMissedWakeup
  BY Zenon DEF NoSwapInv
<1> QED
  BY <1>1, Invariance, PTL

\* Without swapping, wait() never sleeps while it has a child to free, and
\* never sleeps on after its caller is killed (exit(), wait(), kill()).
THEOREM WaitIsWoken ==
  ASSUME ~MaySwap
  PROVE  Spec => [](NoMissedExit /\ KilledNotWaiting)
<1>1. NoSwapInv => NoMissedExit /\ KilledNotWaiting
  BY Zenon DEF NoSwapInv, FamilyInv
<1> QED
  BY <1>1, Invariance, PTL

\* Without swapping, every process has a live parent and a pid of its own
\* (fork(), exit(), wait()).
THEOREM FamilyHolds ==
  ASSUME ~MaySwap
  PROVE  Spec => [](ParentAlive /\ UniquePids)
<1>1. NoSwapInv => ParentAlive /\ UniquePids
  BY Zenon DEF NoSwapInv, FamilyInv, PidInv
<1> QED
  BY <1>1, Invariance, PTL

-----------------------------------------------------------------------------
(* With swapping, on one CPU.                                              *)

\* On one CPU ImageInv holds in every state, with swapping, failing swap files
\* and lack of memory: every step of proc.c preserves it.
THEOREM ImageInvariance ==
  ASSUME NCPU = 1
  PROVE  Spec => []ImageInv
<1>1. Init => ImageInv
  BY ImageInit, Zenon
<1>2. TypeOK /\ TypeOK' /\ ImageInv /\ [Next]_vars => ImageInv'
  BY ImageStep, Zenon
<1> QED
  BY <1>1, <1>2, TypeCorrect, PTL DEF Spec

\* On one CPU no process is scheduled without its memory: swapOut() frees it
\* only in a process that will be suspended, and swapIn() has brought it back
\* before it makes the process RUNNABLE.
THEOREM RunnableIsResidentHolds ==
  ASSUME NCPU = 1
  PROVE  Spec => []RunnableIsResident
<1>1. ImageInv => RunnableIsResident
  BY Zenon DEF ImageInv
<1> QED
  BY <1>1, ImageInvariance, PTL

\* On one CPU the memory of a process is never lost and never in two places but
\* while inswapper removes the swap file, whichever part of swapOut() or
\* swapIn() fails.
THEOREM ImageOnceHolds ==
  ASSUME NCPU = 1
  PROVE  Spec => []ImageOnce
<1>1. TypeOK /\ ImageInv => ImageOnce
  BY Zenon DEF ImageInv, ImageKept, ImageOnce
<1> QED
  BY <1>1, ImageInvariance, TypeCorrect, PTL

\* On one CPU, with swapping, no sleeper is forgotten: a process that sleeps for
\* an inode has it locked by another, or its wakeup is under way or noted in
\* wokenUp; one that sleeps in wait() has no ZOMBIE child that it was not woken
\* for, and was not killed.
THEOREM SwapWakeups ==
  ASSUME NCPU = 1
  PROVE  Spec => [](NoMissedWakeup /\ NoMissedExit /\ KilledNotWaiting)
<1>1. Init => WakeInv
  BY Addresses, SMT, SMTT(30) DEF Init, WakeInv, NoMissedWakeup, NoMissedExit, KilledNotWaiting
<1>2. TypeOK /\ ImageInv /\ WakeInv /\ [Next]_vars => WakeInv'
  BY WakeStep, Zenon
<1>3. WakeInv => NoMissedWakeup /\ NoMissedExit /\ KilledNotWaiting
  BY Zenon DEF WakeInv
<1> QED
  BY <1>1, <1>2, <1>3, TypeCorrect, ImageInvariance, PTL DEF Spec

\* On one CPU, with swapping, every process has a parent that can still wait for
\* it, and no two have the same pid: allocproc() hands out entries and pids in
\* one critical section, exit() gives the children to init, and what swapOut() and
\* swapIn() do to states neither frees an entry nor revives one.
THEOREM SwapFamily ==
  ASSUME NCPU = 1
  PROVE  Spec => [](ParentAlive /\ UniquePids)
<1>1. Init => KinInv
  BY KinInit, Zenon
<1>2. TypeOK /\ ImageInv /\ KinInv /\ [Next]_vars => KinInv'
  BY KinStep, Zenon
<1>3. KinInv => ParentAlive /\ UniquePids
  BY Zenon DEF KinInv, PidInv
<1> QED
  BY <1>1, <1>2, <1>3, TypeCorrect, ImageInvariance, PTL DEF Spec

-----------------------------------------------------------------------------
(* The counter of the processes to be swapped in.                          *)

LEMMA ReadyFinite ==
  /\ Ready \subseteq Slot /\ Cardinality(Ready) \in Nat
  /\ Ready' \subseteq Slot /\ Cardinality(Ready') \in Nat
BY EntryCounts, Zenon DEF Ready

\* What the counter of a step must do.
Follows == CountedStep \/ \E p \in Slot : UncountedWakeup(p)

LEMMA CountedFollows ==
  ASSUME TypeOK, NEW d \in Int,
         Cardinality(Ready') = Cardinality(Ready) + d, swappedout' = swappedout + d
  PROVE  Follows
<1>1. swappedout \in Int
  BY Zenon DEF TypeOK, GlobalType
<1>2. CountedStep
  BY <1>1, ReadyFinite, SMT, SMTT(30) DEF CountedStep
<1> QED
  BY <1>2, Zenon DEF Follows

\* Steps that neither count nor swap in.
LEMMA NotCounting ==
  ASSUME TypeOK, UNCHANGED swappedout,
         \A q \in Slot : state[q] = "RUNNABLE_SUSPENDED" <=> state'[q] = "RUNNABLE_SUSPENDED"
  PROVE  Follows
<1>1. Ready' = Ready
  BY Zenon DEF Ready
<1>2. swappedout \in Int
  BY Zenon DEF TypeOK, GlobalType
<1>3. 0 \in Int /\ swappedout' = swappedout + 0 /\ Cardinality(Ready') = Cardinality(Ready) + 0
  BY <1>1, <1>2, ReadyFinite, SMT, SMTT(30)
<1> QED
  BY <1>3, CountedFollows, Zenon

\* wakeup1() counts exactly the suspended sleepers it readies.
LEMMA Counting ==
  ASSUME TypeOK, Founders, NEW chs, Wakeup1(chs),
         \A q \in Slot : state'[q] = WokenState(chs)[q] \/ (state[q] = "RUNNING" /\ state'[q] = "ZOMBIE")
  PROVE  Follows
<1>1. inswapper \notin Ready \cup SuspendedOn(chs)
  BY Zenon DEF Founders, Ready, SuspendedOn, Suspended
<1>2. Ready' = Ready \cup SuspendedOn(chs)
  <2>1. \A q \in Slot : state'[q] = "RUNNABLE_SUSPENDED" <=> q \in Ready \cup SuspendedOn(chs)
    BY <1>1, Zenon DEF Ready, SuspendedOn, Suspended, Asleep, WokenState
  <2> QED
    BY <2>1, Zenon DEF Ready, SuspendedOn
<1>3. Ready \cap SuspendedOn(chs) = {}
  BY Zenon DEF Ready, SuspendedOn, Suspended
<1>4. Cardinality(Ready \cup SuspendedOn(chs)) = Cardinality(Ready) + Cardinality(SuspendedOn(chs))
  BY <1>3, ReadyFinite, WokenCount, EntryCounts, Zenon
<1>5. Cardinality(Ready') = Cardinality(Ready) + Cardinality(SuspendedOn(chs))
  BY <1>2, <1>4, Zenon
<1>6. swappedout' = swappedout + Cardinality(SuspendedOn(chs))
  BY Zenon DEF Wakeup1
<1>7. Cardinality(SuspendedOn(chs)) \in Int
  BY WokenCount, SMT, SMTT(30)
<1> QED
  BY <1>5, <1>6, <1>7, CountedFollows, Zenon

LEMMA KillCounts ==
  ASSUME TypeOK, ImageInv, NEW c \in CPU, NEW p \in Slot, NEW n \in Killable, Kill(c, p, n)
  PROVE  Follows
<1>t. Typed /\ inswapper \in Slot
  BY Types, Addresses, Zenon
<1>1. PICK q \in Slot :
        IF state[q] = "SLEEPING_SUSPENDED"
        THEN /\ swappedout' = swappedout + 1
             /\ state' = [state EXCEPT ![q] = "RUNNABLE_SUSPENDED", ![inswapper] = "RUNNABLE"]
        ELSE /\ state' = [state EXCEPT ![q] = IF @ = "SLEEPING" THEN "RUNNABLE" ELSE @]
             /\ UNCHANGED swappedout
  BY Zenon DEF Kill
<1>2. CASE state[q] = "SLEEPING_SUSPENDED"
  <2>1. q # inswapper /\ state[inswapper] # "RUNNABLE_SUSPENDED"
    BY <1>2, Zenon DEF ImageInv, Founders
  <2>2. Ready' = Ready \cup {q} /\ q \notin Ready
    BY <1>t, <1>1, <1>2, <2>1, SMT, SMTT(30)
       DEF Ready, Typed, StateTyped, OriginTyped, FlagsTyped, PlaceTyped, FrameTyped, ImageTyped
  <2>3. Cardinality(Ready') = Cardinality(Ready) + 1
    BY <2>2, ReadyFinite, EntryCounts, Zenon
  <2>4. 1 \in Int /\ swappedout' = swappedout + 1
    BY <1>1, <1>2, SMT, SMTT(30)
  <2> QED
    BY <2>3, <2>4, CountedFollows, Zenon
<1>3. CASE state[q] # "SLEEPING_SUSPENDED"
  BY <1>t, <1>1, <1>3, NotCounting, Zenon DEF Typed, StateTyped, FlagsTyped
<1> QED
  BY <1>2, <1>3, Zenon

\* swapIn() counts down when it has readied one.
LEMMA LoadedCounts ==
  ASSUME NCPU = 1, TypeOK, ImageInv, NEW c \in CPU, SwapInDone(c)
  PROVE  Follows
<1> DEFINE t == loc[inswapper]
<1>1. t \in Ready
  BY Addresses, Zenon DEF SwapInDone, At, ImageInv, StacksOK, Loading, Ready
<1>2. Ready' = Ready \ {t}
  BY Types, Zenon DEF SwapInDone, Ready, Typed, StateTyped
<1>3. Cardinality(Ready') = Cardinality(Ready) - 1
  BY <1>1, <1>2, ReadyFinite, EntryCounts, Zenon
<1>4. swappedout \in Int /\ swappedout' = swappedout - 1
  BY Zenon DEF SwapInDone, TypeOK, GlobalType
<1>5. -1 \in Int /\ swappedout' = swappedout + (-1) /\ Cardinality(Ready') = Cardinality(Ready) + (-1)
  BY <1>3, <1>4, ReadyFinite, SMT, SMTT(30)
<1> QED
  BY <1>5, CountedFollows, Zenon

LEMMA CalmCounts ==
  ASSUME NCPU = 1, TypeOK, ImageInv, NEW c \in CPU, NEW p \in Slot, Calms(c, p)
  PROVE  Follows
<1>0. Founders
  BY Zenon DEF ImageInv
<1>1. ASSUME Tick \/ Wakeup2(c, p) \/ IunlockWakeup(c, p) PROVE Follows
  <2>1. ASSUME NEW chs, state' = WokenState(chs), Wakeup1(chs) PROVE Follows
    BY <1>0, <2>1, Counting, Zenon
  <2>2. CASE Tick
    BY <2>1, <2>2, Zenon DEF Tick
  <2>3. CASE Wakeup2(c, p)
    BY <2>1, <2>3, Zenon DEF Wakeup2
  <2>4. CASE IunlockWakeup(c, p)
    BY <2>1, <2>4, Zenon DEF IunlockWakeup
  <2> QED
    BY <1>1, <2>2, <2>3, <2>4, Zenon
<1>2. ASSUME UNCHANGED <<table, globals>> PROVE Follows
  BY <1>2, NotCounting, Zenon DEF table, globals
<1>3. ASSUME ScanEnd(c) \/ WaitGivesUp(c, p) \/ \E root \in BOOLEAN : Chdir(c, p, root)
      PROVE  Follows
  BY <1>2, <1>3, Zenon DEF ScanEnd, WaitGivesUp, Chdir
<1> QED
  BY <1>1, <1>2, <1>3, UserMove, KernelMove, SwapInMove, KillCounts, Zenon DEF Calms

LEMMA OthersCount ==
  ASSUME NCPU = 1, TypeOK, ImageInv, NEW c \in CPU, NEW p \in Slot, StepOf(c, p),
         ~Calms(c, p), ~Exit(c, p), ~SwapInDone(c)
  PROVE  Follows
<1>t. Typed /\ inswapper \in Slot
  BY Types, Addresses, Zenon
<1>f. state[inswapper] # "RUNNABLE_SUSPENDED"
  BY Zenon DEF ImageInv, Founders
<1>1. ASSUME NEW q \in Slot, NEW st, state' = [state EXCEPT ![q] = st], state[q] # "RUNNABLE_SUSPENDED",
             st # "RUNNABLE_SUSPENDED", UNCHANGED swappedout
      PROVE  Follows
  BY <1>t, <1>1, NotCounting, Zenon DEF Typed, StateTyped
<1>2. ASSUME UNCHANGED <<state, swappedout>> PROVE Follows
  BY <1>2, NotCounting, Zenon
<1>3. ASSUME Dozes(c, p) PROVE Follows
  <2>1. state[p] # "RUNNABLE_SUSPENDED"
    BY <1>t, <1>3, <1>f, TheCpu, Zenon
       DEF Dozes, ImageInv, CurrentRuns, SwapsAlone, Typed, StateTyped, FlagsTyped
  <2> QED
    BY <1>1, <1>3, <2>1, Zenon DEF Dozes, Sleep, globals
<1>4. ASSUME Dispatch(c, p) \/ Yield(c, p) PROVE Follows
  BY <1>1, <1>4, Zenon DEF Dispatch, Yield, globals
<1>5. ASSUME NEW q \in Slot, ForkAlloc(c, p, q) \/ WaitReap(c, p, q) PROVE Follows
  BY <1>1, <1>5, Zenon DEF ForkAlloc, WaitReap, globals
<1>6. ASSUME ForkFail(c, p) \/ ForkDone(c, p) PROVE Follows
  <2>1. loc[p] \in Slot /\ state[loc[p]] = "EMBRYO"
    BY <1>6, Zenon DEF ForkFail, ForkDone, At, ImageInv, ForksApart
  <2>2. CASE ForkFail(c, p)
    BY <1>1, <2>1, <2>2, Zenon DEF ForkFail, globals
  <2>3. CASE ForkDone(c, p)
    BY <1>1, <2>1, <2>3, Zenon DEF ForkDone, globals
  <2> QED
    BY <1>6, <2>2, <2>3, Zenon
<1>7. ASSUME \/ \E on \in BOOLEAN : SetSwapping(c, p, on)
             \/ SwapOutCreate(c, p) \/ SwapOutSave(c, p) \/ SwapOutFail(c, p)
             \/ SwapInLoad(c) \/ SwapInUnlink(c)
      PROVE  Follows
  BY <1>2, <1>7, Zenon DEF SetSwapping, SwapOutCreate, SwapOutSave, SwapOutFail, SwapInLoad, SwapInUnlink,
                    table, globals
<1>8. ASSUME SwapOutEnd(c, p) PROVE Follows
  <2>1. swappingOut[p]
    BY <1>8, Zenon DEF SwapOutEnd, At, ImageInv, StacksOK, SwapsAlone, JobsAt
  <2>2. state[p] = "SLEEPING" /\ p # inswapper
    BY <2>1, Swapper, Zenon DEF ImageInv, SwapsAlone
  <2>3. CASE wokenUp[p]
    <3>1. \A q \in Slot : state'[q] = "RUNNABLE_SUSPENDED" <=> q \in Ready \cup {p}
      BY <1>t, <1>f, <1>8, <2>2, <2>3, Zenon DEF SwapOutEnd, Ready, Typed, StateTyped, OriginTyped, PlaceTyped
    <3>2. p \notin Ready /\ Ready' = Ready \cup {p}
      BY <2>2, <3>1, Zenon DEF Ready
    <3>3. UncountedWakeup(p)
      BY <1>8, <2>3, <3>2, Zenon DEF UncountedWakeup, SwapOutEnd, At, globals
    <3> QED
      BY <3>3, Zenon DEF Follows
  <2>4. CASE ~wokenUp[p]
    BY <1>1, <1>8, <2>2, <2>4, Zenon DEF SwapOutEnd, globals
  <2> QED
    BY <2>3, <2>4, Zenon
<1>9. ASSUME SwapInRestart(c) PROVE Follows
  BY <1>1, <1>2, <1>t, <1>f, <1>9, Zenon DEF SwapInRestart, globals
<1> QED
  BY <1>3, <1>4, <1>5, <1>6, <1>7, <1>8, <1>9, Zenon DEF StepOf

LEMMA CountStep ==
  ASSUME NCPU = 1, TypeOK, ImageInv, Next
  PROVE  Follows
<1>1. PICK c \in CPU, p \in Slot : StepOf(c, p)
  BY Steps, Zenon
<1>2. CASE Exit(c, p)
  <2>1. state[p] = "RUNNING"
    BY <1>2, InUser, Zenon DEF Exit
  <2>2. \A q \in Slot : state'[q] = WokenState(ExitWakes(p))[q] \/ (state[q] = "RUNNING" /\ state'[q] = "ZOMBIE")
    <3>1. state' = [WokenState(ExitWakes(p)) EXCEPT ![p] = "ZOMBIE"]
      BY <1>2, Zenon DEF Exit
    <3> QED
      BY <2>1, <3>1, Zenon DEF WokenState
  <2>3. Wakeup1(ExitWakes(p)) /\ Founders
    BY <1>2, Zenon DEF Exit, ImageInv
  <2> QED
    BY <2>2, <2>3, Counting, Zenon
<1> QED
  BY <1>1, <1>2, CalmCounts, LoadedCounts, OthersCount, Zenon

\* On one CPU the counter changes by exactly as much as the number of processes
\* in RUNNABLE_SUSPENDED in every step of wakeup1(), kill(), exit(), swapIn() and
\* all others; only sleep(), at the end of a swapOut() during which the process
\* was woken up, adds one to them and none to the counter.
THEOREM SwappedoutFollowsHolds ==
  ASSUME NCPU = 1
  PROVE  Spec => SwappedoutFollows
<1>1. TypeOK /\ ImageInv /\ [Next]_vars => [Follows]_vars
  BY CountStep, Zenon
<1>2. Spec => [][Follows]_vars
  BY <1>1, TypeCorrect, ImageInvariance, PTL DEF Spec
<1> QED
  BY <1>2 DEF SwappedoutFollows, Follows

\* On one CPU the counter never exceeds the number of processes to be swapped
\* in, so swapIn() does not rescan the table for ever: every step keeps the
\* distance, or makes the counter smaller still.
THEOREM SwappedoutBoundHolds ==
  ASSUME NCPU = 1
  PROVE  Spec => []SwappedoutBound
<1>1. Init => SwappedoutBound
  <2>1. Init => swappedout = 0
    BY Zenon DEF Init
  <2> QED
    BY <2>1, ReadyFinite, SMT, SMTT(30) DEF SwappedoutBound
<1>2. TypeOK /\ TypeOK' /\ ImageInv /\ SwappedoutBound /\ [Next]_vars => SwappedoutBound'
  <2> SUFFICES ASSUME TypeOK, TypeOK', ImageInv, SwappedoutBound, [Next]_vars PROVE SwappedoutBound'
    OBVIOUS
  <2>1. swappedout \in Int /\ swappedout' \in Int /\ swappedout <= Cardinality(Ready)
    BY Zenon DEF TypeOK, GlobalType, SwappedoutBound
  <2>2. CASE UNCHANGED vars
    BY <2>1, <2>2, Zenon DEF SwappedoutBound, Ready, vars, table, globals
  <2>3. CASE CountedStep
    <3>1. swappedout' <= Cardinality(Ready')
      BY <2>1, <2>3, ReadyFinite, SMT, SMTT(30) DEF CountedStep
    <3> QED
      BY <3>1, Zenon DEF SwappedoutBound
  <2>4. ASSUME NEW p \in Slot, UncountedWakeup(p) PROVE SwappedoutBound'
    <3>1. Cardinality(Ready') = Cardinality(Ready) + 1 /\ swappedout' = swappedout
      BY <2>4, ReadyFinite, EntryCounts, Zenon DEF UncountedWakeup
    <3>2. swappedout' <= Cardinality(Ready')
      BY <2>1, <3>1, ReadyFinite, SMT, SMTT(30)
    <3> QED
      BY <3>2, Zenon DEF SwappedoutBound
  <2> QED
    BY <2>2, <2>3, <2>4, CountStep, Zenon DEF Follows
<1> QED
  BY <1>1, <1>2, TypeCorrect, ImageInvariance, PTL DEF Spec

=============================================================================
