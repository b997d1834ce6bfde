------------------------------- MODULE Proc -------------------------------
(***************************************************************************)
(* The process table of the kernel (proc.c): allocation, fork, exit, wait, *)
(* kill, the per-CPU scheduler, sleep and wakeup, and the swapping that    *)
(* sleep() and the kernel process "inswapper" do when swapFlag is set.     *)
(*                                                                         *)
(* A CPU executes the scheduler or the kernel code of one process.  A step *)
(* is a stretch of code that no other CPU and no interrupt can see inside: *)
(* a critical section of a spinlock, or one access outside any.  The       *)
(* spinlocks that stay held from one step to the next (ptable.lock,        *)
(* icache.lock, tickslock) are modelled with the CPU that holds them.      *)
(*                                                                         *)
(* Processes, channels and lock holders are addresses: 0 is the null       *)
(* pointer, 1..NPROC the entries of ptable.proc.                           *)
(***************************************************************************)
EXTENDS Integers, FiniteSets

CONSTANTS
  NPROC,     \* entries of ptable.proc
  NCPU,      \* CPUs
  NINODE,    \* inodes; the first is the root directory
  MaySwap,   \* whether programs may call enableSwapping()
  MayFail,   \* whether memory, file-table and disk space may run out
  Calls,     \* the system calls the programs make
  Started,   \* the processes, beyond init and inswapper, that already run
  Killable,  \* the pids programs pass to kill()
  MaxPid,    \* bound on nextpid
  MaxDrift   \* bound on how far swappedout falls below zero

ASSUME NPROCAssumption == NPROC \in Nat /\ NPROC >= 2
ASSUME NCPUAssumption == NCPU \in Nat /\ NCPU >= 1
ASSUME NINODEAssumption == NINODE \in Nat /\ NINODE >= 1
ASSUME MaySwapAssumption == MaySwap \in BOOLEAN
ASSUME MayFailAssumption == MayFail \in BOOLEAN
ASSUME StartedAssumption == Started \subseteq 3..NPROC
ASSUME MaxDriftAssumption == MaxDrift \in Nat
ASSUME KillableAssumption == Killable \subseteq Nat \ {1}

NULL == 0
Slot == 1..NPROC
CPU == 1..NCPU
Inode == 1..NINODE
RootDir == 1
initproc == 1
inswapper == 2

\* Addresses used as sleep channels besides those of processes.
SwapFlagChan == NPROC + 1
TicksChan == NPROC + 2
InodeChan(i) == NPROC + 2 + i

\* Spinlocks held across steps.
Lock == {"ptable", "icache", "ticks"}

ProcState == {"UNUSED", "EMBRYO", "SLEEPING", "RUNNABLE", "RUNNING", "ZOMBIE",
              "SLEEPING_SUSPENDED", "RUNNABLE_SUSPENDED"}

\* The work a process is doing in the kernel, and where it is in that work.
Job == {"none", "fork", "wait", "sleep", "sleep2", "write", "read",
        "create", "save", "open", "unlink"}
Pc == {"user", "forking", "waiting", "sleeping", "sleepcheck", "sleep2",
       "sleep2ret", "begin", "ilock", "icheck", "held", "iwake", "commit",
       "save", "swapped", "scan", "load", "loaded"}

VARIABLES
  state, pid, parent, chan, killed, swappingOut, wokenUp,  \* struct proc
  nextpid, swapFlag, swappedout,                           \* globals of proc.c
  lock,                    \* lock[l]: the CPU that holds spinlock l, or NULL
  cur, scan,               \* per CPU: proc, and p of the loop in scheduler()
  pc, job, outer, loc,     \* per process: its kernel stack
  logOwner, inodeOwner,    \* who set log.busy, who set I_BUSY on each inode
  resident, swapFile,      \* where the user memory of a process is
  inRoot,                  \* whether its current directory is the root
  panicked                 \* the message of panic(), once called

table == <<state, pid, parent, chan, killed, swappingOut, wokenUp>>
globals == <<nextpid, swapFlag, swappedout>>
cpus == <<lock, cur, scan>>
stacks == <<pc, job, outer, loc>>
files == <<logOwner, inodeOwner>>
memory == <<resident, swapFile, inRoot>>
vars == <<table, globals, cpus, stacks, files, memory, panicked>>

TableType ==
  /\ state \in [Slot -> ProcState]
  /\ pid \in [Slot -> Nat]
  /\ parent \in [Slot -> Slot \cup {NULL}]
  /\ chan \in [Slot -> Nat]
  /\ killed \in [Slot -> BOOLEAN]
  /\ swappingOut \in [Slot -> BOOLEAN]
  /\ wokenUp \in [Slot -> BOOLEAN]
GlobalType ==
  /\ nextpid \in Nat
  /\ swapFlag \in BOOLEAN
  /\ swappedout \in Int
CpuType ==
  /\ lock \in [Lock -> CPU \cup {NULL}]
  /\ cur \in [CPU -> Slot \cup {NULL}]
  /\ scan \in [CPU -> 1..(NPROC + 1)]
StackType ==
  /\ pc \in [Slot -> Pc]
  /\ job \in [Slot -> Job]
  /\ outer \in [Slot -> Job]
  /\ loc \in [Slot -> Nat]
FileType ==
  /\ logOwner \in Slot \cup {NULL}
  /\ inodeOwner \in [Inode -> Slot \cup {NULL}]
  /\ resident \in [Slot -> BOOLEAN]
  /\ swapFile \in [Slot -> {"none", "partial", "full"}]
  /\ inRoot \in [Slot -> BOOLEAN]
  /\ panicked \in {"no", "remap", "sched ptable.lock"}

\* Every field of the table, the CPUs, the kernel stacks and the file system
\* holds a value of its type.
TypeOK == TableType /\ GlobalType /\ CpuType /\ StackType /\ FileType

-----------------------------------------------------------------------------
(* Boot.  userinit() and createInternalProcess() make init and inswapper;  *)
(* with Started = {} this is the state in which the CPUs enter             *)
(* scheduler().  A non-empty Started is a later state, after earlier       *)
(* children of init came and went.                                         *)

Init ==
  /\ state = [s \in Slot |-> IF s \in {initproc, inswapper} \cup Started
                             THEN "RUNNABLE" ELSE "UNUSED"]
  /\ pid = [s \in Slot |-> IF s \in {initproc, inswapper} THEN s
                           ELSE IF s \in Started THEN s + 1 ELSE 0]
  /\ parent = [s \in Slot |-> IF s \in {inswapper} \cup Started
                              THEN initproc ELSE NULL]
  /\ chan = [s \in Slot |-> NULL]
  /\ killed = [s \in Slot |-> FALSE]
  /\ swappingOut = [s \in Slot |-> FALSE]
  /\ wokenUp = [s \in Slot |-> FALSE]
  /\ nextpid = IF Started = {} THEN 3 ELSE NPROC + 2
  /\ swapFlag = FALSE
  /\ swappedout = 0
  /\ lock = [l \in Lock |-> NULL]
  /\ cur = [c \in CPU |-> NULL]
  /\ scan = [c \in CPU |-> 1]
  /\ pc = [s \in Slot |-> IF s = inswapper THEN "scan" ELSE "user"]
  /\ job = [s \in Slot |-> "none"]
  /\ outer = [s \in Slot |-> "none"]
  /\ loc = [s \in Slot |-> IF s = inswapper THEN 1 ELSE 0]
  /\ logOwner = NULL
  /\ inodeOwner = [i \in Inode |-> NULL]
  /\ resident = [s \in Slot |-> s \in {initproc, inswapper} \cup Started]
  /\ swapFile = [s \in Slot |-> "none"]
  /\ inRoot = [s \in Slot |-> TRUE]
  /\ panicked = "no"

-----------------------------------------------------------------------------
(* Pieces shared by the operations.                                        *)

\* Process p executes kernel code at place k on CPU c.
At(c, p, k) == panicked = "no" /\ cur[c] = p /\ pc[p] = k

\* Mutant: acquire() leaves interrupts on.
InterruptsNeverOff(c) == TRUE
\* Interrupts are on: acquire() turns them off until the last release().
InterruptsOn(c) == \A l \in Lock : lock[l] # c

\* Mutant: every turn of scheduler() starts at the head of the table.
SchedFromTop(c, p) ==
  /\ cur' = [cur EXCEPT ![c] = NULL]
  /\ scan' = [scan EXCEPT ![c] = 1]
\* sched() by p: back to the loop of scheduler(), still holding ptable.lock.
Sched(c, p) ==
  /\ cur' = [cur EXCEPT ![c] = NULL]
  /\ scan' = [scan EXCEPT ![c] = p + 1]

\* Mutant: wakeup1() starts at the second entry.
AsleepButFirst(q, chs) == q > 1 /\ state[q] = "SLEEPING" /\ chan[q] \in chs
\* wakeup1() for every channel in chs.  found_suspended stays 0, so every
\* suspended sleeper is woken.
Asleep(q, chs) == state[q] = "SLEEPING" /\ chan[q] \in chs
Suspended(q, chs) == state[q] = "SLEEPING_SUSPENDED" /\ chan[q] \in chs
SuspendedOn(chs) == {q \in Slot : Suspended(q, chs)}
WokenState(chs) ==
  [q \in Slot |->
     IF q = inswapper /\ SuspendedOn(chs) # {} THEN "RUNNABLE"
     ELSE IF Asleep(q, chs) /\ ~swappingOut[q] THEN "RUNNABLE"
     ELSE IF Suspended(q, chs) THEN "RUNNABLE_SUSPENDED"
     ELSE state[q]]
\* Mutant: the suspended sleepers are readied and not counted.
Wakeup1Uncounted(chs) ==
  /\ wokenUp' = [q \in Slot |->
                   wokenUp[q] \/ (Asleep(q, chs) /\ swappingOut[q])]
  /\ swappedout' = swappedout
Wakeup1(chs) ==
  /\ wokenUp' = [q \in Slot |->
                   wokenUp[q] \/ (Asleep(q, chs) /\ swappingOut[q])]
  /\ swappedout' = swappedout + Cardinality(SuspendedOn(chs))

\* Where a process goes on when sleep() returns to the job that called it.
Resume(j) == IF j = "wait" THEN "waiting"
             ELSE IF j = "sleep" THEN "sleeping"
             ELSE IF j = "sleep2" THEN "sleep2ret"
             ELSE "ilock"

\* sleep(ch, lk), called by p holding lk.  With swapping on, a process other
\* than the first three goes on to swapOut() with ptable.lock released.
Sleep(c, p, ch, lk) ==
  /\ lk = "ptable" \/ lock["ptable"] = NULL
  /\ chan' = [chan EXCEPT ![p] = ch]
  /\ state' = [state EXCEPT ![p] = "SLEEPING"]
  /\ IF swapFlag /\ pid[p] > 3
     THEN /\ wokenUp' = [wokenUp EXCEPT ![p] = FALSE]
          /\ swappingOut' = [swappingOut EXCEPT ![p] = TRUE]
          /\ lock' = [lock EXCEPT ![lk] = NULL]
          /\ pc' = [pc EXCEPT ![p] = "begin"]
          /\ outer' = [outer EXCEPT ![p] = IF job[p] = "create" THEN @ ELSE job[p]]
          /\ job' = [job EXCEPT ![p] = "create"]
          /\ UNCHANGED <<cur, scan>>
     ELSE /\ lock' = [lock EXCEPT ![lk] = NULL, !["ptable"] = c]
          /\ pc' = [pc EXCEPT ![p] = Resume(job[p])]
          /\ Sched(c, p)
          /\ UNCHANGED <<wokenUp, swappingOut, outer, job>>
  /\ UNCHANGED <<pid, parent, killed, globals, loc, files, memory, panicked>>

\* A system call made by p in user mode.  trap() sends a killed process to
\* exit() instead; init only forks and waits (init.c).
Call(c, p, call) ==
  /\ At(c, p, "user")
  /\ ~killed[p]
  /\ swappedout > -MaxDrift
  /\ call \in Calls
  /\ p = initproc => call \in {"fork", "wait"}

\* A system call returns to user mode.
Return(p) ==
  /\ pc' = [pc EXCEPT ![p] = "user"]
  /\ job' = [job EXCEPT ![p] = "none"]
  /\ loc' = [loc EXCEPT ![p] = 0]
  /\ UNCHANGED outer

-----------------------------------------------------------------------------
(* scheduler(), yield() and the timer interrupt.                           *)

\* Mutant: scheduler() also takes a process that another CPU runs.
DispatchRunning(c, p) ==
  /\ panicked = "no"
  /\ cur[c] = NULL
  /\ lock["ptable"] \in {NULL, c}
  /\ state[p] \in {"RUNNABLE", "RUNNING"} /\ p >= scan[c]
  /\ state' = [state EXCEPT ![p] = "RUNNING"]
  /\ chan' = [chan EXCEPT ![p] = NULL]
  /\ cur' = [cur EXCEPT ![c] = p]
  /\ scan' = [scan EXCEPT ![c] = 1]
  /\ lock' = [lock EXCEPT !["ptable"] =
                IF pc[p] \in {"waiting", "scan"} THEN c ELSE NULL]
  /\ UNCHANGED <<pid, parent, killed, swappingOut, wokenUp, globals, stacks,
                 files, memory, panicked>>
\* The scheduler of CPU c, at entry scan[c] of the table, runs the next
\* RUNNABLE process.  That process clears chan, if it had slept, and releases
\* ptable.lock, unless it was in wait() or swapIn(), which go on holding it.
Dispatch(c, p) ==
  /\ panicked = "no"
  /\ cur[c] = NULL
  /\ lock["ptable"] \in {NULL, c}
  /\ state[p] = "RUNNABLE" /\ p >= scan[c]
  /\ \A q \in Slot : q >= scan[c] /\ q < p => state[q] # "RUNNABLE"
  /\ state' = [state EXCEPT ![p] = "RUNNING"]
  /\ chan' = [chan EXCEPT ![p] = NULL]
  /\ cur' = [cur EXCEPT ![c] = p]
  /\ scan' = [scan EXCEPT ![c] = 1]
  /\ lock' = [lock EXCEPT !["ptable"] =
                IF pc[p] \in {"waiting", "scan"} THEN c ELSE NULL]
  /\ UNCHANGED <<pid, parent, killed, swappingOut, wokenUp, globals, stacks,
                 files, memory, panicked>>

\* The scan ends: scheduler() releases ptable.lock and starts over.
ScanEnd(c) ==
  /\ panicked = "no"
  /\ cur[c] = NULL
  /\ lock["ptable"] = c
  /\ \A q \in Slot : q >= scan[c] => state[q] # "RUNNABLE"
  /\ scan' = [scan EXCEPT ![c] = 1]
  /\ lock' = [lock EXCEPT !["ptable"] = NULL]
  /\ UNCHANGED <<table, globals, cur, stacks, files, memory, panicked>>

\* Mutant: begin_trans() spins with log.lock held, so with interrupts off.
YieldNotSpinning(c, p) ==
  /\ panicked = "no"
  /\ cur[c] = p /\ state[p] = "RUNNING"
  /\ ~(killed[p] /\ pc[p] = "user") /\ pc[p] # "begin"
  /\ InterruptsOn(c) /\ lock["ptable"] = NULL
  /\ state' = [state EXCEPT ![p] = "RUNNABLE"]
  /\ lock' = [lock EXCEPT !["ptable"] = c]
  /\ Sched(c, p)
  /\ UNCHANGED <<pid, parent, chan, killed, swappingOut, wokenUp, globals,
                 stacks, files, memory, panicked>>
\* A timer interrupt makes the running process yield(), in the kernel too,
\* but only if its state is RUNNING; trap() sends a killed process in user
\* mode to exit() instead.
Yield(c, p) ==
  /\ panicked = "no"
  /\ cur[c] = p /\ state[p] = "RUNNING"
  /\ ~(killed[p] /\ pc[p] = "user")
  /\ InterruptsOn(c) /\ lock["ptable"] = NULL
  /\ state' = [state EXCEPT ![p] = "RUNNABLE"]
  /\ lock' = [lock EXCEPT !["ptable"] = c]
  /\ Sched(c, p)
  /\ UNCHANGED <<pid, parent, chan, killed, swappingOut, wokenUp, globals,
                 stacks, files, memory, panicked>>

\* A timer interrupt on the first CPU wakes the sleepers on &ticks.
Tick ==
  /\ panicked = "no"
  /\ InterruptsOn(1) /\ lock["ticks"] = NULL /\ lock["ptable"] = NULL
  /\ state' = WokenState({TicksChan})
  /\ Wakeup1({TicksChan})
  /\ UNCHANGED <<pid, parent, chan, killed, swappingOut, nextpid, swapFlag,
                 cpus, stacks, files, memory, panicked>>

-----------------------------------------------------------------------------
(* fork(), exit(), wait() and kill().                                      *)

\* allocproc() takes the first UNUSED entry and a new pid.
ForkAlloc(c, p, q) ==
  /\ Call(c, p, "fork")
  /\ lock["ptable"] = NULL
  /\ nextpid <= MaxPid
  /\ state[q] = "UNUSED" /\ \A r \in Slot : r < q => state[r] # "UNUSED"
  /\ state' = [state EXCEPT ![q] = "EMBRYO"]
  /\ pid' = [pid EXCEPT ![q] = nextpid]
  /\ nextpid' = nextpid + 1
  /\ pc' = [pc EXCEPT ![p] = "forking"]
  /\ job' = [job EXCEPT ![p] = "fork"]
  /\ loc' = [loc EXCEPT ![p] = q]
  /\ UNCHANGED <<parent, chan, killed, swappingOut, wokenUp, swapFlag,
                 swappedout, cpus, outer, files, memory, panicked>>

\* No page for the kernel stack or for the copy of the memory: the entry is
\* given back without ptable.lock, with the pid it was given.  (If fork()
\* fails in init, init exits and the kernel panics: left out.)
ForkFail(c, p) ==
  /\ At(c, p, "forking")
  /\ MayFail /\ p # initproc
  /\ state' = [state EXCEPT ![loc[p]] = "UNUSED"]
  /\ pc' = [pc EXCEPT ![p] = "user"]
  /\ job' = [job EXCEPT ![p] = "none"]
  /\ loc' = [loc EXCEPT ![p] = 0]
  /\ UNCHANGED <<pid, parent, chan, killed, swappingOut, wokenUp, globals,
                 cpus, outer, files, memory, panicked>>

\* The child becomes RUNNABLE, without ptable.lock; it starts in forkret().
ForkDone(c, p) ==
  /\ At(c, p, "forking")
  /\ state' = [state EXCEPT ![loc[p]] = "RUNNABLE"]
  /\ parent' = [parent EXCEPT ![loc[p]] = p]
  /\ resident' = [resident EXCEPT ![loc[p]] = TRUE]
  /\ inRoot' = [inRoot EXCEPT ![loc[p]] = inRoot[p]]
  /\ pc' = [pc EXCEPT ![p] = "user", ![loc[p]] = "user"]
  /\ job' = [job EXCEPT ![p] = "none", ![loc[p]] = "none"]
  /\ loc' = [loc EXCEPT ![p] = 0]
  /\ UNCHANGED <<pid, chan, killed, swappingOut, wokenUp, globals, cpus,
                 outer, files, swapFile, panicked>>

\* The children exit() passes to init.
Children(p) == {q \in Slot : parent[q] = p}
\* The channels exit() wakes: the parent, and init if it inherits a ZOMBIE.
ExitWakes(p) ==
  {parent[p]} \cup
  (IF \E q \in Children(p) : state[q] = "ZOMBIE" THEN {initproc} ELSE {})

\* exit(), called by the program or by trap() for a killed process: wake the
\* parent, give the children to init, become a ZOMBIE and call sched().
Exit(c, p) ==
  /\ At(c, p, "user")
  /\ p # initproc
  /\ killed[p] \/ "exit" \in Calls
  /\ lock["ptable"] = NULL
  /\ state' = [WokenState(ExitWakes(p)) EXCEPT ![p] = "ZOMBIE"]
  /\ Wakeup1(ExitWakes(p))
  /\ parent' = [q \in Slot |-> IF q \in Children(p) THEN initproc ELSE parent[q]]
  /\ lock' = [lock EXCEPT !["ptable"] = c]
  /\ Sched(c, p)
  /\ UNCHANGED <<pid, chan, killed, swappingOut, nextpid, swapFlag, stacks,
                 files, memory, panicked>>

\* wait() acquires ptable.lock and enters its loop.
WaitCall(c, p) ==
  /\ Call(c, p, "wait")
  /\ lock["ptable"] = NULL
  /\ lock' = [lock EXCEPT !["ptable"] = c]
  /\ pc' = [pc EXCEPT ![p] = "waiting"]
  /\ job' = [job EXCEPT ![p] = "wait"]
  /\ UNCHANGED <<table, globals, cur, scan, outer, loc, files, memory, panicked>>

\* One turn of wait() finds its first ZOMBIE child and frees it.
WaitReap(c, p, q) ==
  /\ At(c, p, "waiting")
  /\ parent[q] = p /\ state[q] = "ZOMBIE"
  /\ \A r \in Slot : r < q /\ parent[r] = p => state[r] # "ZOMBIE"
  /\ state' = [state EXCEPT ![q] = "UNUSED"]
  /\ pid' = [pid EXCEPT ![q] = 0]
  /\ parent' = [parent EXCEPT ![q] = NULL]
  /\ killed' = [killed EXCEPT ![q] = FALSE]
  /\ resident' = [resident EXCEPT ![q] = FALSE]
  /\ lock' = [lock EXCEPT !["ptable"] = NULL]
  /\ Return(p)
  /\ UNCHANGED <<chan, swappingOut, wokenUp, globals, cur, scan, files,
                 swapFile, inRoot, panicked>>

\* Mutant: wait() does not look at killed.
WaitNoneUnkillable(c, p) ==
  /\ At(c, p, "waiting")
  /\ \A r \in Slot : parent[r] = p => state[r] # "ZOMBIE"
  /\ IF \A r \in Slot : parent[r] # p
     THEN /\ lock' = [lock EXCEPT !["ptable"] = NULL]
          /\ Return(p)
          /\ UNCHANGED <<table, globals, cur, scan, files, memory, panicked>>
     ELSE Sleep(c, p, p, "ptable")
\* One turn of wait() finds none: it gives up if there is no child or the
\* caller was killed, and sleeps on the caller's own address otherwise.
WaitNone(c, p) ==
  /\ At(c, p, "waiting")
  /\ \A r \in Slot : parent[r] = p => state[r] # "ZOMBIE"
  /\ IF killed[p] \/ \A r \in Slot : parent[r] # p
     THEN /\ lock' = [lock EXCEPT !["ptable"] = NULL]
          /\ Return(p)
          /\ UNCHANGED <<table, globals, cur, scan, files, memory, panicked>>
     ELSE Sleep(c, p, p, "ptable")

\* kill(): mark the entry whose pid is n, and wake it if it sleeps.
Kill(c, p, n) ==
  /\ Call(c, p, "kill")
  /\ lock["ptable"] = NULL
  /\ \E q \in Slot :
       /\ pid[q] = n /\ \A r \in Slot : r < q => pid[r] # n
       /\ killed' = [killed EXCEPT ![q] = TRUE]
       /\ IF state[q] = "SLEEPING_SUSPENDED"
          THEN /\ swappedout' = swappedout + 1
               /\ state' = [state EXCEPT ![q] = "RUNNABLE_SUSPENDED",
                                         ![inswapper] = "RUNNABLE"]
          ELSE /\ state' = [state EXCEPT ![q] = IF @ = "SLEEPING"
                                                THEN "RUNNABLE" ELSE @]
               /\ UNCHANGED swappedout
  /\ UNCHANGED <<pid, parent, chan, swappingOut, wokenUp, nextpid, swapFlag,
                 cpus, stacks, files, memory, panicked>>

-----------------------------------------------------------------------------
(* The system calls that sleep on &swapFlag and on &ticks, and the swap    *)
(* switch.                                                                 *)

\* sys_sleep2() checks killed under tickslock ...
Sleep2Call(c, p) ==
  /\ Call(c, p, "sleep2")
  /\ lock["ticks"] = NULL
  /\ lock' = [lock EXCEPT !["ticks"] = c]
  /\ pc' = [pc EXCEPT ![p] = "sleep2"]
  /\ job' = [job EXCEPT ![p] = "sleep2"]
  /\ UNCHANGED <<table, globals, cur, scan, outer, loc, files, memory, panicked>>

\* ... and then sleeps.
Sleep2Sleep(c, p) ==
  /\ At(c, p, "sleep2")
  /\ Sleep(c, p, SwapFlagChan, "ticks")

\* sleep() reacquires tickslock, sys_sleep2() releases it and returns.
Sleep2Return(c, p) ==
  /\ At(c, p, "sleep2ret")
  /\ lock["ticks"] = NULL
  /\ Return(p)
  /\ UNCHANGED <<table, globals, cpus, files, memory, panicked>>

\* sys_wakeup2().
Wakeup2(c, p) ==
  /\ Call(c, p, "wakeup2")
  /\ lock["ptable"] = NULL
  /\ state' = WokenState({SwapFlagChan})
  /\ Wakeup1({SwapFlagChan})
  /\ UNCHANGED <<pid, parent, chan, killed, swappingOut, nextpid, swapFlag,
                 cpus, stacks, files, memory, panicked>>

\* sys_sleep(): acquire tickslock.
SleepCall(c, p) ==
  /\ Call(c, p, "sleep")
  /\ pc' = [pc EXCEPT ![p] = "sleeping"]
  /\ job' = [job EXCEPT ![p] = "sleep"]
  /\ UNCHANGED <<table, globals, cpus, outer, loc, files, memory, panicked>>

SleepAcquire(c, p) ==
  /\ At(c, p, "sleeping")
  /\ lock["ticks"] = NULL
  /\ lock' = [lock EXCEPT !["ticks"] = c]
  /\ pc' = [pc EXCEPT ![p] = "sleepcheck"]
  /\ UNCHANGED <<table, globals, cur, scan, job, outer, loc, files, memory,
                 panicked>>

\* Enough ticks have passed, or the process was killed: return.
SleepReturn(c, p) ==
  /\ At(c, p, "sleepcheck")
  /\ lock' = [lock EXCEPT !["ticks"] = NULL]
  /\ Return(p)
  /\ UNCHANGED <<table, globals, cur, scan, files, memory, panicked>>

\* Not enough ticks have passed: sleep until the next one.
SleepMore(c, p) ==
  /\ At(c, p, "sleepcheck")
  /\ ~killed[p]
  /\ swappedout > -MaxDrift
  /\ Sleep(c, p, TicksChan, "ticks")

\* sys_enableSwapping() and sys_disableSwapping().
SetSwapping(c, p, on) ==
  /\ Call(c, p, IF on THEN "enableSwapping" ELSE "disableSwapping")
  /\ MaySwap
  /\ swapFlag' = on
  /\ UNCHANGED <<table, nextpid, swappedout, cpus, stacks, files, memory,
                 panicked>>

\* sys_chdir(): a swap file is created in the current directory.
Chdir(c, p, root) ==
  /\ Call(c, p, "chdir")
  /\ inRoot' = [inRoot EXCEPT ![p] = root]
  /\ UNCHANGED <<table, globals, cpus, stacks, files, resident, swapFile,
                 panicked>>

-----------------------------------------------------------------------------
(* The file system, as far as processes wait for each other in it: the     *)
(* log, taken by begin_trans() which spins, and the locks of inodes, taken *)
(* by ilock() which sleeps.                                                *)

\* The inode a file system call locks: the one its argument names, or the
\* root directory, where the swap files are created, opened and unlinked.
Target(p) == IF job[p] \in {"read", "write"} THEN loc[p] ELSE RootDir

\* A system call that changes the file system ("write") runs in a
\* transaction; one that only looks up or reads ("read") does not.
FileCall(c, p, call, i) ==
  /\ Call(c, p, call)
  /\ pc' = [pc EXCEPT ![p] = IF call = "write" THEN "begin" ELSE "ilock"]
  /\ job' = [job EXCEPT ![p] = call]
  /\ loc' = [loc EXCEPT ![p] = i]
  /\ UNCHANGED <<table, globals, cpus, outer, files, memory, panicked>>

\* begin_trans() spins until log.busy is clear, and sets it.
BeginTrans(c, p) ==
  /\ At(c, p, "begin")
  /\ logOwner = NULL
  /\ logOwner' = p
  /\ pc' = [pc EXCEPT ![p] = IF job[p] = "save" THEN "save" ELSE "ilock"]
  /\ UNCHANGED <<table, globals, cpus, job, outer, loc, inodeOwner, memory,
                 panicked>>

\* ilock() acquires icache.lock ...
IlockAcquire(c, p) ==
  /\ At(c, p, "ilock")
  /\ lock["icache"] = NULL
  /\ lock' = [lock EXCEPT !["icache"] = c]
  /\ pc' = [pc EXCEPT ![p] = "icheck"]
  /\ UNCHANGED <<table, globals, cur, scan, job, outer, loc, files, memory,
                 panicked>>

\* ... takes the inode if I_BUSY is clear ...
IlockTake(c, p) ==
  /\ At(c, p, "icheck")
  /\ inodeOwner[Target(p)] = NULL
  /\ inodeOwner' = [inodeOwner EXCEPT ![Target(p)] = p]
  /\ lock' = [lock EXCEPT !["icache"] = NULL]
  /\ pc' = [pc EXCEPT ![p] = "held"]
  /\ UNCHANGED <<table, globals, cur, scan, job, outer, loc, logOwner, memory,
                 panicked>>

\* ... and sleeps on the inode otherwise.
IlockSleep(c, p) ==
  /\ At(c, p, "icheck")
  /\ inodeOwner[Target(p)] # NULL
  /\ Sleep(c, p, InodeChan(Target(p)), "icache")

\* The work under the inode lock, then iunlock(): clear I_BUSY under
\* icache.lock ...
Iunlock(c, p) ==
  /\ At(c, p, "held")
  /\ lock["icache"] = NULL
  /\ inodeOwner' = [inodeOwner EXCEPT ![Target(p)] = NULL]
  /\ lock' = [lock EXCEPT !["icache"] = c]
  /\ pc' = [pc EXCEPT ![p] = "iwake"]
  /\ UNCHANGED <<table, globals, cur, scan, job, outer, loc, logOwner, memory,
                 panicked>>

\* Mutant: wakeup(ip) passes over suspended sleepers.
IunlockWakeupForgets(c, p) ==
  /\ At(c, p, "iwake")
  /\ lock["ptable"] = NULL
  /\ state' = [q \in Slot |-> IF Asleep(q, {InodeChan(Target(p))}) /\ ~swappingOut[q]
                             THEN "RUNNABLE" ELSE state[q]]
  /\ lock' = [lock EXCEPT !["icache"] = NULL]
  /\ IF job[p] = "read"
     THEN Return(p)
     ELSE /\ pc' = [pc EXCEPT ![p] = IF job[p] = "open" THEN "load" ELSE "commit"]
          /\ UNCHANGED <<job, outer, loc>>
  /\ UNCHANGED <<pid, parent, chan, killed, wokenUp, swappingOut, swappedout,
                 nextpid, swapFlag, cur, scan, files, memory, panicked>>
\* ... and wakeup(ip), still under icache.lock.
IunlockWakeup(c, p) ==
  /\ At(c, p, "iwake")
  /\ lock["ptable"] = NULL
  /\ state' = WokenState({InodeChan(Target(p))})
  /\ Wakeup1({InodeChan(Target(p))})
  /\ lock' = [lock EXCEPT !["icache"] = NULL]
  /\ IF job[p] = "read"
     THEN Return(p)
     ELSE /\ pc' = [pc EXCEPT ![p] = IF job[p] = "open" THEN "load" ELSE "commit"]
          /\ UNCHANGED <<job, outer, loc>>
  /\ UNCHANGED <<pid, parent, chan, killed, swappingOut, nextpid, swapFlag,
                 cur, scan, files, memory, panicked>>

\* commit_trans() at the end of a file system call.
CommitTrans(c, p) ==
  /\ At(c, p, "commit") /\ job[p] = "write"
  /\ logOwner' = NULL
  /\ Return(p)
  /\ UNCHANGED <<table, globals, cpus, inodeOwner, memory, panicked>>

-----------------------------------------------------------------------------
(* swapOut(), called in sleep() with the state already SLEEPING.           *)

\* fileopen(O_CREATE) ends its transaction; the swap file exists.  Without
\* an entry of the file table it still fails, and swapOut() returns.
SwapOutCreate(c, p) ==
  /\ At(c, p, "commit") /\ job[p] = "create"
  /\ logOwner' = NULL
  /\ swapFile' = [swapFile EXCEPT ![p] = "partial"]
  /\ \/ /\ pc' = [pc EXCEPT ![p] = "begin"]
        /\ job' = [job EXCEPT ![p] = "save"]
     \/ /\ MayFail
        /\ pc' = [pc EXCEPT ![p] = "swapped"]
        /\ UNCHANGED job
  /\ UNCHANGED <<table, globals, cpus, outer, loc, inodeOwner, resident,
                 inRoot, panicked>>

\* Mutant: swapOut() does not free the pages.
SwapOutSaveKeeps(c, p) ==
  /\ At(c, p, "save")
  /\ swapFile' = [swapFile EXCEPT ![p] = "full"]
  /\ logOwner' = NULL
  /\ pc' = [pc EXCEPT ![p] = "swapped"]
  /\ UNCHANGED <<table, globals, cpus, job, outer, loc, inodeOwner, resident,
                 inRoot, panicked>>
\* The pages are written to the swap file and freed, ...
SwapOutSave(c, p) ==
  /\ At(c, p, "save")
  /\ swapFile' = [swapFile EXCEPT ![p] = "full"]
  /\ resident' = [resident EXCEPT ![p] = FALSE]
  /\ logOwner' = NULL
  /\ pc' = [pc EXCEPT ![p] = "swapped"]
  /\ UNCHANGED <<table, globals, cpus, job, outer, loc, inodeOwner, inRoot,
                 panicked>>

\* ... or filewrite() fails (the memory is larger than the largest file) and
\* swapOut() returns early.
SwapOutFail(c, p) ==
  /\ At(c, p, "save")
  /\ MayFail
  /\ logOwner' = NULL
  /\ pc' = [pc EXCEPT ![p] = "swapped"]
  /\ UNCHANGED <<table, globals, cpus, job, outer, loc, inodeOwner, memory,
                 panicked>>

\* Mutant: a process woken during swapOut() is made RUNNABLE.
SwapOutEndRunnable(c, p) ==
  /\ At(c, p, "swapped")
  /\ lock["ptable"] = NULL
  /\ swappingOut' = [swappingOut EXCEPT ![p] = FALSE]
  /\ wokenUp' = [wokenUp EXCEPT ![p] = FALSE]
  /\ state' = [state EXCEPT ![p] = IF wokenUp[p] THEN "RUNNABLE"
                                   ELSE "SLEEPING_SUSPENDED"]
  /\ lock' = [lock EXCEPT !["ptable"] = c]
  /\ Sched(c, p)
  /\ pc' = [pc EXCEPT ![p] = Resume(outer[p])]
  /\ job' = [job EXCEPT ![p] = outer[p]]
  /\ outer' = [outer EXCEPT ![p] = "none"]
  /\ UNCHANGED <<pid, parent, chan, killed, globals, loc, files, memory, panicked>>
\* sleep() goes on after swapOut(): the process is suspended, or, if it was
\* woken up meanwhile, to be swapped in; then sched().
SwapOutEnd(c, p) ==
  /\ At(c, p, "swapped")
  /\ lock["ptable"] = NULL
  /\ swappingOut' = [swappingOut EXCEPT ![p] = FALSE]
  /\ wokenUp' = [wokenUp EXCEPT ![p] = FALSE]
  /\ state' = IF wokenUp[p]
              THEN [state EXCEPT ![p] = "RUNNABLE_SUSPENDED",
                                 ![inswapper] = "RUNNABLE"]
              ELSE [state EXCEPT ![p] = "SLEEPING_SUSPENDED"]
  /\ lock' = [lock EXCEPT !["ptable"] = c]
  /\ Sched(c, p)
  /\ pc' = [pc EXCEPT ![p] = Resume(outer[p])]
  /\ job' = [job EXCEPT ![p] = outer[p]]
  /\ outer' = [outer EXCEPT ![p] = "none"]
  /\ UNCHANGED <<pid, parent, chan, killed, globals, loc, files, memory, panicked>>

-----------------------------------------------------------------------------
(* swapIn(), the loop of inswapper.  loc is its variable t.                *)

\* The next RUNNABLE_SUSPENDED process is found: ptable.lock is released, if
\* held, and its swap file looked up.
SwapInFound(c, t) ==
  /\ At(c, inswapper, "scan")
  /\ state[t] = "RUNNABLE_SUSPENDED" /\ t >= loc[inswapper]
  /\ \A q \in Slot : q >= loc[inswapper] /\ q < t => state[q] # "RUNNABLE_SUSPENDED"
  /\ lock' = [lock EXCEPT !["ptable"] = IF @ = c THEN NULL ELSE @]
  /\ loc' = [loc EXCEPT ![inswapper] = t]
  /\ pc' = [pc EXCEPT ![inswapper] = "ilock"]
  /\ job' = [job EXCEPT ![inswapper] = "open"]
  /\ UNCHANGED <<table, globals, cur, scan, outer, files, memory, panicked>>

\* The loop over the table has ended, or was left by a break: start over if
\* the counter says so, sleep otherwise.  sched() panics unless ptable.lock
\* is held.
SwapInRestart(c) ==
  /\ loc' = [loc EXCEPT ![inswapper] = 1]
  /\ pc' = [pc EXCEPT ![inswapper] = "scan"]
  /\ job' = [job EXCEPT ![inswapper] = "none"]
  /\ UNCHANGED outer
  /\ IF swappedout > 0
     THEN UNCHANGED <<state, chan, cur, scan, panicked>>
     ELSE /\ chan' = [chan EXCEPT ![inswapper] = inswapper]
          /\ state' = [state EXCEPT ![inswapper] = "SLEEPING"]
          /\ IF lock["ptable"] = c
             THEN Sched(c, inswapper) /\ UNCHANGED panicked
             ELSE panicked' = "sched ptable.lock" /\ UNCHANGED <<cur, scan>>
  /\ UNCHANGED <<pid, parent, killed, swappingOut, wokenUp, globals, lock, files,
                 memory>>

SwapInScanned(c) ==
  /\ At(c, inswapper, "scan")
  /\ \A q \in Slot : q >= loc[inswapper] => state[q] # "RUNNABLE_SUSPENDED"
  /\ SwapInRestart(c)

\* The swap file is not found, because it was created in another directory
\* or not at all, or there is no memory: break.
SwapInBreak(c) ==
  LET t == loc[inswapper] IN
  /\ At(c, inswapper, "load")
  /\ swapFile[t] = "none" \/ ~inRoot[t] \/ MayFail
  /\ SwapInRestart(c)

\* allocuvm() and loaduvm() bring the memory back.  mappages() panics if the
\* pages are still there.
SwapInLoad(c) ==
  LET t == loc[inswapper] IN
  /\ At(c, inswapper, "load")
  /\ swapFile[t] # "none" /\ inRoot[t]
  /\ IF resident[t]
     THEN panicked' = "remap" /\ UNCHANGED <<resident, pc, job>>
     ELSE /\ resident' = [resident EXCEPT ![t] = TRUE]
          /\ pc' = [pc EXCEPT ![inswapper] = "begin"]
          /\ job' = [job EXCEPT ![inswapper] = "unlink"]
          /\ UNCHANGED panicked
  /\ UNCHANGED <<table, globals, cpus, outer, loc, files, swapFile, inRoot>>

\* unlink() of the swap file ends its transaction.
SwapInUnlink(c) ==
  /\ At(c, inswapper, "commit")
  /\ logOwner' = NULL
  /\ swapFile' = [swapFile EXCEPT ![loc[inswapper]] = "none"]
  /\ pc' = [pc EXCEPT ![inswapper] = "loaded"]
  /\ UNCHANGED <<table, globals, cpus, job, outer, loc, inodeOwner, resident,
                 inRoot, panicked>>

\* Under ptable.lock the process becomes RUNNABLE; the scan goes on, with
\* the lock held.
SwapInDone(c) ==
  LET t == loc[inswapper] IN
  /\ At(c, inswapper, "loaded")
  /\ lock["ptable"] = NULL
  /\ lock' = [lock EXCEPT !["ptable"] = c]
  /\ state' = [state EXCEPT ![t] = "RUNNABLE"]
  /\ swappedout' = swappedout - 1
  /\ loc' = [loc EXCEPT ![inswapper] = t + 1]
  /\ pc' = [pc EXCEPT ![inswapper] = "scan"]
  /\ job' = [job EXCEPT ![inswapper] = "none"]
  /\ UNCHANGED <<pid, parent, chan, killed, swappingOut, wokenUp, nextpid,
                 swapFlag, cur, scan, outer, files, memory, panicked>>

-----------------------------------------------------------------------------
\* A step of the kernel code p is executing.
KernelStep(c, p) ==
  \/ ForkFail(c, p) \/ ForkDone(c, p)
  \/ \E q \in Slot : WaitReap(c, p, q)
  \/ WaitNone(c, p)
  \/ Sleep2Sleep(c, p) \/ Sleep2Return(c, p)
  \/ SleepAcquire(c, p) \/ SleepReturn(c, p) \/ SleepMore(c, p)
  \/ BeginTrans(c, p) \/ IlockAcquire(c, p) \/ IlockTake(c, p) \/ IlockSleep(c, p)
  \/ Iunlock(c, p) \/ IunlockWakeup(c, p) \/ CommitTrans(c, p)
  \/ SwapOutCreate(c, p) \/ SwapOutSave(c, p) \/ SwapOutFail(c, p)
  \/ SwapOutEnd(c, p)

\* A step of swapIn().
SwapInStep(c) ==
  \/ \E t \in Slot : SwapInFound(c, t)
  \/ SwapInScanned(c) \/ SwapInBreak(c) \/ SwapInLoad(c)
  \/ SwapInUnlink(c) \/ SwapInDone(c)

\* A system call made by the program of p.
UserStep(c, p) ==
  \/ \E q \in Slot : ForkAlloc(c, p, q)
  \/ Exit(c, p)
  \/ WaitCall(c, p)
  \/ \E n \in Killable : Kill(c, p, n)
  \/ Sleep2Call(c, p) \/ Wakeup2(c, p) \/ SleepCall(c, p)
  \/ \E on \in BOOLEAN : SetSwapping(c, p, on)
  \/ \E root \in BOOLEAN : Chdir(c, p, root)
  \/ \E call \in {"write", "read"}, i \in Inode : FileCall(c, p, call, i)

Next ==
  \/ \E c \in CPU : ScanEnd(c) \/ SwapInStep(c)
  \/ \E c \in CPU, p \in Slot :
       Dispatch(c, p) \/ Yield(c, p) \/ KernelStep(c, p) \/ UserStep(c, p)
  \/ Tick

Spec == Init /\ [][Next]_vars

\* A CPU keeps executing, and a time slice is long enough for the process it
\* is given to to get on, in the kernel or, for init, to its next wait().  The
\* timer interrupt of a CPU stays pending while interrupts are off, so it is
\* taken if they are on again and again.  The next trap sends a killed process
\* to exit().
Fairness ==
  \A c \in CPU :
    /\ WF_vars(ScanEnd(c))
    /\ WF_vars(\E p \in Slot : Dispatch(c, p))
    /\ SF_vars(\E p \in Slot : Yield(c, p))
    /\ SF_vars(SwapInStep(c))
    /\ \A p \in Slot : /\ SF_vars(KernelStep(c, p))
                       /\ WF_vars(killed[p] /\ Exit(c, p))
    /\ SF_vars(WaitCall(c, initproc))

FairSpec == Spec /\ Fairness

-----------------------------------------------------------------------------
(* Safety.                                                                 *)

\* No two CPUs execute the same process, whose kernel stack they would share:
\* scheduler() runs only RUNNABLE processes and every path that makes a
\* process RUNNABLE leaves it off its CPU before ptable.lock is released.
OneCpu ==
  \A c, d \in CPU : cur[c] # NULL /\ cur[c] = cur[d] => c = d

\* A process is RUNNING exactly while a CPU executes it, so an entry that
\* wait() frees or fork() fills is never in use by a CPU.
RunningIsCurrent ==
  \A p \in Slot : state[p] = "RUNNING" <=> \E c \in CPU : cur[c] = p

\* ilock() and iunlock() miss no wakeup: while a process sleeps for an inode,
\* the inode is locked, or the process that unlocked it is about to call
\* wakeup(), or the wakeup has been noted in wokenUp.
NoMissedWakeup ==
  \A p \in Slot, i \in Inode :
    state[p] \in {"SLEEPING", "SLEEPING_SUSPENDED"} /\ chan[p] = InodeChan(i) =>
      \/ inodeOwner[i] # NULL
      \/ wokenUp[p]
      \/ \E q \in Slot : pc[q] = "iwake" /\ Target(q) = i

\* exit() and wait() miss no wakeup: a process asleep in wait() has no ZOMBIE
\* child, also when init inherited the child.
NoMissedExit ==
  \A p, q \in Slot :
    /\ state[p] \in {"SLEEPING", "SLEEPING_SUSPENDED"} /\ chan[p] = p
    /\ parent[q] = p /\ state[q] = "ZOMBIE"
    => wokenUp[p]

\* kill() does not leave a process asleep in wait(): killed is tested and the
\* sleep entered in one critical section of ptable.lock.
KilledNotWaiting ==
  \A p \in Slot \ {inswapper} :
    killed[p] /\ chan[p] = p =>
      state[p] \notin {"SLEEPING", "SLEEPING_SUSPENDED"}

\* Every process has a parent that can still wait for it: exit() hands the
\* children over before the parent can be reaped.
ParentAlive ==
  \A p \in Slot \ {initproc} :
    state[p] \notin {"UNUSED", "EMBRYO"} =>
      /\ parent[p] # NULL
      /\ state[parent[p]] \notin {"UNUSED", "EMBRYO", "ZOMBIE"}

\* Two entries in use never have the same pid.
UniquePids ==
  \A p, q \in Slot :
    state[p] # "UNUSED" /\ state[q] # "UNUSED" /\ pid[p] = pid[q] => p = q

\* A process that can run outside sleep() has its memory: inswapper makes a
\* process RUNNABLE only after its pages are back, and swapOut() frees them
\* only in a process that will be suspended.
RunnableIsResident ==
  \A p \in Slot :
    state[p] \in {"RUNNABLE", "RUNNING", "SLEEPING"} /\ ~swappingOut[p] =>
      resident[p]

\* The memory of a process is in one place, also when swapOut() or swapIn()
\* gives up half way: in memory or in a complete swap file, and in both only
\* between the loading and the removal of the file by inswapper.
ImageOnce ==
  \A p \in Slot :
    state[p] \notin {"UNUSED", "EMBRYO"} =>
      \/ resident[p] # (swapFile[p] = "full")
      \/ resident[p] /\ job[inswapper] = "unlink" /\ loc[inswapper] = p

\* The processes that inswapper has to bring back.
Ready == {p \in Slot : state[p] = "RUNNABLE_SUSPENDED"}

\* The step adds to swappedout what it adds to Ready.
CountedStep == swappedout' - swappedout = Cardinality(Ready') - Cardinality(Ready)

\* The end of a swapOut() during which p was woken up.
UncountedWakeup(p) ==
  /\ pc[p] = "swapped" /\ wokenUp[p]
  /\ p \notin Ready /\ Ready' = Ready \cup {p} /\ swappedout' = swappedout

\* proc.c:26 declares swappedout as the "counter for the number of procs in
\* the RUNNABLE_SUSPENDED state".  Every path into that state and out of it, by
\* wakeup1(), kill(), exit() and swapIn(), counts exactly what it changes but
\* one: sleep() (proc.c:573) does not count a process that was woken up during
\* its swapOut().  So the counter is as many too low as there were of these.
SwappedoutFollows == [][CountedStep \/ \E p \in Slot : UncountedWakeup(p)]_vars

\* What follows for every state: the counter never exceeds the number of
\* processes to be swapped in.  If it did, swapIn() would rescan the table for
\* ever, holding ptable.lock with interrupts off.
SwappedoutBound == swappedout <= Cardinality(Ready)

-----------------------------------------------------------------------------
(* What makes the safety properties inductive when swapping is never       *)
(* enabled.                                                                *)

\* Without swapping nothing is ever suspended, inswapper does nothing but sleep,
\* and no process is its child.
NoSwapping ==
  /\ ~swapFlag /\ swappedout = 0
  /\ pc[inswapper] = "scan" /\ loc[inswapper] = 1
  /\ state[inswapper] \in {"RUNNABLE", "RUNNING", "SLEEPING"}
  /\ \A p \in Slot :
       /\ ~swappingOut[p] /\ ~wokenUp[p]
       /\ state[p] \notin {"SLEEPING_SUSPENDED", "RUNNABLE_SUSPENDED"}
       /\ job[p] \notin {"create", "save", "open", "unlink"}
       /\ pc[p] \notin {"save", "swapped", "load", "loaded"}
       /\ pc[p] = "scan" => p = inswapper
       /\ parent[p] # inswapper

\* The places at which each spinlock is held.
Held(l) == IF l = "ptable" THEN {"waiting", "scan"}
           ELSE IF l = "icache" THEN {"icheck", "iwake"}
           ELSE {"sleep2", "sleepcheck"}

\* A CPU holds a spinlock exactly where the code it executes does; the
\* scheduler holds none but ptable.lock.  A process that holds icache.lock or
\* tickslock is not taken off its CPU.
LocksHeld ==
  /\ \A c \in CPU, l \in Lock :
       cur[c] # NULL => (lock[l] = c <=> pc[cur[c]] \in Held(l))
  /\ \A c \in CPU : cur[c] = NULL => lock["icache"] # c /\ lock["ticks"] # c
  /\ \A p \in Slot :
       pc[p] \in Held("icache") \cup Held("ticks") => state[p] = "RUNNING"

\* The entry that fork() is filling is an EMBRYO that no other fork() fills.
ForksApart ==
  \A p \in Slot :
    pc[p] = "forking" =>
      /\ loc[p] \in Slot /\ state[loc[p]] = "EMBRYO"
      /\ \A q \in Slot : pc[q] = "forking" /\ loc[q] = loc[p] => q = p

\* init neither exits nor is freed, and is the root of the tree of parents.
InitAlive ==
  /\ state[initproc] \in {"RUNNABLE", "RUNNING", "SLEEPING"}
  /\ parent[initproc] = NULL
  /\ \A p \in Slot : parent[p] # p

\* Pids are handed out in increasing order.
PidsIssued == \A p \in Slot : pid[p] < nextpid

CpuInv == OneCpu /\ RunningIsCurrent /\ LocksHeld /\ ForksApart
FamilyInv == InitAlive /\ ParentAlive /\ NoMissedExit /\ KilledNotWaiting
PidInv == PidsIssued /\ UniquePids

\* The inductive invariant of a kernel that never swaps.
NoSwapInv == NoSwapping /\ CpuInv /\ FamilyInv /\ PidInv /\ NoMissedWakeup

-----------------------------------------------------------------------------
(* Liveness, under Fairness.                                               *)

\* The round of scheduler() over the table reaches every RUNNABLE process.
RunnableRuns ==
  \A p \in Slot : state[p] = "RUNNABLE" ~> state[p] # "RUNNABLE"

\* A ZOMBIE whose parent is init is reaped, also if it became a child of init
\* when its own parent exited.
OrphansReaped ==
  \A p \in Slot : state[p] = "ZOMBIE" /\ parent[p] = initproc ~> state[p] = "UNUSED"

\* A killed process exits, whatever system call it is in, unless it spins in
\* begin_trans(), where others may overtake it for ever.
KilledExits ==
  \A p \in Slot \ {inswapper} :
    killed[p] ~> state[p] \in {"ZOMBIE", "UNUSED"} \/ pc[p] = "begin"

\* A transaction ends: whoever set log.busy clears it again, although others
\* spin in begin_trans() meanwhile.
LogReleased ==
  \A p \in Slot : logOwner = p ~> logOwner # p
=============================================================================
