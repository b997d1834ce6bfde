# A TLA+ model of the kernel

The repository is xv6, a small multiprocessor Unix kernel in C, with two
additions: processes that sleep can be *swapped out* to files and brought back
by a kernel process called `inswapper`, and programs can share memory. This
directory models its concurrent parts in TLA+, checks small instances with TLC
and proves the most important properties for every instance with TLAPS.

All line numbers are in `PROJECT.json`, whose `map` gives the lines each
definition stands for.

## The system

| Part | State | Operations | What makes it hard |
|---|---|---|---|
| Process table and scheduler (`proc.c`, `trap.c`, `sysproc.c`) | `ptable`: state, pid, parent, chan, killed; `nextpid`; per CPU `proc` and the scan of `scheduler()` | `fork`, `exit`, `wait`, `kill`, `yield`, `sleep`, `wakeup`, timer | several CPUs and preemption; `fork()` writes an entry without the lock; a missed wakeup hangs a process |
| Swapping (`proc.c`) | `swapFlag`, `swappedout`, `swappingOut`, `wokenUp`, swap files | `swapOut()` inside `sleep()`, `swapIn()` by `inswapper`, `enableSwapping`, `disableSwapping` | `sleep()` releases `ptable.lock` in its middle; `swapOut()` does file work that sleeps itself; failures half way |
| Inode locks (`fs.c`) | `I_BUSY`, `icache.lock` | `ilock`, `iunlock` | sleep and wakeup around two spinlocks |
| Log (`log.c`) | header in memory and on disk, log blocks, `log.busy` | `begin_trans`, `log_write`, `commit_trans`, recovery | the machine can stop between any two disk writes, in recovery too; busy waiting |
| Buffer cache and disk (`bio.c`, `ide.c`) | buffers with `B_BUSY`, `B_VALID`, `B_DIRTY`; request queue | `bget`, `bread`, `bwrite`, `brelse`, `iderw`, `ideintr` | recycling while others sleep for a buffer; no free buffer |
| Pipes (`pipe.c`) | circular buffer, two wrapping counters, two open flags | `pipewrite`, `piperead`, `pipeclose` | readers and writers that wait for each other, close and are killed |
| File table (`file.c`, `sysfile.c`) | `ftable` reference counts, descriptors | `filealloc`, `filedup`, `fileclose`, `dup`, `open`, `pipe` | last close against concurrent use |
| Inode cache (`fs.c`) | reference counts, link counts, `I_VALID` | `iget`, `idup`, `iput`, `ialloc`, `iupdate` | freeing an unlinked inode while it is looked up; calls outside transactions |
| Directories (`fs.c`, `sysfile.c`) | entries, link counts | `create`, `link`, `unlink`, `mkdir`, path lookup | lock order; undo of `link` |
| Shared memory and pages (`kalloc.c`, `vm.c`) | free list, segments, reference counts, page tables | `shmget`, `shmat`, `shmdt`, `shmdel`, `deallocshm`, `kalloc`, `kfree`, `allocuvm`, `copyuvm`, `freevm` | who owns a page; locks not taken or not released; `swapOut()` of a process with a segment |
| Console (`console.c`) | input ring with three indexes | `consoleintr`, `consoleread` | a full ring, editing keys |
| Spinlocks (`spinlock.c`) | holder, `ncli`, `intena` | `acquire`, `release`, `pushcli`, `popcli` | nesting, interrupts |

How they interact: every blocking operation goes through `sleep()` and
`wakeup()` of the process table. With swapping on, each `sleep()` of a program
runs `swapOut()`, which creates and writes a file and so uses the file table,
the inode locks, the log, the buffer cache and the page allocator. `exit()`
closes files and detaches shared memory. The log sits between the file system
and the buffer cache.

The properties of interest, part by part: a process is on one CPU at a time, and
wakeups, exits and kills are not missed; a suspended process has its memory
saved and a runnable one has it in memory; transactions are atomic and durable;
a pipe is a FIFO queue whose users do not wait for ever; reference counts and
owners of pages, files and inodes agree with who uses them. `PROJECT.json` lists
the hazards, each with the line where it bites.

## Modules

| Module | Models | Uses |
|---|---|---|
| `Proc` | process table, scheduler, swapping, inode locks, mutual exclusion of transactions | |
| `MCProc` | the sets of system calls of each run | `Proc` |
| `ProcTable` | steps without swapping preserve the invariant of the table, the locks and the family tree | `Proc` |
| `ProcSwap` | steps with swapping on one CPU preserve where the memory is and who will be woken | `Proc` |
| `ProcSafety` | type correctness; the safety theorems with and without swapping; the counter `swappedout` | `ProcTable`, `ProcSwap` |
| `AtomicDisk` | what the log promises | |
| `Log` | `log.c` over the buffer cache, with stops | `AtomicDisk` |
| `MCLog` | instance for TLC | `Log` |
| `LogProofs` | invariant of `Log`, and that it implements `AtomicDisk` | `Log` |
| `BlockStore` | what the buffer cache promises | |
| `Bio` | `bio.c` over `ide.c` or `memide.c` | `BlockStore` |
| `MCBio` | instance for TLC | `Bio` |
| `BioProofs` | invariant of `Bio`, and that it implements `BlockStore` | `Bio` |
| `Fifo` | what a pipe promises | |
| `Pipe` | `pipe.c`, with `fileclose()` and `kill()` | `Fifo` |
| `MCPipe` | instance for TLC | `Pipe` |
| `PipeProofs` | invariant of `Pipe`: use of the page, wakeups; that it implements `Fifo` | `Pipe`, `RingLemmas` |
| `LineInput` | what console input promises | |
| `Console` | `console.c` with the inode lock and the transaction around it | `LineInput` |
| `ConsoleProofs` | invariant of `Console`: wakeups; that it implements `LineInput` | `Console`, `RingLemmas` |
| `RingLemmas` | a ring with wrapping indexes as a sequence: what appending, taking and erasing do to it | |
| `Memory` | page allocator, page tables and shared memory: `kalloc.c`, `vm.c`, the memory side of `proc.c` and `exec.c` | |
| `MCMemory` | instance for TLC, names of pages abstracted | `Memory` |
| `Fs` | file table, inode cache, blocks, directories and their system calls: `fs.c`, `file.c`, `sysfile.c`, the image of `mkfs.c` | |
| `MCFs` | instances for TLC | `Fs` |

Definitions whose comment starts with "Mutant" are wrong variants of the
definition that follows them. They are used by no specification; each shows
that a property notices the mistake (`PROJECT.json`, `mutants`).

### Proc

A CPU executes the scheduler (`cur[c] = NULL`) or the kernel code of one
process. A step is a stretch of code that no other CPU and no interrupt can see
inside: a critical section, or one access outside any. Spinlocks that stay held
from one step to the next (`ptable.lock` across `sched()`, `icache.lock`,
`tickslock`) have a holder; interrupts are off on a CPU exactly while it holds
one, and `Yield`, the preemption by the timer, is possible everywhere else, as in
`trap()`.

* `state`, `pid`, `parent`, `chan`, `killed`, `swappingOut`, `wokenUp` are the
  fields of `struct proc`. `pc`, `job`, `outer` and `loc` stand for its kernel
  stack: where it is, for which call, which call a nested `swapOut()` returns
  to, and the inode or entry it works on.
* `Dispatch`, `ScanEnd`, `Yield` are `scheduler()` and `yield()`; `Tick` is the
  timer's `wakeup(&ticks)`.
* `ForkAlloc`, `ForkFail`, `ForkDone`; `Exit`; `WaitCall`, `WaitReap`,
  `WaitNone`; `Kill` are `fork()`, `exit()`, `wait()` and `kill()`.
* `Sleep` and `Wakeup1` with `WokenState` are `sleep()` and `wakeup1()`.
* `SleepCall`..`SleepMore` are `sys_sleep()`; `Sleep2Call`..`Wakeup2` are the
  test system calls `sleep2` and `wakeup2`; `SetSwapping` is
  `enableSwapping`/`disableSwapping`.
* `FileCall`, `BeginTrans`, `IlockAcquire`, `IlockTake`, `IlockSleep`, `Iunlock`,
  `IunlockWakeup`, `CommitTrans` are a read or a write of a file: a transaction
  (for a write) around the lock of one inode.
* `SwapOutCreate`, `SwapOutSave`, `SwapOutFail`, `SwapOutEnd` are `swapOut()` and
  the second half of `sleep()`; `SwapInFound`..`SwapInDone` are `swapIn()`.

What it abstracts:

* The memory of a process is in memory (`resident`) or in a swap file that is
  absent, partial or full (`swapFile`). `swapOut()`'s file work is one
  transaction that creates the file and one that writes it (the code uses one
  per page); a lookup by name locks the root directory, inode 1.
* `exit()`'s closing of files (in `Fs`) and `deallocshm()` (in `Memory`) are left
  out, and so is the lock that `sys_chdir()` takes on the directory. `sys_sleep()` may return after any
  tick.
* init runs `init.c`: it forks and waits. It is not killed (`exit()` would
  panic), and its `fork()` does not fail.
* The rescans that `swapIn()` makes while it holds `ptable.lock` are one scan.

### Log

`disk`, `logDisk` and `head` are the home blocks, the log blocks and the header on
disk; `buf` are the buffers, `dirty` those that `log_write()` has marked dirty and
that are not recycled until commit; `lh` is the header in memory, and `tail` how
far `install_trans()` is. Log and header buffers are
written through, so they are modelled as the disk. Every sector write is one
step, and `Crash` may come between any two: it loses the memory, and `InitLog`
reads the header back and installs it again, which can be interrupted in turn.
`Panic` is the "too big a transaction" of `log_write()`, tested before
absorption, as in the code. `LogBlocks` is the size of the log area, header
included; `mkfs` makes it `LOGSIZE` blocks, one less than a full header needs.

Sector writes are taken to be atomic and in order: `iderw()` waits for each. And
`log_write()` is taken to be called only by the process whose transaction is open.
The code tests no more than `log.busy`, which is set until the end of
`commit_trans()` and does not say whose transaction it is. The calls of `iput()`
outside of a transaction (see the observations) can therefore add a block while
another process commits, which `Log` does not have.

### Pipe

One pipe, with the processes that have its write end and its read end. The lock is
held from the start of a call until it returns or sleeps; the steps in between are
single bytes, because `kill()` takes no part in that lock and may come between
any two. An end is closed by the last process that has it open, in two steps, as
in `fileclose()`: the reference is dropped under `ftable.lock`, then
`pipeclose()` is called. When both ends are closed the page is freed and
`PipeAlloc` starts over with a new pipe. `nread` and `nwrite` count modulo `Wrap`,
which stands for 2^32 and like it is a multiple of `PIPESIZE`. Whether `sleep()`
also swaps the process out makes no difference here; that is in `Proc`.

### Bio

`lru`, `sector`, `flags` and `data` are the buffers of `bcache`, `lru` the place of
each in the list; `idequeue` and `cmd` the queue of `ide.c` and the command the
controller has; `disk` the sectors. A process is in user code (`"user"`), in
`bget()`, asleep there, about to enter `iderw()`, or spinning in it (`"io"`:
`ideintr()` sends no wakeup in this kernel). `driver` is chosen once, as the link
of the kernel chooses it: `IderwQueue`, `DiskDone`, `Ideintr`, `IderwDone` are the
IDE driver, with the disk as an actor of its own; `IderwMem` is `memide.c`.
`BgetRecycle` takes the free buffer nearest the end of the list, and `BgetPanic`
is "no buffers". `LogWrite` is what `log_write()` does to a buffer: it stays dirty
until `bwrite()`. A sector in `BadSector` is one for which `idewait()` reports an
error: `ideintr()` then sets `B_VALID` without reading, so nothing is promised of
its contents.

Callers ask for sectors in an order (see the module's comment), which keeps two
processes from waiting for a buffer of each other; the cache itself does not
prevent that.

### Console

`buf`, `r`, `w`, `e` are the input buffer; a key is one step of the interrupt
handler (`KeyChar`, `KeyErase`, `KeyKillLine`). A read goes through `fileread()`:
it locks the console's inode, `consoleread()` gives it up while it waits
(`ReadEnter`..`Relock`) and takes it again. A write goes through `filewrite()`: it
holds a transaction from `BeginTrans` to `WriteReturn`, and the inode in between.
The keys that change nothing (control-P and NUL) and the output itself are left
out, and a write is one chunk.

### Memory

Every physical page has a number. `freelist` is the list of `kalloc.c`; `own` the kernel
stack of a process and the page of its directory; `pd` the page tables in the
directory, those of the kernel included, and `pt` the entries in them; `seg`,
`npages`, `refs`, `flagged` the shared segments. Sizes count half pages, so that
rounding happens, and a page table has two entries, so that a process needs several.

The functions of `vm.c` are operators on an address space (`Walkpgdir`, `Mappages`,
`Allocuvm`, `Deallocuvm`, `Setupkvm`, `Copyuvm`, `Freevm`, `Loaduvm`, `Clearpteu`, `Copyout`):
they take the free list with it and return what they leave, also when there is no
page for what they map or for its table. A page that they took and forgot goes to
`lost`, a variable the code does not have. Their loops are one step, because a page
table is private to its process. Two processes that run out because each has taken
part of what the other needs are not in the model; each of them runs out at every
point.

`Grow` and `Shrink` are `growproc()`; `Fork`, `Exit` (with `deallocshm()`), `Wait`, `Exec`,
`SwapOut`, `SwapOutFail` and `SwapIn` the memory side of those calls. `Shmget`,
`ShmgetPage`, `ShmgetEnd`, `Shmdel`, `ShmdelPage` go page by page, because those two take no
lock. `Shmat` is one step under `shm.lock`. `Shmdt` is two: it counts down and releases
the lock, and clears its mappings after that (`ShmdtClear`), so another process can
delete the segment in between.

The code has several ways to spoil the sharing of pages. The variable `lapse`
records the first one and the properties speak of the states before it:

| `lapse` | What happened |
|---|---|
| `"unmapped"` | a process gave back pages of a segment as if they were its own, by `sbrk()`, `exec()`, `swapOut()`, or in `wait()` |
| `"raced"` | two calls met in `shmget()` or `shmdel()` |
| `"outside"` | `shmget()` was called with a key or a size for which `shm` has no place |
| `"locked"` | `shmdt()` returned with `shm.lock` held |
| `"wild"` | `shmdt()`, `deallocshm()` or `uva2ka()` used the entry that `walkpgdir()` did not find, or `shmdt()` cleared entries above `KERNBASE` |
| `"panic"` | `copyuvm()`, `swapOut()` or `clearpteu()` met a hole, or `mappages()` a page that is mapped already |

The kernel's own page table and the pages of `inswapper`, which never change, are
not counted.

### Fs

The disk (`dinode`, `blk`, `dents`), the inode cache, the file table, and processes
that run one system call at a time. `todo[p]` is what remains of the call, as a list
of steps, and `reg[p]` its local variables. A step is a stretch of code under one
inode lock; a process that meets a locked inode or an open transaction waits
there. So `SysUnlink` is: `nameiparent()`, one step per path element (`Walk`);
`begin_trans()`; `UnlinkFind` with the directory locked; `UnlinkName` with the file
locked too; `UnlinkDrop`; `Commit`. `iput()` is up to three steps (`Iput`, `Itrunc`,
`Ifree`), because `icache.lock` is released around `itrunc()`. Every `panic()` of
these files is a value of `panicked`, which stops the model.

Abstracted: contents of files are counted, not kept; a path is already split into
elements; a directory maps names to inodes and fits one block; `O_WRONLY`, `fstat`
and the console device are left out; a transaction is the right to write
(`logger`), its atomicity is in `Log`. `Image` is what `mkfs` writes. `lost` collects
inodes whose only name was in a directory that has been freed: `create()` does
not look at the link count of a removed directory.

## Runs

Passing runs:

| Run | Bounds | Shows |
|---|---|---|
| `proc_smp` | 4 entries, 2 CPUs, 2 inodes, pids to 8, forks may fail, no swapping | no process on two CPUs (`OneCpu`); the inductive invariant `NoSwapInv`, which contains: `RUNNING` means on a CPU, no wakeup of `ilock()`, no exit and no kill in `wait()` is missed, live parents, unique pids |
| `proc_swap` | 4 entries, 1 CPU, 2 inodes, pids to 6, swapping switched on and off, failures, `chdir` | no `iunlock()` and no exit is missed by a suspended process; a process runs only with its memory, which is in exactly one place; `swappedout` follows the number of processes to swap in, but for the wakeup that `sleep()` does not count (`SwappedoutFollows`). Nobody else runs on the CPU during `swapOut()`, so only the timer can wake a process then. The kernel may panic here, and then stops, so deadlock is not an error |
| `proc_live` | 4 entries, 1 CPU, pids to 7, no swapping | every runnable process runs, orphans are reaped, killed processes exit or spin in `begin_trans()`, busy waiting does not stop the owner of the log |
| `log` | 4 blocks, 2 values, log area of 4 with its header, 2 stops | `Log` implements `AtomicDisk`; the inductive invariant; recovery ends |
| `bio` | 2 processes, 2 buffers, 3 sectors of which 1 is unreadable, both drivers | `Bio` implements `BlockStore`; one buffer per sector; the inductive invariant `BioInv`, which contains: busy means held, what is clean is on disk, the disk works on the head of the queue, no lost wakeup, only `bget()` panics; every request is served |
| `pipe` | 1 writer, 2 readers, buffer of 2, counters modulo 4, calls of 0 and 3 bytes, kills | `Pipe` implements `Fifo`; freed only after the last use; nobody sleeps through a wakeup; closing one end frees those blocked on the other |
| `console` | 2 readers, 1 writer, buffer of 2, indexes modulo 4, one reader may be killed | `Console` implements `LineInput`; no reader sleeps through its input; what is ready is taken; a write returns while readers wait |
| `mem` | 2 processes of up to 4 pages, 12 pages of memory, page tables of 2 entries, 1 kernel table, 1 key, segments of up to 2 pages, pids to 3 | until a lapse, every page is in exactly one place, or was lost at one of the points where `vm.c` and `kalloc.c` forget it; reference counts and `has_shm` cover all mappings but those that `shmdt()` is about to clear; sizes stay below `KERNBASE` |
| `fs` | 2 processes, 3 inodes, 3 blocks, 4 cache entries, names a and b, paths /a, /a/b, .. | one cache entry per inode, and it agrees with the disk; link counts are the number of names; no reference is lost; no deadlock of inode locks and log; the only panics are the limits and the two observed below |
| `fs_files` | 2 processes, 2 inodes, 4 blocks, files of one direct and one indirect block, 2 files, 2 descriptors | an open file is never freed; every block has one owner; counts are the number of users |

Violation runs, each against a comment of the source:

| Run | What happens |
|---|---|
| `proc_hang` | a process in `swapOut()` spins in `begin_trans()` with state `SLEEPING`, which the timer does not preempt; on one CPU the owner of the log never runs again |
| `mem_exit` | a process that attached a segment twice, or two segments in the order of falling keys, exits with one still attached, and `wait()` frees its pages |

### Bounds

Four table entries are init, `inswapper` and two programs, enough for a parent
and a child that exit in either order, two contenders for a lock, and a sleeper
with a waker. Two CPUs give every race between two critical sections. `MaxPid`
bounds `nextpid`; entries are reused before it is reached. `MaxDrift` bounds how far
`swappedout` falls below zero, which the code lets it do without limit. Swapping is
checked on one CPU (the Makefile's default) in the passing runs: with two,
`inswapper` runs twice (below) and nothing that depends on it holds. `Started` begins
a run after the boot, with programs already running, to spare the steps that fork
them; `Killable` limits the pids that `kill()` names.

For pipes and the console, calls longer than the buffer block in the middle, and
`Wrap` is two buffers, so the counters wrap in every long run. `MaxStops` bounds the
stops of the machine; two let recovery itself be interrupted. Two buffers for three
sectors make recycling and its panic happen all the time; `MaxHeld` and `MaxDirty` bound what a
process holds and the log keeps dirty. Twelve pages let both processes live with a
segment and run out at every allocation; `MaxRefs` bounds the attachments of a
segment. Three inodes and blocks are the root and two more, so that a directory
with an entry fits and the next `ialloc()` or `balloc()` does not; `Calls` and
`Path` give each process its share of the calls, so that every two meet.

`mem` uses `VIEW PageView`, which names pages by where they are first found: pages
are interchangeable, and only the order of the free list and of the places matters.
`fs` and `fs_files` use `VIEW Live`, which leaves out values no step reads before
writing them: variables of finished calls, cache entries without references, and
what a free block holds. The CONSTRAINTs end the exploration at the first lapse
(`Sound`) and the first lost inode (`NoneLost`), where the properties stop
promising anything. In these three runs the system may stop by a panic or when
every process has exited, so deadlock is not checked; in `fs` the invariant
`NoDeadlock` states what waiting must not do.

### Fairness

`Proc`: weak fairness of the scheduler's own steps; strong fairness of the timer
interrupt and of the steps of the kernel code of a process on a CPU, because they
wait for spinlocks that are free again and again; fairness of `exit()` for a
killed process and of init's `wait()`, which `init.c` calls in a loop. Nothing is
assumed of what programs do. `Log`: the steps of a recovery and of an installation
in progress go on. `Bio`: weak fairness of the disk, of its interrupt and of
processes inside a call of the cache. `Pipe` and `Console`: strong fairness of the
steps inside a call and of `pipeclose()`; none of the calls themselves, nor of keys.
A spinlock that is free again and again is taken in the end by whoever waits for
it: the hardware's exchange does not promise it, but the waiting is short and no
queue of waiters is modelled.

## Observations

What the models show of the code, besides the violation runs:

* `proc.c:26` calls `swappedout` the "counter for the number of procs in the
  RUNNABLE_SUSPENDED state". It is not: a process woken during `swapOut()` becomes
  `RUNNABLE_SUSPENDED` at `proc.c:573` without being counted. `swapIn()` counts it down
  all the same, so the counter stays too low from then on and becomes negative, and
  `inswapper` may sleep while a process waits for it. `SwappedoutFollows` names this path
  and shows that it is the only one.
* On two CPUs `inswapper` is made `RUNNABLE` while it runs, and the second takes it;
  a `kill()` while `swapOut()` runs is overwritten by `SLEEPING_SUSPENDED`, and the
  killed process sleeps on in `wait()`.
* A process whose `swapOut()` failed is suspended with its pages in memory, and
  a failure in `swapIn()` ends in a panic of `sched()`.
* `kill()` finds the stale pid of an entry that a failed `fork()` gave back; the next
  process of the entry starts killed.
* After `chdir()` the swap file is created where `inswapper` does not look. Its name
  has one character for pid / 10, which leaves the digits at pid 100.
* A writer of a pipe killed after filling the buffer returns without waking
  the reader; a `kill()` between a reader's look at `killed` and its sleep leaves
  it asleep until the pipe is used or closed.
* `log.c` says that "each system call that might write the file system should be
  surrounded with begin_trans() and commit_trans() calls"; `namex()`, `sys_chdir()`
  and `exit()` call `iput()` without. When the inode was unlinked meanwhile and theirs
  is the last reference, `iput()` truncates it and `log_write()` panics, or writes
  into the transaction of another process. `OnlyLimitsPanic` names this panic.
* A current directory can be removed. A file created in it is lost with its inode.
  Its ".." is not counted as a link any more, so the parent can be removed and its
  inode reused; a lookup of ".." then panics in `ilock()` or finds another file.
* `shmdel()` leaves the address of the segment's first page behind, so that a page
  that is used for something else since is taken for the segment: `shmdt()` of it
  returns with `shm.lock` held, and a segment under a higher key is not found.
* When there is no page for a page table, pages are lost: the directory and the
  tables made so far in `setupkvm()`, the copy in `copyuvm()`, the new page in `allocuvm()`.
  The last does not look at what `mappages()` returns, so that it reports success and
  leaves a hole, although its comment says "Returns new size or 0 on error".
* Pages of a segment that `sbrk()` unmapped make room for private ones at the same
  addresses; `shmdt()` and `exit()` clear these entries and forget the pages.
* `shmdt()`, `deallocshm()` and `uva2ka()` use the result of `walkpgdir()` without a look whether
  it found an entry. `shmat()` stops at `KERNBASE` and `shmdt()` does not, so a segment that
  was cut off there is cleared beyond it.
* `shmget()` takes keys up to 1023, `param.h` has room for 100 segments, and the number of
  pages is not compared with the columns of `shm.seg`. A size of 0 makes no segment.
* A process of `KERNBASE` bytes is not swapped in again, and one whose `swapOut()` failed in
  writing still has its pages, so that `swapIn()` panics "remap".
* `balloc()` may hand out blocks of the log area on a full disk, because `mkfs` marks
  only its first blocks as used, and `getAllocatedPages()` of a pid that no process has
  reads past the end of the table. These two are read off the code; no model has them.

## Proofs

Assumptions are the named `ASSUME`s of the constants: at least two entries and one
CPU, a positive buffer size, and so on. No bound on the instance is used.

* `ProcSafety!TypeCorrect`: `Spec => []TypeOK`, for `Proc` with swapping and
  failures. One step per action, over lemmas on what `wakeup1()` and `sleep()`
  return.
* Without swapping, any number of CPUs (`~MaySwap`; `ProcTable`, `ProcSafety`):
  the invariant `NoSwapInv` (`Invariance`), and with it `OneCpu`,
  `RunningIsCurrent`, `NoMissedWakeup`, `NoMissedExit` with `KilledNotWaiting`,
  and `ParentAlive` with `UniquePids`. None of them is inductive. The inductive
  invariant is `NoSwapInv`: `NoSwapping` says that the state of the swapping code
  is idle; `LocksHeld` that a CPU holds a spinlock exactly at the places where its
  code does, from which mutual exclusion follows; `ForksApart` that the entry a
  `fork()` fills is an `EMBRYO` of its own; `InitAlive` that init neither exits nor
  is reaped; `PidsIssued` that every pid is below `nextpid`. A lemma `Reachable`
  lists the steps that remain without swapping; `QuietStep`, `RunStep`,
  `LockStep`, `ForkStep`, `PidStep`, `ParentStep`, `ExitStep`, `KilledStep` and
  `InodeStep` then each preserve one conjunct. With swapping and two CPUs `OneCpu`
  is false.
* With swapping on one CPU, for any table and any inodes (`NCPU = 1`; `ProcSwap`,
  `ProcSafety`): `RunnableIsResident`, `ImageOnce`, `NoMissedWakeup` and
  `NoMissedExit` with `KilledNotWaiting`, `ParentAlive` with `UniquePids`, `SwappedoutFollows`
  and from it `SwappedoutBound`: the counter is never too large, and `swapIn()` does not rescan
  the table for ever. The argument rests on one fact about the code that is written nowhere in it: `swapOut()` runs with state
  `SLEEPING`, `trap()` yields only for a process that is `RUNNING`, so on one CPU
  nobody else runs until `swapOut()` ends or sleeps for the root directory. `ImageInv`
  (`ImageInvariance`) says this as `SwapsAlone` and `CurrentRuns`, and adds: `StacksOK`,
  only inswapper is in `swapIn()`, and at the places of its code; `Loading`, the process
  that it brings back stays `RUNNABLE_SUSPENDED` meanwhile, whatever `wakeup()` and `kill()`
  do; `Founders`, init and inswapper are never suspended and inswapper has no children;
  `ForksApart`, as above; `EntriesClean`, an entry that is given back has no full swap
  file; and `ImageKept`, which is `ImageOnce`. One lemma per action that changes a state
  or a place of memory; all others are `Calm`, which is shown to be enough
  once. The wakeups then follow from `ImageInv`: `Steady` lists what a step must not do
  (put to sleep, unlock, end a child), and the steps that do one of these, `sleep()`,
  `iunlock()`, `exit()` and the sleep of inswapper, have a lemma each. `ParentAlive` and
  `UniquePids` (`SwapFamily`) follow in the same way: all steps but those of `fork()`,
  `exit()` and `wait()` are `Settled`. `SwappedoutFollows` is shown
  over the set of processes `RUNNABLE_SUSPENDED`: `wakeup1()` adds as many to the counter as
  to the set, `kill()` one to both, `swapIn()` takes one from both, and all other steps but the
  end of `swapOut()` leave both alone.
* `LogProofs`: `LogTypeCorrect`, `LogInvariant` and `LogIsAtomic`
  (`Spec => AtomicSpec`), for any blocks, contents, log size and number of stops.
  `LogInv` relates the headers, the dirty buffers, the log blocks and how far the
  installation is (`tail`). The refinement maps the stable contents of the disk to
  `disk` overlaid with the log blocks a header on disk lists.
* `BioProofs`: `BioInv` and with it the types, `OneBufPerSector`, `BusyIsHeld`, `CleanIsSaved`, `QueueServed`,
  `NoLostWakeup` and `OnlyBgetPanics`, for any processes, buffers and sectors and both
  drivers. To these `BioInv` adds three facts: `CallsOK`, a process in `iderw()` holds the
  buffer, which has something to do; `QueueOK`, every queued buffer is there once and
  has a process spinning for it; `CmdOK`, the controller's command is that of the
  first buffer in the queue, and once done has its effect. One lemma per action.
  `CacheIsStore`: `Bio` implements `BlockStore`, whose store is the buffer of a sector
  if one is valid, and else the disk. It needs `ValidOK` in `BioInv`: from the return of
  `bread()` on a held buffer is valid, so that what its owner writes to it is the store, and
  a dirty buffer is valid, so that recycling a clean one loses nothing.
* `RingLemmas`: a buffer of `N` bytes with two indexes that count modulo `Wrap`, a multiple
  of `N` as 2^32 is, stands for the sequence between them. Adding a byte appends to the
  sequence, also when the index wraps; taking one is `Tail`; erasing one drops the last;
  the length is the difference of the indexes modulo `Wrap`.
* `PipeProofs`: `NotFreedInUse` and `NoLostWakeup`, for any readers, writers and
  sizes. `PipeInv` adds that whoever is inside a call holds the lock (`LockHeld`), that
  an end is open while somebody has it (`EndsClosed`), and what a sleeper can
  rely on while the lock is held by another (`StillWaiting`). `PipeTypes`: never more than
  `PIPESIZE` bytes are between the counters. `PipeIsFifo`: `Pipe` implements `Fifo`, whose
  queue is the ring as a sequence.
* `ConsoleProofs`: `NoLostWakeup`, for any readers, writers and sizes, from `LockHeld`
  and `StillEmpty`: whoever is about to sleep has the lock, and nothing is ready.
  `ConsoleTypes`: `r`, `w` and `e` stay in this order, at most `INPUT_BUF` apart.
  `InputIsLine`: `Console` implements `LineInput`, with the two parts of the ring, committed
  and being edited, as two sequences.

The conjuncts of `ImageInv`, `WakeInv` and `KinInv` were checked in every state of the instance of
`proc_swap` before they were proved.

Not proved:

* `Memory` and `Fs`, which are only model-checked. Where a page is, who has a block and how often an inode is referenced
  depend on what `SelectSeq`, `Reverse`, folds over keys and lists of remaining steps return
  for any argument, which needs induction over data.
* Nothing is claimed of `Proc` with swapping on several CPUs beyond its types: `OneCpu` and what
  rests on it are false there.
* All liveness, which is only model-checked: under fairness it is out of the prover's reach.

## Not modelled

* Device registers (`lapic.c`, `ioapic.c`, `picirq.c`, `uart.c`, `mp.c`, the ports of
  `ide.c` and `kbd.c`), most of them written once at boot; the boot code, whose result
  is the initial state of `Proc`; assembly entry and exit of traps.
* User programs and their library, which are covered as arbitrary callers.
* Fetching of system call arguments from user memory, the data of `copyout()`, the layout of
  `exec()`'s stack and of ELF files: sequential code on data the models abstract.
* The nesting counters of `pushcli()`; interrupts are off exactly while a lock is
  held, which is what they compute.
* `skipelem()` and the name of a swap file, as functions on strings; the aliasing of
  pid 64 with the reference count of a segment, because pids stay below it.
* Compositions of the models: the sleep for a buffer inside `swapOut()` (`Proc` with
  `Bio`) and transactions of whole system calls over a crash (`Fs` with `Log`). Their
  interfaces are the abstract specifications `BlockStore` and `AtomicDisk`; the
  products are beyond what TLC explores at bounds where both do something.
* `fstat`, `uptime`, `getpid` and `procdump`, which change nothing.
