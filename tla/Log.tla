-------------------------------- MODULE Log --------------------------------
(***************************************************************************)
(* The redo log of the file system (log.c) over the buffer cache (bio.c)   *)
(* and the disk.  A step writes at most one sector, so the machine may     *)
(* stop before or after any disk write; recovery may itself be cut short.  *)
(* A sector is written as a whole or not at all, which is what the disk    *)
(* gives.                                                                  *)
(*                                                                         *)
(* Blocks outside the log are members of Block, their contents members of  *)
(* Val.  The log area holds the header and log.size - 1 further blocks.    *)
(***************************************************************************)
EXTENDS Naturals, Sequences

CONSTANTS
  Block, Val,
  LOGSIZE,    \* sector numbers the header has room for
  LogBlocks,  \* log.size: sectors of the log area
  MaxStops    \* bound on how often the machine stops

ASSUME LogSizeAssumption == LOGSIZE \in Nat \ {0}
ASSUME LogBlocksAssumption == LogBlocks \in Nat \ {0}
ASSUME MaxStopsAssumption == MaxStops \in Nat

VARIABLES
  disk,     \* the home blocks on disk
  logDisk,  \* the data blocks of the log area on disk
  head,     \* the header block on disk: the sectors of a committed transaction
  buf,      \* the buffers that hold home blocks
  dirty,    \* the blocks whose buffer has B_DIRTY
  lh,       \* log.lh: the sectors logged so far
  tail,     \* the loop variable of install_trans()
  mode,     \* what the kernel is doing with the log
  stops     \* how often the machine has stopped

onDisk == <<disk, logDisk, head>>
inMemory == <<buf, dirty, lh, tail>>
vars == <<onDisk, inMemory, mode, stops>>

\* down: not running.  recover: in recover_from_log().  idle: log.busy is
\* clear.  trans: between begin_trans() and commit_trans().  install and done:
\* in commit_trans(), after the first and after the second write_head().
Mode == {"down", "recover", "idle", "trans", "install", "done"}
LogIndex == 1..(LogBlocks - 1)
Sectors == {s \in Seq(Block) : Len(s) <= LogBlocks - 1}

\* Every part of the disk and of the in-memory log holds a value of its type;
\* neither header lists more sectors than the log area has data blocks.
TypeOK ==
  /\ disk \in [Block -> Val]
  /\ logDisk \in [LogIndex -> Val]
  /\ head \in Sectors
  /\ dirty \subseteq Block
  /\ DOMAIN buf \subseteq Block
  /\ buf \in [DOMAIN buf -> Val]
  /\ lh \in Sectors
  /\ tail \in Nat \ {0}
  /\ mode \in Mode
  /\ stops \in Nat

NoBuffers == [b \in {} |-> 0]

\* A disk with no transaction to recover, as mkfs leaves it.
Init ==
  /\ disk \in [Block -> Val]
  /\ logDisk \in [LogIndex -> Val]
  /\ head = <<>>
  /\ buf = NoBuffers
  /\ dirty = {}
  /\ lh = <<>>
  /\ tail = 1
  /\ mode = "down"
  /\ stops = 0

\* Cache f with block b now holding v.
Cached(f, b, v) ==
  [x \in DOMAIN f \cup {b} |-> IF x = b THEN v ELSE f[x]]

-----------------------------------------------------------------------------
(* The buffer cache.                                                       *)

\* bread() of a block that no buffer holds.
Bread(b) ==
  /\ mode \in {"idle", "trans", "install", "done"}
  /\ b \notin DOMAIN buf
  /\ buf' = Cached(buf, b, disk[b])
  /\ UNCHANGED <<onDisk, dirty, lh, tail, mode, stops>>

\* bget() recycles the buffer of a block, if it is not dirty.
Recycle(b) ==
  /\ mode \in {"idle", "trans", "install", "done"}
  /\ b \in DOMAIN buf \ dirty
  /\ buf' = [x \in DOMAIN buf \ {b} |-> buf[x]]
  /\ UNCHANGED <<onDisk, dirty, lh, tail, mode, stops>>

-----------------------------------------------------------------------------
(* Transactions.                                                           *)

\* begin_trans(), once log.busy is clear.
BeginTrans ==
  /\ mode = "idle"
  /\ mode' = "trans"
  /\ UNCHANGED <<onDisk, inMemory, stops>>

\* Mutant: no absorption.
LogPlaceNext(b) == Len(lh) + 1
\* The place of block b in the log: absorbed, or the next one.
LogPlace(b) ==
  IF \E i \in DOMAIN lh : lh[i] = b
  THEN CHOOSE i \in DOMAIN lh : lh[i] = b
  ELSE Len(lh) + 1

\* log_write() looks at the size of the header and at that of the log area.
TooBig == Len(lh) >= LOGSIZE \/ Len(lh) >= LogBlocks - 1

\* The caller changes the contents of block b to v and calls log_write().  It
\* is taken to be the process that called begin_trans(); log.busy, which the
\* code tests, is also set while that process commits.
LogWrite(b, v) ==
  /\ mode = "trans"
  /\ b \in DOMAIN buf
  /\ ~TooBig
  /\ buf' = Cached(buf, b, v)
  /\ logDisk' = [logDisk EXCEPT ![LogPlace(b)] = v]
  /\ lh' = IF LogPlace(b) > Len(lh) THEN Append(lh, b) ELSE lh
  /\ dirty' = dirty \cup {b}
  /\ UNCHANGED <<disk, head, tail, mode, stops>>

\* commit_trans() of a transaction with writes: write_head() commits it ...
WriteHead ==
  /\ mode = "trans"
  /\ lh # <<>>
  /\ head' = lh
  /\ tail' = 1
  /\ mode' = "install"
  /\ UNCHANGED <<disk, logDisk, buf, dirty, lh, stops>>

\* Mutant: the loop of install_trans() starts over in recovery.
InstallSticks ==
  /\ mode \in {"install", "recover"}
  /\ tail <= Len(lh)
  /\ disk' = [disk EXCEPT ![lh[tail]] = logDisk[tail]]
  /\ buf' = Cached(buf, lh[tail], logDisk[tail])
  /\ dirty' = dirty \ {lh[tail]}
  /\ tail' = IF mode = "recover" /\ tail = Len(lh) THEN 1 ELSE tail + 1
  /\ UNCHANGED <<logDisk, head, lh, mode, stops>>
\* ... install_trans() copies the next block to its home, in commit_trans()
\* and in recover_from_log() ...
Install ==
  /\ mode \in {"install", "recover"}
  /\ tail <= Len(lh)
  /\ disk' = [disk EXCEPT ![lh[tail]] = logDisk[tail]]
  /\ buf' = Cached(buf, lh[tail], logDisk[tail])
  /\ dirty' = dirty \ {lh[tail]}
  /\ tail' = tail + 1
  /\ UNCHANGED <<logDisk, head, lh, mode, stops>>

\* Mutant: recovery erases the header while blocks are still to be installed.
EraseHeadEarly ==
  /\ mode \in {"install", "recover"}
  /\ mode = "recover" \/ tail > Len(lh)
  /\ lh' = <<>>
  /\ head' = <<>>
  /\ mode' = IF mode = "install" THEN "done" ELSE "idle"
  /\ UNCHANGED <<disk, logDisk, buf, dirty, tail, stops>>
\* ... and the second write_head() erases the transaction from the log.
EraseHead ==
  /\ mode \in {"install", "recover"}
  /\ tail > Len(lh)
  /\ lh' = <<>>
  /\ head' = <<>>
  /\ mode' = IF mode = "install" THEN "done" ELSE "idle"
  /\ UNCHANGED <<disk, logDisk, buf, dirty, tail, stops>>

\* commit_trans() clears log.busy.
Release ==
  /\ mode = "done" \/ (mode = "trans" /\ lh = <<>>)
  /\ mode' = "idle"
  /\ UNCHANGED <<onDisk, inMemory, stops>>

-----------------------------------------------------------------------------
(* Stopping and starting.                                                  *)

\* The machine stops, memory is lost.
Lose ==
  /\ buf' = NoBuffers
  /\ dirty' = {}
  /\ lh' = <<>>
  /\ tail' = 1
  /\ mode' = "down"
  /\ stops' = stops + 1
  /\ UNCHANGED onDisk

Crash ==
  /\ mode # "down"
  /\ stops < MaxStops
  /\ Lose

\* log_write() panics on a transaction that is too big.
Panic(b) ==
  /\ mode = "trans"
  /\ b \in DOMAIN buf
  /\ TooBig
  /\ stops < MaxStops
  /\ Lose

\* initlog(): read_head() starts recover_from_log().
InitLog ==
  /\ mode = "down"
  /\ lh' = head
  /\ tail' = 1
  /\ mode' = "recover"
  /\ UNCHANGED <<onDisk, buf, dirty, stops>>

Next ==
  \/ \E b \in Block : Bread(b) \/ Recycle(b) \/ Panic(b)
  \/ \E b \in Block, v \in Val : LogWrite(b, v)
  \/ BeginTrans \/ WriteHead \/ Install \/ EraseHead \/ Release
  \/ Crash \/ InitLog

Spec == Init /\ [][Next]_vars

\* The boot code and the disk keep going.
Fairness == WF_vars(InitLog) /\ WF_vars(Install) /\ WF_vars(EraseHead)

FairSpec == Spec /\ Fairness

-----------------------------------------------------------------------------
(* Properties.                                                             *)

\* Home blocks f overwritten by the blocks of log area l that header h lists.
Overlay(f, h, l) ==
  [b \in Block |-> IF \E i \in DOMAIN h : h[i] = b
                   THEN l[CHOOSE i \in DOMAIN h : h[i] = b]
                   ELSE f[b]]

\* What the disk will hold after recovery, and what bread() returns now.
Stable == Overlay(disk, head, logDisk)
Running == mode \notin {"down", "recover"}
View == IF Running
        THEN [b \in Block |-> IF b \in DOMAIN buf THEN buf[b] ELSE disk[b]]
        ELSE Stable
Phase == IF mode \in {"down", "recover"} THEN "down"
         ELSE IF mode = "idle" THEN "idle"
         ELSE IF mode = "trans" THEN "open" ELSE "committed"

Atomic == INSTANCE AtomicDisk WITH stable <- Stable, view <- View, phase <- Phase

\* The log implements atomic transactions: commit_trans(), install_trans() and
\* recover_from_log(), cut short anywhere, show the file system either all or
\* none of the writes of a transaction, and bread() returns what was last
\* written.
AtomicSpec == Atomic!Spec

\* No block is listed twice in a header, so that recovery does not depend on
\* the order of installation, and the header on disk lists either nothing or
\* the transaction that is being installed.
HeadersAgree ==
  /\ \A i, j \in DOMAIN lh : lh[i] = lh[j] => i = j
  /\ \A i, j \in DOMAIN head : head[i] = head[j] => i = j
  /\ mode \in {"idle", "done"} => lh = <<>> /\ head = <<>>
  /\ mode = "trans" => head = <<>>
  /\ mode \in {"install", "recover"} => lh = head

\* A buffer may differ from its block on disk only while it is dirty, so that
\* bget() does not recycle it, and then the log holds its contents.
BuffersLogged ==
  /\ \A b \in DOMAIN buf \ dirty : buf[b] = disk[b]
  /\ \A b \in dirty :
       b \in DOMAIN buf /\ \E i \in DOMAIN lh : lh[i] = b /\ logDisk[i] = buf[b]

\* install_trans() has copied the blocks below tail and no others, each of
\* which is still to be written home.
InstalledBelowTail ==
  /\ mode = "trans" => \A i \in DOMAIN lh : lh[i] \in dirty
  /\ mode = "install" => \A i \in DOMAIN lh : i >= tail => lh[i] \in dirty
  /\ mode \in {"install", "recover"} =>
       /\ tail \in 1..(Len(lh) + 1)
       /\ \A i \in 1..(tail - 1) : disk[lh[i]] = logDisk[i] /\ lh[i] \notin dirty
  /\ mode \in {"down", "recover", "idle", "done"} => dirty = {}

\* The inductive invariant behind AtomicSpec.
LogInv == HeadersAgree /\ BuffersLogged /\ InstalledBelowTail

\* After a stop the file system comes back, also if recovery is cut short again.
RecoveryEnds == (mode = "down") ~> (mode = "idle")
=============================================================================
