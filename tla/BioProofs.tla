----------------------------- MODULE BioProofs ------------------------------
(***************************************************************************)
(* The invariants of the buffer cache and the disk queue, for any number   *)
(* of processes, buffers and sectors, on either driver.                    *)
(***************************************************************************)
EXTENDS Bio, FiniteSetTheorems, TLAPS

\* A buffer in the queue is busy, and held by the process that waits for it.
LEMMA Queued ==
  ASSUME CacheInv, NEW i \in DOMAIN idequeue
  PROVE  /\ idequeue[i] \in Buf /\ "BUSY" \in flags[idequeue[i]]
         /\ \E p \in Proc : pc[p] = "io" /\ cur[p] = idequeue[i] /\ idequeue[i] \in held[p]
BY Zenon DEF CacheInv, TypeOK, QueueOK, CallsOK, BusyIsHeld

\* A command belongs to the first buffer of the queue.
LEMMA FirstQueued ==
  ASSUME CacheInv, cmd # NONE
  PROVE  1 \in DOMAIN idequeue /\ Head(idequeue) = idequeue[1] /\ cmd \in Cmd
BY DEF CacheInv, TypeOK, CmdOK

\* A command for a buffer that a process holds is one the disk can carry out.
LEMMA CommandType ==
  ASSUME CacheInv, NEW b \in Buf, sector[b] \in Sector
  PROVE  Command(b) \in Cmd /\ Command(b) # NONE
<1>1. Command(b) \in Cmd
  BY Zenon DEF CacheInv, TypeOK, Command, Cmd
<1> QED
  BY <1>1, CmdAssumption, Zenon

LEMMA BreadStep ==
  ASSUME CacheInv, NEW p \in Proc, NEW s \in Sector, Bread(p, s)
  PROVE  CacheInv'
<1> USE SectorAssumption, CmdAssumption DEF CacheInv, Bread, cache, device, procs
<1>1. TypeOK'
  BY Zenon DEF TypeOK, Flag, Pc, Cmd
<1>2. OneBufPerSector'
  BY Zenon DEF OneBufPerSector, TypeOK
<1>3. BusyIsHeld'
  BY Zenon DEF BusyIsHeld, TypeOK
<1>4. CallsOK'
  BY DEF CallsOK, TypeOK, InSync, BusyIsHeld
<1>5. NoLostWakeup'
  BY Zenon DEF NoLostWakeup, TypeOK, CallsOK
<1>6. QueueOK'
  BY Zenon DEF QueueOK, TypeOK, InSync, CallsOK, BusyIsHeld
<1>7. CmdOK'
  BY Zenon DEF CmdOK, TypeOK, Cmd, QueueOK, InSync, CallsOK, BusyIsHeld
<1>8. CleanIsSaved'
  BY Zenon DEF CleanIsSaved, TypeOK, GoodSector, OneBufPerSector, CmdOK, QueueOK, CallsOK
<1>9. OnlyBgetPanics'
  BY Zenon DEF OnlyBgetPanics, CallsOK, InSync, BusyIsHeld, TypeOK
<1> QED
  BY <1>1, <1>2, <1>3, <1>4, <1>5, <1>6, <1>7, <1>8, <1>9, Zenon

LEMMA BgetHitStep ==
  ASSUME CacheInv, NEW p \in Proc, NEW b \in Buf, BgetHit(p, b)
  PROVE  CacheInv'
<1> USE SectorAssumption DEF CacheInv
<1>1. CASE "BUSY" \notin flags[b]
  <2> DEFINE f == flags[b] \cup {"BUSY"}
  <2>1. /\ Got(p, b, f) /\ pc[p] = "bget" /\ sector[b] = want[p]
        /\ UNCHANGED <<driver, lru, sector, data, idequeue, cmd, disk, panicked>>
    BY <1>1, Zenon DEF BgetHit, device
  <2>2. TypeOK'
    BY <2>1, Zenon DEF Got, TypeOK, Flag, Pc
  <2>3. BusyIsHeld'
    BY <1>1, <2>1 DEF Got, BusyIsHeld, TypeOK
  <2>4. CallsOK'
    BY <1>1, <2>1 DEF Got, CallsOK, TypeOK, InSync, BusyIsHeld
  <2>5. NoLostWakeup'
    BY <2>1, Zenon DEF Got, NoLostWakeup, TypeOK
  <2>6. \A k \in DOMAIN idequeue : idequeue[k] # b
    BY <1>1, Queued, Zenon
  <2>7. QueueOK'
    BY <2>1, <2>6 DEF Got, QueueOK, TypeOK, InSync
  <2>8. CmdOK'
    BY <2>1, <2>6, FirstQueued DEF Got, CmdOK, TypeOK
  <2>9. CleanIsSaved'
    BY <2>1, Zenon DEF Got, CleanIsSaved, TypeOK, GoodSector
  <2> QED
    BY <2>1, <2>2, <2>3, <2>4, <2>5, <2>7, <2>8, <2>9, Zenon DEF OneBufPerSector, OnlyBgetPanics
<1>2. CASE "BUSY" \in flags[b]
  <2>1. /\ pc[p] = "bget" /\ pc' = [pc EXCEPT ![p] = "sleep"] /\ chan' = [chan EXCEPT ![p] = b]
        /\ UNCHANGED <<driver, lru, sector, flags, data, idequeue, cmd, disk, want, held, cur, panicked>>
    BY <1>2, Zenon DEF BgetHit, device
  <2>2. TypeOK'
    BY <2>1, Zenon DEF TypeOK, Pc
  <2>3. CallsOK'
    BY <2>1, Zenon DEF CallsOK, TypeOK, InSync
  <2>4. NoLostWakeup'
    BY <1>2, <2>1, Zenon DEF NoLostWakeup, TypeOK
  <2>5. QueueOK'
    BY <2>1, Zenon DEF QueueOK, TypeOK, InSync
  <2> QED
    BY <2>1, <2>2, <2>3, <2>4, <2>5, Zenon
       DEF OneBufPerSector, BusyIsHeld, CmdOK, CleanIsSaved, OnlyBgetPanics
<1> QED
  BY <1>1, <1>2, Zenon

LEMMA BgetRecycleStep ==
  ASSUME CacheInv, NEW p \in Proc, NEW b \in Buf, BgetRecycle(p, b)
  PROVE  CacheInv'
<1> USE SectorAssumption, CmdAssumption DEF CacheInv, BgetRecycle, Got, LastFree, Free, cache, device, procs
<1>1. TypeOK'
  BY Zenon DEF TypeOK, Flag, Pc, Cmd
<1>2. OneBufPerSector'
  BY Zenon DEF OneBufPerSector, TypeOK
<1>3. BusyIsHeld'
  BY DEF BusyIsHeld, TypeOK
<1>4. CallsOK'
  BY DEF CallsOK, TypeOK, InSync, BusyIsHeld
<1>5. NoLostWakeup'
  BY Zenon DEF NoLostWakeup, TypeOK, CallsOK
<1>6. QueueOK'
  BY DEF QueueOK, TypeOK, InSync, CallsOK, BusyIsHeld
<1>7. CmdOK'
  <2>1. \A k \in DOMAIN idequeue : idequeue[k] # b
    BY Queued, Zenon
  <2> QED
    BY <2>1, FirstQueued DEF CmdOK, TypeOK
<1>8. CleanIsSaved'
  BY DEF CleanIsSaved, TypeOK, GoodSector, OneBufPerSector, CmdOK, QueueOK, CallsOK
<1>9. OnlyBgetPanics'
  BY Zenon DEF OnlyBgetPanics, CallsOK, InSync, BusyIsHeld, TypeOK
<1> QED
  BY <1>1, <1>2, <1>3, <1>4, <1>5, <1>6, <1>7, <1>8, <1>9, Zenon

LEMMA BgetPanicStep ==
  ASSUME CacheInv, NEW p \in Proc, BgetPanic(p)
  PROVE  CacheInv'
<1> USE SectorAssumption, CmdAssumption DEF CacheInv, BgetPanic, cache, device, procs
<1>1. TypeOK'
  BY Zenon DEF TypeOK, Flag, Pc, Cmd
<1>2. OneBufPerSector'
  BY Zenon DEF OneBufPerSector, TypeOK
<1>3. BusyIsHeld'
  BY Zenon DEF BusyIsHeld, TypeOK
<1>4. CallsOK'
  BY Zenon DEF CallsOK, TypeOK, InSync, BusyIsHeld
<1>5. NoLostWakeup'
  BY Zenon DEF NoLostWakeup, TypeOK, CallsOK
<1>6. QueueOK'
  BY Zenon DEF QueueOK, TypeOK, InSync, CallsOK, BusyIsHeld
<1>7. CmdOK'
  BY Zenon DEF CmdOK, TypeOK, Cmd, QueueOK, InSync, CallsOK, BusyIsHeld
<1>8. CleanIsSaved'
  BY Zenon DEF CleanIsSaved, TypeOK, GoodSector, OneBufPerSector, CmdOK, QueueOK, CallsOK
<1>9. OnlyBgetPanics'
  BY Zenon DEF OnlyBgetPanics, CallsOK, InSync, BusyIsHeld, TypeOK
<1> QED
  BY <1>1, <1>2, <1>3, <1>4, <1>5, <1>6, <1>7, <1>8, <1>9, Zenon

LEMMA BwriteStep ==
  ASSUME CacheInv, NEW p \in Proc, NEW b \in Buf, NEW v \in Val, Bwrite(p, b, v)
  PROVE  CacheInv'
<1> USE SectorAssumption, CmdAssumption DEF CacheInv, Bwrite, cache, device, procs
<1>1. TypeOK'
  BY Zenon DEF TypeOK, Flag, Pc, Cmd
<1>2. OneBufPerSector'
  BY Zenon DEF OneBufPerSector, TypeOK
<1>3. BusyIsHeld'
  BY DEF BusyIsHeld, TypeOK
<1>4. CallsOK'
  BY DEF CallsOK, TypeOK, InSync, BusyIsHeld
<1>5. NoLostWakeup'
  BY Zenon DEF NoLostWakeup, TypeOK, CallsOK
<1>6. QueueOK'
  BY DEF QueueOK, TypeOK, InSync, CallsOK, BusyIsHeld
<1>7. CmdOK'
  BY DEF CmdOK, TypeOK, Cmd, QueueOK, InSync, CallsOK, BusyIsHeld
<1>8. CleanIsSaved'
  BY DEF CleanIsSaved, TypeOK, GoodSector, OneBufPerSector, CmdOK, QueueOK, CallsOK
<1>9. OnlyBgetPanics'
  BY Zenon DEF OnlyBgetPanics, CallsOK, InSync, BusyIsHeld, TypeOK
<1> QED
  BY <1>1, <1>2, <1>3, <1>4, <1>5, <1>6, <1>7, <1>8, <1>9, Zenon

LEMMA LogWriteStep ==
  ASSUME CacheInv, NEW p \in Proc, NEW b \in Buf, NEW v \in Val, LogWrite(p, b, v)
  PROVE  CacheInv'
<1> USE SectorAssumption, CmdAssumption DEF CacheInv, LogWrite, cache, device, procs
<1>1. TypeOK'
  BY Zenon DEF TypeOK, Flag, Pc, Cmd
<1>2. OneBufPerSector'
  BY Zenon DEF OneBufPerSector, TypeOK
<1>3. BusyIsHeld'
  BY DEF BusyIsHeld, TypeOK
<1>4. CallsOK'
  BY Zenon DEF CallsOK, TypeOK, InSync, BusyIsHeld
<1>5. NoLostWakeup'
  BY Zenon DEF NoLostWakeup, TypeOK, CallsOK
<1>6. QueueOK'
  BY DEF QueueOK, TypeOK, InSync, CallsOK, BusyIsHeld
<1>7. CmdOK'
  BY DEF CmdOK, TypeOK, Cmd, QueueOK, InSync, CallsOK, BusyIsHeld
<1>8. CleanIsSaved'
  BY DEF CleanIsSaved, TypeOK, GoodSector, OneBufPerSector, CmdOK, QueueOK, CallsOK
<1>9. OnlyBgetPanics'
  BY Zenon DEF OnlyBgetPanics, CallsOK, InSync, BusyIsHeld, TypeOK
<1> QED
  BY <1>1, <1>2, <1>3, <1>4, <1>5, <1>6, <1>7, <1>8, <1>9, Zenon

LEMMA BrelseStep ==
  ASSUME CacheInv, NEW p \in Proc, NEW b \in Buf, Brelse(p, b)
  PROVE  CacheInv'
<1> USE SectorAssumption, CmdAssumption DEF CacheInv, Brelse, ToHead, cache, device, procs
<1>1. TypeOK'
  <2>1. Cardinality(Buf) \in Nat
    BY BufAssumption, FS_CardinalityType, Zenon
  <2>2. lru' \in [Buf -> 1..Cardinality(Buf)] /\ \A c, d \in Buf : lru'[c] = lru'[d] => c = d
    BY <2>1 DEF TypeOK
  <2>3. flags' \in [Buf -> SUBSET Flag] /\ held' \in [Proc -> SUBSET Buf]
    BY Zenon DEF TypeOK
  <2>4. pc' \in [Proc -> Pc] /\ chan' \in [Proc -> Buf \cup {NONE}]
    BY Zenon DEF TypeOK, Pc
  <2> QED
    BY <2>2, <2>3, <2>4, Zenon DEF TypeOK
<1>2. OneBufPerSector'
  BY Zenon DEF OneBufPerSector, TypeOK
<1>3. BusyIsHeld'
  BY DEF BusyIsHeld, TypeOK
<1>4. CallsOK'
  BY DEF CallsOK, TypeOK, InSync, BusyIsHeld
<1>5. NoLostWakeup'
  BY Zenon DEF NoLostWakeup, TypeOK, CallsOK
<1>6. QueueOK'
  <2>1. ASSUME NEW k \in DOMAIN idequeue
        PROVE  ~InSync(idequeue[k])' /\ \E q \in Proc : pc'[q] = "io" /\ cur'[q] = idequeue[k]
    <3>1. PICK q \in Proc : pc[q] = "io" /\ cur[q] = idequeue[k] /\ idequeue[k] \in held[q]
      BY <2>1, Queued, Zenon
    <3>2. idequeue[k] # b /\ idequeue[k] \in Buf
      BY <2>1, <3>1, Queued DEF BusyIsHeld
    <3>3. chan[q] = NONE /\ pc'[q] = "io"
      BY <3>1, Zenon DEF CallsOK, TypeOK
    <3> QED
      BY <2>1, <3>1, <3>2, <3>3, Zenon DEF InSync, QueueOK, TypeOK
  <2> QED
    BY <2>1, Zenon DEF QueueOK
<1>7. CmdOK'
  BY DEF CmdOK, TypeOK, Cmd, QueueOK, InSync, CallsOK, BusyIsHeld
<1>8. CleanIsSaved'
  BY DEF CleanIsSaved, TypeOK, GoodSector, OneBufPerSector, CmdOK, QueueOK, CallsOK
<1>9. OnlyBgetPanics'
  BY Zenon DEF OnlyBgetPanics, CallsOK, InSync, BusyIsHeld, TypeOK
<1> QED
  BY <1>1, <1>2, <1>3, <1>4, <1>5, <1>6, <1>7, <1>8, <1>9, Zenon

LEMMA IderwStep ==
  ASSUME CacheInv, NEW p \in Proc, NEW b \in Buf, Iderw(p, b)
  PROVE  CacheInv'
<1> USE SectorAssumption, CmdAssumption DEF CacheInv, Iderw, IderwPanics, cache, device, procs
<1>1. TypeOK'
  BY Zenon DEF TypeOK, Flag, Pc, Cmd
<1>2. OneBufPerSector'
  BY Zenon DEF OneBufPerSector, TypeOK
<1>3. BusyIsHeld'
  BY Zenon DEF BusyIsHeld, TypeOK
<1>4. CallsOK'
  BY Zenon DEF CallsOK, TypeOK, InSync, BusyIsHeld
<1>5. NoLostWakeup'
  BY Zenon DEF NoLostWakeup, TypeOK, CallsOK
<1>6. QueueOK'
  BY Zenon DEF QueueOK, TypeOK, InSync, CallsOK, BusyIsHeld
<1>7. CmdOK'
  BY Zenon DEF CmdOK, TypeOK, Cmd, QueueOK, InSync, CallsOK, BusyIsHeld
<1>8. CleanIsSaved'
  BY Zenon DEF CleanIsSaved, TypeOK, GoodSector, OneBufPerSector, CmdOK, QueueOK, CallsOK
<1>9. OnlyBgetPanics'
  BY Zenon DEF OnlyBgetPanics, CallsOK, InSync, BusyIsHeld, TypeOK
<1> QED
  BY <1>1, <1>2, <1>3, <1>4, <1>5, <1>6, <1>7, <1>8, <1>9, Zenon

LEMMA IderwQueueStep ==
  ASSUME CacheInv, NEW p \in Proc, NEW b \in Buf, IderwQueue(p, b)
  PROVE  CacheInv'
<1> USE SectorAssumption, CmdAssumption DEF CacheInv, IderwQueue, Command, IderwPanics, cache, device, procs
<1>1. TypeOK'
  <2>1. cmd' \in Cmd \cup {NONE}
    BY CommandType, Zenon DEF CallsOK, TypeOK
  <2> QED
    BY <2>1 DEF TypeOK, Pc
<1>2. OneBufPerSector'
  BY Zenon DEF OneBufPerSector, TypeOK
<1>3. BusyIsHeld'
  BY Zenon DEF BusyIsHeld, TypeOK
<1>4. CallsOK'
  BY DEF CallsOK, TypeOK, InSync, BusyIsHeld
<1>5. NoLostWakeup'
  BY Zenon DEF NoLostWakeup, TypeOK, CallsOK
<1>6. QueueOK'
  BY SMT, SMTT(30) DEF QueueOK, TypeOK, InSync, CallsOK, BusyIsHeld
<1>7. CmdOK'
  <2>1. CASE idequeue = <<>>
    <3>1. idequeue' = <<b>> /\ cmd' = Command(b) /\ Command(b) # NONE
      BY <2>1, CommandType DEF CallsOK
    <3> QED
      BY <3>1 DEF CmdOK, TypeOK
  <2>2. CASE idequeue # <<>>
    <3>1. idequeue \in Seq(Buf) /\ idequeue' = Append(idequeue, b) /\ cmd' = cmd
      BY <2>2, Zenon DEF TypeOK
    <3>2. Head(idequeue') = Head(idequeue) /\ idequeue' # <<>>
      BY <2>2, <3>1
    <3> QED
      BY <2>2, <3>1, <3>2, Zenon DEF CmdOK
  <2> QED
    BY <2>1, <2>2, Zenon
<1>8. CleanIsSaved'
  BY Zenon DEF CleanIsSaved, TypeOK, GoodSector, OneBufPerSector, CmdOK, QueueOK, CallsOK
<1>9. OnlyBgetPanics'
  BY Zenon DEF OnlyBgetPanics, CallsOK, InSync, BusyIsHeld, TypeOK
<1> QED
  BY <1>1, <1>2, <1>3, <1>4, <1>5, <1>6, <1>7, <1>8, <1>9, Zenon

LEMMA IderwDoneStep ==
  ASSUME CacheInv, NEW p \in Proc, NEW b \in Buf, IderwDone(p, b)
  PROVE  CacheInv'
<1> USE SectorAssumption, CmdAssumption DEF CacheInv, IderwDone, cache, device, procs
<1>1. TypeOK'
  BY Zenon DEF TypeOK, Flag, Pc, Cmd
<1>2. OneBufPerSector'
  BY Zenon DEF OneBufPerSector, TypeOK
<1>3. BusyIsHeld'
  BY Zenon DEF BusyIsHeld, TypeOK
<1>4. CallsOK'
  BY DEF CallsOK, TypeOK, InSync, BusyIsHeld
<1>5. NoLostWakeup'
  BY Zenon DEF NoLostWakeup, TypeOK, CallsOK
<1>6. QueueOK'
  BY Zenon DEF QueueOK, TypeOK, InSync, CallsOK, BusyIsHeld
<1>7. CmdOK'
  BY Zenon DEF CmdOK, TypeOK, Cmd, QueueOK, InSync, CallsOK, BusyIsHeld
<1>8. CleanIsSaved'
  BY Zenon DEF CleanIsSaved, TypeOK, GoodSector, OneBufPerSector, CmdOK, QueueOK, CallsOK
<1>9. OnlyBgetPanics'
  BY Zenon DEF OnlyBgetPanics, CallsOK, InSync, BusyIsHeld, TypeOK
<1> QED
  BY <1>1, <1>2, <1>3, <1>4, <1>5, <1>6, <1>7, <1>8, <1>9, Zenon

LEMMA IderwMemStep ==
  ASSUME CacheInv, NEW p \in Proc, NEW b \in Buf, IderwMem(p, b)
  PROVE  CacheInv'
<1> USE SectorAssumption, CmdAssumption DEF CacheInv, IderwMem, Synced, IderwPanics, cache, device, procs
<1>1. TypeOK'
  <2>1. sector[b] \in Sector
    BY Zenon DEF CallsOK
  <2>2. flags' \in [Buf -> SUBSET Flag]
    BY Zenon DEF TypeOK, Flag
  <2>3. data' \in [Buf -> Val]
    <3>1. data' = data \/ data' = [data EXCEPT ![b] = disk[sector[b]]]
      OBVIOUS
    <3>2. data \in [Buf -> Val] /\ disk[sector[b]] \in Val
      BY <2>1, Zenon DEF TypeOK
    <3> QED
      BY ONLY <3>1, <3>2, Zenon
  <2>4. disk' \in [Sector -> Val]
    <3>1. disk' = disk \/ disk' = [disk EXCEPT ![sector[b]] = data[b]]
      OBVIOUS
    <3>2. disk \in [Sector -> Val] /\ data[b] \in Val
      BY Zenon DEF TypeOK
    <3> QED
      BY ONLY <3>1, <3>2, Zenon
  <2>5. pc' \in [Proc -> Pc] /\ cur' \in [Proc -> Buf \cup {NONE}]
    BY Zenon DEF TypeOK, Pc
  <2> QED
    BY <2>2, <2>3, <2>4, <2>5, Zenon DEF TypeOK
<1>2. OneBufPerSector'
  BY Zenon DEF OneBufPerSector, TypeOK
<1>3. BusyIsHeld'
  BY DEF BusyIsHeld, TypeOK
<1>4. CallsOK'
  BY DEF CallsOK, TypeOK, InSync, BusyIsHeld
<1>5. NoLostWakeup'
  BY Zenon DEF NoLostWakeup, TypeOK, CallsOK
<1>6. QueueOK'
  BY DEF QueueOK, TypeOK, InSync, CallsOK, BusyIsHeld
<1>7. CmdOK'
  BY Zenon DEF CmdOK, TypeOK, Cmd, QueueOK, InSync, CallsOK, BusyIsHeld
<1>8. CleanIsSaved'
  BY DEF CleanIsSaved, TypeOK, GoodSector, OneBufPerSector, CmdOK, QueueOK, CallsOK
<1>9. OnlyBgetPanics'
  BY Zenon DEF OnlyBgetPanics, CallsOK, InSync, BusyIsHeld, TypeOK
<1> QED
  BY <1>1, <1>2, <1>3, <1>4, <1>5, <1>6, <1>7, <1>8, <1>9, Zenon

LEMMA DiskDoneStep ==
  ASSUME CacheInv, DiskDone
  PROVE  CacheInv'
<1> USE SectorAssumption, CmdAssumption DEF CacheInv, DiskDone, cache, device, procs
<1>1. TypeOK'
  BY Zenon DEF TypeOK, Flag, Pc, Cmd
<1>2. OneBufPerSector'
  BY Zenon DEF OneBufPerSector, TypeOK
<1>3. BusyIsHeld'
  BY Zenon DEF BusyIsHeld, TypeOK
<1>4. CallsOK'
  BY Zenon DEF CallsOK, TypeOK, InSync, BusyIsHeld
<1>5. NoLostWakeup'
  BY Zenon DEF NoLostWakeup, TypeOK, CallsOK
<1>6. QueueOK'
  BY Zenon DEF QueueOK, TypeOK, InSync, CallsOK, BusyIsHeld
<1>7. CmdOK'
  <2>0. cmd \in Cmd /\ cmd.sector \in Sector /\ disk[cmd.sector] \in Val
    BY FirstQueued, Zenon DEF TypeOK, Cmd
  <2>a. cmd' \in Cmd
    BY <2>0, Zenon DEF Cmd
  <2>1. cmd' \in Cmd /\ cmd' # NONE /\ cmd.sector \in Sector
    BY <2>0, <2>a, Zenon
  <2>2. cmd'.sector = cmd.sector /\ cmd'.op = cmd.op /\ (cmd.op = "write" => cmd'.val = cmd.val)
    BY FirstQueued, Zenon DEF Cmd
  <2>3. cmd'.val = disk'[cmd'.sector]
    BY <2>1, FirstQueued, Zenon DEF Cmd, TypeOK
  <2> QED
    BY <2>1, <2>2, <2>3, Zenon DEF CmdOK
<1>8. CleanIsSaved'
  BY SMT, SMTT(30) DEF CleanIsSaved, TypeOK, GoodSector, OneBufPerSector, CmdOK, QueueOK, CallsOK
<1>9. OnlyBgetPanics'
  BY Zenon DEF OnlyBgetPanics, CallsOK, InSync, BusyIsHeld, TypeOK
<1> QED
  BY <1>1, <1>2, <1>3, <1>4, <1>5, <1>6, <1>7, <1>8, <1>9, Zenon

LEMMA IdeintrStep == ASSUME CacheInv, Ideintr PROVE CacheInv'
<1> DEFINE b == Head(idequeue)
<1>1. 1 \in DOMAIN idequeue /\ b = idequeue[1] /\ b \in Buf /\ cmd \in Cmd /\ idequeue \in Seq(Buf)
  BY FirstQueued, Queued, Zenon DEF Ideintr, CacheInv, TypeOK
<1>2. PICK h \in Proc : pc[h] = "io" /\ cur[h] = b /\ b \in held[h]
  BY <1>1, Queued, Zenon
<1>3. /\ idequeue' = Tail(idequeue) /\ flags' = [flags EXCEPT ![b] = Synced(@)]
      /\ data' = IF "DIRTY" \notin flags[b] /\ sector[b] \notin BadSector
                 THEN [data EXCEPT ![b] = cmd.val] ELSE data
      /\ cmd' = IF Len(idequeue) > 1 THEN Command(idequeue[2]) ELSE NONE
      /\ cmd.done /\ cmd # NONE
      /\ UNCHANGED <<driver, lru, sector, disk, pc, want, chan, held, cur, panicked>>
  BY Zenon DEF Ideintr, procs
<1> HIDE DEF b
\* The rest of the queue moves up by one, and the first is not in it again.
<1>4. /\ idequeue' \in Seq(Buf) /\ Len(idequeue') = Len(idequeue) - 1
      /\ \A k \in DOMAIN idequeue' : k + 1 \in DOMAIN idequeue /\ idequeue'[k] = idequeue[k + 1]
  BY <1>1, <1>3, SMT, SMTT(30)
<1>5. \A k \in DOMAIN idequeue' : idequeue'[k] \in Buf /\ idequeue'[k] # b
  <2> SUFFICES ASSUME NEW k \in DOMAIN idequeue' PROVE idequeue'[k] \in Buf /\ idequeue'[k] # b
    OBVIOUS
  <2>1. k \in Nat \ {0} /\ k + 1 \in DOMAIN idequeue /\ idequeue'[k] = idequeue[k + 1]
    BY <1>4, SMT, SMTT(30)
  <2>2. k + 1 # 1
    BY <2>1, SMT, SMTT(30)
  <2> QED
    BY <1>1, <2>1, <2>2, SMT, SMTT(30) DEF CacheInv, QueueOK
<1>6. flags' \in [Buf -> SUBSET Flag] /\ flags'[b] = Synced(flags[b])
      /\ \A c \in Buf : c # b => flags'[c] = flags[c]
  BY <1>1, <1>3, SMTT(30) DEF CacheInv, TypeOK, Synced, Flag
<1>7. data' \in [Buf -> Val] /\ \A c \in Buf : c # b => data'[c] = data[c]
  BY <1>1, <1>3, SMTT(30) DEF CacheInv, TypeOK, Cmd
\* The command for the next buffer, if there is one.
<1>8. ASSUME Len(idequeue) > 1
      PROVE  /\ idequeue'[1] = idequeue[2] /\ 1 \in DOMAIN idequeue' /\ Head(idequeue') = idequeue'[1]
             /\ cmd' = Command(idequeue'[1]) /\ cmd' \in Cmd /\ cmd' # NONE
  <2>1. idequeue'[1] = idequeue[2] /\ 2 \in DOMAIN idequeue /\ 1 \in DOMAIN idequeue' /\ Head(idequeue') = idequeue'[1]
    BY <1>1, <1>4, <1>8, SMT, SMTT(30)
  <2>2. sector[idequeue[2]] \in Sector /\ idequeue[2] \in Buf
    BY <2>1, Queued, Zenon DEF CacheInv, CallsOK
  <2> QED
    BY <1>3, <1>8, <2>1, <2>2, CommandType, Zenon
<1>9. TypeOK'
  <2>1. cmd' \in Cmd \cup {NONE}
    BY <1>3, <1>8, Zenon
  <2>2. TypeOK
    BY Zenon DEF CacheInv
  <2>3. UNCHANGED <<driver, lru, sector, disk, pc, want, chan, held, cur, panicked>>
    BY <1>3, Zenon
  <2>4. idequeue' \in Seq(Buf) /\ flags' \in [Buf -> SUBSET Flag] /\ data' \in [Buf -> Val]
    BY <1>4, <1>6, <1>7, Zenon
  <2> QED
    BY ONLY <2>1, <2>2, <2>3, <2>4, SMTT(30) DEF TypeOK
<1>10. BusyIsHeld' /\ NoLostWakeup'
  <2>1. \A c \in Buf : "BUSY" \in flags'[c] <=> "BUSY" \in flags[c]
    BY <1>6, SMT, SMTT(30) DEF Synced
  <2>2. held' = held /\ pc' = pc /\ chan' = chan
    BY <1>3, Zenon
  <2>3. BusyIsHeld /\ NoLostWakeup /\ chan \in [Proc -> Buf \cup {NONE}]
    BY Zenon DEF CacheInv, TypeOK
  <2>4. BusyIsHeld'
    BY ONLY <2>1, <2>2, <2>3, Zenon DEF BusyIsHeld
  <2>5. NoLostWakeup'
    BY ONLY <2>1, <2>2, <2>3, Zenon DEF NoLostWakeup
  <2> QED
    BY <2>4, <2>5, Zenon
<1>11. CallsOK'
  <2>1. \A p \in Proc : pc[p] = "iderw" => cur[p] # b /\ cur[p] \in Buf
    BY <1>1, <1>2, Zenon DEF CacheInv, CallsOK, BusyIsHeld, TypeOK
  <2> QED
    BY <1>3, <1>6, <2>1, Zenon DEF CacheInv, CallsOK, InSync
<1>12. QueueOK'
  <2>1. ASSUME NEW k \in DOMAIN idequeue'
        PROVE  \E p \in Proc : pc'[p] = "io" /\ cur'[p] = idequeue'[k]
    BY <1>3, <1>4, SMT, SMTT(30) DEF CacheInv, QueueOK
  <2>2. \A k, j \in DOMAIN idequeue' : idequeue'[k] = idequeue'[j] => k = j
    <3> SUFFICES ASSUME NEW k \in DOMAIN idequeue', NEW j \in DOMAIN idequeue', idequeue'[k] = idequeue'[j]
                 PROVE  k = j
      OBVIOUS
    <3>1. k \in Nat /\ j \in Nat /\ idequeue[k + 1] = idequeue[j + 1] /\ k + 1 \in DOMAIN idequeue /\ j + 1 \in DOMAIN idequeue
      BY <1>4, SMT, SMTT(30)
    <3>2. k + 1 = j + 1
      BY <3>1, Zenon DEF CacheInv, QueueOK
    <3> QED
      BY <3>1, <3>2, SMT, SMTT(30)
  <2>3. \A k \in DOMAIN idequeue' : ~InSync(idequeue[k])'
    BY <1>4, <1>5, <1>6, SMT, SMTT(30) DEF CacheInv, QueueOK, InSync
  <2> QED
    BY <2>1, <2>2, <2>3, SMTT(30) DEF QueueOK
<1>13. CmdOK'
  <2>1. CASE Len(idequeue) > 1
    <3>1. idequeue'[1] \in Buf /\ idequeue'[1] # b
      BY <1>5, <1>8, <2>1, Zenon
    <3>2. driver' = "ide" /\ sector' = sector
      BY <1>3, Zenon DEF CacheInv, CmdOK
    <3> QED
      BY <1>6, <1>7, <1>8, <2>1, <3>1, <3>2, SMT, SMTT(30) DEF CmdOK, Command
  <2>2. CASE ~(Len(idequeue) > 1)
    BY <1>1, <1>3, <1>4, <2>2, SMT, SMTT(30) DEF CmdOK
  <2> QED
    BY <2>1, <2>2, Zenon
<1>14. CleanIsSaved'
  <2>1. sector[b] \in GoodSector => data'[b] = disk[sector[b]]
    BY <1>1, <1>3, Zenon DEF CacheInv, CmdOK, TypeOK, Cmd, GoodSector, b
  <2> QED
    BY <1>3, <1>6, <1>7, <2>1, SMTT(30) DEF CacheInv, CleanIsSaved, GoodSector
<1> QED
  BY <1>3, <1>9, <1>10, <1>11, <1>12, <1>13, <1>14, Zenon DEF CacheInv, OneBufPerSector, OnlyBgetPanics

\* binit().
LEMMA CacheInit == Init => CacheInv
<1> SUFFICES ASSUME Init PROVE CacheInv
  OBVIOUS
<1> USE DEF Init
<1>1. TypeOK
  <2> DEFINE From(b) == {c \in Buf : c >= b}
  <2>1. \A b \in Buf : IsFiniteSet(From(b)) /\ Cardinality(From(b)) \in 1..Cardinality(Buf)
    <3> SUFFICES ASSUME NEW b \in Buf
                 PROVE  IsFiniteSet(From(b)) /\ Cardinality(From(b)) \in 1..Cardinality(Buf)
      OBVIOUS
    <3>1. From(b) \subseteq Buf /\ b \in From(b)
      BY BufAssumption, SMT, SMTT(30)
    <3>2. IsFiniteSet(From(b)) /\ Cardinality(From(b)) <= Cardinality(Buf)
      BY <3>1, BufAssumption, FS_Subset, Zenon
    <3> HIDE DEF From
    <3>3. Cardinality(From(b)) \in Nat /\ Cardinality(Buf) \in Nat
      BY <3>2, BufAssumption, FS_CardinalityType, Zenon
    <3>4. Cardinality(From(b)) # 0
      BY <3>1, <3>2, FS_EmptySet, Zenon
    <3> QED
      BY <3>2, <3>3, <3>4, SMT, SMTT(30)
  <2>2. ASSUME NEW b \in Buf, NEW c \in Buf, b < c PROVE Cardinality(From(c)) # Cardinality(From(b))
    <3>1. From(c) \subseteq From(b) /\ b \notin From(c) /\ b \in From(b)
      <4>1. \A d \in Buf : d \in Int
        BY BufAssumption, Zenon
      <4>2. \A d \in Buf : d >= c => d >= b
        BY <2>2, <4>1, SMT, SMTT(30)
      <4>3. ~(b >= c) /\ b >= b
        BY <2>2, <4>1, SMT, SMTT(30)
      <4> QED
        BY <4>2, <4>3, Zenon
    <3> QED
      BY <2>1, <3>1, FS_Subset, Zenon
  <2>3. \A b, c \in Buf : lru[b] = lru[c] => b = c
    <3> SUFFICES ASSUME NEW b \in Buf, NEW c \in Buf, b # c PROVE lru[b] # lru[c]
      OBVIOUS
    <3>1. lru[b] = Cardinality(From(b)) /\ lru[c] = Cardinality(From(c))
      OBVIOUS
    <3>2. b < c \/ c < b
      BY BufAssumption, SMT, SMTT(30)
    <3> QED
      BY <2>2, <3>1, <3>2, Zenon
  <2>4. lru \in [Buf -> 1..Cardinality(Buf)]
    <3> DEFINE N == 1..Cardinality(Buf)
    <3>1. lru = [b \in Buf |-> Cardinality(From(b))]
      OBVIOUS
    <3>2. \A b \in Buf : Cardinality(From(b)) \in N
      BY <2>1, Zenon
    <3> HIDE DEF N, From
    <3>3. lru \in [Buf -> N]
      BY ONLY <3>1, <3>2, Zenon
    <3> QED
      BY <3>3, Zenon DEF N
  <2>5. data \in [Buf -> Val]
    BY ValAssumption, Zenon
  <2> QED
    BY <2>3, <2>4, <2>5, SMT, SMTT(30) DEF TypeOK, Pc
<1>2. CallsOK /\ NoLostWakeup
  BY Zenon DEF CallsOK, NoLostWakeup
<1>3. QueueOK /\ CmdOK
  BY SMT, SMTT(30) DEF QueueOK, CmdOK
<1> QED
  BY <1>1, <1>2, <1>3, Zenon DEF CacheInv, OneBufPerSector, BusyIsHeld, CleanIsSaved, OnlyBgetPanics

LEMMA CacheInvariant == Spec => []CacheInv
<1>1. CacheInv /\ [Next]_vars => CacheInv'
  <2> SUFFICES ASSUME CacheInv, [Next]_vars PROVE CacheInv'
    OBVIOUS
  <2>1. ASSUME NEW p \in Proc, Step(p) PROVE CacheInv'
    BY <2>1, BgetHitStep, BgetRecycleStep, BgetPanicStep, IderwStep, IderwQueueStep, IderwDoneStep,
       IderwMemStep, Zenon
       DEF Step
  <2>2. CASE UNCHANGED vars
    <3>1. UNCHANGED <<driver, lru, sector, flags, data, idequeue, cmd, disk, pc, want, chan, held, cur, panicked>>
      BY <2>2, Zenon DEF vars, cache, device, procs
    <3>2. TypeOK' /\ OneBufPerSector' /\ BusyIsHeld' /\ NoLostWakeup' /\ CleanIsSaved' /\ OnlyBgetPanics'
      BY <3>1, Zenon
         DEF CacheInv, TypeOK, OneBufPerSector, BusyIsHeld, NoLostWakeup, CleanIsSaved, OnlyBgetPanics
    <3>3. CallsOK' /\ QueueOK' /\ CmdOK'
      BY <3>1, SMT, SMTT(30) DEF CacheInv, CallsOK, InSync, QueueOK, CmdOK
    <3> QED
      BY <3>2, <3>3, Zenon DEF CacheInv
  <2> QED
    BY <2>1, <2>2, BreadStep, BwriteStep, LogWriteStep, BrelseStep, DiskDoneStep, IdeintrStep, Zenon
       DEF Next, Halted
<1> QED
  BY <1>1, CacheInit, PTL DEF Spec

\* A step of the cache keeps what it holds valid.
LEMMA ValidStep ==
  ASSUME CacheInv, CacheInv', ValidOK, [Next]_vars
  PROVE  ValidOK'
<1>0. /\ flags \in [Buf -> SUBSET Flag] /\ held \in [Proc -> SUBSET Buf]
      /\ pc \in [Proc -> Pc] /\ cur \in [Proc -> Buf \cup {NONE}]
  BY Zenon DEF CacheInv, TypeOK
<1>1. CASE UNCHANGED <<flags, held, pc, cur>>
  BY <1>1, Zenon DEF ValidOK
<1>2. ASSUME NEW p \in Proc, NEW b \in Buf, BgetHit(p, b) PROVE ValidOK'
  BY <1>0, <1>2, SMT, SMTT(30) DEF BgetHit, Got, ValidOK
<1>3. ASSUME NEW p \in Proc, NEW b \in Buf, BgetRecycle(p, b) PROVE ValidOK'
  <2>1. \A q \in Proc : b \notin held[q]
    BY <1>3, Zenon DEF BgetRecycle, LastFree, Free, CacheInv, BusyIsHeld
  <2> QED
    BY <1>0, <1>3, <2>1, SMT, SMTT(30) DEF BgetRecycle, Got, ValidOK
<1>4. ASSUME NEW p \in Proc, NEW b \in Buf, NEW v \in Val, Bwrite(p, b, v) \/ LogWrite(p, b, v) PROVE ValidOK'
  BY <1>0, <1>4, SMT, SMTT(30) DEF Bwrite, LogWrite, procs, ValidOK
<1>5. ASSUME NEW p \in Proc, NEW b \in Buf, Brelse(p, b) PROVE ValidOK'
  <2>1. \A q \in Proc : pc[q] \in {"iderw", "io"} => chan[q] # b
    BY SectorAssumption, Zenon DEF CacheInv, CallsOK
  <2> QED
    BY <1>0, <1>5, <2>1, SMT, SMTT(30) DEF Brelse, ValidOK
<1>6. ASSUME NEW p \in Proc, NEW b \in Buf, IderwQueue(p, b) \/ IderwDone(p, b) \/ IderwMem(p, b) PROVE ValidOK'
  BY <1>0, <1>6, SMT, SMTT(30) DEF IderwQueue, IderwDone, IderwMem, Synced, cache, ValidOK
<1>7. CASE Ideintr
  <2>1. Head(idequeue) \in Buf
    BY <1>7, Queued, FirstQueued, Zenon DEF Ideintr
  <2> QED
    BY <1>0, <1>7, <2>1, Zenon DEF Ideintr, Synced, procs, ValidOK
<1>8. ASSUME NEW p \in Proc, NEW s \in Sector, Bread(p, s) PROVE ValidOK'
  BY <1>0, <1>8, SMT, SMTT(30) DEF Bread, cache, ValidOK
<1>9. ASSUME NEW p \in Proc, BgetPanic(p) \/ \E b \in Buf : Iderw(p, b) PROVE ValidOK'
  BY <1>1, <1>9, Zenon DEF BgetPanic, Iderw, cache, procs
<1>10. CASE DiskDone \/ Halted \/ UNCHANGED vars
  BY <1>1, <1>10, Zenon DEF DiskDone, Halted, vars, cache, procs
<1> QED
  BY <1>2, <1>3, <1>4, <1>5, <1>6, <1>7, <1>8, <1>9, <1>10, Zenon DEF Next, Step

\* bget(), bread(), bwrite(), brelse(), iderw() and ideintr() keep the buffers,
\* their holders, the queue and the disk in agreement, and give a caller only
\* buffers with the contents of their sectors.
THEOREM BioInvariant == Spec => []BioInv
<1>1. Init => ValidOK
  BY Zenon DEF Init, ValidOK
<1>2. CacheInv /\ CacheInv' /\ ValidOK /\ [Next]_vars => ValidOK'
  BY ValidStep, Zenon
<1> QED
  BY <1>1, <1>2, CacheInvariant, PTL DEF Spec, BioInv

\* bget(), brelse(), iderw() and ideintr() keep the types of the buffers, and
\* the list of all buffers remains one.
THEOREM BioTypeCorrect == Spec => []TypeOK
BY BioInvariant, PTL DEF BioInv, CacheInv

\* bget() never makes a second buffer for a sector.
THEOREM OneBufPerSectorHolds == Spec => []OneBufPerSector
BY BioInvariant, PTL DEF BioInv, CacheInv

\* B_BUSY is a lock: a buffer that has it is held by one process.
THEOREM BusyIsHeldHolds == Spec => []BusyIsHeld
BY BioInvariant, PTL DEF BioInv, CacheInv

\* What iderw() has written is on disk, and what it has read is what is there.
THEOREM CleanIsSavedHolds == Spec => []CleanIsSaved
BY BioInvariant, PTL DEF BioInv, CacheInv

\* ideintr() finishes the request that the disk has carried out.
THEOREM QueueServedHolds == Spec => []QueueServed
<1>1. CacheInv => QueueServed
  <2> SUFFICES ASSUME CacheInv PROVE QueueServed
    OBVIOUS
  <2>1. cmd # NONE => cmd.sector = sector[idequeue[1]]
    BY FirstQueued, Zenon DEF CacheInv, CmdOK
  <2> QED
    BY <2>1, Zenon DEF CacheInv, CmdOK, QueueOK, QueueServed
<1> QED
  BY <1>1, CacheInvariant, PTL

\* A process sleeps in bget() only for a buffer that somebody will release.
THEOREM BgetIsWoken == Spec => []NoLostWakeup
BY BioInvariant, PTL DEF BioInv, CacheInv

\* iderw() is never called with a buffer that is not busy or has nothing to do.
THEOREM OnlyBgetPanicsHolds == Spec => []OnlyBgetPanics
BY BioInvariant, PTL DEF BioInv, CacheInv

-----------------------------------------------------------------------------
(* The store that the cache implements.                                    *)

\* The abstract owner and contents of a sector, in terms of its buffer.
OwnerIs ==
  /\ Holder \in [GoodSector -> Proc \cup {NONE}]
  /\ \A p \in Proc : \A b \in held[p] : sector[b] \in GoodSector => Holder[sector[b]] = p
  /\ \A s \in GoodSector : (\A p \in Proc : \A b \in held[p] : sector[b] # s) => Holder[s] = NONE
ContentsAre ==
  /\ Contents \in [GoodSector -> Val]
  /\ \A b \in Buf : sector[b] \in GoodSector /\ "VALID" \in flags[b] => Contents[sector[b]] = data[b]
  /\ \A s \in GoodSector : (\A b \in Buf : sector[b] = s => "VALID" \notin flags[b]) => Contents[s] = disk[s]

LEMMA Mapping == BioInv => OwnerIs /\ ContentsAre
<1> SUFFICES ASSUME BioInv PROVE OwnerIs /\ ContentsAre
  OBVIOUS
<1>0. /\ held \in [Proc -> SUBSET Buf] /\ sector \in [Buf -> Sector \cup {NONE}]
      /\ data \in [Buf -> Val] /\ disk \in [Sector -> Val]
  BY Zenon DEF BioInv, CacheInv, TypeOK
<1>1. ASSUME NEW p \in Proc, NEW b \in held[p], sector[b] \in GoodSector PROVE Holding(sector[b]) = {p}
  <2>1. \A q \in Proc : \A c \in held[q] : sector[c] = sector[b] => c = b
    BY <1>0, <1>1, SectorAssumption, Zenon DEF BioInv, CacheInv, OneBufPerSector, GoodSector
  <2>2. \A q \in Proc : b \in held[q] => q = p
    BY <1>0, Zenon DEF BioInv, CacheInv, BusyIsHeld
  <2> QED
    BY <2>1, <2>2, Zenon DEF Holding
<1>2. \A p \in Proc : \A b \in held[p] : sector[b] \in GoodSector => Holder[sector[b]] = p
  BY <1>1, SMT, SMTT(30) DEF Holder
<1>3. Holder \in [GoodSector -> Proc \cup {NONE}]
  BY Zenon DEF Holder, Holding
<1>4. \A s \in GoodSector : (\A p \in Proc : \A b \in held[p] : sector[b] # s) => Holder[s] = NONE
  BY Zenon DEF Holder, Holding
<1>5. ASSUME NEW b \in Buf, sector[b] \in GoodSector, "VALID" \in flags[b]
      PROVE  (CHOOSE c \in Buf : sector[c] = sector[b] /\ "VALID" \in flags[c]) = b
  BY <1>5, SectorAssumption, Zenon DEF BioInv, CacheInv, OneBufPerSector, GoodSector
<1>6. \A b \in Buf : sector[b] \in GoodSector /\ "VALID" \in flags[b] => Contents[sector[b]] = data[b]
  BY <1>5, Zenon DEF Contents
<1>7. \A s \in GoodSector : (\A b \in Buf : sector[b] = s => "VALID" \notin flags[b]) => Contents[s] = disk[s]
  BY Zenon DEF Contents
<1>8. Contents \in [GoodSector -> Val]
  <2>1. \A s \in GoodSector : Contents[s] \in Val
    BY <1>0, <1>6, <1>7, SMT, SMTT(30) DEF GoodSector
  <2> QED
    BY <2>1, Zenon DEF Contents
<1> QED
  BY <1>2, <1>3, <1>4, <1>6, <1>7, <1>8, Zenon DEF OwnerIs, ContentsAre

MappedInv == BioInv /\ OwnerIs /\ ContentsAre

Calling == {p \in Proc : pc[p] # "user"}

\* The owners stay if the buffers in use do.
LEMMA SameOwners ==
  ASSUME MappedInv, MappedInv', \A p \in Proc : held'[p] = held[p],
         \A p \in Proc : \A b \in held[p] : sector'[b] = sector[b]
  PROVE  Holder' = Holder
<1>1. Holder \in [GoodSector -> Proc \cup {NONE}] /\ Holder' \in [GoodSector -> Proc \cup {NONE}]
  BY Zenon DEF MappedInv, OwnerIs
<1>2. ASSUME NEW s \in GoodSector PROVE Holder'[s] = Holder[s]
  <2>1. CASE \E p \in Proc : \E b \in held[p] : sector[b] = s
    BY <2>1, SMT, SMTT(30) DEF MappedInv, OwnerIs
  <2>2. CASE \A p \in Proc : \A b \in held[p] : sector[b] # s
    BY <2>2, SMT, SMTT(30) DEF MappedInv, OwnerIs
  <2> QED
    BY <2>1, <2>2, Zenon
<1> QED
  BY <1>1, <1>2, SMT, SMTT(30)

\* A step on buffer b takes nothing away from the other buffers.
LEMMA SameContents ==
  ASSUME MappedInv, MappedInv', NEW b \in Buf,
         \A c \in Buf \ {b} : sector'[c] = sector[c] /\ data'[c] = data[c]
                              /\ ("VALID" \in flags'[c] <=> "VALID" \in flags[c]),
         \A s \in GoodSector \ {sector[b], sector'[b]} : disk'[s] = disk[s],
         sector[b] \in GoodSector => Contents'[sector[b]] = Contents[sector[b]],
         sector'[b] \in GoodSector => Contents'[sector'[b]] = Contents[sector'[b]]
  PROVE  Contents' = Contents
<1>1. Contents \in [GoodSector -> Val] /\ Contents' \in [GoodSector -> Val]
  BY Zenon DEF MappedInv, ContentsAre
<1>2. ASSUME NEW s \in GoodSector, s # sector[b], s # sector'[b] PROVE Contents'[s] = Contents[s]
  <2>1. CASE \E c \in Buf : sector[c] = s /\ "VALID" \in flags[c]
    BY <1>2, <2>1, SMT, SMTT(30) DEF MappedInv, ContentsAre
  <2>2. CASE \A c \in Buf : sector[c] = s => "VALID" \notin flags[c]
    <3>1. \A c \in Buf : sector'[c] = s => "VALID" \notin flags'[c]
      BY <1>2, <2>2, Zenon
    <3> QED
      BY <1>2, <2>2, <3>1, Zenon DEF MappedInv, ContentsAre
  <2> QED
    BY <2>1, <2>2, Zenon
<1> QED
  BY <1>1, <1>2, SMT, SMTT(30)

\* bget() gives a buffer that nobody holds to p.
LEMMA GotOwner ==
  ASSUME MappedInv, MappedInv', NEW p \in Proc, NEW b \in Buf, \A q \in Proc : b \notin held[q],
         \A c \in Buf \ {b} : sector'[c] = sector[c], held' = [held EXCEPT ![p] = @ \cup {b}]
  PROVE  IF sector'[b] \in GoodSector
         THEN Holder[sector'[b]] = NONE /\ Holder' = [Holder EXCEPT ![sector'[b]] = p]
         ELSE Holder' = Holder
<1>0. held \in [Proc -> SUBSET Buf] /\ held' \in [Proc -> SUBSET Buf]
  BY Zenon DEF MappedInv, BioInv, CacheInv, TypeOK
<1>1. Holder \in [GoodSector -> Proc \cup {NONE}] /\ Holder' \in [GoodSector -> Proc \cup {NONE}]
  BY Zenon DEF MappedInv, OwnerIs
<1>2. \A q \in Proc : \A c \in held[q] : c \in Buf \ {b} /\ c \in held'[q] /\ sector'[c] = sector[c]
  BY <1>0, Zenon
<1>3. \A q \in Proc : \A c \in held'[q] : c = b \/ c \in held[q]
  BY <1>0, Zenon
<1>4. ASSUME NEW s \in GoodSector, s # sector'[b] PROVE Holder'[s] = Holder[s]
  <2>1. CASE \E q \in Proc : \E c \in held[q] : sector[c] = s
    BY <1>2, <2>1, SMT, SMTT(30) DEF MappedInv, OwnerIs
  <2>2. CASE \A q \in Proc : \A c \in held[q] : sector[c] # s
    <3>1. \A q \in Proc : \A c \in held'[q] : sector'[c] # s
      BY <1>2, <1>3, <1>4, <2>2, Zenon
    <3> QED
      BY <2>2, <3>1, Zenon DEF MappedInv, OwnerIs
  <2> QED
    BY <2>1, <2>2, Zenon
<1>5. CASE sector'[b] \in GoodSector
  <2>1. \A q \in Proc : \A c \in held[q] : sector[c] # sector'[b]
    BY <1>2, <1>5, SectorAssumption, SMT, SMTT(30) DEF MappedInv, BioInv, CacheInv, OneBufPerSector, GoodSector
  <2>2. Holder[sector'[b]] = NONE
    BY <1>5, <2>1, Zenon DEF MappedInv, OwnerIs
  <2>3. b \in held'[p]
    BY <1>0, Zenon
  <2>4. Holder'[sector'[b]] = p
    BY <1>5, <2>3, Zenon DEF MappedInv, OwnerIs
  <2> QED
    BY <1>1, <1>4, <1>5, <2>2, <2>4, SMT, SMTT(30)
<1>6. CASE sector'[b] \notin GoodSector
  BY <1>1, <1>4, <1>6, SMT, SMTT(30)
<1> QED
  BY <1>5, <1>6, Zenon

\* brelse() gives a buffer back.
LEMMA ReleasedOwner ==
  ASSUME MappedInv, MappedInv', NEW p \in Proc, NEW b \in held[p], sector' = sector,
         held' = [held EXCEPT ![p] = @ \ {b}]
  PROVE  IF sector[b] \in GoodSector
         THEN Holder[sector[b]] = p /\ Holder' = [Holder EXCEPT ![sector[b]] = NONE]
         ELSE Holder' = Holder
<1>0. held \in [Proc -> SUBSET Buf] /\ held' \in [Proc -> SUBSET Buf]
  BY Zenon DEF MappedInv, BioInv, CacheInv, TypeOK
<1>1. Holder \in [GoodSector -> Proc \cup {NONE}] /\ Holder' \in [GoodSector -> Proc \cup {NONE}]
  BY Zenon DEF MappedInv, OwnerIs
<1>2. \A q \in Proc : \A c \in held'[q] : c \in held[q] /\ c # b
  BY <1>0, SMT, SMTT(30) DEF MappedInv, BioInv, CacheInv, BusyIsHeld
<1>3. \A q \in Proc : \A c \in held[q] : c # b => c \in held'[q]
  BY <1>0, Zenon
<1>4. ASSUME NEW s \in GoodSector, s # sector[b] PROVE Holder'[s] = Holder[s]
  <2>1. CASE \E q \in Proc : \E c \in held[q] : sector[c] = s
    BY <1>3, <1>4, <2>1, SMT, SMTT(30) DEF MappedInv, OwnerIs
  <2>2. CASE \A q \in Proc : \A c \in held[q] : sector[c] # s
    <3>1. \A q \in Proc : \A c \in held'[q] : sector'[c] # s
      BY <1>2, <2>2, Zenon
    <3> QED
      BY <2>2, <3>1, Zenon DEF MappedInv, OwnerIs
  <2> QED
    BY <2>1, <2>2, Zenon
<1>5. CASE sector[b] \in GoodSector
  <2>1. \A q \in Proc : \A c \in held'[q] : sector'[c] # sector[b]
    BY <1>0, <1>2, <1>5, SectorAssumption, Zenon
       DEF MappedInv, BioInv, CacheInv, OneBufPerSector, GoodSector
  <2>2. Holder'[sector[b]] = NONE
    BY <1>5, <2>1, Zenon DEF MappedInv, OwnerIs
  <2>3. Holder[sector[b]] = p
    BY <1>5, Zenon DEF MappedInv, OwnerIs
  <2> QED
    BY <1>1, <1>4, <1>5, <2>2, <2>3, Zenon
<1>6. CASE sector[b] \notin GoodSector
  BY <1>1, <1>4, <1>6, SMT, SMTT(30)
<1> QED
  BY <1>5, <1>6, Zenon

\* Every step of the cache and the disk is a step of the store, or leaves the
\* store as it is.
LEMMA StoreStep ==
  ASSUME MappedInv, MappedInv', [Next]_vars
  PROVE  [Promise!Next]_(Promise!vars)
<1>0. /\ flags \in [Buf -> SUBSET Flag] /\ held \in [Proc -> SUBSET Buf] /\ sector \in [Buf -> Sector \cup {NONE}]
      /\ data \in [Buf -> Val] /\ disk \in [Sector -> Val] /\ pc \in [Proc -> Pc]
  BY Zenon DEF MappedInv, BioInv, CacheInv, TypeOK
<1>1. ASSUME UNCHANGED <<held, sector>> PROVE Holder' = Holder
  BY <1>1, SMT, SMTT(30) DEF Holder, Holding
<1>2. ASSUME UNCHANGED <<sector, flags, data, disk>> PROVE Contents' = Contents
  BY <1>2, Zenon DEF Contents
<1>3. ASSUME Holder' = Holder, Contents' = Contents, Calling' = Calling
      PROVE  [Promise!Next]_(Promise!vars)
  BY <1>3, Zenon DEF Promise!vars, Calling
<1>4. ASSUME NEW p \in Proc, Holder' = Holder, Contents' = Contents,
             Calling' \in {Calling \cup {p}, Calling \ {p}}
      PROVE  [Promise!Next]_(Promise!vars)
  BY <1>4, Zenon DEF Promise!Next, Promise!Call, Calling
<1>5. ASSUME UNCHANGED <<held, sector, flags, data, disk, pc>> PROVE [Promise!Next]_(Promise!vars)
  BY <1>1, <1>2, <1>3, <1>5, Zenon DEF Calling
<1>6. ASSUME NEW p \in Proc, NEW s \in Sector, Bread(p, s) PROVE [Promise!Next]_(Promise!vars)
  <2>1. Calling' = Calling \cup {p}
    BY <1>0, <1>6, Zenon DEF Bread, Calling
  <2> QED
    BY <1>1, <1>2, <1>4, <1>6, <2>1, Zenon DEF Bread, cache, device
\* p has buffer b from bget().
<1>7. ASSUME NEW p \in Proc, NEW b \in Buf, NEW f, pc[p] = "bget", Got(p, b, f), \A q \in Proc : b \notin held[q],
             \A c \in Buf \ {b} : sector'[c] = sector[c], Contents' = Contents
      PROVE  [Promise!Next]_(Promise!vars)
  <2>1. held' = [held EXCEPT ![p] = @ \cup {b}]
    BY <1>7, Zenon DEF Got
  <2>2. p \in Calling /\ Calling' \in {Calling, Calling \ {p}}
    BY <1>0, <1>7, Zenon DEF Got, Calling
  <2>3. CASE sector'[b] \in GoodSector
    <3>1. PICK s \in GoodSector : s = sector'[b]
      BY <2>3, Zenon
    <3>2. Promise!Acquire(p, s)
      BY <1>7, <2>1, <2>2, <2>3, <3>1, GotOwner, Zenon DEF Promise!Acquire, Calling
    <3> QED
      BY <3>2, Zenon DEF Promise!Next
  <2>4. CASE sector'[b] \notin GoodSector
    BY <1>3, <1>4, <1>7, <2>1, <2>2, <2>4, GotOwner, Zenon
  <2> QED
    BY <2>3, <2>4, Zenon
<1>8. ASSUME NEW p \in Proc, NEW b \in Buf, BgetHit(p, b) PROVE [Promise!Next]_(Promise!vars)
  <2>1. CASE "BUSY" \notin flags[b]
    <3>1. Got(p, b, flags[b] \cup {"BUSY"}) /\ UNCHANGED <<sector, data, disk>> /\ pc[p] = "bget"
      BY <1>8, <2>1, Zenon DEF BgetHit, device
    <3>2. \A q \in Proc : b \notin held[q]
      BY <2>1, Zenon DEF MappedInv, BioInv, CacheInv, BusyIsHeld
    <3>3. \A c \in Buf : "VALID" \in flags'[c] <=> "VALID" \in flags[c]
      BY <1>0, <3>1, Zenon DEF Got
    <3>4. Contents' = Contents
      BY <3>1, <3>3, Zenon DEF Contents
    <3> QED
      BY <1>7, <3>1, <3>2, <3>4, Zenon
  <2>2. CASE "BUSY" \in flags[b]
    <3>1. Calling' = Calling /\ UNCHANGED <<held, sector, flags, data, disk>>
      BY <1>0, <1>8, <2>2, Zenon DEF BgetHit, Calling, device
    <3> QED
      BY <1>1, <1>2, <1>3, <3>1, Zenon
  <2> QED
    BY <2>1, <2>2, Zenon
<1>9. ASSUME NEW p \in Proc, NEW b \in Buf, BgetRecycle(p, b) PROVE [Promise!Next]_(Promise!vars)
  <2>1. /\ Got(p, b, {"BUSY"}) /\ pc[p] = "bget" /\ sector' = [sector EXCEPT ![b] = want[p]]
        /\ UNCHANGED <<data, disk>> /\ flags[b] \cap {"BUSY", "DIRTY"} = {}
        /\ flags' = [flags EXCEPT ![b] = {"BUSY"}]
        /\ \A c \in Buf : sector[c] # want[p]
    BY <1>9, Zenon DEF BgetRecycle, LastFree, Free, device, Got
  <2>2. \A q \in Proc : b \notin held[q]
    BY <2>1, Zenon DEF MappedInv, BioInv, CacheInv, BusyIsHeld
  <2>3. sector'[b] = want[p] /\ "VALID" \notin flags'[b] /\ \A c \in Buf \ {b} : sector'[c] = sector[c] /\ flags'[c] = flags[c]
    BY <1>0, <2>1, Zenon
  <2>4. sector[b] \in GoodSector => Contents'[sector[b]] = Contents[sector[b]]
    <3>1. ASSUME sector[b] \in GoodSector PROVE Contents'[sector[b]] = Contents[sector[b]]
      <4>1. \A c \in Buf \ {b} : sector[c] # sector[b]
        BY <3>1, SectorAssumption, Zenon DEF MappedInv, BioInv, CacheInv, OneBufPerSector, GoodSector
      <4>2. Contents[sector[b]] = disk[sector[b]]
        <5>1. CASE "VALID" \in flags[b]
          BY <2>1, <3>1, <5>1, SMT, SMTT(30) DEF MappedInv, ContentsAre, BioInv, CacheInv, CleanIsSaved
        <5>2. CASE "VALID" \notin flags[b]
          BY <3>1, <4>1, <5>2, Zenon DEF MappedInv, ContentsAre
        <5> QED
          BY <5>1, <5>2, Zenon
      <4>3. \A c \in Buf : sector'[c] # sector[b]
        BY <2>1, <2>3, <4>1, Zenon
      <4>4. Contents'[sector[b]] = disk'[sector[b]]
        BY <3>1, <4>3, Zenon DEF MappedInv, ContentsAre
      <4> QED
        BY <2>1, <4>2, <4>4, Zenon
    <3> QED
      BY <3>1, Zenon
  <2>5. sector'[b] \in GoodSector => Contents'[sector'[b]] = Contents[sector'[b]]
    <3>1. ASSUME sector'[b] \in GoodSector PROVE Contents'[sector'[b]] = Contents[sector'[b]]
      <4>0. \A c \in Buf : sector[c] # sector'[b]
        BY <2>1, <2>3, Zenon
      <4>1. Contents[sector'[b]] = disk[sector'[b]]
        BY <3>1, <4>0, Zenon DEF MappedInv, ContentsAre
      <4>2. \A c \in Buf : sector'[c] = sector'[b] => "VALID" \notin flags'[c]
        BY <2>1, <2>3, Zenon
      <4> QED
        BY <2>1, <3>1, <4>1, <4>2, ZenonT(30) DEF MappedInv, ContentsAre
    <3> QED
      BY <3>1, Zenon
  <2>6. Contents' = Contents
    BY <2>1, <2>3, <2>4, <2>5, SameContents, Zenon
  <2> QED
    BY <1>7, <2>1, <2>2, <2>3, <2>6, Zenon
\* The holder changes the contents of b.
<1>10. ASSUME NEW p \in Proc, NEW b \in Buf, NEW v \in Val, Bwrite(p, b, v) \/ LogWrite(p, b, v)
       PROVE  [Promise!Next]_(Promise!vars)
  <2>1. /\ pc[p] = "user" /\ b \in held[p] /\ data' = [data EXCEPT ![b] = v]
        /\ flags' = [flags EXCEPT ![b] = @ \cup {"DIRTY"}] /\ UNCHANGED <<sector, held, disk>>
    BY <1>10, Zenon DEF Bwrite, LogWrite, device, procs
  <2>2. Calling' \in {Calling, Calling \cup {p}} /\ p \notin Calling
    BY <1>0, <1>10, SMT, SMTT(30) DEF Bwrite, LogWrite, procs, Calling
  <2>3. "VALID" \in flags[b] /\ \A c \in Buf : "VALID" \in flags'[c] <=> "VALID" \in flags[c]
    BY <1>0, <2>1, SMT, SMTT(30) DEF MappedInv, BioInv, ValidOK
  <2>4. Holder' = Holder
    BY <1>1, <2>1, Zenon
  <2>5. CASE sector[b] \in GoodSector
    <3>1. Contents'[sector[b]] = v
      BY <1>0, <2>1, <2>3, <2>5, ZenonT(30) DEF MappedInv, ContentsAre
    <3>2. ASSUME NEW s \in GoodSector, s # sector[b] PROVE Contents'[s] = Contents[s]
      <4>1. CASE \E c \in Buf : sector[c] = s /\ "VALID" \in flags[c]
        BY <1>0, <2>1, <2>3, <3>2, <4>1, SMT, SMTT(30) DEF MappedInv, ContentsAre
      <4>2. CASE \A c \in Buf : sector[c] = s => "VALID" \notin flags[c]
        BY <2>1, <2>3, <4>2, Zenon DEF MappedInv, ContentsAre
      <4> QED
        BY <4>1, <4>2, Zenon
    <3>3. Contents' = [Contents EXCEPT ![sector[b]] = v]
      BY <2>5, <3>1, <3>2, Zenon DEF MappedInv, ContentsAre
    <3>4. Holder[sector[b]] = p
      BY <2>1, <2>5, Zenon DEF MappedInv, OwnerIs
    <3>5. Promise!Store(p, sector[b], v)
      BY <2>2, <2>4, <3>3, <3>4, Zenon DEF Promise!Store, Calling
    <3> QED
      BY <2>5, <3>5, Zenon DEF Promise!Next
  <2>6. CASE sector[b] \notin GoodSector
    <3>1. Contents' = Contents
      BY <1>0, <2>1, <2>3, <2>6, SameContents, Zenon
    <3> QED
      BY <1>3, <1>4, <2>2, <2>4, <3>1, Zenon
  <2> QED
    BY <2>5, <2>6, Zenon
<1>11. ASSUME NEW p \in Proc, NEW b \in Buf, Brelse(p, b) PROVE [Promise!Next]_(Promise!vars)
  <2>1. /\ pc[p] = "user" /\ b \in held[p] /\ flags' = [flags EXCEPT ![b] = @ \ {"BUSY"}]
        /\ held' = [held EXCEPT ![p] = @ \ {b}] /\ UNCHANGED <<sector, data, disk>>
    BY <1>11, Zenon DEF Brelse, device
  <2>2. Contents' = Contents
    <3>1. \A c \in Buf : "VALID" \in flags'[c] <=> "VALID" \in flags[c]
      BY <1>0, <2>1, Zenon
    <3> QED
      BY <2>1, <3>1, Zenon DEF Contents
  <2>3. Calling' = Calling /\ p \notin Calling
    <3>1. \A q \in Proc : chan[q] = b => pc[q] = "sleep"
      BY SectorAssumption, Zenon DEF MappedInv, BioInv, CacheInv, CallsOK
    <3> QED
      BY <1>0, <1>11, <3>1, Zenon DEF Brelse, Calling
  <2>4. CASE sector[b] \in GoodSector
    <3>1. Promise!Release(p, sector[b])
      BY <2>1, <2>2, <2>3, <2>4, ReleasedOwner, Zenon DEF Promise!Release, Calling
    <3> QED
      BY <2>4, <3>1, Zenon DEF Promise!Next
  <2>5. CASE sector[b] \notin GoodSector
    BY <1>3, <2>1, <2>2, <2>3, <2>5, ReleasedOwner, Zenon
  <2> QED
    BY <2>4, <2>5, Zenon
\* The driver: p, if any, returns from its call.
<1>12. ASSUME NEW p \in Proc, NEW b \in Buf, IderwDone(p, b) PROVE [Promise!Next]_(Promise!vars)
  <2>1. Calling' = Calling \ {p} /\ UNCHANGED <<held, sector, flags, data, disk>>
    BY <1>0, <1>12, Zenon DEF IderwDone, Calling, cache, device
  <2> QED
    BY <1>1, <1>2, <1>4, <2>1, Zenon
<1>13. ASSUME NEW p \in Proc, NEW b \in Buf, IderwMem(p, b) PROVE [Promise!Next]_(Promise!vars)
  <2>1. Calling' = Calling \ {p} /\ UNCHANGED <<held, sector>> /\ flags' = [flags EXCEPT ![b] = Synced(@)]
    BY <1>0, <1>13, Zenon DEF IderwMem, Calling
  <2>2. sector[b] \in Sector /\ ~InSync(b)
    BY <1>0, <1>13, Zenon DEF IderwMem, MappedInv, BioInv, CacheInv, CallsOK
  <2>3. \A c \in Buf \ {b} : data'[c] = data[c] /\ flags'[c] = flags[c]
    BY <1>0, <1>13, Zenon DEF IderwMem
  <2>4. "VALID" \in flags'[b]
    BY <1>0, <2>1, Zenon DEF Synced
  <2>5. \A s \in GoodSector \ {sector[b]} : disk'[s] = disk[s]
    BY <1>0, <1>13, Zenon DEF IderwMem, GoodSector
  <2>6. ASSUME sector[b] \in GoodSector PROVE Contents'[sector[b]] = Contents[sector[b]]
    <3>1. Contents'[sector[b]] = data'[b]
      BY <2>1, <2>4, <2>6, Zenon DEF MappedInv, ContentsAre
    <3>2. CASE "DIRTY" \in flags[b]
      <4>1. data' = data /\ "VALID" \in flags[b]
        BY <1>13, <3>2, Zenon DEF IderwMem, MappedInv, BioInv, ValidOK
      <4> QED
        BY <2>6, <3>1, <4>1, Zenon DEF MappedInv, ContentsAre
    <3>3. CASE "DIRTY" \notin flags[b]
      <4>1. data'[b] = disk[sector[b]] /\ "VALID" \notin flags[b]
        BY <1>0, <1>13, <2>2, <3>3, Zenon DEF IderwMem, InSync
      <4>2. \A c \in Buf : sector[c] = sector[b] => c = b
        BY <2>6, SectorAssumption, Zenon DEF MappedInv, BioInv, CacheInv, OneBufPerSector, GoodSector
      <4>3. Contents[sector[b]] = disk[sector[b]]
        BY <2>6, <4>1, <4>2, Zenon DEF MappedInv, ContentsAre
      <4> QED
        BY <3>1, <4>1, <4>3, Zenon
    <3> QED
      BY <3>2, <3>3, Zenon
  <2>7. Contents' = Contents
    BY <2>1, <2>3, <2>5, <2>6, SameContents, Zenon
  <2> QED
    BY <1>1, <1>4, <2>1, <2>7, Zenon
\* A write goes to the disk from a buffer that stays valid.
<1>14. CASE DiskDone
  <2>1. UNCHANGED <<held, sector, flags, data, pc>>
    BY <1>14, Zenon DEF DiskDone, cache, procs
  <2>2. CASE cmd.op = "write"
    <3> DEFINE b == Head(idequeue)
    <3>1. b \in Buf /\ cmd.sector = sector[b] /\ "VALID" \in flags[b]
      BY <1>14, <2>2, Queued, FirstQueued, SMT, SMTT(30) DEF DiskDone, MappedInv, BioInv, CacheInv, CmdOK, ValidOK
    <3>2. \A s \in GoodSector \ {sector[b]} : disk'[s] = disk[s]
      BY <1>0, <1>14, <3>1, Zenon DEF DiskDone, GoodSector
    <3> HIDE DEF b
    <3>3. sector[b] \in GoodSector => Contents'[sector[b]] = Contents[sector[b]]
      BY <2>1, <3>1, SMT, SMTT(30) DEF MappedInv, ContentsAre
    <3>4. Contents' = Contents
      BY <2>1, <3>1, <3>2, <3>3, SameContents, Zenon
    <3> QED
      BY <1>1, <1>3, <2>1, <3>4, Zenon DEF Calling
  <2>3. CASE cmd.op # "write"
    BY <1>5, <1>14, <2>1, <2>3, Zenon DEF DiskDone
  <2> QED
    BY <2>2, <2>3, Zenon
<1>15. CASE Ideintr
  <2> DEFINE b == Head(idequeue)
  <2>1. /\ cmd # NONE /\ cmd.done /\ flags' = [flags EXCEPT ![b] = Synced(@)]
        /\ data' = IF "DIRTY" \notin flags[b] /\ sector[b] \notin BadSector
                   THEN [data EXCEPT ![b] = cmd.val] ELSE data
        /\ UNCHANGED <<sector, disk, held, pc>>
    BY <1>15, Zenon DEF Ideintr, procs
  <2>2. b \in Buf /\ ~InSync(b) /\ cmd.sector = sector[b] /\ cmd.val = disk[sector[b]]
    BY <2>1, Queued, FirstQueued, SMT, SMTT(30) DEF MappedInv, BioInv, CacheInv, QueueOK, CmdOK
  <2> HIDE DEF b
  <2>3. "VALID" \in flags'[b] /\ \A c \in Buf \ {b} : data'[c] = data[c] /\ flags'[c] = flags[c]
    BY <1>0, <2>1, <2>2, Zenon DEF Synced
  <2>4. ASSUME sector[b] \in GoodSector PROVE Contents'[sector[b]] = Contents[sector[b]]
    <3>1. Contents'[sector[b]] = data'[b]
      BY <2>1, <2>2, <2>3, <2>4, Zenon DEF MappedInv, ContentsAre
    <3>2. CASE "DIRTY" \in flags[b]
      <4>1. data' = data /\ "VALID" \in flags[b]
        BY <2>1, <2>2, <3>2, Zenon DEF MappedInv, BioInv, ValidOK
      <4> QED
        BY <2>2, <2>4, <3>1, <4>1, Zenon DEF MappedInv, ContentsAre
    <3>3. CASE "DIRTY" \notin flags[b]
      <4>1. data'[b] = disk[sector[b]] /\ "VALID" \notin flags[b]
        BY <1>0, <2>1, <2>2, <2>4, <3>3, Zenon DEF InSync, GoodSector
      <4>2. \A c \in Buf : sector[c] = sector[b] => c = b
        BY <2>2, <2>4, SectorAssumption, Zenon
           DEF MappedInv, BioInv, CacheInv, OneBufPerSector, GoodSector
      <4>3. Contents[sector[b]] = disk[sector[b]]
        BY <2>4, <4>1, <4>2, Zenon DEF MappedInv, ContentsAre
      <4> QED
        BY <3>1, <4>1, <4>3, Zenon
    <3> QED
      BY <3>2, <3>3, Zenon
  <2>5. Contents' = Contents
    BY <2>1, <2>2, <2>3, <2>4, SameContents, Zenon
  <2> QED
    BY <1>1, <1>3, <2>1, <2>5, Zenon DEF Calling
<1>16. ASSUME NEW p \in Proc, NEW b \in Buf, IderwQueue(p, b) PROVE [Promise!Next]_(Promise!vars)
  <2>1. Calling' = Calling /\ UNCHANGED <<held, sector, flags, data, disk>>
    BY <1>0, <1>16, Zenon DEF IderwQueue, Calling, cache
  <2> QED
    BY <1>1, <1>2, <1>3, <2>1, Zenon
<1>17. ASSUME NEW p \in Proc, BgetPanic(p) \/ \E b \in Buf : Iderw(p, b) PROVE [Promise!Next]_(Promise!vars)
  BY <1>5, <1>17, Zenon DEF BgetPanic, Iderw, cache, device, procs
<1>18. CASE Halted \/ UNCHANGED vars
  BY <1>5, <1>18, Zenon DEF Halted, vars, cache, device, procs
<1> QED
  BY <1>6, <1>8, <1>9, <1>10, <1>11, <1>12, <1>13, <1>14, <1>15, <1>16, <1>17, <1>18, Zenon
     DEF Next, Step

\* The cache over either driver implements the store: whatever is cached,
\* recycled, queued or written back, a sector has one contents, and only the
\* process between bread() and brelse() of it changes that.
THEOREM CacheIsStore == Spec => StoreSpec
<1>1. Init => Promise!Init
  <2> SUFFICES ASSUME Init PROVE Promise!Init
    OBVIOUS
  <2>1. Holder = [s \in GoodSector |-> NONE]
    BY Zenon DEF Init, Holder, Holding
  <2>2. Contents \in [GoodSector -> Val]
    BY Zenon DEF Init, Contents, GoodSector
  <2> QED
    BY <2>1, <2>2, Zenon DEF Init, Promise!Init
<1>2. MappedInv /\ MappedInv' /\ [Next]_vars => [Promise!Next]_(Promise!vars)
  BY StoreStep, Zenon
<1> QED
  BY <1>1, <1>2, BioInvariant, Mapping, PTL DEF Spec, StoreSpec, Promise!Spec, MappedInv
=============================================================================
