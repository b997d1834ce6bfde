----------------------------- MODULE LogProofs -----------------------------
(***************************************************************************)
(* The log implements AtomicDisk, for every set of blocks and contents and *)
(* every size of the log.  LogInv is inductive together with TypeOK.       *)
(***************************************************************************)
EXTENDS Log, TLAPS

\* No block occurs twice in a header.
Distinct(h) == \A i, j \in DOMAIN h : h[i] = h[j] => i = j

\* Recovery gives a listed block the contents the log has for it ...
LEMMA OverlayListed ==
  ASSUME NEW f, NEW l, NEW h \in Seq(Block), Distinct(h), NEW i \in DOMAIN h
  PROVE  Overlay(f, h, l)[h[i]] = l[i]
<1> DEFINE j == CHOOSE k \in DOMAIN h : h[k] = h[i]
<1>1. j \in DOMAIN h /\ h[j] = h[i]
  OBVIOUS
<1>2. j = i
  BY <1>1, Zenon DEF Distinct
<1>3. h[i] \in Block
  OBVIOUS
<1> HIDE DEF j
<1>4. Overlay(f, h, l)[h[i]] = l[j]
  BY <1>3, Zenon DEF Overlay, j
<1> QED
  BY <1>2, <1>4, Zenon

\* ... and leaves the others alone.
LEMMA OverlayOther ==
  ASSUME NEW f, NEW l, NEW h \in Seq(Block), NEW b \in Block,
         \A i \in DOMAIN h : h[i] # b
  PROVE  Overlay(f, h, l)[b] = f[b]
BY Zenon DEF Overlay

LEMMA TypeStep == TypeOK /\ [Next]_vars => TypeOK'
<1> SUFFICES ASSUME TypeOK, [Next]_vars PROVE TypeOK'
  OBVIOUS
<1> USE LogSizeAssumption, LogBlocksAssumption
<1>1. ASSUME NEW b \in Block, Bread(b) PROVE TypeOK'
  BY <1>1, Zenon DEF TypeOK, Bread, Cached, onDisk
<1>2. ASSUME NEW b \in Block, Recycle(b) PROVE TypeOK'
  BY <1>2, Zenon DEF TypeOK, Recycle, onDisk
<1>3. ASSUME Lose PROVE TypeOK'
  BY <1>3 DEF TypeOK, Lose, onDisk, NoBuffers, Sectors, Mode
<1>4. ASSUME NEW b \in Block, NEW v \in Val, LogWrite(b, v) PROVE TypeOK'
  <2>1. buf' \in [DOMAIN buf' -> Val] /\ DOMAIN buf' \subseteq Block
    BY <1>4, Zenon DEF LogWrite, Cached, TypeOK
  <2>2. lh' \in Sectors
    BY <1>4 DEF LogWrite, TooBig, Sectors, TypeOK
  <2>3. logDisk' \in [LogIndex -> Val]
    BY <1>4, Zenon DEF LogWrite, TypeOK
  <2> QED
    BY <1>4, <2>1, <2>2, <2>3, Zenon DEF LogWrite, TypeOK
<1>5. ASSUME BeginTrans PROVE TypeOK'
  BY <1>5, Zenon DEF BeginTrans, TypeOK, onDisk, inMemory, Mode
<1>6. ASSUME WriteHead PROVE TypeOK'
  BY <1>6 DEF WriteHead, TypeOK, Mode
<1>7. ASSUME Install PROVE TypeOK'
  <2>1. lh[tail] \in Block /\ logDisk[tail] \in Val
    BY <1>7 DEF Install, TypeOK, Sectors, LogIndex
  <2> QED
    BY <1>7, <2>1 DEF Install, TypeOK, Cached
<1>8. ASSUME EraseHead PROVE TypeOK'
  BY <1>8 DEF EraseHead, TypeOK, Sectors, Mode
<1>9. ASSUME Release PROVE TypeOK'
  BY <1>9, Zenon DEF Release, TypeOK, onDisk, inMemory, Mode
<1>10. ASSUME InitLog PROVE TypeOK'
  BY <1>10 DEF InitLog, TypeOK, onDisk, Mode
<1>11. CASE UNCHANGED vars
  BY <1>11, Zenon DEF vars, onDisk, inMemory, TypeOK
<1> QED
  BY <1>1, <1>2, <1>3, <1>4, <1>5, <1>6, <1>7, <1>8, <1>9, <1>10, <1>11, Zenon DEF Next, Crash, Panic

LEMMA InvStep == TypeOK /\ LogInv /\ [Next]_vars => LogInv'
<1> SUFFICES ASSUME TypeOK, LogInv, [Next]_vars PROVE LogInv'
  OBVIOUS
<1> USE LogSizeAssumption, LogBlocksAssumption
<1> USE DEF LogInv, HeadersAgree, BuffersLogged, InstalledBelowTail
<1>1. ASSUME NEW b \in Block, Bread(b) PROVE LogInv'
  BY <1>1 DEF TypeOK, Bread, Cached, onDisk
<1>2. ASSUME NEW b \in Block, Recycle(b) PROVE LogInv'
  BY <1>2 DEF TypeOK, Recycle, onDisk
<1>3. ASSUME Lose PROVE LogInv'
  BY <1>3 DEF TypeOK, Lose, onDisk, NoBuffers, Sectors
<1>4. ASSUME NEW b \in Block, NEW v \in Val, LogWrite(b, v) PROVE LogInv'
  <2>1. LogPlace(b) \in 1..(Len(lh) + 1)
    BY DEF LogPlace, TypeOK, Sectors
  <2>2. CASE \E i \in DOMAIN lh : lh[i] = b
    <3>1. LogPlace(b) \in DOMAIN lh /\ lh[LogPlace(b)] = b
      BY <2>2, Zenon DEF LogPlace
    <3>2. lh' = lh
      BY <1>4, <3>1 DEF LogWrite, TypeOK, Sectors
    <3>3. HeadersAgree' /\ InstalledBelowTail'
      BY <1>4, <3>2, Zenon DEF LogWrite
    <3>4. BuffersLogged'
      <4>1. logDisk'[LogPlace(b)] = v
            /\ \A i \in DOMAIN lh : i # LogPlace(b) => logDisk'[i] = logDisk[i]
        BY <1>4, <3>1 DEF LogWrite, TypeOK, Sectors, LogIndex
      <4>2. ASSUME NEW x \in dirty'
            PROVE  x \in DOMAIN buf' /\ \E i \in DOMAIN lh : lh[i] = x /\ logDisk'[i] = buf'[x]
        BY <1>4, <3>1, <4>1, <4>2 DEF LogWrite, Cached
      <4>3. \A x \in DOMAIN buf' \ dirty' : buf'[x] = disk'[x]
        BY <1>4, Zenon DEF LogWrite, Cached
      <4> QED
        BY <3>2, <4>2, <4>3, Zenon
    <3> QED
      BY <3>3, <3>4, Zenon
  <2>3. CASE \A i \in DOMAIN lh : lh[i] # b
    <3>1. LogPlace(b) = Len(lh) + 1
      BY <2>3, Zenon DEF LogPlace
    <3>2. /\ lh' = Append(lh, b) /\ DOMAIN lh' = 1..(Len(lh) + 1)
          /\ \A i \in DOMAIN lh : lh'[i] = lh[i]
          /\ lh'[Len(lh) + 1] = b
      BY <1>4, <3>1 DEF LogWrite, TypeOK, Sectors
    <3>3. HeadersAgree' /\ InstalledBelowTail'
      BY <1>4, <2>3, <3>2, SMT, SMTT(30) DEF LogWrite, TypeOK, Sectors
    <3>4. BuffersLogged'
      <4>1. logDisk'[Len(lh) + 1] = v
            /\ \A i \in DOMAIN lh : logDisk'[i] = logDisk[i]
        BY <1>4, <3>1 DEF LogWrite, TooBig, TypeOK, Sectors, LogIndex
      <4>2. ASSUME NEW x \in dirty'
            PROVE  x \in DOMAIN buf' /\ \E i \in DOMAIN lh' : lh'[i] = x /\ logDisk'[i] = buf'[x]
        <5>1. CASE x = b
          <6>1. Len(lh) + 1 \in DOMAIN lh'
            BY <3>2 DEF TypeOK, Sectors
          <6> QED
            BY <1>4, <3>2, <4>1, <5>1, <6>1, Zenon DEF LogWrite, Cached
        <5>2. CASE x # b
          <6>1. PICK i \in DOMAIN lh : lh[i] = x /\ logDisk[i] = buf[x]
            BY <1>4, <4>2, <5>2, Zenon DEF LogWrite
          <6>2. i \in DOMAIN lh' /\ lh'[i] = x /\ logDisk'[i] = buf[x]
            BY <3>2, <4>1, <6>1 DEF TypeOK, Sectors
          <6>3. x \in DOMAIN buf' /\ buf'[x] = buf[x]
            BY <1>4, <4>2, <5>2, Zenon DEF LogWrite, Cached
          <6> QED
            BY <6>2, <6>3, Zenon
        <5> QED
          BY <5>1, <5>2, Zenon
      <4>3. \A x \in DOMAIN buf' \ dirty' : buf'[x] = disk'[x]
        BY <1>4, Zenon DEF LogWrite, Cached
      <4> QED
        BY <4>2, <4>3, Zenon
    <3> QED
      BY <3>3, <3>4, Zenon
  <2> QED
    BY <2>2, <2>3, Zenon
<1>5. ASSUME BeginTrans PROVE LogInv'
  BY <1>5 DEF BeginTrans, TypeOK, Sectors, onDisk, inMemory
<1>6. ASSUME WriteHead PROVE LogInv'
  BY <1>6 DEF WriteHead, TypeOK, Sectors
<1>7. ASSUME Install PROVE LogInv'
  <2>1. tail \in DOMAIN lh /\ lh[tail] \in Block /\ tail \in LogIndex
    BY <1>7 DEF Install, TypeOK, Sectors, LogIndex
  <2>2. HeadersAgree'
    BY <1>7, Zenon DEF Install
  <2>3. BuffersLogged'
    <3>1. /\ disk' = [disk EXCEPT ![lh[tail]] = logDisk[tail]] /\ buf' = Cached(buf, lh[tail], logDisk[tail])
          /\ dirty' = dirty \ {lh[tail]} /\ UNCHANGED <<lh, logDisk>>
      BY <1>7, Zenon DEF Install
    <3>2. DOMAIN buf' = DOMAIN buf \cup {lh[tail]} /\ buf'[lh[tail]] = logDisk[tail]
          /\ \A b \in DOMAIN buf : b # lh[tail] => buf'[b] = buf[b]
      BY <3>1, Zenon DEF Cached
    <3>3. disk'[lh[tail]] = logDisk[tail] /\ \A b \in Block : b # lh[tail] => disk'[b] = disk[b]
      <4>1. disk \in [Block -> Val]
        BY Zenon DEF TypeOK
      <4> QED
        BY <2>1, <3>1, <4>1
    <3>4. \A b \in DOMAIN buf' \ dirty' : buf'[b] = disk'[b]
      <4>1. DOMAIN buf \subseteq Block
        BY DEF TypeOK
      <4> QED
        BY <3>1, <3>2, <3>3, <4>1, Zenon DEF BuffersLogged
    <3>5. \A b \in dirty' : b \in DOMAIN buf' /\ \E i \in DOMAIN lh' : lh'[i] = b /\ logDisk'[i] = buf'[b]
      BY <3>1, <3>2 DEF BuffersLogged
    <3> QED
      BY <3>4, <3>5, Zenon DEF BuffersLogged
  <2>4. \A i \in 1..(tail' - 1) : disk'[lh[i]] = logDisk[i] /\ lh[i] \notin dirty'
    <3> SUFFICES ASSUME NEW i \in 1..tail
                 PROVE  disk'[lh[i]] = logDisk[i] /\ lh[i] \notin dirty'
      BY <1>7, SMT, SMTT(30) DEF Install, TypeOK
    <3>1. CASE i = tail
      BY <1>7, <2>1, <3>1 DEF Install, TypeOK
    <3>2. CASE i # tail
      <4>1. i \in 1..(tail - 1) /\ i \in DOMAIN lh /\ lh[i] # lh[tail]
        BY <2>1, <3>2 DEF TypeOK, Sectors
      <4> QED
        BY <1>7, <2>1, <4>1, SMT, SMTT(30) DEF Install, TypeOK
    <3> QED
      BY <3>1, <3>2, Zenon
  <2>5. \A i \in DOMAIN lh : mode = "install" /\ i >= tail' => lh[i] \in dirty'
    BY <1>7, <2>1, SMT, SMTT(30) DEF Install, TypeOK, Sectors
  <2>6. InstalledBelowTail'
    BY <1>7, <2>1, <2>4, <2>5, SMT, SMTT(30) DEF Install, TypeOK, Sectors
  <2> QED
    BY <2>2, <2>3, <2>6, Zenon
<1>8. ASSUME EraseHead PROVE LogInv'
  <2>1. dirty = {}
    <3>1. \A i \in DOMAIN lh : lh[i] \notin dirty
      BY <1>8, SMT, SMTT(30) DEF EraseHead, TypeOK, Sectors
    <3> QED
      BY <1>8, <3>1 DEF EraseHead
  <2> QED
    BY <1>8, <2>1 DEF EraseHead, TypeOK, Sectors
<1>9. ASSUME Release PROVE LogInv'
  BY <1>9 DEF Release, TypeOK, Sectors, onDisk, inMemory
<1>10. ASSUME InitLog PROVE LogInv'
  BY <1>10 DEF InitLog, TypeOK, Sectors, onDisk
<1>11. CASE UNCHANGED vars
  BY <1>11, Zenon DEF vars, onDisk, inMemory
<1> QED
  BY <1>1, <1>2, <1>3, <1>4, <1>5, <1>6, <1>7, <1>8, <1>9, <1>10, <1>11, Zenon DEF Next, Crash, Panic

\* The disk, the buffers and the headers hold values of their types for ever.
THEOREM LogTypeCorrect == Spec => []TypeOK
<1>1. Init => TypeOK
  BY LogBlocksAssumption DEF Init, TypeOK, NoBuffers, Sectors, Mode
<1> QED
  BY <1>1, TypeStep, PTL DEF Spec

\* The log, the buffers and the disk agree in every state, also while a
\* transaction is being installed or recovered.
THEOREM LogInvariant == Spec => []LogInv
<1>1. Init => LogInv
  BY DEF Init, LogInv, HeadersAgree, BuffersLogged, InstalledBelowTail, NoBuffers
<1> QED
  BY <1>1, InvStep, LogTypeCorrect, PTL DEF Spec

\* With an empty header the disk is what recovery leaves.
LEMMA StableIsDisk ==
  ASSUME NEW f \in [Block -> Val], NEW l
  PROVE  Overlay(f, <<>>, l) = f
BY DEF Overlay

\* While no buffer is dirty, bread() returns what is on disk.
LEMMA CleanView ==
  ASSUME TypeOK, BuffersLogged, dirty = {}, Running
  PROVE  View = disk
BY Zenon DEF TypeOK, BuffersLogged, View

\* Every step of the log is a step of AtomicDisk or changes nothing there.
LEMMA StepSimulation ==
  ASSUME TypeOK, LogInv, TypeOK', LogInv', [Next]_vars
  PROVE  [Atomic!Next]_(Atomic!vars)
<1> DEFINE Same == UNCHANGED <<Stable, View, Phase>>
<1>1. ASSUME NEW b \in Block, Bread(b) PROVE Same
  <2>1. UNCHANGED <<Stable, Phase, Running>>
    BY <1>1, Zenon DEF Bread, onDisk, Stable, Phase, Running
  <2>2. UNCHANGED View
    BY <1>1, <2>1, Zenon DEF Bread, View, Running, Cached, onDisk
  <2> QED
    BY <2>1, <2>2, Zenon
<1>2. ASSUME NEW b \in Block, Recycle(b) PROVE Same
  <2>1. UNCHANGED <<Stable, Phase, Running>>
    BY <1>2, Zenon DEF Recycle, onDisk, Stable, Phase, Running
  <2>2. UNCHANGED View
    BY <1>2, <2>1 DEF Recycle, View, Running, onDisk, LogInv, BuffersLogged
  <2> QED
    BY <2>1, <2>2, Zenon
<1>3. ASSUME Lose PROVE Atomic!Stop
  BY <1>3, Zenon DEF Lose, onDisk, Atomic!Stop, Stable, View, Phase, Running
<1>4. ASSUME NEW b \in Block, NEW v \in Val, LogWrite(b, v) PROVE Atomic!Write(b, v)
  <2>1. Stable' = Stable
    <3>1. head = <<>> /\ head' = <<>> /\ disk' = disk
      BY <1>4, Zenon DEF LogWrite, LogInv, HeadersAgree
    <3> QED
      BY <3>1, StableIsDisk, Zenon DEF Stable, TypeOK
  <2>2. View' = [View EXCEPT ![b] = v]
    BY <1>4, Zenon DEF LogWrite, View, Running, Cached, TypeOK
  <2> QED
    BY <1>4, <2>1, <2>2, Zenon DEF Atomic!Write, LogWrite, Phase
<1>5. ASSUME BeginTrans PROVE Atomic!Begin
  BY <1>5, Zenon DEF BeginTrans, onDisk, inMemory, Atomic!Begin, Stable, View, Phase, Running
<1>6. ASSUME WriteHead PROVE Atomic!Commit
  <2>1. View' = View /\ Phase = "open" /\ Phase' = "committed"
    BY <1>6, Zenon DEF WriteHead, View, Running, Phase
  <2>2. ASSUME NEW b \in Block PROVE Stable'[b] = View[b]
    <3>1. Stable' = Overlay(disk, lh, logDisk) /\ lh \in Seq(Block) /\ Distinct(lh)
      BY <1>6, Zenon DEF WriteHead, Stable, TypeOK, Sectors, LogInv, HeadersAgree, Distinct
    <3>2. View[b] = IF b \in DOMAIN buf THEN buf[b] ELSE disk[b]
      BY <1>6, Zenon DEF WriteHead, View, Running
    <3>3. CASE b \in dirty
      <4>1. PICK i \in DOMAIN lh : lh[i] = b /\ logDisk[i] = buf[b] /\ b \in DOMAIN buf
        BY <3>3, Zenon DEF LogInv, BuffersLogged
      <4> QED
        BY <3>1, <3>2, <4>1, OverlayListed
    <3>4. CASE b \notin dirty
      <4>1. \A i \in DOMAIN lh : lh[i] # b
        BY <1>6, <3>4, Zenon DEF WriteHead, LogInv, InstalledBelowTail
      <4>2. View[b] = disk[b]
        BY <3>2, <3>4, Zenon DEF LogInv, BuffersLogged
      <4> QED
        BY <3>1, <4>1, <4>2, OverlayOther, Zenon
    <3> QED
      BY <3>3, <3>4, Zenon
  <2>3. Stable' = View
    BY <1>6, <2>2, Zenon DEF WriteHead, Stable, Overlay, View, Running
  <2> QED
    BY <2>1, <2>3, Zenon DEF Atomic!Commit
<1>7. ASSUME Install PROVE Same
  <2>1. /\ lh = head /\ lh \in Seq(Block) /\ Distinct(lh)
        /\ tail \in DOMAIN lh /\ lh[tail] \in Block
    BY <1>7 DEF Install, TypeOK, Sectors, LogInv, HeadersAgree, Distinct
  <2>2. Phase' = Phase /\ Running' = Running
    BY <1>7, Zenon DEF Install, Phase, Running
  <2>3. Stable' = Stable
    <3>1. Stable = Overlay(disk, lh, logDisk) /\ Stable' = Overlay(disk', lh, logDisk)
      BY <1>7, <2>1, Zenon DEF Install, Stable
    <3>2. ASSUME NEW b \in Block, \A i \in DOMAIN lh : lh[i] # b PROVE disk'[b] = disk[b]
      BY <1>7, <2>1, <3>2, Zenon DEF Install, TypeOK
    <3> QED
      BY <3>1, <3>2, Zenon DEF Overlay
  <2>4. View' = View
    <3>1. CASE Running
      <4>1. lh[tail] \in dirty /\ lh[tail] \in DOMAIN buf /\ logDisk[tail] = buf[lh[tail]]
        BY <1>7, <2>1, <3>1
           DEF Install, Running, LogInv, BuffersLogged, InstalledBelowTail, Distinct, TypeOK
      <4>2. DOMAIN buf' = DOMAIN buf /\ \A b \in DOMAIN buf : buf'[b] = buf[b]
        BY <1>7, <4>1, Zenon DEF Install, Cached
      <4>3. \A b \in Block \ DOMAIN buf : disk'[b] = disk[b]
        BY <1>7, <4>1, Zenon DEF Install, TypeOK
      <4> QED
        BY <2>2, <3>1, <4>2, <4>3, Zenon DEF View
    <3>2. CASE ~Running
      BY <2>2, <2>3, <3>2, Zenon DEF View
    <3> QED
      BY <3>1, <3>2, Zenon
  <2> QED
    BY <2>2, <2>3, <2>4, Zenon
<1>8. ASSUME EraseHead PROVE Same \/ Atomic!Boot
  <2>1. /\ lh = head /\ lh \in Seq(Block) /\ Distinct(lh)
        /\ \A i \in DOMAIN lh : disk[lh[i]] = logDisk[i]
    BY <1>8 DEF EraseHead, TypeOK, Sectors, LogInv, HeadersAgree, InstalledBelowTail, Distinct
  <2>2. Stable = disk
    <3>1. \A b \in Block : Overlay(disk, lh, logDisk)[b] = disk[b]
      BY <2>1, OverlayListed, OverlayOther
    <3> QED
      BY <2>1, <3>1 DEF Stable, Overlay, TypeOK
  <2>3. Stable' = disk
    BY <1>8, StableIsDisk, Zenon DEF EraseHead, Stable, TypeOK
  <2>4. CASE mode = "install"
    BY <1>8, <2>2, <2>3, <2>4, Zenon DEF EraseHead, View, Running, Phase
  <2>5. CASE mode = "recover"
    <3>1. dirty = {} /\ ~Running
      BY <2>5, Zenon DEF LogInv, InstalledBelowTail, Running
    <3>2. View = disk
      BY <2>2, <3>1, Zenon DEF View
    <3>3. View' = disk
      BY <1>8, <2>5, <3>1, Zenon DEF EraseHead, View, Running, LogInv, BuffersLogged, TypeOK
    <3> QED
      BY <1>8, <2>2, <2>3, <2>5, <3>2, <3>3, Zenon DEF EraseHead, Phase, Atomic!Boot
  <2> QED
    BY <1>8, <2>4, <2>5, Zenon DEF EraseHead
<1>9. ASSUME Release PROVE Atomic!End
  <2>1. dirty = {} /\ head = <<>> /\ Running
    BY <1>9 DEF Release, LogInv, HeadersAgree, BuffersLogged, InstalledBelowTail, Running
  <2>2. View = disk
    BY <2>1, CleanView, Zenon DEF LogInv
  <2>3. Stable = disk
    BY <2>1, StableIsDisk, Zenon DEF Stable, TypeOK
  <2>4. UNCHANGED <<Stable, View>>
    BY <1>9, Zenon DEF Release, onDisk, inMemory, Stable, View, Running
  <2> QED
    BY <1>9, <2>2, <2>3, <2>4, Zenon DEF Release, Atomic!End, Phase
<1>10. ASSUME InitLog PROVE Same
  BY <1>10, Zenon DEF InitLog, onDisk, Stable, View, Phase, Running
<1>11. CASE UNCHANGED vars
  BY <1>11, Zenon DEF vars, onDisk, inMemory, Stable, View, Phase, Running, Atomic!vars
<1>12. Same => UNCHANGED Atomic!vars
  BY Zenon DEF Atomic!vars
<1> HIDE DEF Same
<1> QED
  BY <1>1, <1>2, <1>3, <1>4, <1>5, <1>6, <1>7, <1>8, <1>9, <1>10, <1>11, <1>12, Zenon
     DEF Next, Crash, Panic, Atomic!Next

\* commit_trans(), install_trans() and recover_from_log() make transactions
\* atomic and durable whenever the machine stops: the log implements
\* AtomicDisk.
THEOREM LogIsAtomic == Spec => AtomicSpec
<1>1. Init => Atomic!Init
  <2> SUFFICES ASSUME Init PROVE Atomic!Init
    OBVIOUS
  <2>1. Stable = disk
    BY StableIsDisk, Zenon DEF Init, Stable
  <2> QED
    BY <2>1, Zenon DEF Init, Atomic!Init, View, Running, Phase
<1>2. TypeOK /\ LogInv /\ TypeOK' /\ LogInv' /\ [Next]_vars => [Atomic!Next]_(Atomic!vars)
  BY StepSimulation, Zenon
<1> QED
  BY <1>1, <1>2, LogTypeCorrect, LogInvariant, PTL DEF Spec, AtomicSpec, Atomic!Spec
=============================================================================
