---------------------------- MODULE ConsoleProofs ---------------------------
(***************************************************************************)
(* No reader of the console sleeps through its input, and the ring is an   *)
(* editable line in front of a queue, for any number of readers and        *)
(* writers and any size of the buffer.                                     *)
(***************************************************************************)
EXTENDS Console, RingLemmas, SequenceTheorems, TLAPS

\* input.lock is held by the reader that is in the loop of consoleread().
LockHeld == \A p \in Readers : pc[p] \in {"loop", "empty"} <=> lock = p

\* A reader that has found nothing, asleep or about to sleep, would still find
\* nothing: w moves only with a wakeup, and r only where there is something.
StillEmpty == \A p \in Readers : pc[p] \in {"empty", "sleep"} => r = w

WakeInv == pc \in [Proc -> Pc] /\ lock \in Readers \cup {NONE} /\ LockHeld /\ StillEmpty

LEMMA WakeInit == Init => WakeInv
BY ProcAssumption, Zenon DEF Init, WakeInv, LockHeld, StillEmpty, Proc, Pc

\* A key is handled while no reader is in its loop, and leaves r alone.
LEMMA KeyStep ==
  ASSUME WakeInv,
         (\E c \in Val \cup {CR} : KeyChar(c)) \/ KeyErase \/ KeyKillLine
  PROVE  WakeInv'
<1>1. ASSUME NEW c \in Val \cup {CR}, KeyChar(c) PROVE WakeInv'
  <2> DEFINE v == ToNewline(c)
  <2>1. lock = NONE /\ lock' = NONE /\ r' = r
    BY <1>1, Zenon DEF KeyChar, Insert
  <2>2. \A p \in Readers : pc[p] \notin {"loop", "empty"}
    BY <2>1, ProcAssumption, Zenon DEF WakeInv, LockHeld, Proc
  <2>3. CASE Over(v)
    <3>1. pc' = Woken
      BY <1>1, <2>3, Zenon DEF KeyChar, Insert
    <3>2. pc' \in [Proc -> Pc] /\ \A p \in Proc : pc'[p] # "sleep" /\ (pc'[p] = pc[p] \/ pc'[p] = "acquire")
      BY <3>1, Zenon DEF Woken, WakeInv, Pc
    <3> QED
      BY <2>1, <3>2, ProcAssumption, Zenon DEF WakeInv, LockHeld, StillEmpty, Proc
  <2>4. CASE ~Over(v)
    <3>1. pc' = pc /\ w' = w
      BY <1>1, <2>4, Zenon DEF KeyChar, Insert
    <3> QED
      BY <2>1, <3>1, Zenon DEF WakeInv, LockHeld, StillEmpty
  <2> QED
    BY <2>3, <2>4, Zenon
<1>2. CASE KeyErase
  BY <1>2, Zenon DEF KeyErase, WakeInv, LockHeld, StillEmpty
<1>3. CASE KeyKillLine
  BY <1>3, Zenon DEF KeyKillLine, WakeInv, LockHeld, StillEmpty
<1> QED
  BY <1>1, <1>2, <1>3, Zenon

\* The steps of read().
LEMMA ReaderStep ==
  ASSUME WakeInv, NEW p \in Readers,
         ReadStep(p) \/ Kill(p) \/ Exit(p) \/ \E k \in Sizes : ReadCall(p, k)
  PROVE  WakeInv'
<1> USE ProcAssumption DEF WakeInv, LockHeld, StillEmpty, Proc, Pc
<1>1. ASSUME NEW k \in Sizes, ReadCall(p, k) PROVE WakeInv'
  BY <1>1, Zenon DEF ReadCall, input
<1>2. CASE Ilock(p)
  BY <1>2, Zenon DEF Ilock, input
<1>3. CASE ReadEnter(p)
  BY <1>3, Zenon DEF ReadEnter, input
<1>4. CASE Acquire(p)
  BY <1>4, Zenon DEF Acquire, input
<1>5. CASE ReadEmpty(p)
  BY <1>5, Zenon DEF ReadEmpty, Leave, input
<1>6. CASE ReadSleep(p)
  BY <1>6, Zenon DEF ReadSleep, input
<1>7. CASE ReadByte(p)
  <2>1. \A q \in Readers : pc[q] \notin {"empty", "sleep"}
    BY <1>7, Zenon DEF ReadByte
  <2>2. \/ UNCHANGED <<lock, pc>>
        \/ Leave(p)
    BY <1>7, Zenon DEF ReadByte
  <2> QED
    BY <1>7, <2>1, Zenon DEF ReadByte, Leave
<1>8. CASE ReadEnough(p)
  BY <1>8, Zenon DEF ReadEnough, Leave, input
<1>9. CASE Relock(p)
  BY <1>9, Zenon DEF Relock, input
<1>10. CASE ReadReturn(p)
  BY <1>10, Zenon DEF ReadReturn, input
<1>11. CASE Kill(p)
  BY <1>11, Zenon DEF Kill, input
<1>12. CASE Exit(p)
  BY <1>12, Zenon DEF Exit, input
<1> QED
  BY <1>1, <1>2, <1>3, <1>4, <1>5, <1>6, <1>7, <1>8, <1>9, <1>10, <1>11, <1>12, Zenon DEF ReadStep

\* The steps of write() do not concern the readers.
LEMMA WriterStep ==
  ASSUME WakeInv, NEW p \in Writers, WriteStep(p) \/ WriteCall(p)
  PROVE  WakeInv'
<1>1. p \notin Readers /\ UNCHANGED input /\ UNCHANGED lock
  BY ProcAssumption, Zenon DEF WriteStep, WriteCall, BeginTrans, Ilock, WriteOut, Relock, WriteReturn
<1>2. pc' \in [Proc -> Pc] /\ \A q \in Readers : pc'[q] = pc[q]
  BY <1>1, Zenon
     DEF WriteStep, WriteCall, BeginTrans, Ilock, WriteOut, Relock, WriteReturn, WakeInv, Proc, Pc
<1> QED
  BY <1>1, <1>2, Zenon DEF WakeInv, LockHeld, StillEmpty, input

LEMMA WakeInvariant == Spec => []WakeInv
<1>1. WakeInv /\ [Next]_vars => WakeInv'
  <2> SUFFICES ASSUME WakeInv, [Next]_vars PROVE WakeInv'
    OBVIOUS
  <2>1. CASE Next
    BY <2>1, KeyStep, ReaderStep, WriterStep, Zenon DEF Next
  <2>2. CASE UNCHANGED vars
    BY <2>2, Zenon DEF vars, input, WakeInv, LockHeld, StillEmpty
  <2> QED
    BY <2>1, <2>2, Zenon
<1> QED
  BY <1>1, WakeInit, PTL DEF Spec

\* A reader asleep in consoleread() has nothing to read: consoleintr() wakes the
\* readers whenever it hands over a line, and a reader keeps input.lock from its
\* look at the buffer until it is asleep.
THEOREM NoLostWakeupHolds == Spec => []NoLostWakeup
<1>1. WakeInv => NoLostWakeup
  BY Zenon DEF WakeInv, StillEmpty, NoLostWakeup
<1> QED
  BY <1>1, WakeInvariant, PTL

-----------------------------------------------------------------------------
(* The ring of the input.                                                  *)

\* The bytes for the readers, and those of the line being typed.
ReadyLen == (w - r) % Wrap
LineLen == (e - w) % Wrap

RingOK ==
  /\ buf \in [0..(INPUT_BUF - 1) -> Val]
  /\ r \in 0..(Wrap - 1) /\ w \in 0..(Wrap - 1) /\ e \in 0..(Wrap - 1)
  /\ ReadyLen <= Used /\ Used <= INPUT_BUF

LEMMA RingSizes == INPUT_BUF \in Nat \ {0} /\ Wrap \in Nat \ {0} /\ INPUT_BUF < Wrap
BY BufAssumption

\* The indexes are in order around the ring.
LengthsOK ==
  /\ ReadyLen \in Nat /\ LineLen \in Nat /\ Used = ReadyLen + LineLen
  /\ ReadyLen = IF w >= r THEN w - r ELSE w - r + Wrap
  /\ LineLen = IF e >= w THEN e - w ELSE e - w + Wrap
  /\ Used = IF e >= r THEN e - r ELSE e - r + Wrap

LEMMA Lengths == ASSUME RingOK PROVE LengthsOK
<1>0. r \in 0..(Wrap - 1) /\ w \in 0..(Wrap - 1) /\ e \in 0..(Wrap - 1) /\ ReadyLen <= Used /\ Used <= INPUT_BUF
  BY Zenon DEF RingOK
<1>1. ReadyLen = IF w >= r THEN w - r ELSE w - r + Wrap
  BY <1>0, RingSizes, WrapDiff, Zenon DEF ReadyLen
<1>2. LineLen = IF e >= w THEN e - w ELSE e - w + Wrap
  BY <1>0, RingSizes, WrapDiff, Zenon DEF LineLen
<1>3. Used = IF e >= r THEN e - r ELSE e - r + Wrap
  BY <1>0, RingSizes, WrapDiff, Zenon DEF Used
<1> QED
  BY <1>0, <1>1, <1>2, <1>3, RingSizes, SMT, SMTT(30) DEF LengthsOK

\* What is in the ring, without the wrapping of the indexes.
BytesOK ==
  /\ Bytes(r, w) = RingSeq(buf, r, ReadyLen, INPUT_BUF)
  /\ Bytes(w, e) = RingSeq(buf, w, LineLen, INPUT_BUF)
  /\ Bytes(r, w) \in Seq(Val) /\ Len(Bytes(r, w)) = ReadyLen
  /\ Bytes(w, e) \in Seq(Val) /\ Len(Bytes(w, e)) = LineLen

LEMMA BytesAre == ASSUME RingOK PROVE BytesOK
<1>1. r \in Int /\ w \in Int /\ ReadyLen \in Nat /\ LineLen \in Nat /\ buf \in [0..(INPUT_BUF - 1) -> Val]
  BY Lengths, RingSizes, SMT, SMTT(30) DEF RingOK, LengthsOK
<1>2. \A a \in Int, len \in Nat :
        WrappedSeq(buf, a, len, Wrap, INPUT_BUF) = RingSeq(buf, a, len, INPUT_BUF)
  BY RingSizes, BufAssumption, RingTwice, SMT, SMTT(30)
<1>3. \A a \in Int, len \in Nat :
        RingSeq(buf, a, len, INPUT_BUF) \in Seq(Val) /\ Len(RingSeq(buf, a, len, INPUT_BUF)) = len
  BY <1>1, RingSizes, RingType, SMT, SMTT(30)
<1>6. /\ Bytes(r, w) = WrappedSeq(buf, r, ReadyLen, Wrap, INPUT_BUF)
      /\ Bytes(w, e) = WrappedSeq(buf, w, LineLen, Wrap, INPUT_BUF)
  BY Zenon DEF Bytes, ReadyLen, LineLen, WrappedSeq
<1>4. Bytes(r, w) = RingSeq(buf, r, ReadyLen, INPUT_BUF)
  BY <1>1, <1>2, <1>6, Zenon
<1>5. Bytes(w, e) = RingSeq(buf, w, LineLen, INPUT_BUF)
  BY <1>1, <1>2, <1>6, Zenon
<1> QED
  BY <1>1, <1>3, <1>4, <1>5, Zenon DEF BytesOK

\* The same after a step.
LEMMA RingFacts == RingOK => LengthsOK /\ BytesOK
BY Lengths, BytesAre, Zenon

LEMMA RingFactsThen == RingOK' => LengthsOK' /\ BytesOK'
BY RingFacts, PTL

\* A byte is typed, where there is room.
LEMMA TypeRing ==
  ASSUME RingOK, NEW c \in Val \cup {CR}, KeyChar(c)
  PROVE  /\ RingOK'
         /\ Over(ToNewline(c)) <=> ToNewline(c) \in {NL, EOF} \/ ReadyLen + LineLen + 1 = INPUT_BUF
<1> DEFINE v == ToNewline(c)
<1>0. /\ r \in 0..(Wrap - 1) /\ w \in 0..(Wrap - 1) /\ e \in 0..(Wrap - 1) /\ r' = r
      /\ buf \in [0..(INPUT_BUF - 1) -> Val] /\ v \in Val /\ Used < INPUT_BUF
      /\ buf' = [buf EXCEPT ![e % INPUT_BUF] = v]
      /\ w' = IF Over(v) THEN e' ELSE w
  BY Zenon DEF RingOK, KeyChar, Insert, ToNewline, Val
<1>1. e' = IF e + 1 = Wrap THEN 0 ELSE e + 1
  BY <1>0, RingSizes, WrapNext, Zenon DEF KeyChar, Insert
<1>2. e' \in 0..(Wrap - 1) /\ w' \in 0..(Wrap - 1)
  BY <1>0, <1>1, RingSizes, SMT, SMTT(30)
<1>3. buf' \in [0..(INPUT_BUF - 1) -> Val]
  <2>1. e \in Int
    BY <1>0, SMT, SMTT(30)
  <2>2. e % INPUT_BUF \in 0..(INPUT_BUF - 1)
    BY <2>1, RingSizes, DivMod, Zenon
  <2> QED
    BY <1>0, <2>2, Zenon
<1>4. Used' = IF e' >= r THEN e' - r ELSE e' - r + Wrap
  BY <1>0, <1>2, RingSizes, WrapDiff, Zenon DEF Used
<1>5. ReadyLen' = IF w' >= r THEN w' - r ELSE w' - r + Wrap
  BY <1>0, <1>2, RingSizes, WrapDiff, Zenon DEF ReadyLen
<1>6. Used' = Used + 1
  BY <1>0, <1>1, <1>4, Lengths, RingSizes, SMT, SMTT(30) DEF LengthsOK
<1>7. ReadyLen' = IF Over(v) THEN Used' ELSE ReadyLen
  <2>1. CASE Over(v)
    BY <1>0, <1>4, <1>5, <2>1, Zenon
  <2>2. CASE ~Over(v)
    BY <1>0, <1>5, <2>2, Lengths, Zenon DEF LengthsOK
  <2> QED
    BY <2>1, <2>2, Zenon
<1>8. RingOK'
  <2>1. ReadyLen \in Nat /\ Used \in Nat /\ ReadyLen <= Used
    BY Lengths, SMT, SMTT(30) DEF LengthsOK, RingOK
  <2>2. ReadyLen' <= Used' /\ Used' <= INPUT_BUF
    BY <1>0, <1>6, <1>7, <2>1, RingSizes, SMT, SMTT(30)
  <2> QED
    BY <1>0, <1>2, <2>2, Zenon DEF RingOK
<1>9. (r + INPUT_BUF) % Wrap = IF r + INPUT_BUF >= Wrap THEN r + INPUT_BUF - Wrap ELSE r + INPUT_BUF
  <2>1. INPUT_BUF \in 0..(Wrap - 1)
    BY RingSizes, SMT, SMTT(30)
  <2> QED
    BY <1>0, <2>1, RingSizes, WrapAhead, Zenon
<1>10. (e + 1) % Wrap = e'
  BY Zenon DEF KeyChar, Insert
<1>11. (e + 1) % Wrap = (r + INPUT_BUF) % Wrap <=> Used + 1 = INPUT_BUF
  <2> DEFINE top == (r + INPUT_BUF) % Wrap
  <2>2. top = IF r + INPUT_BUF >= Wrap THEN r + INPUT_BUF - Wrap ELSE r + INPUT_BUF
    BY <1>9, Zenon
  <2> HIDE DEF top
  <2>3. Used = IF e >= r THEN e - r ELSE e - r + Wrap
    BY Lengths, Zenon DEF LengthsOK
  <2>4. r \in 0..(Wrap - 1) /\ e \in 0..(Wrap - 1) /\ Used < INPUT_BUF
    BY <1>0, Zenon
  <2>5. e' = top <=> Used + 1 = INPUT_BUF
    BY <1>1, <2>2, <2>3, <2>4, RingSizes, SMT, SMTT(30)
  <2>1. e' = (r + INPUT_BUF) % Wrap <=> Used + 1 = INPUT_BUF
    BY <2>5, Zenon DEF top
  <2> QED
    BY <1>10, <2>1, Zenon
<1>12. Used = ReadyLen + LineLen
  BY Lengths, Zenon DEF LengthsOK
<1> QED
  BY <1>8, <1>11, <1>12, Zenon DEF Over

\* The last byte of the line is taken back.
LEMMA EraseRing ==
  ASSUME RingOK, KeyErase
  PROVE  RingOK'
<1>0. /\ r \in 0..(Wrap - 1) /\ w \in 0..(Wrap - 1) /\ e \in 0..(Wrap - 1) /\ UNCHANGED <<buf, r, w>>
      /\ buf \in [0..(INPUT_BUF - 1) -> Val] /\ ReadyLen <= Used /\ Used <= INPUT_BUF /\ e # w
  BY Zenon DEF RingOK, KeyErase
<1>1. e' = IF e = 0 THEN Wrap - 1 ELSE e - 1
  BY <1>0, RingSizes, WrapPrev, Zenon DEF KeyErase
<1>2. e' \in 0..(Wrap - 1)
  BY <1>0, <1>1, RingSizes, SMT, SMTT(30)
<1>3. Used' = IF e' >= r THEN e' - r ELSE e' - r + Wrap
  BY <1>0, <1>2, RingSizes, WrapDiff, Zenon DEF Used
<1>4. ReadyLen' = ReadyLen
  BY <1>0, Zenon DEF ReadyLen
<1>5. Used' = Used - 1 /\ ReadyLen <= Used - 1
  <2>1. LengthsOK
    BY Lengths, Zenon
  <2>2. LineLen \in Nat \ {0}
    BY <1>0, <2>1, RingSizes, SMT, SMTT(30) DEF LengthsOK
  <2>3. ReadyLen \in Nat /\ Used = ReadyLen + LineLen
    BY <2>1, Zenon DEF LengthsOK
  <2>4. Used # 0 /\ ReadyLen <= Used - 1
    BY <2>2, <2>3, SMT, SMTT(30)
  <2>5. Used = IF e >= r THEN e - r ELSE e - r + Wrap
    BY <2>1, Zenon DEF LengthsOK
  <2>6. Used' = Used - 1
    BY <1>0, <1>1, <1>3, <2>4, <2>5, RingSizes, SMT, SMTT(30)
  <2> QED
    BY <2>4, <2>6, Zenon
<1>6. ReadyLen' <= Used' /\ Used' <= INPUT_BUF
  BY <1>0, <1>4, <1>5, Lengths, RingSizes, SMT, SMTT(30) DEF LengthsOK
<1> QED
  BY <1>0, <1>2, <1>6, Zenon DEF RingOK

\* A byte is read.
LEMMA TakeRing ==
  ASSUME RingOK, NEW p \in Readers, ReadByte(p), r' # r
  PROVE  RingOK' /\ ReadyLen' = ReadyLen - 1 /\ LineLen' = LineLen
<1>0. /\ r \in 0..(Wrap - 1) /\ w \in 0..(Wrap - 1) /\ e \in 0..(Wrap - 1)
      /\ buf \in [0..(INPUT_BUF - 1) -> Val] /\ ReadyLen <= Used /\ Used <= INPUT_BUF
      /\ r # w /\ UNCHANGED <<buf, w, e>>
  BY Zenon DEF RingOK, ReadByte
<1>1. r' = IF r + 1 = Wrap THEN 0 ELSE r + 1
  BY <1>0, RingSizes, WrapNext, Zenon DEF ReadByte
<1>2. r' \in 0..(Wrap - 1)
  BY <1>0, <1>1, RingSizes, SMT, SMTT(30)
<1>3. Used' = IF e >= r' THEN e - r' ELSE e - r' + Wrap
  BY <1>0, <1>2, RingSizes, WrapDiff, Zenon DEF Used
<1>4. ReadyLen' = IF w >= r' THEN w - r' ELSE w - r' + Wrap
  BY <1>0, <1>2, RingSizes, WrapDiff, Zenon DEF ReadyLen
<1>5. ReadyLen' = ReadyLen - 1 /\ Used' = Used - 1
  <2>1. /\ ReadyLen = IF w >= r THEN w - r ELSE w - r + Wrap
        /\ Used = IF e >= r THEN e - r ELSE e - r + Wrap
    BY Lengths, Zenon DEF LengthsOK
  <2>2. ReadyLen' = ReadyLen - 1 /\ ReadyLen >= 1
    BY <1>0, <1>1, <1>4, <2>1, RingSizes, SMT, SMTT(30)
  <2>3. e # r
    BY <1>0, <2>1, <2>2, SMT, SMTT(30)
  <2>4. Used' = Used - 1
    BY <1>0, <1>1, <1>3, <2>1, <2>3, RingSizes, SMT, SMTT(30)
  <2> QED
    BY <2>2, <2>4, Zenon
<1>6. ReadyLen' <= Used' /\ Used' <= INPUT_BUF
  BY <1>0, <1>5, Lengths, RingSizes, SMT, SMTT(30) DEF LengthsOK
<1>7. LineLen' = LineLen
  BY <1>0, Zenon DEF LineLen
<1> QED
  BY <1>0, <1>2, <1>5, <1>6, <1>7, Zenon DEF RingOK

\* The line being typed has no end in it.
LineOpen == \A k \in 1..LineLen : Bytes(w, e)[k] # NL

\* Control-U takes back the whole line.
LEMMA KillRing ==
  ASSUME RingOK, LineOpen, KeyKillLine
  PROVE  RingOK' /\ e' = w /\ UNCHANGED <<buf, r, w>>
<1> DEFINE stop == {k \in 0..LineLen : k = LineLen \/ buf[((e - 1 - k) % Wrap) % INPUT_BUF] = NL}
           back == CHOOSE k \in stop : \A m \in stop : k <= m
<1>0. e' = (e - back) % Wrap /\ UNCHANGED <<buf, r, w>>
  BY Zenon DEF KeyKillLine, LineLen
<1>1. r \in 0..(Wrap - 1) /\ w \in 0..(Wrap - 1) /\ e \in 0..(Wrap - 1) /\ LineLen \in Nat
      /\ LineLen = IF e >= w THEN e - w ELSE e - w + Wrap
  BY Lengths, Zenon DEF RingOK, LengthsOK
<1>2. ASSUME NEW k \in 0..(LineLen - 1) PROVE buf[((e - 1 - k) % Wrap) % INPUT_BUF] # NL
  <2>1. LineLen - k \in 1..LineLen
    BY <1>1, SMT, SMTT(30)
  <2>2. Bytes(w, e)[LineLen - k] = buf[((w + (LineLen - k) - 1) % Wrap) % INPUT_BUF]
    BY <2>1, Zenon DEF Bytes, LineLen
  <2>3. (w + (LineLen - k) - 1) % Wrap = (e - 1 - k) % Wrap
    <3> DEFINE x == e - 1 - k
    <3>1. x \in Int /\ (w + (LineLen - k) - 1 = x \/ w + (LineLen - k) - 1 = x + Wrap)
      BY <1>1, RingSizes, SMT, SMTT(30)
    <3> HIDE DEF x
    <3>2. (x + Wrap) % Wrap = x % Wrap
      <4>1. Wrap % Wrap = 0
        BY RingSizes, SMT, SMTT(30)
      <4> QED
        BY <3>1, <4>1, RingSizes, WrapPlace, Zenon
    <3> QED
      BY <3>1, <3>2, Zenon DEF x
  <2> QED
    BY <2>1, <2>2, <2>3, Zenon DEF LineOpen
<1>3. stop = {LineLen}
  BY <1>1, <1>2, SMT, SMTT(30)
<1> HIDE DEF stop
<1>4. back = LineLen
  BY <1>1, <1>3, SMT, SMTT(30)
<1> HIDE DEF back
<1>5. e' = w
  <2>1. (e - LineLen) % Wrap = w
    <3>1. CASE e >= w
      BY <1>1, <3>1, RingSizes, SMT, SMTT(30)
    <3>2. CASE e < w
      <4>1. e - LineLen = w - Wrap
        BY <1>1, <3>2, RingSizes, SMT, SMTT(30)
      <4>2. (w - Wrap) % Wrap = w
        BY <1>1, RingSizes, SMT, SMTT(30)
      <4> QED
        BY <4>1, <4>2, Zenon
    <3> QED
      BY <1>1, <3>1, <3>2, SMT, SMTT(30)
  <2> QED
    BY <1>0, <1>4, <2>1, Zenon
<1>6. ReadyLen' = ReadyLen /\ Used' = ReadyLen
  BY <1>0, <1>5, Zenon DEF ReadyLen, Used
<1>7. ReadyLen \in Nat /\ ReadyLen <= INPUT_BUF
  BY Lengths, RingSizes, SMT, SMTT(30) DEF RingOK, LengthsOK
<1>8. RingOK'
  BY <1>0, <1>1, <1>5, <1>6, <1>7, SMT, SMTT(30) DEF RingOK
<1> QED
  BY <1>0, <1>5, <1>8, Zenon

\* What a key does to the line and to what is ready.
LEMMA TypeLine ==
  ASSUME RingOK, RingOK', NEW c \in Val \cup {CR}, KeyChar(c)
  PROVE  LET typed == Append(Bytes(w, e), ToNewline(c)) IN
         IF Over(ToNewline(c))
         THEN Bytes(r, w)' = Bytes(r, w) \o typed /\ Bytes(w, e)' = <<>>
         ELSE Bytes(r, w)' = Bytes(r, w) /\ Bytes(w, e)' = typed
<1> DEFINE v == ToNewline(c)
<1>0. /\ Used < INPUT_BUF /\ r' = r /\ buf' = [buf EXCEPT ![e % INPUT_BUF] = v]
      /\ w' = IF Over(v) THEN e' ELSE w
  BY Zenon DEF KeyChar, Insert
<1>1. /\ buf \in [0..(INPUT_BUF - 1) -> Val] /\ buf' \in [0..(INPUT_BUF - 1) -> Val]
      /\ r \in Int /\ w \in Int /\ e \in Int
  BY SMT, SMTT(30) DEF RingOK
<1>2. ReadyLen \in Nat /\ LineLen \in Nat /\ Used = ReadyLen + LineLen
      /\ (r + ReadyLen = w \/ r + ReadyLen = w + Wrap)
      /\ (w + LineLen = e \/ w + LineLen = e + Wrap)
      /\ (r + Used = e \/ r + Used = e + Wrap)
  <2>1. /\ ReadyLen \in Nat /\ LineLen \in Nat /\ Used = ReadyLen + LineLen
        /\ ReadyLen = IF w >= r THEN w - r ELSE w - r + Wrap
        /\ LineLen = IF e >= w THEN e - w ELSE e - w + Wrap
        /\ Used = IF e >= r THEN e - r ELSE e - r + Wrap
    BY Lengths, Zenon DEF LengthsOK
  <2>2. (r + ReadyLen = w \/ r + ReadyLen = w + Wrap)
    BY <1>1, <2>1, RingSizes, SMT, SMTT(30)
  <2>3. (w + LineLen = e \/ w + LineLen = e + Wrap)
    BY <1>1, <2>1, RingSizes, SMT, SMTT(30)
  <2>4. (r + Used = e \/ r + Used = e + Wrap)
    BY <1>1, <2>1, RingSizes, SMT, SMTT(30)
  <2> QED
    BY <2>1, <2>2, <2>3, <2>4, Zenon
<1>3. LineLen \in 0..(INPUT_BUF - 1) /\ Used \in 0..(INPUT_BUF - 1) /\ ReadyLen <= Used
  BY <1>0, <1>2, RingSizes, SMT, SMTT(30)
<1> DEFINE place == e % INPUT_BUF
<1>4. /\ place \in 0..(INPUT_BUF - 1)
      /\ (w + LineLen) % INPUT_BUF = place /\ (r + Used) % INPUT_BUF = place
  <2>1. e % INPUT_BUF \in 0..(INPUT_BUF - 1)
    BY <1>1, RingSizes, DivMod, Zenon
  <2>2. (e + Wrap) % INPUT_BUF = e % INPUT_BUF
    BY <1>1, RingSizes, BufAssumption, WrapPlace, Zenon
  <2> QED
    BY <1>2, <2>1, <2>2, Zenon
<1>5. SameBut(buf, buf', place, INPUT_BUF) /\ buf'[place] = v
  BY <1>0, <1>1, <1>4, Zenon DEF SameBut
<1> HIDE DEF place
\* The line with the byte behind it, and what is in front of it.
<1>6. RingSeq(buf', w, LineLen + 1, INPUT_BUF) = Append(Bytes(w, e), v)
  <2>1. Appending(buf, buf', Val, INPUT_BUF)
    BY <1>1, RingSizes, RingAppend, Zenon
  <2>2. RingSeq(buf', w, LineLen + 1, INPUT_BUF) = Append(RingSeq(buf, w, LineLen, INPUT_BUF), buf'[place])
    BY <1>1, <1>3, <1>4, <1>5, <2>1, Zenon DEF Appending
  <2> QED
    BY <1>5, <2>2, BytesAre, Zenon DEF BytesOK
<1>7. RingSeq(buf', r, ReadyLen, INPUT_BUF) = Bytes(r, w)
  <2>1. Keeping(buf, buf', Val, INPUT_BUF)
    BY <1>1, RingSizes, RingKeep, Zenon
  <2>2. RingSeq(buf', r, ReadyLen, INPUT_BUF) = RingSeq(buf, r, ReadyLen, INPUT_BUF)
    BY <1>1, <1>2, <1>3, <1>4, <1>5, <2>1, Zenon DEF Keeping
  <2> QED
    BY <2>2, BytesAre, Zenon DEF BytesOK
<1>8. e' = IF e + 1 = Wrap THEN 0 ELSE e + 1
  BY RingSizes, WrapNext, Zenon DEF KeyChar, Insert, RingOK
<1>9. /\ Bytes(r, w)' = RingSeq(buf', r, ReadyLen', INPUT_BUF)
      /\ Bytes(w, e)' = RingSeq(buf', w', LineLen', INPUT_BUF) /\ Len(Bytes(w, e)') = LineLen'
      /\ Bytes(w, e)' \in Seq(Val)
  BY <1>0, RingFactsThen, Zenon DEF BytesOK
<1>10. ReadyLen' = IF w' >= r THEN w' - r ELSE w' - r + Wrap
  BY <1>0, RingFactsThen, Zenon DEF LengthsOK
<1>14. LineLen' = IF e' >= w' THEN e' - w' ELSE e' - w' + Wrap
  BY RingFactsThen, Zenon DEF LengthsOK
<1>11. /\ ReadyLen = IF w >= r THEN w - r ELSE w - r + Wrap
       /\ LineLen = IF e >= w THEN e - w ELSE e - w + Wrap
       /\ Used = IF e >= r THEN e - r ELSE e - r + Wrap
       /\ r \in 0..(Wrap - 1) /\ w \in 0..(Wrap - 1) /\ e \in 0..(Wrap - 1)
  BY Lengths, Zenon DEF LengthsOK, RingOK
<1>12. CASE Over(v)
  <2>1. w' = e' /\ e' \in 0..(Wrap - 1)
    BY <1>0, <1>12, Zenon DEF RingOK
  <2>2. LineLen' = 0
    <3>1. e' \in Int /\ w' \in Int /\ w' = e'
      BY <2>1, RingSizes, SMT, SMTT(30)
    <3>2. \A a, b \in Int : a = b => b >= a /\ b - a = 0
      OBVIOUS
    <3>3. e' >= w' /\ e' - w' = 0
      BY <3>1, <3>2, Zenon
    <3> QED
      BY <1>14, <3>3, Zenon
  <2>3. Bytes(w, e)' = <<>>
    BY <1>9, <2>2, SMT, SMTT(30)
  <2>4. ReadyLen' = ReadyLen + (LineLen + 1)
    <3>1. ReadyLen' = Used + 1
      <4>1. Used < INPUT_BUF /\ Used = IF e >= r THEN e - r ELSE e - r + Wrap
        BY <1>0, <1>11, Zenon
      <4> QED
        BY <1>8, <1>10, <1>11, <2>1, <4>1, RingSizes, SMT, SMTT(30)
    <3> QED
      BY <1>2, <3>1, SMT, SMTT(30)
  <2>5. RingSeq(buf', r, ReadyLen + (LineLen + 1), INPUT_BUF)
          = RingSeq(buf', r, ReadyLen, INPUT_BUF) \o RingSeq(buf', r + ReadyLen, LineLen + 1, INPUT_BUF)
    <3>1. Splitting(buf', Val, INPUT_BUF)
      BY <1>1, RingSizes, RingConcat, Zenon
    <3>2. LineLen + 1 \in Nat
      BY <1>2, SMT, SMTT(30)
    <3> QED
      BY <1>1, <1>2, <3>1, <3>2, Zenon DEF Splitting
  <2>6. RingSeq(buf', r + ReadyLen, LineLen + 1, INPUT_BUF) = RingSeq(buf', w, LineLen + 1, INPUT_BUF)
    <3>1. Wrapping(buf', Wrap, INPUT_BUF)
      BY RingSizes, BufAssumption, RingWrap, Zenon
    <3>2. RingSeq(buf', w + Wrap, LineLen + 1, INPUT_BUF) = RingSeq(buf', w, LineLen + 1, INPUT_BUF)
      <4>1. LineLen + 1 \in Nat
        BY <1>2
      <4> QED
        BY <1>1, <3>1, <4>1, Zenon DEF Wrapping
    <3> QED
      BY <1>2, <3>2, Zenon
  <2>7. Bytes(r, w)' = Bytes(r, w) \o Append(Bytes(w, e), v)
    BY <1>6, <1>7, <1>9, <2>4, <2>5, <2>6, Zenon
  <2> QED
    BY <1>12, <2>3, <2>7, Zenon
<1>13. CASE ~Over(v)
  <2>1. w' = w
    BY <1>0, <1>13, Zenon
  <2>2. ReadyLen' = ReadyLen
    BY <1>10, <1>11, <2>1, Zenon
  <2>3. LineLen' = LineLen + 1
    <3>1. LineLen < INPUT_BUF
      BY <1>3, RingSizes, SMT, SMTT(30)
    <3> QED
      BY <1>8, <1>11, <1>14, <2>1, <3>1, RingSizes, SMT, SMTT(30)
  <2> QED
    BY <1>6, <1>7, <1>9, <1>13, <2>1, <2>2, <2>3, Zenon
<1> QED
  BY <1>12, <1>13, Zenon

LEMMA EraseLine ==
  ASSUME RingOK, RingOK', KeyErase
  PROVE  /\ Bytes(w, e) # <<>> /\ Bytes(w, e)' = SubSeq(Bytes(w, e), 1, Len(Bytes(w, e)) - 1)
         /\ Bytes(r, w)' = Bytes(r, w)
<1>0. UNCHANGED <<buf, r, w>> /\ e # w
  BY Zenon DEF KeyErase
<1>1. /\ buf \in [0..(INPUT_BUF - 1) -> Val] /\ w \in 0..(Wrap - 1) /\ e \in 0..(Wrap - 1)
  BY Zenon DEF RingOK
<1>2. e' = IF e = 0 THEN Wrap - 1 ELSE e - 1
  BY <1>1, RingSizes, WrapPrev, Zenon DEF KeyErase
<1>3. LineLen = IF e >= w THEN e - w ELSE e - w + Wrap
  BY Lengths, Zenon DEF LengthsOK
<1>4. LineLen' = IF e' >= w THEN e' - w ELSE e' - w + Wrap
  BY <1>0, RingFactsThen, Zenon DEF LengthsOK
<1>5. LineLen' = LineLen - 1 /\ LineLen \in Nat \ {0}
  BY <1>0, <1>1, <1>2, <1>3, <1>4, RingSizes, SMT, SMTT(30)
<1>6. Bytes(r, w)' = Bytes(r, w)
  BY <1>0, Zenon DEF Bytes
<1>7. Bytes(w, e)' = RingSeq(buf, w, LineLen - 1, INPUT_BUF)
  BY <1>0, <1>5, RingFactsThen, Zenon DEF BytesOK
<1>8. Fronting(buf, Val, INPUT_BUF)
  BY <1>1, RingSizes, RingFront, Zenon
<1>9. w \in Int
  BY <1>1, SMT, SMTT(30)
<1>10. /\ RingSeq(buf, w, LineLen, INPUT_BUF) # <<>>
       /\ RingSeq(buf, w, LineLen - 1, INPUT_BUF) = SubSeq(RingSeq(buf, w, LineLen, INPUT_BUF), 1, LineLen - 1)
  BY <1>5, <1>8, <1>9, Zenon DEF Fronting
<1>11. Bytes(w, e) = RingSeq(buf, w, LineLen, INPUT_BUF) /\ Len(Bytes(w, e)) = LineLen
  BY BytesAre, Zenon DEF BytesOK
<1> QED
  BY <1>6, <1>7, <1>10, <1>11, Zenon

LEMMA TakeLine ==
  ASSUME RingOK, RingOK', NEW p \in Readers, ReadByte(p), r' # r
  PROVE  Bytes(r, w) # <<>> /\ Bytes(r, w)' = Tail(Bytes(r, w)) /\ Bytes(w, e)' = Bytes(w, e)
<1>0. UNCHANGED <<buf, w, e>> /\ r # w
  BY Zenon DEF ReadByte
<1>1. buf \in [0..(INPUT_BUF - 1) -> Val] /\ r \in 0..(Wrap - 1) /\ w \in 0..(Wrap - 1)
  BY Zenon DEF RingOK
<1>2. r' = IF r + 1 = Wrap THEN 0 ELSE r + 1
  BY <1>1, RingSizes, WrapNext, Zenon DEF ReadByte
<1>3. ReadyLen = IF w >= r THEN w - r ELSE w - r + Wrap
  BY Lengths, Zenon DEF LengthsOK
<1>4. ReadyLen \in Nat \ {0} /\ ReadyLen - 1 \in Nat
  BY <1>0, <1>1, <1>3, RingSizes, SMT, SMTT(30)
<1>5. Bytes(w, e)' = Bytes(w, e)
  BY <1>0, Zenon DEF Bytes
<1>6. Bytes(r, w)' = RingSeq(buf, r', ReadyLen - 1, INPUT_BUF)
  BY <1>0, RingFactsThen, TakeRing, Zenon DEF BytesOK
<1>7. r \in Int /\ r + 1 \in Int
  BY <1>1, SMT, SMTT(30)
<1>8. RingSeq(buf, r', ReadyLen - 1, INPUT_BUF) = RingSeq(buf, r + 1, ReadyLen - 1, INPUT_BUF)
  <2>1. Wrapping(buf, Wrap, INPUT_BUF)
    BY RingSizes, BufAssumption, RingWrap, Zenon
  <2>2. RingSeq(buf, (r + 1) - Wrap, ReadyLen - 1, INPUT_BUF) = RingSeq(buf, r + 1, ReadyLen - 1, INPUT_BUF)
    BY <1>4, <1>7, <2>1, Zenon DEF Wrapping
  <2>3. r' = r + 1 \/ r' = (r + 1) - Wrap
    BY <1>1, <1>2, RingSizes, SMT, SMTT(30)
  <2> QED
    BY <2>2, <2>3, Zenon
<1>9. Tailing(buf, Val, INPUT_BUF)
  BY <1>1, RingSizes, RingTail, Zenon
<1>10. /\ RingSeq(buf, r, ReadyLen, INPUT_BUF) # <<>>
       /\ RingSeq(buf, r + 1, ReadyLen - 1, INPUT_BUF) = Tail(RingSeq(buf, r, ReadyLen, INPUT_BUF))
  BY <1>4, <1>7, <1>9, Zenon DEF Tailing
<1> QED
  BY <1>5, <1>6, <1>8, <1>10, BytesAre, Zenon DEF BytesOK

\* The ring is in order and the line in it has no newline, whatever happens;
\* and what happens is what may happen to a line and a queue.
LEMMA LineStep ==
  ASSUME RingOK, LineOpen, [Next]_vars
  PROVE  RingOK' /\ LineOpen' /\ [Promise!Next]_(Promise!vars)
<1>0. /\ Bytes(w, e) \in Seq(Val) /\ Len(Bytes(w, e)) = LineLen
      /\ Bytes(r, w) \in Seq(Val) /\ Len(Bytes(r, w)) = ReadyLen
  BY BytesAre, Zenon DEF BytesOK
<1>1. LineLen \in Nat /\ ReadyLen \in Nat /\ Used = ReadyLen + LineLen
  BY Lengths, Zenon DEF LengthsOK
<1>2. ASSUME UNCHANGED <<buf, r, w, e>> PROVE RingOK' /\ LineOpen' /\ [Promise!Next]_(Promise!vars)
  BY <1>2, Zenon DEF RingOK, ReadyLen, LineLen, Used, LineOpen, Bytes, Promise!vars
<1>3. ASSUME NEW c \in Val \cup {CR}, KeyChar(c)
      PROVE  RingOK' /\ LineOpen' /\ [Promise!Next]_(Promise!vars)
  <2> DEFINE v == ToNewline(c)
             typed == Append(Bytes(w, e), v)
  <2>1. v \in Val /\ Used < INPUT_BUF
    BY <1>3, Zenon DEF ToNewline, Val, KeyChar
  <2>2. RingOK' /\ (Over(v) <=> v \in {NL, EOF} \/ ReadyLen + LineLen + 1 = INPUT_BUF)
    BY <1>3, TypeRing, Zenon
  <2>3. IF Over(v) THEN Bytes(r, w)' = Bytes(r, w) \o typed /\ Bytes(w, e)' = <<>>
        ELSE Bytes(r, w)' = Bytes(r, w) /\ Bytes(w, e)' = typed
    BY <1>3, <2>2, TypeLine, Zenon
  <2> HIDE DEF v
  <2>4. Len(typed) = LineLen + 1 /\ typed[LineLen + 1] = v /\ \A k \in 1..LineLen : typed[k] = Bytes(w, e)[k]
    BY <1>0, <1>1, <2>1, SMT, SMTT(30)
  <2>5. Len(Bytes(w, e)') = LineLen'
    BY <2>2, RingFactsThen, Zenon DEF BytesOK
  <2> HIDE DEF typed
  <2>6. LineOpen'
    <3>1. CASE Over(v)
      <4>1. Bytes(w, e)' = <<>>
        BY <2>3, <3>1, Zenon
      <4>2. LineLen' = 0
        BY <2>5, <4>1, SMT, SMTT(30)
      <4> QED
        BY <4>2, SMT, SMTT(30) DEF LineOpen
    <3>2. CASE ~Over(v)
      <4>1. LineLen' = LineLen + 1 /\ v # NL
        BY <2>2, <2>3, <2>4, <2>5, <3>2, Zenon
      <4> QED
        BY <1>1, <2>3, <2>4, <3>2, <4>1, SMT, SMTT(30) DEF LineOpen
    <3> QED
      BY <3>1, <3>2, Zenon
  <2>7. Promise!Type(v)
    <3>1. Len(Bytes(r, w)) + Len(Bytes(w, e)) < INPUT_BUF
      BY <1>0, <1>1, <2>1, Zenon
    <3>2. Over(v) <=> v \in {NL, EOF} \/ Len(Bytes(r, w)) + Len(typed) = INPUT_BUF
      BY <1>0, <1>1, <2>2, <2>4, SMT, SMTT(30)
    <3> QED
      BY <2>3, <3>1, <3>2, Zenon DEF Promise!Type, typed
  <2> QED
    BY <2>1, <2>2, <2>6, <2>7, Zenon DEF Promise!Next
<1>4. CASE KeyErase
  <2>1. RingOK'
    BY <1>4, EraseRing, Zenon
  <2>2. /\ Bytes(w, e) # <<>> /\ Bytes(w, e)' = SubSeq(Bytes(w, e), 1, Len(Bytes(w, e)) - 1)
        /\ Bytes(r, w)' = Bytes(r, w)
    BY <1>4, <2>1, EraseLine, Zenon
  <2>3. Promise!Erase
    BY <2>2, Zenon DEF Promise!Erase, Promise!Front
  <2>4. LineOpen'
    <3>1. Len(Bytes(w, e)') = LineLen' /\ LineLen' \in Nat
      BY <2>1, RingFactsThen, Zenon DEF BytesOK, LengthsOK
    <3>2. LineLen # 0
      BY <1>0, <2>2, SMT, SMTT(30)
    <3> DEFINE u == SubSeq(Bytes(w, e), 1, LineLen - 1)
    <3>3. Len(u) = LineLen - 1 /\ \A k \in 1..(LineLen - 1) : u[k] = Bytes(w, e)[k]
      BY <1>0, <1>1, <3>2, SMT, SMTT(30)
    <3>4. Bytes(w, e)' = u
      BY <1>0, <2>2, Zenon
    <3> HIDE DEF u
    <3> QED
      BY <1>1, <3>1, <3>3, <3>4, SMT, SMTT(30) DEF LineOpen
  <2> QED
    BY <2>1, <2>3, <2>4, Zenon DEF Promise!Next
<1>5. CASE KeyKillLine
  <2>1. RingOK' /\ e' = w /\ UNCHANGED <<buf, r, w>>
    BY <1>5, KillRing, Zenon
  <2>2. LineLen' = 0
    <3>1. w \in 0..(Wrap - 1) /\ LineLen' = IF e' >= w' THEN e' - w' ELSE e' - w' + Wrap
      BY <2>1, RingFactsThen, Zenon DEF LengthsOK, RingOK
    <3> QED
      BY <2>1, <3>1, RingSizes, SMT, SMTT(30)
  <2>3. Bytes(w, e)' = <<>>
    BY <2>1, <2>2, RingFactsThen, SMT, SMTT(30) DEF BytesOK
  <2>4. Bytes(r, w)' = Bytes(r, w)
    BY <2>1, Zenon DEF Bytes
  <2>5. LineOpen'
    BY <2>2, SMT, SMTT(30) DEF LineOpen
  <2>6. Promise!KillLine
    BY <2>3, <2>4, Zenon DEF Promise!KillLine
  <2> QED
    BY <2>1, <2>5, <2>6, Zenon DEF Promise!Next
<1>6. ASSUME NEW p \in Readers, ReadByte(p) PROVE RingOK' /\ LineOpen' /\ [Promise!Next]_(Promise!vars)
  <2>1. CASE r' = r
    BY <1>2, <1>6, <2>1, Zenon DEF ReadByte
  <2>2. CASE r' # r
    <3>1. RingOK' /\ LineLen' = LineLen
      BY <1>6, <2>2, TakeRing, Zenon
    <3>2. Bytes(r, w) # <<>> /\ Bytes(r, w)' = Tail(Bytes(r, w)) /\ Bytes(w, e)' = Bytes(w, e)
      BY <1>6, <2>2, <3>1, TakeLine, Zenon
    <3>3. LineOpen'
      BY <3>1, <3>2, Zenon DEF LineOpen
    <3>4. Promise!Take
      BY <3>2, Zenon DEF Promise!Take
    <3> QED
      BY <3>1, <3>3, <3>4, Zenon DEF Promise!Next
  <2> QED
    BY <2>1, <2>2, Zenon
<1>7. ASSUME NEW p \in Readers, ReadStep(p) \/ Kill(p) \/ Exit(p) \/ \E k \in Sizes : ReadCall(p, k)
      PROVE  UNCHANGED input \/ ReadByte(p)
  BY <1>7, Zenon
     DEF ReadStep, Ilock, ReadEnter, Acquire, ReadEmpty, ReadSleep, ReadEnough, Relock, ReadReturn,
         Kill, Exit, ReadCall
<1>8. ASSUME NEW p \in Writers, WriteStep(p) \/ WriteCall(p) PROVE UNCHANGED input
  BY <1>8, Zenon DEF WriteStep, BeginTrans, Ilock, WriteOut, Relock, WriteReturn, WriteCall
<1>9. ASSUME UNCHANGED input \/ UNCHANGED vars PROVE RingOK' /\ LineOpen' /\ [Promise!Next]_(Promise!vars)
  BY <1>2, <1>9, Zenon DEF input, vars
<1> QED
  BY <1>3, <1>4, <1>5, <1>6, <1>7, <1>8, <1>9, Zenon DEF Next

LEMMA LineInit == Init => RingOK /\ LineOpen /\ Promise!Init
<1> SUFFICES ASSUME Init PROVE RingOK /\ LineOpen /\ Promise!Init
  OBVIOUS
<1>1. r = 0 /\ w = 0 /\ e = 0 /\ buf = [k \in 0..(INPUT_BUF - 1) |-> NL]
  BY Zenon DEF Init
<1>2. (0 - 0) % Wrap = 0
  BY RingSizes, ModUnique, SMT, SMTT(30)
<1>3. ReadyLen = 0 /\ LineLen = 0 /\ Used = 0
  BY <1>1, <1>2, Zenon DEF ReadyLen, LineLen, Used
<1>4. RingOK
  BY <1>1, <1>3, RingSizes, SMT, SMTT(30) DEF RingOK, Val
<1>5. Bytes(r, w) = <<>> /\ Bytes(w, e) = <<>>
  BY <1>3, <1>4, BytesAre, SMT, SMTT(30) DEF BytesOK
<1> QED
  BY <1>3, <1>4, <1>5, SMT, SMTT(30) DEF LineOpen, Promise!Init

\* The ring with its three wrapping indexes is an editable line in front of a
\* queue, whatever the size of the ring and wherever the indexes wrap.
THEOREM InputIsLine == Spec => LineSpec
<1>1. Init => RingOK /\ LineOpen /\ Promise!Init
  BY LineInit, Zenon
<1>2. RingOK /\ LineOpen /\ [Next]_vars => RingOK' /\ LineOpen' /\ [Promise!Next]_(Promise!vars)
  BY LineStep, Zenon
<1> QED
  BY <1>1, <1>2, PTL DEF Spec, LineSpec, Promise!Spec

\* What the rest of the state looks like; n only falls, from target.
CallOK ==
  /\ ino \in Proc \cup {NONE} /\ trans \in Writers \cup {NONE}
  /\ target \in [Readers -> Sizes \cup {0}]
  /\ n \in [Readers -> Nat] /\ \A p \in Readers : n[p] <= target[p]
  /\ killed \subseteq Killable

LEMMA CallStep ==
  ASSUME CallOK, [Next]_vars
  PROVE  CallOK'
<1>0. /\ \A k \in Sizes \cup {0} : k \in Nat
      /\ Readers \subseteq Proc /\ Writers \subseteq Proc
  BY SizesAssumption, SMT, SMTT(30) DEF Proc
<1> USE DEF CallOK
<1>1. ASSUME UNCHANGED <<ino, trans, target, n, killed>> PROVE CallOK'
  BY <1>1, Zenon
<1>2. ASSUME NEW c \in Val \cup {CR}, KeyChar(c) PROVE CallOK'
  BY <1>2, Zenon DEF KeyChar, Insert
<1>3. CASE KeyErase \/ KeyKillLine
  BY <1>3, Zenon DEF KeyErase, KeyKillLine
<1>4. ASSUME NEW p \in Proc, ino' \in {p, NONE}, UNCHANGED <<trans, target, n, killed>> PROVE CallOK'
  BY <1>4, Zenon
<1>5. ASSUME NEW p \in Readers, ReadStep(p) PROVE CallOK'
  <2>1. CASE Ilock(p) \/ ReadEnter(p) \/ Relock(p)
    BY <1>0, <2>1, Zenon DEF Ilock, ReadEnter, Relock
  <2>2. CASE Acquire(p) \/ ReadEmpty(p) \/ ReadSleep(p) \/ ReadEnough(p)
    BY <2>2, Zenon DEF Acquire, ReadEmpty, ReadSleep, ReadEnough
  <2>3. CASE ReadByte(p)
    <3>1. UNCHANGED <<ino, trans, target, killed>> /\ n[p] > 0
      BY <2>3, Zenon DEF ReadByte
    <3>2. \E k \in {n[p], n[p] - 1} : n' = [n EXCEPT ![p] = k]
      BY <2>3, Zenon DEF ReadByte
    <3>3. n' \in [Readers -> Nat] /\ \A q \in Readers : n'[q] <= n[q]
      BY <3>1, <3>2, SMT, SMTT(30)
    <3>4. \A q \in Readers : n[q] \in Nat /\ n'[q] \in Nat /\ target[q] \in Nat
      BY <1>0, <3>3, Zenon
    <3> QED
      BY <3>1, <3>3, <3>4, SMT, SMTT(30)
  <2>4. CASE ReadReturn(p)
    <3>1. /\ ino' = NONE /\ UNCHANGED <<trans, killed>>
          /\ target' = [target EXCEPT ![p] = 0] /\ n' = [n EXCEPT ![p] = 0]
      BY <2>4, Zenon DEF ReadReturn
    <3> QED
      BY <3>1, SMT, SMTT(30)
  <2> QED
    BY <1>5, <2>1, <2>2, <2>3, <2>4, Zenon DEF ReadStep
<1>6. ASSUME NEW p \in Readers, NEW k \in Sizes, ReadCall(p, k) PROVE CallOK'
  <2>1. /\ UNCHANGED <<ino, trans, killed>> /\ k \in Nat
        /\ target' = [target EXCEPT ![p] = k] /\ n' = [n EXCEPT ![p] = k]
    BY <1>0, <1>6, Zenon DEF ReadCall
  <2> QED
    BY <2>1, SMT, SMTT(30)
<1>7. ASSUME NEW p \in Readers, Kill(p) \/ Exit(p) PROVE CallOK'
  BY <1>7, Zenon DEF Kill, Exit
<1>8. ASSUME NEW p \in Writers, WriteStep(p) \/ WriteCall(p) PROVE CallOK'
  BY <1>0, <1>8, Zenon DEF WriteStep, BeginTrans, Ilock, WriteOut, Relock, WriteReturn, WriteCall
<1>9. CASE UNCHANGED vars
  BY <1>9, Zenon DEF vars
<1> QED
  BY <1>2, <1>3, <1>5, <1>6, <1>7, <1>8, <1>9, Zenon DEF Next

\* The state of the console stays in its types: in particular the three indexes
\* of the ring stay in order and at most a buffer apart, also where they wrap.
THEOREM ConsoleTypes == Spec => []TypeOK
<1>1. Init => CallOK
  BY SizesAssumption, SMT, SMTT(30) DEF Init, CallOK
<1>2. CallOK /\ [Next]_vars => CallOK'
  BY CallStep, Zenon
<1>3. Init => RingOK /\ LineOpen
  BY LineInit, Zenon
<1>4. RingOK /\ LineOpen /\ [Next]_vars => RingOK' /\ LineOpen'
  BY LineStep, Zenon
<1>5. RingOK /\ CallOK /\ WakeInv => TypeOK
  BY Zenon DEF TypeOK, RingOK, CallOK, WakeInv, ReadyLen, Used
<1>6. Spec => []WakeInv
  BY WakeInvariant, Zenon
<1> QED
  BY <1>1, <1>2, <1>3, <1>4, <1>5, <1>6, PTL DEF Spec
=============================================================================
