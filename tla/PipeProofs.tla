----------------------------- MODULE PipeProofs -----------------------------
(***************************************************************************)
(* Sleeping, waking and freeing in a pipe, and the queue that its circular *)
(* buffer is, for any number of readers and writers, any size of the       *)
(* buffer and any sizes of the calls.                                      *)
(***************************************************************************)
EXTENDS Pipe, RingLemmas, SequenceTheorems, TLAPS

WriterPc == {"user", "write", "full", "wsleep", "wwoken", "close", "gone"}
ReaderPc == {"user", "read", "empty", "rsleep", "rwoken", "copy", "close", "gone"}

Types ==
  /\ pc \in [Proc -> Pc] /\ lock \in Proc \cup {NONE}
  /\ killed \in [Proc -> BOOLEAN] /\ holds \subseteq Proc
  /\ readopen \in BOOLEAN /\ writeopen \in BOOLEAN /\ freed \in BOOLEAN
  /\ \A p \in Writers : pc[p] \in WriterPc
  /\ \A p \in Readers : pc[p] \in ReaderPc

\* p->lock is held exactly from the start of a call to its end or its sleep.
LockHeld == \A p \in Proc : pc[p] \in {"write", "full", "read", "empty", "copy"} <=> lock = p

\* A process that has its end open has not closed it; the one that calls
\* pipeclose() is alone and last; an end that is closed nobody has.
EndsClosed ==
  /\ \A p \in Proc : p \in holds <=> pc[p] \notin {"close", "gone"}
  /\ \A p \in Proc : pc[p] = "close" => \A q \in Peers(p) : q # p => pc[q] = "gone"
  /\ ~readopen => \A p \in Readers : pc[p] = "gone"
  /\ ~writeopen => \A p \in Writers : pc[p] = "gone"
  /\ freed => ~readopen /\ ~writeopen

\* A reader that found the pipe empty and a writer that found it full are
\* still right, unless somebody in a call will wake them or a writer was killed.
StillWaiting ==
  \A p \in Proc :
    /\ pc[p] = "empty" => Empty /\ writeopen
    /\ pc[p] = "full" => Full /\ readopen
    /\ pc[p] = "rsleep" =>
         \/ Empty /\ writeopen
         \/ \E w \in Writers : killed[w]
         \/ lock \in Writers
    /\ pc[p] = "wsleep" => (Full /\ readopen) \/ \E r \in Readers : pc[r] = "copy"

PipeInv == Types /\ LockHeld /\ EndsClosed /\ StillWaiting

-----------------------------------------------------------------------------

LEMMA PipeInit == Init => PipeInv
<1> SUFFICES ASSUME Init PROVE PipeInv
  OBVIOUS
<1> USE ProcAssumption DEF Init, Proc
<1>1. Types
  BY Zenon DEF Types, Pc, WriterPc, ReaderPc
<1>2. LockHeld
  BY Zenon DEF LockHeld
<1>3. EndsClosed
  BY Zenon DEF EndsClosed
<1>4. StillWaiting
  BY Zenon DEF StillWaiting
<1> QED
  BY <1>1, <1>2, <1>3, <1>4, Zenon DEF PipeInv

\* What a step of a call does: it goes on, sleeps or returns, may wake others,
\* and leaves the ends as they are.
Inside(p) ==
  /\ pc[p] \notin {"close", "gone"} /\ pc'[p] \notin {"close", "gone"}
  /\ \A q \in Proc \ {p} :
       \/ pc'[q] = pc[q]
       \/ pc[q] \in {"rsleep", "wsleep"} /\ pc'[q] \in {"rwoken", "wwoken"}
  /\ UNCHANGED <<holds, readopen, writeopen, freed>>

LEMMA EndsKept ==
  ASSUME PipeInv, NEW p \in Proc, Inside(p)
  PROVE  EndsClosed'
BY Zenon DEF PipeInv, EndsClosed, Peers, Proc, Inside

\* A writer's step inside pipewrite().
LEMMA WriterStep ==
  ASSUME PipeInv, NEW w \in Writers, WriteStep(w) \/ \E k \in Sizes : WriteCall(w, k)
  PROVE  PipeInv'
<1> USE ProcAssumption DEF Proc
<1>0. pc \in [Proc -> Pc] /\ w \in Proc
  BY Zenon DEF PipeInv, Types
<1>1. ASSUME NEW k \in Sizes, WriteCall(w, k) PROVE PipeInv'
  <2>1. lock = NONE /\ lock' = w /\ pc[w] = "user" /\ pc' = [pc EXCEPT ![w] = "write"] /\ UNCHANGED <<fields, killed, holds>>
    BY <1>1, Zenon DEF WriteCall, Call
  <2>2. Types'
    BY <2>1, Zenon DEF PipeInv, Types, Pc, WriterPc, fields
  <2>3. LockHeld'
    BY <2>1, Zenon DEF PipeInv, Types, LockHeld
  <2>4. EndsClosed'
    <3>1. Inside(w)
      BY <1>0, <2>1, Zenon DEF Inside, fields
    <3> QED
      BY <1>0, <3>1, EndsKept, Zenon
  <2>5. StillWaiting'
    BY <2>1, Zenon DEF PipeInv, Types, StillWaiting, Empty, Full, fields
  <2> QED
    BY <2>2, <2>3, <2>4, <2>5, Zenon DEF PipeInv
<1>2. ASSUME NEW v \in Val, WriteByte(w, v) PROVE PipeInv'
  <2>1. lock = w /\ ~Full /\ UNCHANGED <<readopen, writeopen, freed, lock, pc, killed, holds>>
    BY <1>2, Zenon DEF WriteByte, PipeInv, LockHeld
  <2>2. \A q \in Proc : pc[q] \notin {"wsleep", "full"} /\ (pc[q] = "empty" => FALSE)
    BY <2>1, Zenon DEF PipeInv, Types, LockHeld, StillWaiting, WriterPc, ReaderPc
  <2>3. StillWaiting'
    BY <2>1, <2>2, Zenon DEF PipeInv, StillWaiting
  <2> QED
    BY <2>1, <2>3, Zenon DEF PipeInv, Types, LockHeld, EndsClosed
<1>3. CASE WriteFull(w)
  <2>1. lock = w /\ Full /\ UNCHANGED <<fields, killed, holds>> /\ pc[w] = "write"
    BY <1>3, Zenon DEF WriteFull, ReturnTo, PipeInv, LockHeld
  <2>2. CASE ~readopen \/ killed[w]
    <3>1. lock' = NONE /\ pc' = [pc EXCEPT ![w] = "user"]
      BY <1>3, <2>2, Zenon DEF WriteFull, ReturnTo
    <3>2. Types'
      BY <2>1, <3>1, Zenon DEF PipeInv, Types, Pc, WriterPc, fields
    <3>3. LockHeld'
      BY <2>1, <3>1, Zenon DEF PipeInv, Types, LockHeld
    <3>4. EndsClosed'
      <4>1. Inside(w)
        BY <1>0, <2>1, <3>1, Zenon DEF Inside, fields
      <4> QED
        BY <1>0, <4>1, EndsKept, Zenon
    <3>5. StillWaiting'
      <4>1. ASSUME ~killed[w] PROVE \A q \in Readers : pc[q] = "gone"
        BY <4>1, <2>2, Zenon DEF PipeInv, EndsClosed
      <4> QED
        BY <2>1, <3>1, <4>1, Zenon DEF PipeInv, Types, StillWaiting, Empty, Full, fields, WriterPc
    <3> QED
      BY <3>2, <3>3, <3>4, <3>5, Zenon DEF PipeInv
  <2>3. CASE ~(~readopen \/ killed[w])
    <3>1. pc' = [pc EXCEPT ![w] = "full"] /\ lock' = lock
      BY <1>3, <2>3, Zenon DEF WriteFull
    <3>2. Types'
      BY <2>1, <3>1, Zenon DEF PipeInv, Types, Pc, WriterPc, fields
    <3>3. LockHeld'
      BY <2>1, <3>1, Zenon DEF PipeInv, Types, LockHeld
    <3>4. EndsClosed'
      <4>1. Inside(w)
        BY <1>0, <2>1, <3>1, Zenon DEF Inside, fields
      <4> QED
        BY <1>0, <4>1, EndsKept, Zenon
    <3>5. StillWaiting'
      BY <2>1, <2>3, <3>1, Zenon DEF PipeInv, Types, StillWaiting, Empty, Full, fields
    <3> QED
      BY <3>2, <3>3, <3>4, <3>5, Zenon DEF PipeInv
  <2> QED
    BY <2>2, <2>3, Zenon
<1>4. CASE WriteSleep(w)
  <2>1. lock = w /\ lock' = NONE /\ pc[w] = "full" /\ UNCHANGED <<fields, killed, holds>>
    BY <1>4, Zenon DEF WriteSleep, PipeInv, LockHeld
  <2>2. pc' \in [Proc -> Pc] /\ pc'[w] = "wsleep"
        /\ \A q \in Proc : q # w => pc'[q] = IF pc[q] = "rsleep" THEN "rwoken" ELSE pc[q]
    BY <1>4, Zenon DEF WriteSleep, WakeReaders, PipeInv, Types, Pc
  <2>3. Types'
    BY <2>1, <2>2, Zenon DEF PipeInv, Types, WriterPc, ReaderPc, fields
  <2>4. LockHeld'
    BY <2>1, <2>2, Zenon DEF PipeInv, Types, LockHeld
  <2>5. EndsClosed'
    <3>1. Inside(w)
      BY <1>0, <2>1, <2>2, Zenon DEF Inside, fields
    <3> QED
      BY <1>0, <3>1, EndsKept, Zenon
  <2>6. StillWaiting'
    BY <2>1, <2>2, Zenon DEF PipeInv, Types, StillWaiting, Empty, Full, fields, LockHeld
  <2> QED
    BY <2>3, <2>4, <2>5, <2>6, Zenon DEF PipeInv
<1>5. CASE WriteResume(w)
  <2>1. lock = NONE /\ lock' = w /\ pc[w] = "wwoken" /\ pc' = [pc EXCEPT ![w] = "write"] /\ UNCHANGED <<fields, killed, holds>>
    BY <1>5, Zenon DEF WriteResume, Reacquire
  <2>2. Types'
    BY <2>1, Zenon DEF PipeInv, Types, Pc, WriterPc, fields
  <2>3. LockHeld'
    BY <2>1, Zenon DEF PipeInv, Types, LockHeld
  <2>4. EndsClosed'
    <3>1. Inside(w)
      BY <1>0, <2>1, Zenon DEF Inside, fields
    <3> QED
      BY <1>0, <3>1, EndsKept, Zenon
  <2>5. StillWaiting'
    BY <2>1, Zenon DEF PipeInv, Types, StillWaiting, Empty, Full, fields
  <2> QED
    BY <2>2, <2>3, <2>4, <2>5, Zenon DEF PipeInv
<1>6. CASE WriteDone(w)
  <2>1. lock = w /\ lock' = NONE /\ pc[w] = "write" /\ UNCHANGED <<fields, killed, holds>>
    BY <1>6, Zenon DEF WriteDone, ReturnTo, PipeInv, LockHeld
  <2>2. pc' \in [Proc -> Pc] /\ pc'[w] = "user"
        /\ \A q \in Proc : q # w => pc'[q] = IF pc[q] = "rsleep" THEN "rwoken" ELSE pc[q]
    BY <1>6, Zenon DEF WriteDone, ReturnTo, WakeReaders, PipeInv, Types, Pc
  <2>3. Types'
    BY <2>1, <2>2, Zenon DEF PipeInv, Types, WriterPc, ReaderPc, fields
  <2>4. LockHeld'
    BY <2>1, <2>2, Zenon DEF PipeInv, Types, LockHeld
  <2>5. EndsClosed'
    <3>1. Inside(w)
      BY <1>0, <2>1, <2>2, Zenon DEF Inside, fields
    <3> QED
      BY <1>0, <3>1, EndsKept, Zenon
  <2>6. StillWaiting'
    BY <2>1, <2>2, Zenon DEF PipeInv, Types, StillWaiting, Empty, Full, fields, LockHeld
  <2> QED
    BY <2>3, <2>4, <2>5, <2>6, Zenon DEF PipeInv
<1> QED
  BY <1>1, <1>2, <1>3, <1>4, <1>5, <1>6, Zenon DEF WriteStep

\* A reader's step inside piperead().
LEMMA ReaderStep ==
  ASSUME PipeInv, NEW r \in Readers, ReadStep(r) \/ \E k \in Sizes : ReadCall(r, k)
  PROVE  PipeInv'
<1> USE ProcAssumption DEF Proc
<1>0. pc \in [Proc -> Pc] /\ r \in Proc
  BY Zenon DEF PipeInv, Types
\* The lock is taken: a call starts or goes on after its sleep.
<1>1. ASSUME lock = NONE, lock' = r, pc[r] \in {"user", "rwoken"}, pc' = [pc EXCEPT ![r] = "read"],
             UNCHANGED <<fields, killed, holds>>
      PROVE  PipeInv'
  <2>1. Types'
    BY <1>1, Zenon DEF PipeInv, Types, Pc, ReaderPc, fields
  <2>2. LockHeld'
    BY <1>1, Zenon DEF PipeInv, Types, LockHeld
  <2>3. Inside(r)
    BY <1>0, <1>1, Zenon DEF Inside, fields
  <2>4. StillWaiting'
    BY <1>1, Zenon DEF PipeInv, Types, StillWaiting, Empty, Full, fields
  <2> QED
    BY <1>0, <2>1, <2>2, <2>3, <2>4, EndsKept, Zenon DEF PipeInv
<1>2. ASSUME NEW k \in Sizes, ReadCall(r, k) PROVE PipeInv'
  BY <1>1, <1>2, Zenon DEF ReadCall, Call
<1>3. CASE ReadResume(r)
  BY <1>1, <1>3, Zenon DEF ReadResume, Reacquire
\* The lock is kept.
<1>4. ASSUME lock = r, lock' = r, NEW place \in {"empty", "copy"}, pc[r] = "read",
             pc' = [pc EXCEPT ![r] = place], place = "empty" => Empty /\ writeopen,
             UNCHANGED <<fields, killed, holds>>
      PROVE  PipeInv'
  <2>1. Types'
    BY <1>4, Zenon DEF PipeInv, Types, Pc, ReaderPc, fields
  <2>2. LockHeld'
    BY <1>4, Zenon DEF PipeInv, Types, LockHeld
  <2>3. Inside(r)
    BY <1>0, <1>4, Zenon DEF Inside, fields
  <2>4. StillWaiting'
    BY <1>4, Zenon DEF PipeInv, Types, LockHeld, StillWaiting, Empty, Full, fields
  <2> QED
    BY <1>0, <2>1, <2>2, <2>3, <2>4, EndsKept, Zenon DEF PipeInv
<1>5. CASE ReadReady(r)
  <2>1. lock = r
    BY <1>5, Zenon DEF ReadReady, PipeInv, LockHeld
  <2> QED
    BY <1>4, <1>5, <2>1, Zenon DEF ReadReady
\* The lock is released, by a reader that has read nothing.
<1>6. ASSUME lock = r, lock' = NONE, pc[r] \in {"read", "empty"}, NEW place \in {"user", "rsleep"},
             place = "rsleep" => Empty /\ writeopen,
             pc' = [pc EXCEPT ![r] = place], UNCHANGED <<fields, killed, holds>>
      PROVE  PipeInv'
  <2>1. Types'
    BY <1>6, Zenon DEF PipeInv, Types, Pc, ReaderPc, fields
  <2>2. LockHeld'
    BY <1>6, Zenon DEF PipeInv, Types, LockHeld
  <2>3. Inside(r)
    BY <1>0, <1>6, Zenon DEF Inside, fields
  <2>4. StillWaiting'
    BY <1>6, Zenon DEF PipeInv, Types, LockHeld, StillWaiting, Empty, Full, fields, WriterPc
  <2> QED
    BY <1>0, <2>1, <2>2, <2>3, <2>4, EndsKept, Zenon DEF PipeInv
<1>7. CASE ReadEmpty(r)
  <2>1. lock = r
    BY <1>7, Zenon DEF ReadEmpty, PipeInv, LockHeld
  <2>2. CASE killed[r]
    BY <1>6, <1>7, <2>1, <2>2, Zenon DEF ReadEmpty, ReturnTo
  <2>3. CASE ~killed[r]
    BY <1>4, <1>7, <2>1, <2>3, Zenon DEF ReadEmpty
  <2> QED
    BY <2>2, <2>3, Zenon
<1>8. CASE ReadSleep(r)
  <2>1. lock = r /\ Empty /\ writeopen
    BY <1>8, Zenon DEF ReadSleep, PipeInv, LockHeld, StillWaiting
  <2> QED
    BY <1>6, <1>8, <2>1, Zenon DEF ReadSleep
<1>9. CASE ReadByte(r)
  <2>1. lock = r /\ pc[r] = "copy" /\ ~Empty /\ UNCHANGED <<readopen, writeopen, freed, lock, pc, killed, holds>>
    BY <1>9, Zenon DEF ReadByte, PipeInv, LockHeld
  <2>2. \A q \in Proc : pc[q] \notin {"empty", "full"} /\ (pc[q] = "rsleep" => \E w \in Writers : killed[w])
    BY <2>1, Zenon DEF PipeInv, LockHeld, StillWaiting
  <2>3. StillWaiting'
    BY <2>1, <2>2, Zenon DEF StillWaiting
  <2> QED
    BY <2>1, <2>3, Zenon DEF PipeInv, Types, LockHeld, EndsClosed
<1>10. CASE ReadDone(r)
  <2>1. lock = r /\ lock' = NONE /\ pc[r] = "copy" /\ UNCHANGED <<fields, killed, holds>>
    BY <1>10, Zenon DEF ReadDone, ReturnTo, PipeInv, LockHeld
  <2>2. pc' \in [Proc -> Pc] /\ pc'[r] = "user"
        /\ \A q \in Proc : q # r => pc'[q] = IF pc[q] = "wsleep" THEN "wwoken" ELSE pc[q]
    BY <1>10, Zenon DEF ReadDone, ReturnTo, WakeWriters, PipeInv, Types, Pc
  <2>3. Types'
    BY <2>1, <2>2, Zenon DEF PipeInv, Types, WriterPc, ReaderPc, fields
  <2>4. LockHeld'
    BY <2>1, <2>2, Zenon DEF PipeInv, Types, LockHeld
  <2>5. Inside(r)
    BY <1>0, <2>1, <2>2, Zenon DEF Inside, fields
  <2>6. StillWaiting'
    BY <2>1, <2>2, Zenon DEF PipeInv, Types, StillWaiting, Empty, Full, fields, LockHeld
  <2> QED
    BY <1>0, <2>3, <2>4, <2>5, <2>6, EndsKept, Zenon DEF PipeInv
<1> QED
  BY <1>2, <1>3, <1>5, <1>7, <1>8, <1>9, <1>10, Zenon DEF ReadStep

\* fileclose() of one end: the last to close it is the only one to go on.
LEMMA FileCloseStep ==
  ASSUME PipeInv, NEW p \in Proc, FileClose(p)
  PROVE  PipeInv'
<1> DEFINE place == IF holds \cap Peers(p) = {p} THEN "close" ELSE "gone"
<1>1. pc[p] = "user" /\ pc' = [pc EXCEPT ![p] = place] /\ holds' = holds \ {p} /\ p \in holds
      /\ UNCHANGED <<fields, lock, killed>>
  BY Zenon DEF FileClose
<1>2. place \in {"close", "gone"}
  OBVIOUS
<1>3. Types'
  BY <1>1, <1>2, Zenon DEF PipeInv, Types, Pc, WriterPc, ReaderPc, fields, Proc
<1>4. LockHeld'
  BY <1>1, <1>2, Zenon DEF PipeInv, Types, LockHeld
<1>5. EndsClosed'
  <2>1. \A q \in Proc : q # p => pc'[q] = pc[q]
    BY <1>1, Zenon DEF PipeInv, Types
  <2>2. pc'[p] = place
    BY <1>1, Zenon DEF PipeInv, Types
  <2>3. Peers(p) \subseteq Proc /\ \A q \in Proc : p \in Peers(q) <=> q \in Peers(p)
    BY ProcAssumption, Zenon DEF Peers, Proc
  <2>4. \A q \in Proc : q \in holds' <=> pc'[q] \notin {"close", "gone"}
    BY <1>1, <1>2, <2>1, <2>2, Zenon DEF PipeInv, EndsClosed
  <2>5. \A q \in Peers(p) : pc[q] # "close"
    BY <1>1, <2>3, Zenon DEF PipeInv, EndsClosed
  <2>6. ASSUME NEW q \in Proc, pc'[q] = "close", NEW s \in Peers(q), s # q PROVE pc'[s] = "gone"
    <3>1. CASE q = p
      <4>1. s \notin holds /\ s \in Proc
        BY <2>2, <2>3, <2>6, <3>1, Zenon
      <4> QED
        BY <2>1, <2>3, <2>5, <2>6, <3>1, <4>1, Zenon DEF PipeInv, EndsClosed
    <3>2. CASE q # p
      <4>1. s # p
        BY <2>1, <2>3, <2>5, <2>6, <3>2, Zenon
      <4>2. s \in Proc
        BY <2>6, Zenon DEF Peers, Proc
      <4> QED
        BY <2>1, <2>6, <3>2, <4>1, <4>2, Zenon DEF PipeInv, EndsClosed
    <3> QED
      BY <3>1, <3>2, Zenon
  <2>7. (~readopen => \A q \in Readers : pc'[q] = "gone") /\ (~writeopen => \A q \in Writers : pc'[q] = "gone")
    BY <1>1, <2>1, Zenon DEF PipeInv, EndsClosed, Proc
  <2> QED
    BY <1>1, <2>4, <2>6, <2>7, Zenon DEF PipeInv, EndsClosed, fields
<1>6. StillWaiting'
  BY <1>1, <1>2 DEF PipeInv, Types, StillWaiting, Empty, Full, fields
<1> QED
  BY <1>3, <1>4, <1>5, <1>6, Zenon DEF PipeInv

\* pipeclose() wakes whoever waits for the other end.
LEMMA PipeCloseStep ==
  ASSUME PipeInv, NEW p \in Proc, PipeClose(p)
  PROVE  PipeInv'
<1> USE ProcAssumption DEF Proc
<1>1. pc[p] = "close" /\ lock = NONE /\ lock' = NONE /\ freed' = (~readopen' /\ ~writeopen')
      /\ UNCHANGED <<nread, nwrite, killed, holds>>
  BY Zenon DEF PipeClose
<1>2. CASE p \in Writers
  <2>1. writeopen' = FALSE /\ readopen' = readopen
    BY <1>2, Zenon DEF PipeClose
  <2>2. pc' \in [Proc -> Pc] /\ pc'[p] = "gone"
        /\ \A q \in Proc : q # p => pc'[q] = IF pc[q] = "rsleep" THEN "rwoken" ELSE pc[q]
    BY <1>2, Zenon DEF PipeClose, WakeReaders, PipeInv, Types, Pc
  <2>3. \A q \in Writers : q # p => pc[q] = "gone"
    BY <1>1, <1>2, Zenon DEF PipeInv, EndsClosed, Peers
  <2>4. Types'
    BY <1>1, <1>2, <2>1, <2>2, Zenon DEF PipeInv, Types, WriterPc, ReaderPc
  <2>5. LockHeld'
    BY <1>1, <2>2, Zenon DEF PipeInv, Types, LockHeld
  <2>6. EndsClosed'
    BY <1>1, <1>2, <2>1, <2>2, <2>3, Zenon DEF PipeInv, Types, EndsClosed, Peers
  <2>7. StillWaiting'
    BY <1>1, <1>2, <2>1, <2>2, Zenon DEF PipeInv, Types, LockHeld, StillWaiting, Empty, Full
  <2> QED
    BY <2>4, <2>5, <2>6, <2>7, Zenon DEF PipeInv
<1>3. CASE p \in Readers
  <2>1. readopen' = FALSE /\ writeopen' = writeopen
    BY <1>3, Zenon DEF PipeClose
  <2>2. pc' \in [Proc -> Pc] /\ pc'[p] = "gone"
        /\ \A q \in Proc : q # p => pc'[q] = IF pc[q] = "wsleep" THEN "wwoken" ELSE pc[q]
    BY <1>3, Zenon DEF PipeClose, WakeWriters, PipeInv, Types, Pc
  <2>3. \A q \in Readers : q # p => pc[q] = "gone"
    BY <1>1, <1>3, Zenon DEF PipeInv, EndsClosed, Peers
  <2>4. Types'
    BY <1>1, <1>3, <2>1, <2>2, Zenon DEF PipeInv, Types, WriterPc, ReaderPc
  <2>5. LockHeld'
    BY <1>1, <2>2, Zenon DEF PipeInv, Types, LockHeld
  <2>6. EndsClosed'
    BY <1>1, <1>3, <2>1, <2>2, <2>3, Zenon DEF PipeInv, Types, EndsClosed, Peers
  <2>7. StillWaiting'
    BY <1>1, <1>3, <2>1, <2>2, Zenon DEF PipeInv, Types, LockHeld, StillWaiting, Empty, Full
  <2> QED
    BY <2>4, <2>5, <2>6, <2>7, Zenon DEF PipeInv
<1> QED
  BY <1>2, <1>3, Zenon

LEMMA KillStep ==
  ASSUME PipeInv, NEW p \in Proc, Kill(p)
  PROVE  PipeInv'
<1>1. pc' \in [Proc -> Pc]
      /\ \A q \in Proc : pc'[q] = pc[q] \/ (pc[q] = "rsleep" /\ pc'[q] = "rwoken")
                                          \/ (pc[q] = "wsleep" /\ pc'[q] = "wwoken")
  BY Zenon DEF Kill, PipeInv, Types, Pc
<1>2. UNCHANGED <<fields, lock, holds>> /\ killed' \in [Proc -> BOOLEAN]
      /\ \A q \in Proc : killed[q] => killed'[q]
  BY Zenon DEF Kill, PipeInv, Types
<1>3. Types'
  BY <1>1, <1>2, Zenon DEF PipeInv, Types, WriterPc, ReaderPc, fields, Proc
<1>4. LockHeld'
  BY <1>1, <1>2, Zenon DEF PipeInv, LockHeld
<1>5. EndsClosed'
  BY <1>1, <1>2, Zenon DEF PipeInv, EndsClosed, Peers, Proc, fields
<1>6. StillWaiting'
  BY <1>1, <1>2, Zenon DEF PipeInv, StillWaiting, Empty, Full, fields, Proc
<1> QED
  BY <1>3, <1>4, <1>5, <1>6, Zenon DEF PipeInv

LEMMA AllocStep == ASSUME PipeInv, PipeAlloc PROVE PipeInv'
<1> USE ProcAssumption DEF PipeAlloc, Proc
<1>1. lock = NONE
  BY Zenon DEF PipeInv, Types, LockHeld
<1>2. Types'
  BY Zenon DEF PipeInv, Types, Pc, WriterPc, ReaderPc
<1>3. LockHeld'
  BY <1>1, Zenon DEF LockHeld
<1>4. EndsClosed'
  BY Zenon DEF EndsClosed
<1>5. StillWaiting'
  BY Zenon DEF StillWaiting
<1> QED
  BY <1>2, <1>3, <1>4, <1>5, Zenon DEF PipeInv

LEMMA PipeInvariant == Spec => []PipeInv
<1>1. PipeInv /\ [Next]_vars => PipeInv'
  <2> SUFFICES ASSUME PipeInv, [Next]_vars PROVE PipeInv'
    OBVIOUS
  <2>1. CASE Next
    BY <2>1, WriterStep, ReaderStep, FileCloseStep, PipeCloseStep, KillStep, AllocStep, Zenon DEF Next
  <2>2. CASE UNCHANGED vars
    BY <2>2, Zenon DEF vars, fields, PipeInv, Types, LockHeld, EndsClosed, StillWaiting, Empty, Full
  <2> QED
    BY <2>1, <2>2, Zenon
<1> QED
  BY <1>1, PipeInit, PTL DEF Spec

\* pipeclose() frees the page of a pipe only after every process has closed its
\* end and left its last call.
THEOREM NotFreedInUseHolds == Spec => []NotFreedInUse
<1>1. PipeInv => NotFreedInUse
  BY Zenon DEF PipeInv, EndsClosed, NotFreedInUse, Proc
<1> QED
  BY <1>1, PipeInvariant, PTL

\* Nobody sleeps in piperead() or pipewrite() through what it waits for, unless
\* a writer was killed: the sleepers are right about the pipe whenever its lock
\* is free, whatever order of calls, closes and kills led there.
THEOREM NoLostWakeupHolds == Spec => []NoLostWakeup
<1>1. PipeInv => NoLostWakeup
  <2> SUFFICES ASSUME PipeInv, NEW p \in Proc, lock = NONE
               PROVE  /\ pc[p] = "rsleep" => (Empty /\ writeopen) \/ \E w \in Writers : killed[w]
                      /\ pc[p] = "wsleep" => Full /\ readopen
    BY Zenon DEF NoLostWakeup
  <2>1. \A q \in Proc : pc[q] # "copy" /\ lock \notin Writers
    BY ProcAssumption, Zenon DEF PipeInv, LockHeld, Proc
  <2> QED
    BY <2>1, Zenon DEF PipeInv, StillWaiting, Proc
<1> QED
  BY <1>1, PipeInvariant, PTL

-----------------------------------------------------------------------------
(* The circular buffer.                                                    *)

\* The bytes in the buffer.
Stored == (nwrite - nread) % Wrap

BufferType ==
  /\ data \in [0..(PIPESIZE - 1) -> Val]
  /\ nread \in 0..(Wrap - 1) /\ nwrite \in 0..(Wrap - 1)
  /\ Stored <= PIPESIZE

LEMMA Sizes32 == PIPESIZE \in Nat \ {0} /\ Wrap \in Nat \ {0} /\ PIPESIZE < Wrap
BY SizeAssumption, WrapAssumption

LEMMA StoredIs ==
  ASSUME BufferType
  PROVE  Stored = IF nwrite >= nread THEN nwrite - nread ELSE nwrite - nread + Wrap
BY Sizes32, WrapDiff, Zenon DEF BufferType, Stored

\* The tests of pipewrite() and piperead() are right about the buffer, although
\* the counters wrap.
LEMMA FullEmpty ==
  ASSUME BufferType
  PROVE  /\ Stored \in 0..PIPESIZE
         /\ Full <=> Stored = PIPESIZE
         /\ Empty <=> Stored = 0
<1>2. nread \in 0..(Wrap - 1) /\ nwrite \in 0..(Wrap - 1) /\ Stored <= PIPESIZE
  BY Zenon DEF BufferType
<1>3. PIPESIZE \in 0..(Wrap - 1)
  BY Sizes32
<1>1. (nread + PIPESIZE) % Wrap = IF nread + PIPESIZE >= Wrap THEN nread + PIPESIZE - Wrap
                                  ELSE nread + PIPESIZE
  BY <1>2, <1>3, Sizes32, WrapAhead, Zenon
<1> QED
  BY <1>1, <1>2, StoredIs, Sizes32 DEF Full, Empty

\* What is in the buffer, without the wrapping of the counters.
LEMMA QueueIs ==
  ASSUME BufferType
  PROVE  /\ Queue = RingSeq(data, nread, Stored, PIPESIZE)
         /\ Queue \in Seq(Val) /\ Len(Queue) = Stored
         /\ nwrite % PIPESIZE = (nread + Stored) % PIPESIZE
<1>1. Queue = RingSeq(data, nread, Stored, PIPESIZE)
  BY Zenon DEF Queue, Stored, RingSeq
<1>2. /\ data \in [0..(PIPESIZE - 1) -> Val] /\ nread \in Int /\ nwrite \in Int
      /\ Stored \in Nat
  BY FullEmpty, Sizes32 DEF BufferType
<1>3. Queue \in Seq(Val) /\ Len(Queue) = Stored
  <2>1. \A a \in Int, l \in Nat : RingSeq(data, a, l, PIPESIZE) \in Seq(Val)
                                  /\ Len(RingSeq(data, a, l, PIPESIZE)) = l
    BY <1>2, Sizes32, RingType, ZenonT(30)
  <2> QED
    BY <1>1, <1>2, <2>1, Zenon
<1>4. nread + Stored = nwrite \/ nread + Stored = nwrite + Wrap
  BY <1>2, StoredIs, Sizes32
<1>5. (nwrite + Wrap) % PIPESIZE = nwrite % PIPESIZE
  BY <1>2, Sizes32, WrapAssumption, WrapPlace, Zenon
<1> QED
  BY <1>1, <1>3, <1>4, <1>5, Zenon

\* A byte is written: it goes behind the others.
LEMMA PutByte ==
  ASSUME BufferType, ~Full, NEW v \in Val, nread' = nread,
         data' = [data EXCEPT ![nwrite % PIPESIZE] = v], nwrite' = (nwrite + 1) % Wrap
  PROVE  BufferType' /\ Queue' = Append(Queue, v) /\ Len(Queue) < PIPESIZE
<1>0. /\ nread \in 0..(Wrap - 1) /\ nwrite \in 0..(Wrap - 1) /\ nread' \in 0..(Wrap - 1)
      /\ data \in [0..(PIPESIZE - 1) -> Val]
  BY Zenon DEF BufferType
<1>1. Stored \in 0..(PIPESIZE - 1)
  BY FullEmpty, Sizes32
<1>2. nwrite' = IF nwrite + 1 = Wrap THEN 0 ELSE nwrite + 1
  BY <1>0, Sizes32, WrapNext, Zenon
<1>3. nwrite' \in 0..(Wrap - 1)
  BY <1>0, <1>2, Sizes32
<1>4. Stored' = IF nwrite' >= nread THEN nwrite' - nread ELSE nwrite' - nread + Wrap
  BY <1>0, <1>3, Sizes32, WrapDiff, Zenon DEF Stored
<1>5. Stored' = Stored + 1
  BY <1>0, <1>1, <1>2, <1>4, StoredIs, Sizes32
<1>6. data' = [data EXCEPT ![(nread + Stored) % PIPESIZE] = v]
  BY QueueIs, Zenon
<1>7. data' \in [0..(PIPESIZE - 1) -> Val]
  BY <1>0, Sizes32, DivMod, Zenon
<1>8. BufferType'
  BY <1>0, <1>1, <1>3, <1>5, <1>7, Sizes32 DEF BufferType
<1>9. Queue' = RingSeq(data', nread, Stored + 1, PIPESIZE)
  BY <1>5 DEF Queue, Stored, RingSeq
<1>10. nread \in Int
  BY <1>0
<1>11. RingSeq(data', nread, Stored + 1, PIPESIZE) = Append(RingSeq(data, nread, Stored, PIPESIZE), v)
  <2>2. (nread + Stored) % PIPESIZE \in 0..(PIPESIZE - 1)
    <3>1. nread + Stored \in Int
      BY <1>1, <1>10
    <3> QED
      BY <3>1, Sizes32, DivMod, Zenon
  <2>3. data'[(nread + Stored) % PIPESIZE] = v /\ SameBut(data, data', (nread + Stored) % PIPESIZE, PIPESIZE)
    BY <1>0, <1>6, <2>2, Zenon DEF SameBut
  <2>4. Appending(data, data', Val, PIPESIZE)
    BY <1>0, <1>7, Sizes32, RingAppend, Zenon
  <2> QED
    BY <1>1, <1>10, <2>3, <2>4, Zenon DEF Appending
<1>12. Queue' = Append(Queue, v)
  BY <1>9, <1>11, QueueIs, Zenon
<1>13. Len(Queue) < PIPESIZE
  BY <1>1, QueueIs, Sizes32
<1> QED
  BY <1>8, <1>12, <1>13, Zenon

\* A byte is read: the queue loses its head.
LEMMA GetByte ==
  ASSUME BufferType, ~Empty, data' = data, nwrite' = nwrite, nread' = (nread + 1) % Wrap
  PROVE  BufferType' /\ Queue' = Tail(Queue) /\ Queue # <<>>
<1>0. /\ nread \in 0..(Wrap - 1) /\ nwrite \in 0..(Wrap - 1)
      /\ data \in [0..(PIPESIZE - 1) -> Val]
  BY Zenon DEF BufferType
<1>1. Stored \in 1..PIPESIZE
  BY FullEmpty
<1>2. nread' = IF nread + 1 = Wrap THEN 0 ELSE nread + 1
  BY <1>0, Sizes32, WrapNext, Zenon
<1>3. nread' \in 0..(Wrap - 1)
  BY <1>0, <1>2, Sizes32
<1>4. Stored' = IF nwrite >= nread' THEN nwrite - nread' ELSE nwrite - nread' + Wrap
  BY <1>0, <1>3, Sizes32, WrapDiff, Zenon DEF Stored
<1>5. Stored' = Stored - 1
  BY <1>0, <1>1, <1>2, <1>4, StoredIs, Sizes32
<1>6. BufferType'
  BY <1>0, <1>1, <1>3, <1>5, Sizes32 DEF BufferType
<1>7. Queue' = RingSeq(data, nread', Stored - 1, PIPESIZE)
  BY <1>5, Zenon DEF Queue, Stored, RingSeq
<1>8. Stored \in Nat \ {0} /\ Stored - 1 \in Nat /\ nread \in Int /\ nread + 1 \in Int
  BY <1>0, <1>1, Sizes32
<1>9. RingSeq(data, nread', Stored - 1, PIPESIZE) = RingSeq(data, nread + 1, Stored - 1, PIPESIZE)
  <2>1. RingSeq(data, (nread + 1) - Wrap, Stored - 1, PIPESIZE) = RingSeq(data, nread + 1, Stored - 1, PIPESIZE)
    <3>1. Wrapping(data, Wrap, PIPESIZE)
      BY Sizes32, WrapAssumption, RingWrap, Zenon
    <3> QED
      BY <1>8, <3>1, Zenon DEF Wrapping
  <2>2. nread' = nread + 1 \/ nread' = (nread + 1) - Wrap
    BY <1>0, <1>2, Sizes32
  <2> QED
    BY <2>1, <2>2, Zenon
<1>10. /\ RingSeq(data, nread, Stored, PIPESIZE) # <<>>
       /\ RingSeq(data, nread + 1, Stored - 1, PIPESIZE) = Tail(RingSeq(data, nread, Stored, PIPESIZE))
  <2>1. Tailing(data, Val, PIPESIZE)
    BY <1>0, Sizes32, RingTail, Zenon
  <2> QED
    BY <1>8, <2>1, Zenon DEF Tailing
<1> QED
  BY <1>6, <1>7, <1>9, <1>10, QueueIs, Zenon

-----------------------------------------------------------------------------
(* The types, and the queue that the pipe implements.                      *)

\* A call has written or read no more than it was asked to.
CallType ==
  /\ n \in [Proc -> Sizes \cup {0}]
  /\ i \in [Proc -> Nat] /\ \A p \in Proc : i[p] <= n[p]

LEMMA CallStep ==
  ASSUME PipeInv, CallType, [Next]_vars
  PROVE  CallType'
<1> USE SizesAssumption DEF CallType
<1>1. ASSUME NEW p \in Proc, NEW k \in Sizes, NEW place, Call(p, k, place) PROVE CallType'
  BY <1>1 DEF Call
<1>2. ASSUME NEW p \in Proc, NEW f, ReturnTo(p, f) PROVE CallType'
  BY <1>2 DEF ReturnTo
<1>3. ASSUME NEW p \in Proc, i[p] < n[p], i' = [i EXCEPT ![p] = @ + 1], n' = n PROVE CallType'
  <2>1. i' \in [Proc -> Nat]
    BY <1>3
  <2>2. ASSUME NEW q \in Proc PROVE i'[q] <= n[q]
    <3>1. i[q] \in Nat /\ n[q] \in Nat /\ i[q] <= n[q]
      <4>1. i \in [Proc -> Nat] /\ n \in [Proc -> Sizes \cup {0}] /\ i[q] <= n[q]
        BY Zenon DEF CallType
      <4>2. n[q] \in Sizes \/ n[q] = 0
        BY <4>1, Zenon
      <4>3. n[q] \in Nat
        <5>1. \A k \in Sizes \cup {0} : k \in Nat
          BY SizesAssumption
        <5> QED
          BY <4>2, <5>1, Zenon
      <4> QED
        BY <4>1, <4>3, Zenon
    <3>2. i'[q] = IF q = p THEN i[q] + 1 ELSE i[q]
      BY <1>3, Zenon
    <3> QED
      BY <1>3, <3>1, <3>2
  <2> QED
    BY <1>3, <2>1, <2>2, Zenon
<1>4. CASE UNCHANGED <<n, i>>
  BY <1>4, Zenon
<1>5. ASSUME NEW w \in Writers, WriteStep(w) \/ \E k \in Sizes : WriteCall(w, k) PROVE CallType'
  <2>1. w \in Proc
    BY Zenon DEF Proc
  <2>2. CASE \E k \in Sizes : WriteCall(w, k)
    BY <1>1, <2>1, <2>2, Zenon DEF WriteCall
  <2>3. CASE \E v \in Val : WriteByte(w, v)
    BY <1>3, <2>1, <2>3, Zenon DEF WriteByte
  <2>4. CASE WriteFull(w)
    BY <1>2, <1>4, <2>1, <2>4, Zenon DEF WriteFull
  <2>5. CASE WriteDone(w)
    BY <1>2, <2>1, <2>5, Zenon DEF WriteDone
  <2>6. CASE WriteSleep(w) \/ WriteResume(w)
    BY <1>4, <2>6, Zenon DEF WriteSleep, WriteResume, Reacquire
  <2> QED
    BY <1>5, <2>2, <2>3, <2>4, <2>5, <2>6, Zenon DEF WriteStep
<1>6. ASSUME NEW r \in Readers, ReadStep(r) \/ \E k \in Sizes : ReadCall(r, k) PROVE CallType'
  <2>1. r \in Proc
    BY Zenon DEF Proc
  <2>2. CASE \E k \in Sizes : ReadCall(r, k)
    BY <1>1, <2>1, <2>2, Zenon DEF ReadCall
  <2>3. CASE ReadByte(r)
    BY <1>3, <2>1, <2>3, Zenon DEF ReadByte
  <2>4. CASE ReadEmpty(r)
    BY <1>2, <1>4, <2>1, <2>4, Zenon DEF ReadEmpty
  <2>5. CASE ReadDone(r)
    BY <1>2, <2>1, <2>5, Zenon DEF ReadDone
  <2>6. CASE ReadReady(r) \/ ReadSleep(r) \/ ReadResume(r)
    BY <1>4, <2>6, Zenon DEF ReadReady, ReadSleep, ReadResume, Reacquire
  <2> QED
    BY <1>6, <2>2, <2>3, <2>4, <2>5, <2>6, Zenon DEF ReadStep
<1>7. ASSUME NEW p \in Proc, FileClose(p) \/ PipeClose(p) \/ Kill(p) PROVE CallType'
  BY <1>4, <1>7, Zenon DEF FileClose, PipeClose, Kill
<1>8. CASE PipeAlloc \/ UNCHANGED vars
  BY <1>4, <1>8, Zenon DEF PipeAlloc, vars
<1> QED
  BY <1>5, <1>6, <1>7, <1>8, Zenon DEF Next

\* Every step of the pipe is a step of the queue or leaves the queue alone.
LEMMA QueueStep ==
  ASSUME PipeInv, BufferType, [Next]_vars
  PROVE  BufferType' /\ [Promise!Next]_(Promise!vars)
<1>1. ASSUME UNCHANGED <<data, nread, nwrite>> PROVE BufferType' /\ Queue' = Queue
  BY <1>1, Zenon DEF BufferType, Stored, Queue
<1>2. CASE UNCHANGED fields
  BY <1>1, <1>2, Zenon DEF fields, Promise!vars
<1>3. ASSUME NEW w \in Writers, NEW v \in Val, WriteByte(w, v)
      PROVE  BufferType' /\ [Promise!Next]_(Promise!vars)
  <2>1. writeopen
    BY <1>3, Zenon DEF WriteByte, PipeInv, EndsClosed
  <2>2. BufferType' /\ Queue' = Append(Queue, v) /\ Len(Queue) < PIPESIZE
    BY <1>3, PutByte, Zenon DEF WriteByte
  <2>3. Promise!Put(v)
    BY <1>3, <2>1, <2>2, Zenon DEF WriteByte, Promise!Put
  <2> QED
    BY <2>2, <2>3, Zenon DEF Promise!Next
<1>4. ASSUME NEW r \in Readers, ReadByte(r)
      PROVE  BufferType' /\ [Promise!Next]_(Promise!vars)
  <2>1. readopen
    BY <1>4, Zenon DEF ReadByte, PipeInv, EndsClosed
  <2>2. BufferType' /\ Queue' = Tail(Queue) /\ Queue # <<>>
    BY <1>4, GetByte, Zenon DEF ReadByte
  <2>3. Promise!Get
    BY <1>4, <2>1, <2>2, Zenon DEF ReadByte, Promise!Get
  <2> QED
    BY <2>2, <2>3, Zenon DEF Promise!Next
<1>5. ASSUME NEW p \in Proc, PipeClose(p)
      PROVE  BufferType' /\ [Promise!Next]_(Promise!vars)
  <2>1. BufferType' /\ Queue' = Queue
    BY <1>1, <1>5, Zenon DEF PipeClose
  <2>2. CASE p \in Writers
    <3>1. Promise!CloseWrite
      BY <1>5, <2>1, <2>2, Zenon DEF PipeClose, PipeInv, EndsClosed, Promise!CloseWrite
    <3> QED
      BY <2>1, <3>1, Zenon DEF Promise!Next
  <2>3. CASE p \notin Writers
    <3>1. Promise!CloseRead
      BY <1>5, <2>1, <2>3, Zenon DEF PipeClose, PipeInv, EndsClosed, Proc, Promise!CloseRead
    <3> QED
      BY <2>1, <3>1, Zenon DEF Promise!Next
  <2> QED
    BY <2>2, <2>3, Zenon
<1>6. CASE PipeAlloc
  <2>1. BufferType' /\ Queue' = <<>>
    <3>1. (0 - 0) % Wrap = 0
      BY Sizes32
    <3>2. BufferType'
      BY <1>6, <3>1, Sizes32 DEF PipeAlloc, BufferType, Stored
    <3> QED
      BY <1>6, <3>1, <3>2 DEF PipeAlloc, Queue
  <2>2. Promise!Renew
    BY <1>6, <2>1, Zenon DEF PipeAlloc, PipeInv, EndsClosed, Promise!Renew
  <2> QED
    BY <2>1, <2>2, Zenon DEF Promise!Next
<1>7. ASSUME NEW w \in Writers, WriteStep(w) \/ \E k \in Sizes : WriteCall(w, k)
      PROVE  UNCHANGED fields \/ \E v \in Val : WriteByte(w, v)
  BY <1>7, Zenon
     DEF WriteStep, WriteCall, Call, WriteFull, WriteSleep, WriteResume, Reacquire, WriteDone
<1>8. ASSUME NEW r \in Readers, ReadStep(r) \/ \E k \in Sizes : ReadCall(r, k)
      PROVE  UNCHANGED fields \/ ReadByte(r)
  BY <1>8, Zenon
     DEF ReadStep, ReadCall, Call, ReadReady, ReadEmpty, ReadSleep, ReadResume, Reacquire, ReadDone
<1>9. ASSUME NEW p \in Proc, FileClose(p) \/ Kill(p) PROVE UNCHANGED fields
  BY <1>9, Zenon DEF FileClose, Kill
<1>10. CASE UNCHANGED vars
  BY <1>2, <1>10, Zenon DEF vars
<1> QED
  BY <1>2, <1>3, <1>4, <1>5, <1>6, <1>7, <1>8, <1>9, <1>10, Zenon DEF Next

LEMMA BufferInit == Init => BufferType /\ CallType /\ Queue = <<>>
<1> SUFFICES ASSUME Init PROVE BufferType /\ CallType /\ Queue = <<>>
  OBVIOUS
<1>1. (0 - 0) % Wrap = 0
  BY Sizes32
<1>2. BufferType /\ CallType
  BY <1>1, Sizes32 DEF Init, BufferType, Stored, CallType
<1> QED
  BY <1>1, <1>2 DEF Init, Queue

LEMMA BufferInvariant == Spec => [](BufferType /\ CallType)
<1>1. PipeInv /\ BufferType /\ CallType /\ [Next]_vars => BufferType' /\ CallType'
  BY QueueStep, CallStep, Zenon
<1> QED
  BY <1>1, BufferInit, PipeInvariant, PTL DEF Spec

\* The types hold in every reachable state: nwrite never runs more than
\* PIPESIZE ahead of nread, whether or not the two counters have wrapped, and
\* no call copies more bytes than it was asked for.
THEOREM PipeTypes == Spec => []TypeOK
<1>1. PipeInv /\ BufferType /\ CallType => TypeOK
  BY Zenon DEF PipeInv, Types, BufferType, Stored, CallType, TypeOK
<1> QED
  BY <1>1, PipeInvariant, BufferInvariant, PTL

\* The pipe implements a bounded FIFO queue, for every size of the buffer, any
\* numbers of readers and writers and any wrapping of the counters: what
\* pipewrite() puts in is what piperead() takes out, in that order.
THEOREM PipeIsFifo == Spec => FifoSpec
<1>1. Init => Promise!Init
  BY BufferInit, Zenon DEF Init, Promise!Init
<1>2. PipeInv /\ BufferType /\ [Next]_vars => [Promise!Next]_(Promise!vars)
  BY QueueStep, Zenon
<1> QED
  BY <1>1, <1>2, PipeInvariant, BufferInvariant, PTL DEF Spec, FifoSpec, Promise!Spec
=============================================================================
