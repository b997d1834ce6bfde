------------------------------ MODULE Console -------------------------------
(***************************************************************************)
(* The console (console.c): the input buffer that the keyboard and serial  *)
(* interrupts fill and that read() empties, the inode lock that read() and *)
(* write() give up while they wait, and the transaction that write() holds *)
(* meanwhile.  A key is handled under input.lock in one step, a byte is    *)
(* read in one; kill() takes no part in that lock.  Keys that change       *)
(* nothing (control-P and 0) are left out; a write is of one chunk.        *)
(***************************************************************************)
EXTENDS Integers, FiniteSets

CONSTANTS
  Readers, Writers,  \* the processes that read and write the console
  NONE,
  Char,              \* bytes other than the ones below
  NL, CR, EOF,       \* newline, carriage return, control-D
  INPUT_BUF,
  Wrap,              \* 2^32: r, w and e are uints
  Sizes,             \* the arguments n of read()
  Killable

Proc == Readers \cup Writers
Val == Char \cup {NL, EOF}

ASSUME ProcAssumption == Readers \cap Writers = {} /\ NONE \notin Proc /\ Killable \subseteq Readers
ASSUME BufAssumption == INPUT_BUF \in Nat \ {0} /\ Wrap \in Nat /\ Wrap % INPUT_BUF = 0 /\ Wrap > INPUT_BUF
ASSUME SizesAssumption == Sizes \subseteq Nat
ASSUME CharAssumption == Cardinality({NL, CR, EOF} \cup Char) = 3 + Cardinality(Char)

VARIABLES
  buf, r, w, e,  \* input
  lock,          \* the holder of input.lock
  ino,           \* the process that has the console's inode locked
  trans,         \* the process in a transaction
  pc, target, n, \* per process: where it is, and the variables of consoleread()
  killed

input == <<buf, r, w, e>>
vars == <<input, lock, ino, trans, pc, target, n, killed>>

\* user, or: begin, a transaction is needed; called, the inode is; inside, with
\* it locked; acquire, input.lock is needed; loop; empty, about to sleep; sleep;
\* done, the inode is needed again; return, with it locked.
Pc == {"user", "begin", "called", "inside", "acquire", "loop", "empty", "sleep", "done", "return"}

\* The indexes are at most a buffer apart and in order, also when they wrap.
TypeOK ==
  /\ buf \in [0..(INPUT_BUF - 1) -> Val]
  /\ {r, w, e} \subseteq 0..(Wrap - 1)
  /\ (w - r) % Wrap <= (e - r) % Wrap /\ (e - r) % Wrap <= INPUT_BUF
  /\ lock \in Readers \cup {NONE} /\ ino \in Proc \cup {NONE} /\ trans \in Writers \cup {NONE}
  /\ pc \in [Proc -> Pc]
  /\ target \in [Readers -> Sizes \cup {0}]
  /\ n \in [Readers -> Nat] /\ \A p \in Readers : n[p] <= target[p]
  /\ killed \subseteq Killable

\* consoleinit().
Init ==
  /\ buf = [k \in 0..(INPUT_BUF - 1) |-> NL]
  /\ r = 0 /\ w = 0 /\ e = 0
  /\ lock = NONE /\ ino = NONE /\ trans = NONE
  /\ pc = [p \in Proc |-> "user"]
  /\ target = [p \in Readers |-> 0] /\ n = [p \in Readers |-> 0]
  /\ killed = {}

-----------------------------------------------------------------------------
(* consoleintr().                                                          *)

\* wakeup(&input.r).
Woken == [p \in Proc |-> IF pc[p] = "sleep" THEN "acquire" ELSE pc[p]]

Used == (e - r) % Wrap
ToNewline(c) == IF c = CR THEN NL ELSE c

\* The byte v ends a line, or takes the last room there is.
Over(v) == v \in {NL, EOF} \/ (e + 1) % Wrap = (r + INPUT_BUF) % Wrap

\* The byte v goes to the place at; a line that is over is handed to the readers.
Insert(v, at, wakes) ==
  /\ lock = NONE
  /\ buf' = [buf EXCEPT ![at % INPUT_BUF] = v]
  /\ e' = (e + 1) % Wrap
  /\ w' = IF Over(v) THEN e' ELSE w
  /\ pc' = IF wakes THEN Woken ELSE pc
  /\ UNCHANGED <<r, lock, ino, trans, target, n, killed>>

\* Mutant: no check that there is room.
KeyCharUnchecked(c) == LET v == ToNewline(c) IN Insert(v, e, Over(v))

\* Mutant: the index is incremented before it is used.
KeyCharAhead(c) == LET v == ToNewline(c) IN Used < INPUT_BUF /\ Insert(v, e + 1, Over(v))

\* Mutant: a line that fills the buffer wakes nobody.
KeyCharSilent(c) == LET v == ToNewline(c) IN Used < INPUT_BUF /\ Insert(v, e, v \in {NL, EOF})

KeyChar(c) == LET v == ToNewline(c) IN Used < INPUT_BUF /\ Insert(v, e, Over(v))

KeyErase ==
  /\ lock = NONE /\ e # w
  /\ e' = (e - 1) % Wrap
  /\ UNCHANGED <<buf, r, w, lock, ino, trans, pc, target, n, killed>>

\* Control-U goes back to w, or to a newline after it.
KeyKillLine ==
  LET stop == {k \in 0..((e - w) % Wrap) :
                 k = (e - w) % Wrap \/ buf[((e - 1 - k) % Wrap) % INPUT_BUF] = NL}
      back == CHOOSE k \in stop : \A m \in stop : k <= m
  IN
  /\ lock = NONE
  /\ e' = (e - back) % Wrap
  /\ UNCHANGED <<buf, r, w, lock, ino, trans, pc, target, n, killed>>

-----------------------------------------------------------------------------
(* fileread() and consoleread().                                           *)

ReadCall(p, k) ==
  /\ pc[p] = "user" /\ p \notin killed
  /\ pc' = [pc EXCEPT ![p] = "called"]
  /\ target' = [target EXCEPT ![p] = k]
  /\ n' = [n EXCEPT ![p] = k]
  /\ UNCHANGED <<input, lock, ino, trans, killed>>

\* read() and write() lock the inode before they get to the device.
Ilock(p) ==
  /\ pc[p] = "called" /\ ino = NONE
  /\ ino' = p
  /\ pc' = [pc EXCEPT ![p] = "inside"]
  /\ UNCHANGED <<input, lock, trans, target, n, killed>>

\* Mutant: the inode stays locked while the process waits for input.
ReadEnterLocked(p) ==
  /\ pc[p] = "inside"
  /\ pc' = [pc EXCEPT ![p] = "acquire"]
  /\ UNCHANGED <<input, lock, ino, trans, target, n, killed>>

ReadEnter(p) ==
  /\ pc[p] = "inside"
  /\ ino' = NONE
  /\ pc' = [pc EXCEPT ![p] = "acquire"]
  /\ UNCHANGED <<input, lock, trans, target, n, killed>>

Acquire(p) ==
  /\ pc[p] = "acquire" /\ lock = NONE
  /\ lock' = p
  /\ pc' = [pc EXCEPT ![p] = "loop"]
  /\ UNCHANGED <<input, ino, trans, target, n, killed>>

Leave(p) == lock' = NONE /\ pc' = [pc EXCEPT ![p] = "done"]

\* Nothing to read: give up, or prepare to sleep.
ReadEmpty(p) ==
  /\ pc[p] = "loop" /\ n[p] > 0 /\ r = w
  /\ IF p \in killed THEN Leave(p)
     ELSE pc' = [pc EXCEPT ![p] = "empty"] /\ UNCHANGED lock
  /\ UNCHANGED <<input, ino, trans, target, n, killed>>

ReadSleep(p) ==
  /\ pc[p] = "empty"
  /\ lock' = NONE
  /\ pc' = [pc EXCEPT ![p] = "sleep"]
  /\ UNCHANGED <<input, ino, trans, target, n, killed>>

\* Mutant: an end of file is always kept for the next call.
ReadByteKeepsEof(p) ==
  LET c == buf[r % INPUT_BUF] IN
  /\ pc[p] = "loop" /\ n[p] > 0 /\ r # w
  /\ r' = IF c = EOF THEN r ELSE (r + 1) % Wrap
  /\ n' = [n EXCEPT ![p] = IF c = EOF THEN @ ELSE @ - 1]
  /\ IF c \in {NL, EOF} THEN Leave(p) ELSE UNCHANGED <<lock, pc>>
  /\ UNCHANGED <<buf, w, e, ino, trans, target, killed>>

\* A byte is read; an end of file after others is kept for the next call.
ReadByte(p) ==
  LET c == buf[r % INPUT_BUF] IN
  /\ pc[p] = "loop" /\ n[p] > 0 /\ r # w
  /\ r' = IF c = EOF /\ n[p] < target[p] THEN r ELSE (r + 1) % Wrap
  /\ n' = [n EXCEPT ![p] = IF c = EOF THEN @ ELSE @ - 1]
  /\ IF c \in {NL, EOF} THEN Leave(p) ELSE UNCHANGED <<lock, pc>>
  /\ UNCHANGED <<buf, w, e, ino, trans, target, killed>>

ReadEnough(p) ==
  /\ pc[p] = "loop" /\ n[p] = 0
  /\ Leave(p)
  /\ UNCHANGED <<input, ino, trans, target, n, killed>>

\* The inode is locked again, and fileread() or filewrite() unlocks it.
Relock(p) ==
  /\ pc[p] = "done" /\ ino = NONE
  /\ ino' = p
  /\ pc' = [pc EXCEPT ![p] = "return"]
  /\ UNCHANGED <<input, lock, trans, target, n, killed>>

ReadReturn(p) ==
  /\ pc[p] = "return"
  /\ ino' = NONE
  /\ pc' = [pc EXCEPT ![p] = "user"]
  /\ target' = [target EXCEPT ![p] = 0]
  /\ n' = [n EXCEPT ![p] = 0]
  /\ UNCHANGED <<input, lock, trans, killed>>

-----------------------------------------------------------------------------
(* filewrite() and consolewrite(), and kill().                             *)

WriteCall(p) ==
  /\ pc[p] = "user"
  /\ pc' = [pc EXCEPT ![p] = "begin"]
  /\ UNCHANGED <<input, lock, ino, trans, target, n, killed>>

BeginTrans(p) ==
  /\ pc[p] = "begin" /\ trans = NONE
  /\ trans' = p
  /\ pc' = [pc EXCEPT ![p] = "called"]
  /\ UNCHANGED <<input, lock, ino, target, n, killed>>

\* The output, under cons.lock, is not modelled.
WriteOut(p) ==
  /\ pc[p] = "inside"
  /\ ino' = NONE
  /\ pc' = [pc EXCEPT ![p] = "done"]
  /\ UNCHANGED <<input, lock, trans, target, n, killed>>

\* commit_trans() comes after the inode is unlocked.
WriteReturn(p) ==
  /\ pc[p] = "return"
  /\ ino' = NONE
  /\ trans' = NONE
  /\ pc' = [pc EXCEPT ![p] = "user"]
  /\ UNCHANGED <<input, lock, target, n, killed>>

Kill(p) ==
  /\ p \in Killable \ killed
  /\ killed' = killed \cup {p}
  /\ pc' = [pc EXCEPT ![p] = IF @ = "sleep" THEN "acquire" ELSE @]
  /\ UNCHANGED <<input, lock, ino, trans, target, n>>

\* exit(), and a new process in its place.
Exit(p) ==
  /\ pc[p] = "user" /\ p \in killed
  /\ killed' = killed \ {p}
  /\ UNCHANGED <<input, lock, ino, trans, pc, target, n>>

ReadStep(p) ==
  Ilock(p) \/ ReadEnter(p) \/ Acquire(p) \/ ReadEmpty(p) \/ ReadSleep(p) \/ ReadByte(p)
  \/ ReadEnough(p) \/ Relock(p) \/ ReadReturn(p)
WriteStep(p) == BeginTrans(p) \/ Ilock(p) \/ WriteOut(p) \/ Relock(p) \/ WriteReturn(p)

Next ==
  \/ \E c \in Val \cup {CR} : KeyChar(c)
  \/ KeyErase \/ KeyKillLine
  \/ \E p \in Readers : ReadStep(p) \/ Kill(p) \/ Exit(p) \/ \E k \in Sizes : ReadCall(p, k)
  \/ \E p \in Writers : WriteStep(p) \/ WriteCall(p)

Spec == Init /\ [][Next]_vars

\* The scheduler runs every process that is not asleep, and a lock that is free
\* again and again is obtained in the end.  Nothing is assumed of keys and calls.
FairSpec ==
  /\ Spec
  /\ \A p \in Readers : SF_vars(ReadStep(p))
  /\ \A p \in Writers : SF_vars(WriteStep(p))

-----------------------------------------------------------------------------
(* Properties.                                                             *)

Bytes(from, to) == [k \in 1..((to - from) % Wrap) |-> buf[((from + k - 1) % Wrap) % INPUT_BUF]]

Promise == INSTANCE LineInput
             WITH ready <- Bytes(r, w), line <- Bytes(w, e), Size <- INPUT_BUF, Ends <- {NL, EOF}

\* The ring with its three wrapping indexes is an editable line in front of a
\* queue: nothing that was handed over is edited, lost, repeated or reordered,
\* and a line without an end is handed over when the room is used up.
LineSpec == Promise!Spec

\* A reader does not sleep through the input it waits for, whether a line ended
\* or the buffer filled up, and however many readers there are.
NoLostWakeup == \A p \in Readers : pc[p] = "sleep" /\ lock = NONE => r = w

\* A process that reads the console.
Reading(p) == pc[p] \in {"acquire", "loop", "empty", "sleep"}

\* What is ready is taken while somebody wants it: also an end of file that a
\* reader has put back, with several readers that come and go.
HeadTaken ==
  \/ []<>(r = w \/ \A p \in Readers : ~Reading(p))
  \/ []<><<r' # r>>_vars

\* A write(), and with it the transaction that keeps all other writes to the
\* file system waiting, ends although readers wait for input that never comes:
\* they have given up the lock of the inode.
WriteReturns == \A p \in Writers : pc[p] = "begin" ~> pc[p] = "user"
=============================================================================
