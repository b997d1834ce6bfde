----------------------------- MODULE RingLemmas -----------------------------
(***************************************************************************)
(* The arithmetic of circular buffers: indexes that wrap at W, a multiple  *)
(* of the size P of the buffer, as those of a pipe and of the console do.  *)
(***************************************************************************)
EXTENDS Integers, Sequences, SequenceTheorems, TLAPS

LEMMA DivMod ==
  ASSUME NEW a \in Int, NEW m \in Nat \ {0}
  PROVE  a = m * (a \div m) + (a % m) /\ a \div m \in Int /\ a % m \in 0..(m - 1)
OBVIOUS

LEMMA ModUnique ==
  ASSUME NEW q \in Int, NEW m \in Nat \ {0}, NEW x \in 0..(m - 1)
  PROVE  (m * q + x) % m = x
OBVIOUS

\* Multiples of the modulus do not matter.
LEMMA ModAdd ==
  ASSUME NEW a \in Int, NEW q \in Int, NEW m \in Nat \ {0}
  PROVE  (a + m * q) % m = a % m
<1>1. a + m * q = m * ((a \div m) + q) + (a % m)
  BY DivMod
<1>2. (a \div m) + q \in Int /\ a % m \in 0..(m - 1)
  BY DivMod
<1>3. (m * ((a \div m) + q) + (a % m)) % m = a % m
  BY <1>2, ModUnique, Zenon
<1> QED
  BY <1>1, <1>3, Zenon

\* Less than a buffer apart are different places of the buffer.
LEMMA ModApart ==
  ASSUME NEW m \in Nat \ {0}, NEW a \in Int, NEW d \in 1..(m - 1)
  PROVE  (a + d) % m # a % m
<1>1. SUFFICES ASSUME (a + d) % m = a % m PROVE FALSE
  OBVIOUS
<1> DEFINE u == a \div m
           v == (a + d) \div m
<1>2. d = m * (v - u) /\ u \in Int /\ v \in Int
  BY <1>1, DivMod
<1> HIDE DEF u, v
<1>3. CASE v - u <= 0
  BY <1>2, <1>3
<1>4. CASE v - u >= 1
  BY <1>2, <1>4
<1> QED
  BY <1>2, <1>3, <1>4

\* How far one index is ahead of another.
LEMMA WrapDiff ==
  ASSUME NEW W \in Nat \ {0}, NEW a \in 0..(W - 1), NEW b \in 0..(W - 1)
  PROVE  (a - b) % W = IF a >= b THEN a - b ELSE a - b + W
OBVIOUS

LEMMA WrapNext ==
  ASSUME NEW W \in Nat \ {0}, NEW a \in 0..(W - 1)
  PROVE  (a + 1) % W = IF a + 1 = W THEN 0 ELSE a + 1
OBVIOUS

LEMMA WrapAhead ==
  ASSUME NEW W \in Nat \ {0}, NEW a \in 0..(W - 1), NEW d \in 0..(W - 1)
  PROVE  (a + d) % W = IF a + d >= W THEN a + d - W ELSE a + d
OBVIOUS

LEMMA WrapPrev ==
  ASSUME NEW W \in Nat \ {0}, NEW a \in 0..(W - 1)
  PROVE  (a - 1) % W = IF a = 0 THEN W - 1 ELSE a - 1
OBVIOUS

\* A wrapped index has the place that it would have without wrapping.
LEMMA WrapPlace ==
  ASSUME NEW W \in Nat \ {0}, NEW P \in Nat \ {0}, W % P = 0, NEW a \in Int
  PROVE  (a + W) % P = a % P /\ (a - W) % P = a % P
<1> DEFINE z == W \div P
<1>1. W = P * z /\ z \in Int
  BY DivMod
<1> HIDE DEF z
<1>2. (a + P * z) % P = a % P
  BY <1>1, ModAdd, Zenon
<1>3. -z \in Int /\ P * (-z) = -W
  BY <1>1
<1>4. (a + P * (-z)) % P = a % P
  BY <1>3, ModAdd, Zenon
<1> QED
  BY <1>1, <1>2, <1>3, <1>4, Zenon

-----------------------------------------------------------------------------
(* What a buffer f of size P holds in len places from index a on.          *)

RingSeq(f, a, len, P) == [k \in 1..len |-> f[(a + k - 1) % P]]

\* The buffers f and g differ at most at place j.
SameBut(f, g, j, P) == \A i \in 0..(P - 1) : i # j => g[i] = f[i]

LEMMA RingType ==
  ASSUME NEW V, NEW P \in Nat \ {0}, NEW f \in [0..(P - 1) -> V]
  PROVE  \A a \in Int, len \in Nat :
           RingSeq(f, a, len, P) \in Seq(V) /\ Len(RingSeq(f, a, len, P)) = len
<1> TAKE a \in Int, len \in Nat
<1>1. \A k \in 1..len : (a + k - 1) % P \in 0..(P - 1)
  <2> TAKE k \in 1..len
  <2>1. a + k - 1 \in Int
    OBVIOUS
  <2> QED
    BY <2>1, DivMod, Zenon
<1> DEFINE place(k) == (a + k - 1) % P
<1>2. RingSeq(f, a, len, P) = [k \in 1..len |-> f[place(k)]] /\ \A k \in 1..len : f[place(k)] \in V
  BY <1>1, Zenon DEF RingSeq
<1> HIDE DEF place
<1> QED
  BY <1>2

\* A buffer that is not full gets one more element.
Appending(f, g, V, P) ==
  \A a \in Int, len \in 0..(P - 1) :
    SameBut(f, g, (a + len) % P, P) =>
      RingSeq(g, a, len + 1, P) = Append(RingSeq(f, a, len, P), g[(a + len) % P])

LEMMA RingAppend ==
  ASSUME NEW V, NEW P \in Nat \ {0}, NEW f \in [0..(P - 1) -> V], NEW g \in [0..(P - 1) -> V]
  PROVE  Appending(f, g, V, P)
<1> USE DEF Appending
<1> TAKE a \in Int, len \in 0..(P - 1)
<1>2. HAVE SameBut(f, g, (a + len) % P, P)
<1> DEFINE v == g[(a + len) % P]
           s == RingSeq(f, a, len, P)
           t == RingSeq(g, a, len + 1, P)
<1>1. (a + len) % P \in 0..(P - 1) /\ a + len \in Int
  BY DivMod
<1>10. v \in V
  BY <1>1, Zenon
<1>3. s \in Seq(V) /\ Len(s) = len
  <2>1. \A b \in Int, l \in Nat : RingSeq(f, b, l, P) \in Seq(V) /\ Len(RingSeq(f, b, l, P)) = l
    BY RingType, ZenonT(30)
  <2>2. len \in Nat
    OBVIOUS
  <2> QED
    BY <2>1, <2>2, Zenon
<1>4. t \in Seq(V) /\ Len(t) = len + 1
  <2>1. len + 1 \in Nat
    OBVIOUS
  <2>2. \A b \in Int, l \in Nat : RingSeq(g, b, l, P) \in Seq(V) /\ Len(RingSeq(g, b, l, P)) = l
    BY RingType, SMTT(30)
  <2> QED
    BY <2>1, <2>2, Zenon
<1>5. ASSUME NEW k \in 1..len PROVE t[k] = s[k]
  <2>1. a + k - 1 \in Int /\ len - (k - 1) \in 1..(P - 1) /\ (a + k - 1) + (len - (k - 1)) = a + len
    OBVIOUS
  <2>2. (a + len) % P # (a + k - 1) % P
    BY <2>1, ModApart, Zenon
  <2>3. (a + k - 1) % P \in 0..(P - 1)
    BY <2>1, DivMod, Zenon
  <2>4. t[k] = g[(a + k - 1) % P] /\ s[k] = f[(a + k - 1) % P]
    BY DEF RingSeq
  <2> QED
    BY <1>2, <2>2, <2>3, <2>4, Zenon DEF SameBut
<1>6. t[len + 1] = v
  <2>1. a + (len + 1) - 1 = a + len
    OBVIOUS
  <2>2. t[len + 1] = g[(a + (len + 1) - 1) % P]
    BY DEF RingSeq
  <2> QED
    BY <2>1, <2>2, Zenon
<1> HIDE DEF s, t, v
<1> DEFINE u == Append(s, v)
<1>7. u \in Seq(V) /\ Len(u) = len + 1 /\ \A k \in 1..(len + 1) : u[k] = IF k = len + 1 THEN v ELSE s[k]
  BY <1>3, <1>10
<1> HIDE DEF u
<1>8. \A k \in 1..(len + 1) : t[k] = u[k]
  BY <1>5, <1>6, <1>7
<1>9. t = u
  BY <1>4, <1>7, <1>8, SeqEqual, Zenon
<1> QED
  BY <1>3, <1>9, Zenon DEF t, u, s, v

\* Writing behind what is looked at changes nothing there.
Keeping(f, g, V, P) ==
  \A a \in Int, len \in Nat, d \in 0..(P - 1) :
    len <= d /\ SameBut(f, g, (a + d) % P, P) =>
      RingSeq(g, a, len, P) = RingSeq(f, a, len, P)

LEMMA RingKeep ==
  ASSUME NEW V, NEW P \in Nat \ {0}, NEW f \in [0..(P - 1) -> V], NEW g \in [0..(P - 1) -> V]
  PROVE  Keeping(f, g, V, P)
<1> USE DEF Keeping
<1> TAKE a \in Int, len \in Nat, d \in 0..(P - 1)
<1>1. HAVE len <= d /\ SameBut(f, g, (a + d) % P, P)
<1>2. ASSUME NEW k \in 1..len PROVE g[(a + k - 1) % P] = f[(a + k - 1) % P]
  <2>1. a + k - 1 \in Int /\ d - (k - 1) \in 1..(P - 1) /\ (a + k - 1) + (d - (k - 1)) = a + d
    BY <1>1
  <2>2. (a + d) % P # (a + k - 1) % P
    BY <2>1, ModApart, Zenon
  <2>3. (a + k - 1) % P \in 0..(P - 1)
    BY <2>1, DivMod, Zenon
  <2> QED
    BY <1>1, <2>2, <2>3, Zenon DEF SameBut
<1> QED
  BY <1>2, Zenon DEF RingSeq

\* Without its first element.
Tailing(f, V, P) ==
  \A a \in Int, len \in Nat \ {0} :
    /\ RingSeq(f, a, len, P) # <<>>
    /\ RingSeq(f, a + 1, len - 1, P) = Tail(RingSeq(f, a, len, P))

LEMMA RingTail ==
  ASSUME NEW V, NEW P \in Nat \ {0}, NEW f \in [0..(P - 1) -> V]
  PROVE  Tailing(f, V, P)
<1> USE DEF Tailing
<1> TAKE a \in Int, len \in Nat \ {0}
<1> DEFINE s == RingSeq(f, a, len, P)
           t == RingSeq(f, a + 1, len - 1, P)
<1>0. len \in Nat /\ len - 1 \in Nat /\ a + 1 \in Int
  OBVIOUS
<1>8. \A b \in Int, l \in Nat : RingSeq(f, b, l, P) \in Seq(V) /\ Len(RingSeq(f, b, l, P)) = l
  BY RingType, SMTT(30)
<1>1. s \in Seq(V) /\ Len(s) = len
  BY <1>0, <1>8, Zenon
<1>2. t \in Seq(V) /\ Len(t) = len - 1
  BY <1>0, <1>8, Zenon
<1>7. /\ \A k \in 1..len : s[k] = f[(a + k - 1) % P]
      /\ \A k \in 1..(len - 1) : t[k] = f[((a + 1) + k - 1) % P]
  BY Zenon DEF RingSeq
<1> HIDE DEF s, t
<1>3. s # <<>>
  BY <1>1, Zenon
<1>4. Tail(s) \in Seq(V) /\ Len(Tail(s)) = len - 1 /\ \A k \in 1..(len - 1) : Tail(s)[k] = s[k + 1]
  BY <1>1, <1>3, HeadTailProperties, Zenon
<1>5. \A k \in 1..(len - 1) : t[k] = Tail(s)[k]
  <2> TAKE k \in 1..(len - 1)
  <2>1. k + 1 \in 1..len /\ (a + 1) + k - 1 = a + (k + 1) - 1
    OBVIOUS
  <2> QED
    BY <1>4, <1>7, <2>1, Zenon
<1>6. t = Tail(s)
  BY <1>2, <1>4, <1>5, SeqEqual, Zenon
<1> QED
  BY <1>3, <1>6, Zenon DEF s, t

\* Without its last element.
Fronting(f, V, P) ==
  \A a \in Int, len \in Nat \ {0} :
    /\ RingSeq(f, a, len, P) # <<>>
    /\ RingSeq(f, a, len - 1, P) = SubSeq(RingSeq(f, a, len, P), 1, len - 1)

LEMMA RingFront ==
  ASSUME NEW V, NEW P \in Nat \ {0}, NEW f \in [0..(P - 1) -> V]
  PROVE  Fronting(f, V, P)
<1> USE DEF Fronting
<1> TAKE a \in Int, len \in Nat \ {0}
<1> DEFINE s == RingSeq(f, a, len, P)
           t == RingSeq(f, a, len - 1, P)
<1>0. len \in Nat /\ len - 1 \in Nat
  OBVIOUS
<1>1. \A b \in Int, l \in Nat : RingSeq(f, b, l, P) \in Seq(V) /\ Len(RingSeq(f, b, l, P)) = l
  BY RingType, SMTT(30)
<1>2. s \in Seq(V) /\ Len(s) = len /\ t \in Seq(V) /\ Len(t) = len - 1
  BY <1>0, <1>1, Zenon
<1>3. \A k \in 1..(len - 1) : t[k] = s[k]
  BY DEF RingSeq
<1> HIDE DEF s, t
<1> DEFINE u == SubSeq(s, 1, len - 1)
<1>4. u \in Seq(V) /\ Len(u) = len - 1 /\ \A k \in 1..(len - 1) : u[k] = s[k]
  BY <1>0, <1>2
<1> HIDE DEF u
<1>5. t = u
  BY <1>2, <1>3, <1>4, SeqEqual, Zenon
<1>6. s # <<>>
  BY <1>2, Zenon
<1> QED
  BY <1>2, <1>5, <1>6, Zenon DEF s, t, u

\* One part after the other.
Splitting(f, V, P) ==
  \A a \in Int, l \in Nat, m \in Nat :
    RingSeq(f, a, l + m, P) = RingSeq(f, a, l, P) \o RingSeq(f, a + l, m, P)

LEMMA RingConcat ==
  ASSUME NEW V, NEW P \in Nat \ {0}, NEW f \in [0..(P - 1) -> V]
  PROVE  Splitting(f, V, P)
<1> USE DEF Splitting
<1> TAKE a \in Int, l \in Nat, m \in Nat
<1> DEFINE s == RingSeq(f, a, l, P)
           t == RingSeq(f, a + l, m, P)
           u == RingSeq(f, a, l + m, P)
<1>0. l + m \in Nat /\ a + l \in Int
  OBVIOUS
<1>1. \A b \in Int, x \in Nat : RingSeq(f, b, x, P) \in Seq(V) /\ Len(RingSeq(f, b, x, P)) = x
  BY RingType, SMTT(30)
<1>2. s \in Seq(V) /\ Len(s) = l /\ t \in Seq(V) /\ Len(t) = m /\ u \in Seq(V) /\ Len(u) = l + m
  BY <1>0, <1>1, Zenon
<1>3. \A k \in 1..l : u[k] = s[k]
  BY DEF RingSeq
<1>4. ASSUME NEW k \in (l + 1)..(l + m) PROVE u[k] = t[k - l]
  <2>1. k \in 1..(l + m) /\ k - l \in 1..m /\ (a + l) + (k - l) - 1 = a + k - 1
    OBVIOUS
  <2>2. u[k] = f[(a + k - 1) % P] /\ t[k - l] = f[((a + l) + (k - l) - 1) % P]
    BY <2>1, Zenon DEF RingSeq
  <2> QED
    BY <2>1, <2>2, Zenon
<1> HIDE DEF s, t, u
<1> DEFINE c == s \o t
<1>5. c \in Seq(V) /\ Len(c) = l + m /\ \A k \in 1..(l + m) : c[k] = IF k <= l THEN s[k] ELSE t[k - l]
  BY <1>2, ConcatProperties, Zenon
<1> HIDE DEF c
<1>6. \A k \in 1..(l + m) : u[k] = c[k]
  BY <1>3, <1>4, <1>5, SMTT(30)
<1>7. u = c
  BY <1>2, <1>5, <1>6, SeqEqual, Zenon
<1> QED
  BY <1>2, <1>7, Zenon DEF s, t, u, c

\* An index that has wrapped is as good as one that has not.
Wrapping(f, W, P) ==
  \A a \in Int, len \in Nat :
    /\ RingSeq(f, a - W, len, P) = RingSeq(f, a, len, P)
    /\ RingSeq(f, a + W, len, P) = RingSeq(f, a, len, P)

LEMMA RingWrap ==
  ASSUME NEW W \in Nat \ {0}, NEW P \in Nat \ {0}, W % P = 0, NEW f
  PROVE  Wrapping(f, W, P)
<1> USE DEF Wrapping
<1> TAKE a \in Int, len \in Nat
<1>1. \A k \in 1..len : ((a - W) + k - 1) % P = (a + k - 1) % P /\ ((a + W) + k - 1) % P = (a + k - 1) % P
  <2> TAKE k \in 1..len
  <2> DEFINE b == a + k - 1
  <2>1. b \in Int /\ (a - W) + k - 1 = b - W /\ (a + W) + k - 1 = b + W
    OBVIOUS
  <2> HIDE DEF b
  <2>2. (b - W) % P = b % P /\ (b + W) % P = b % P
    BY <2>1, WrapPlace, ZenonT(30)
  <2> QED
    BY <2>1, <2>2, Zenon DEF b
<1> QED
  BY <1>1, Zenon DEF RingSeq

\* Nor does it matter whether the indexes in between are wrapped.
WrappedSeq(f, a, len, W, P) == [k \in 1..len |-> f[((a + k - 1) % W) % P]]

LEMMA RingTwice ==
  ASSUME NEW W \in Nat \ {0}, NEW P \in Nat \ {0}, W % P = 0, NEW f
  PROVE  \A a \in Int, len \in Nat : WrappedSeq(f, a, len, W, P) = RingSeq(f, a, len, P)
<1> TAKE a \in Int, len \in Nat
<1> DEFINE z == W \div P
<1>1. W = P * z /\ z \in Int
  BY DivMod
<1> HIDE DEF z
<1>2. ASSUME NEW x \in Int PROVE (x % W) % P = x % P
  <2> DEFINE q == x \div W
             y == x % W
  <2>1. x = W * q + y /\ q \in Int /\ y \in Int
    BY DivMod
  <2> HIDE DEF q, y
  <2>2. W * q = P * (z * q) /\ z * q \in Int
    BY <1>1, <2>1
  <2>3. (y + P * (z * q)) % P = y % P
    BY <2>1, <2>2, ModAdd, ZenonT(30)
  <2>4. x = y + P * (z * q)
    BY <2>1, <2>2
  <2> QED
    BY <2>3, <2>4, Zenon DEF y
<1>3. \A k \in 1..len : ((a + k - 1) % W) % P = (a + k - 1) % P
  <2> TAKE k \in 1..len
  <2>1. a + k - 1 \in Int
    OBVIOUS
  <2> QED
    BY <1>2, <2>1, Zenon
<1> QED
  BY <1>3, Zenon DEF RingSeq, WrappedSeq
=============================================================================
