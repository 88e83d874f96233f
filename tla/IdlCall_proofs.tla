--------------------------- MODULE IdlCall_proofs ---------------------------
(* For all interfaces of the two sides, all types and all values: what a     *)
(* stream carries is read back under its number as it was written, and so    *)
(* the arguments and the results of a call arrive.                           *)
EXTENDS IdlCall, SequenceTheorems, FiniteSetTheorems, WellFoundedInduction, TLAPS

(* What a buffer may hold, and a buffer.                                     *)
Cell == Byte \cup {Junk}
Memory == [data : Seq(Cell), cur : Nat, before : Nat, cap : Nat]

-----------------------------------------------------------------------------
(* Integers as bytes.                                                        *)
LEMMA BytesTyped ==
    ASSUME NEW width \in {1, 2, 4, 8}, NEW v \in Int
    PROVE  BytesOf(width, v) \in Seq(Byte) /\ Len(BytesOf(width, v)) = width
<1>1. ASSUME NEW i \in 1..width PROVE BytesOf(width, v)[i] \in Byte
  <2>1. CASE width - i >= 4
    <3>1. BytesOf(width, v)[i] = IF v < 0 THEN 255 ELSE 0
      BY <2>1, SMT DEF BytesOf
    <3> QED
      BY <3>1, SMT DEF Byte
  <2>2. CASE ~(width - i >= 4)
    <3>1. BytesOf(width, v)[i] = (v \div Weight[width - i + 1]) % 256
      BY <2>2, SMT DEF BytesOf
    <3>2. Weight[width - i + 1] \in {1, 256, 65536, 16777216}
      BY <2>2, SMT DEF Weight
    <3> QED
      BY <3>1, <3>2, SMT DEF Byte
  <2> QED
    BY <2>1, <2>2
<1>2. BytesOf(width, v) \in [1..width -> Byte]
  BY <1>1, SMT DEF BytesOf
<1> QED
  BY <1>2, SMT

(* The bytes of an integer one by one: the upper ones of 8 repeat the sign.  *)
LEMMA LastByteIs ==
    ASSUME NEW v \in Int
    PROVE  BytesOf(1, v)[1] = v % 256
<1>1. v \div 1 = v /\ Weight[1] = 1
  BY SMT DEF Weight
<1>2. BytesOf(1, v)[1] = (v \div Weight[1]) % 256
  BY SMT DEF BytesOf
<1> QED
  BY <1>1, <1>2

LEMMA BytesAre ==
    ASSUME NEW v \in Int
    PROVE  /\ BytesOf(2, v)[2] = v % 256 /\ BytesOf(2, v)[1] = (v \div 256) % 256
           /\ BytesOf(4, v)[4] = v % 256 /\ BytesOf(4, v)[3] = (v \div 256) % 256
           /\ BytesOf(4, v)[2] = (v \div 65536) % 256
           /\ BytesOf(4, v)[1] = (v \div 16777216) % 256
           /\ BytesOf(8, v)[8] = v % 256 /\ BytesOf(8, v)[7] = (v \div 256) % 256
           /\ BytesOf(8, v)[6] = (v \div 65536) % 256
           /\ BytesOf(8, v)[5] = (v \div 16777216) % 256
           /\ BytesOf(8, v)[1] = IF v < 0 THEN 255 ELSE 0
<1>1. v \div 1 = v
  BY SMT
<1>2. Weight[1] = 1 /\ Weight[2] = 256 /\ Weight[3] = 65536 /\ Weight[4] = 16777216
  BY SMT DEF Weight
<1>3. /\ BytesOf(2, v)[2] = (v \div Weight[1]) % 256
      /\ BytesOf(2, v)[1] = (v \div Weight[2]) % 256
  BY SMT DEF BytesOf
<1>4. /\ BytesOf(4, v)[4] = (v \div Weight[1]) % 256
      /\ BytesOf(4, v)[3] = (v \div Weight[2]) % 256
      /\ BytesOf(4, v)[2] = (v \div Weight[3]) % 256
      /\ BytesOf(4, v)[1] = (v \div Weight[4]) % 256
  BY SMT DEF BytesOf
<1>5. /\ BytesOf(8, v)[8] = (v \div Weight[1]) % 256
      /\ BytesOf(8, v)[7] = (v \div Weight[2]) % 256
      /\ BytesOf(8, v)[6] = (v \div Weight[3]) % 256
      /\ BytesOf(8, v)[5] = (v \div Weight[4]) % 256
      /\ BytesOf(8, v)[1] = IF v < 0 THEN 255 ELSE 0
  BY SMT DEF BytesOf
<1> QED
  BY <1>1, <1>2, <1>3, <1>4, <1>5, SMT

LEMMA NoJunk ==
    ASSUME NEW s \in Seq(Byte)
    PROVE  ~ \E i \in 1..Len(s) : s[i] = Junk
BY BufferAssumption, ElementOfSeq

LEMMA OneByte ==
    ASSUME NEW s \in Seq(Byte), Len(s) = 1
    PROVE  /\ s[1] \in Byte
           /\ IntOf(s) = IF s[1] >= 128 THEN s[1] - 256 ELSE s[1]
<1>1. s[1] \in Byte
  BY ElementOfSeq
<1>2. ~ \E i \in 1..Len(s) : s[i] = Junk
  BY NoJunk
<1> QED
  BY <1>1, <1>2, SMT DEF IntOf, Byte

LEMMA TwoBytes ==
    ASSUME NEW s \in Seq(Byte), Len(s) = 2
    PROVE  /\ s[1] \in Byte /\ s[2] \in Byte
           /\ IntOf(s) = 256 * (IF s[1] >= 128 THEN s[1] - 256 ELSE s[1]) + s[2]
<1>1. s[1] \in Byte /\ s[2] \in Byte
  BY ElementOfSeq
<1>2. ~ \E i \in 1..Len(s) : s[i] = Junk
  BY NoJunk
<1> QED
  BY <1>1, <1>2, SMT DEF IntOf, Byte

(* An integer of the range of its type is read as it was written.            *)
LEMMA OneBack ==
    ASSUME NEW v \in Int8
    PROVE  IntOf(BytesOf(1, v)) = v
<1>0. v \in Int /\ -128 <= v /\ v <= 127
  BY SMT DEF Int8
<1>1. PICK s \in Seq(Byte) : s = BytesOf(1, v)
  BY <1>0, BytesTyped, SMT
<1>2. Len(s) = 1
  BY <1>0, <1>1, BytesTyped, SMT
<1>3. s[1] = v % 256
  <2>1. BytesOf(1, v)[1] = v % 256
    BY <1>0, LastByteIs, SMT
  <2> QED
    BY <1>1, <2>1
<1>4. IntOf(s) = IF s[1] >= 128 THEN s[1] - 256 ELSE s[1]
  BY <1>2, OneByte
<1>5. (IF s[1] >= 128 THEN s[1] - 256 ELSE s[1]) = v
  BY <1>0, <1>3, SMT
<1> QED
  BY <1>1, <1>4, <1>5

LEMMA TwoBack ==
    ASSUME NEW v \in Int16
    PROVE  IntOf(BytesOf(2, v)) = v
<1>0. v \in Int /\ -32768 <= v /\ v <= 32767
  BY SMT DEF Int16
<1>1. PICK s \in Seq(Byte) : s = BytesOf(2, v)
  BY <1>0, BytesTyped, SMT
<1>2. Len(s) = 2
  BY <1>0, <1>1, BytesTyped, SMT
<1>3. s[2] = v % 256 /\ s[1] = (v \div 256) % 256
  <2>1. BytesOf(2, v)[2] = v % 256 /\ BytesOf(2, v)[1] = (v \div 256) % 256
    BY <1>0, BytesAre, SMT
  <2> QED
    BY <1>1, <2>1
<1>4. IntOf(s) = 256 * (IF s[1] >= 128 THEN s[1] - 256 ELSE s[1]) + s[2]
  BY <1>2, TwoBytes
<1>5. PICK h : h = IF s[1] >= 128 THEN s[1] - 256 ELSE s[1]
  OBVIOUS
<1>6. h = v \div 256
  BY <1>0, <1>3, <1>5, SMT
<1>7. 256 * h + s[2] = v
  BY <1>0, <1>3, <1>6, SMT
<1> QED
  BY <1>1, <1>4, <1>5, <1>7

LEMMA FourBack ==
    ASSUME NEW v \in Int32
    PROVE  IntOf(BytesOf(4, v)) = v
<1>0. v \in Int /\ -2147483647 - 1 <= v /\ v <= 2147483647
  BY SMT DEF Int32
<1>1. PICK s \in Seq(Byte) : s = BytesOf(4, v)
  BY <1>0, BytesTyped, SMT
<1>2. /\ Len(s) = 4 /\ s[4] = v % 256 /\ s[3] = (v \div 256) % 256
      /\ s[2] = (v \div 65536) % 256 /\ s[1] = (v \div 16777216) % 256
  <2>1. Len(BytesOf(4, v)) = 4
    BY <1>0, BytesTyped, SMT
  <2>2. /\ BytesOf(4, v)[4] = v % 256 /\ BytesOf(4, v)[3] = (v \div 256) % 256
        /\ BytesOf(4, v)[2] = (v \div 65536) % 256
        /\ BytesOf(4, v)[1] = (v \div 16777216) % 256
    BY <1>0, BytesAre, SMT
  <2> QED
    BY <1>1, <2>1, <2>2, SMT
<1>3. s[1] \in Int /\ s[2] \in Int /\ s[3] \in Int /\ s[4] \in Int
  BY <1>0, <1>2, SMT
<1>4. ~ \E i \in 1..Len(s) : s[i] = Junk
  BY NoJunk
<1>5. PICK h : h = IF s[1] >= 128 THEN s[1] - 256 ELSE s[1]
  OBVIOUS
<1>6. IntOf(s) = 256 * (256 * (256 * h + s[2]) + s[3]) + s[4]
  BY <1>2, <1>3, <1>4, <1>5, SMT DEF IntOf
<1>7. h = v \div 16777216
  BY <1>0, <1>2, <1>5, SMT
<1>8. /\ 256 * (v \div 16777216) + s[2] = v \div 65536
      /\ 256 * (v \div 65536) + s[3] = v \div 256
      /\ 256 * (v \div 256) + s[4] = v
  BY <1>0, <1>2, SMT
<1> QED
  BY <1>1, <1>3, <1>6, <1>7, <1>8, SMT

LEMMA EightBack ==
    ASSUME NEW v \in Int32
    PROVE  IntOf(BytesOf(8, v)) = v
<1>0. v \in Int /\ -2147483647 - 1 <= v /\ v <= 2147483647
  BY SMT DEF Int32
<1>1. PICK s \in Seq(Byte) : s = BytesOf(8, v)
  BY <1>0, BytesTyped, SMT
<1>2. /\ Len(s) = 8 /\ s[8] = v % 256 /\ s[7] = (v \div 256) % 256
      /\ s[6] = (v \div 65536) % 256 /\ s[5] = (v \div 16777216) % 256
      /\ s[1] = IF v < 0 THEN 255 ELSE 0
  <2>1. Len(BytesOf(8, v)) = 8
    BY <1>0, BytesTyped, SMT
  <2>2. /\ BytesOf(8, v)[8] = v % 256 /\ BytesOf(8, v)[7] = (v \div 256) % 256
        /\ BytesOf(8, v)[6] = (v \div 65536) % 256
        /\ BytesOf(8, v)[5] = (v \div 16777216) % 256
        /\ BytesOf(8, v)[1] = IF v < 0 THEN 255 ELSE 0
    BY <1>0, BytesAre, SMT
  <2> QED
    BY <1>1, <2>1, <2>2, SMT
<1>3. s[1] \in Int /\ s[5] \in Int /\ s[6] \in Int /\ s[7] \in Int /\ s[8] \in Int
  BY <1>0, <1>2, SMT
<1>4. ~ \E i \in 1..Len(s) : s[i] = Junk
  BY NoJunk
<1>5. PICK h : h = 256 * (IF s[1] >= 128 THEN -1 ELSE 0) + s[5]
  OBVIOUS
<1>6. IntOf(s) = 256 * (256 * (256 * h + s[6]) + s[7]) + s[8]
  BY <1>2, <1>3, <1>4, <1>5, SMTT(60) DEF IntOf
<1>7. h = v \div 16777216
  BY <1>0, <1>2, <1>5, SMT
<1>8. /\ 256 * (v \div 16777216) + s[6] = v \div 65536
      /\ 256 * (v \div 65536) + s[7] = v \div 256
      /\ 256 * (v \div 256) + s[8] = v
  BY <1>0, <1>2, SMTT(60)
<1> QED
  BY <1>1, <1>3, <1>6, <1>7, <1>8, SMT
-----------------------------------------------------------------------------
(* Induction, over the numbers in a set.                                     *)
LEMMA LeastIs ==
    ASSUME NEW T, T \subseteq Nat, T # {}
    PROVE  \E n \in T : \A m \in T : n <= m
<1>1. PICK n \in T : \A m \in T : ~(<<m, n>> \in OpToRel(<, Nat))
  BY WFMin, NatLessThanWellFounded, Zenon
<1>2. \A m \in T : ~(m < n)
  BY <1>1 DEF OpToRel
<1> QED
  BY <1>2

LEMMA AllBelow ==
    ASSUME NEW T, \A n \in Nat : (\A m \in Nat : m < n => m \in T) => n \in T
    PROVE  \A n \in Nat : n \in T
<1>1. PICK F : F = {n \in Nat : n \notin T}
  OBVIOUS
<1>2. SUFFICES ASSUME F # {} PROVE FALSE
  BY <1>1
<1>3. PICK n \in F : \A m \in F : n <= m
  BY <1>1, <1>2, LeastIs
<1>4. \A m \in Nat : m < n => m \in T
  BY <1>1, <1>3
<1> QED
  BY <1>1, <1>3, <1>4

LEMMA AllNumbers ==
    ASSUME NEW T, 0 \in T, \A n \in Nat : n \in T => n + 1 \in T
    PROVE  \A n \in Nat : n \in T
<1>1. PICK F : F = {n \in Nat : n \notin T}
  OBVIOUS
<1>2. SUFFICES ASSUME F # {} PROVE FALSE
  BY <1>1
<1>3. PICK n \in F : \A m \in F : n <= m
  BY <1>1, <1>2, LeastIs
<1>4. n # 0 /\ n - 1 \in Nat /\ n - 1 < n /\ (n - 1) + 1 = n
  BY <1>1, <1>3
<1>5. n - 1 \in T
  BY <1>1, <1>3, <1>4
<1> QED
  BY <1>1, <1>4, <1>5
-----------------------------------------------------------------------------
(* A sequence that is in another one, behind its first p elements.           *)
At(d, p, s) == p + Len(s) <= Len(d) /\ \A i \in 1..Len(s) : d[p + i] = s[i]

LEMMA AtEnd ==
    ASSUME NEW S, NEW d \in Seq(S), NEW s \in Seq(S)
    PROVE  At(d \o s, Len(d), s)
<1>1. /\ Len(d \o s) = Len(d) + Len(s)
      /\ \A i \in 1..Len(d) + Len(s) : (d \o s)[i] = IF i <= Len(d) THEN d[i] ELSE s[i - Len(d)]
  BY ConcatProperties
<1>2. Len(d) \in Nat /\ Len(s) \in Nat
  OBVIOUS
<1>3. ASSUME NEW i \in 1..Len(s) PROVE (d \o s)[Len(d) + i] = s[i]
  <2>1. Len(d) + i \in 1..Len(d) + Len(s) /\ ~(Len(d) + i <= Len(d)) /\ (Len(d) + i) - Len(d) = i
    BY <1>2
  <2> QED
    BY <1>1, <2>1
<1> QED
  BY <1>1, <1>2, <1>3 DEF At

LEMMA AtKept ==
    ASSUME NEW S, NEW d \in Seq(S), NEW x \in Seq(S), NEW p \in Nat, NEW s \in Seq(S), At(d, p, s)
    PROVE  At(d \o x, p, s)
<1>1. /\ Len(d \o x) = Len(d) + Len(x)
      /\ \A i \in 1..Len(d) + Len(x) : (d \o x)[i] = IF i <= Len(d) THEN d[i] ELSE x[i - Len(d)]
  BY ConcatProperties
<1>2. Len(d) \in Nat /\ Len(s) \in Nat /\ Len(x) \in Nat /\ p + Len(s) <= Len(d)
  BY DEF At
<1>3. ASSUME NEW i \in 1..Len(s) PROVE (d \o x)[p + i] = s[i]
  <2>1. p + i \in 1..Len(d) + Len(x) /\ p + i <= Len(d)
    BY <1>2
  <2> QED
    BY <1>1, <2>1 DEF At
<1> QED
  BY <1>1, <1>2, <1>3 DEF At

LEMMA AtParts ==
    ASSUME NEW S, NEW d \in Seq(S), NEW x \in Seq(S), NEW y \in Seq(S), NEW p \in Nat,
           At(d, p, x \o y)
    PROVE  At(d, p, x) /\ At(d, p + Len(x), y)
<1>1. /\ Len(x \o y) = Len(x) + Len(y)
      /\ \A i \in 1..Len(x) + Len(y) : (x \o y)[i] = IF i <= Len(x) THEN x[i] ELSE y[i - Len(x)]
  BY ConcatProperties
<1>2. /\ Len(d) \in Nat /\ Len(x) \in Nat /\ Len(y) \in Nat
      /\ p + (Len(x) + Len(y)) <= Len(d)
      /\ \A i \in 1..Len(x) + Len(y) : d[p + i] = (x \o y)[i]
  BY <1>1 DEF At
<1>3. ASSUME NEW i \in 1..Len(x) PROVE d[p + i] = x[i]
  <2>1. i \in 1..Len(x) + Len(y) /\ i <= Len(x)
    BY <1>2
  <2> QED
    BY <1>1, <1>2, <2>1
<1>4. ASSUME NEW i \in 1..Len(y) PROVE d[p + Len(x) + i] = y[i]
  <2>1. PICK j \in Nat : j = Len(x) + i
    BY <1>2
  <2>2. j \in 1..Len(x) + Len(y) /\ ~(j <= Len(x)) /\ j - Len(x) = i /\ p + Len(x) + i = p + j
    BY <1>2, <2>1
  <2> QED
    BY <1>1, <1>2, <2>2
<1> QED
  BY <1>2, <1>3, <1>4 DEF At
-----------------------------------------------------------------------------
(* The operations of a buffer.                                               *)
LEMMA MemoryIs ==
    ASSUME NEW b \in Memory
    PROVE  /\ b.data \in Seq(Cell) /\ Len(b.data) \in Nat /\ Size(b) = Len(b.data)
           /\ b.cur \in Nat /\ b.before \in Nat /\ b.cap \in Nat
BY DEF Memory, Size

LEMMA MemoryOf ==
    ASSUME NEW d \in Seq(Cell), NEW c \in Nat, NEW f \in Nat, NEW k \in Nat
    PROVE  [data |-> d, cur |-> c, before |-> f, cap |-> k] \in Memory
BY DEF Memory

LEMMA NewData ==
    ASSUME NEW b \in Memory, NEW d
    PROVE  [b EXCEPT !.data = d]
             = [data |-> d, cur |-> b.cur, before |-> b.before, cap |-> b.cap]
BY DEF Memory

LEMMA NewCur ==
    ASSUME NEW b \in Memory, NEW c
    PROVE  [b EXCEPT !.cur = c]
             = [data |-> b.data, cur |-> c, before |-> b.before, cap |-> b.cap]
BY DEF Memory

LEMMA NewCurData ==
    ASSUME NEW b \in Memory, NEW c \in Nat, NEW d \in Seq(Cell)
    PROVE  [b EXCEPT !.cur = c, !.data = d]
             = [data |-> d, cur |-> c, before |-> b.before, cap |-> b.cap]
<1>1. PICK r : r = [b EXCEPT !.cur = c, !.data = d]
  OBVIOUS
<1>2. r = [data |-> d, cur |-> c, before |-> b.before, cap |-> b.cap]
  BY <1>1 DEF Memory
<1> QED
  BY <1>1, <1>2

LEMMA NewCapCur ==
    ASSUME NEW b \in Memory, NEW k \in Nat, NEW c \in Nat
    PROVE  [b EXCEPT !.cap = k, !.cur = c]
             = [data |-> b.data, cur |-> c, before |-> b.before, cap |-> k]
<1>1. PICK r : r = [b EXCEPT !.cap = k, !.cur = c]
  OBVIOUS
<1>2. r = [data |-> b.data, cur |-> c, before |-> b.before, cap |-> k]
  BY <1>1 DEF Memory
<1> QED
  BY <1>1, <1>2

LEMMA NewIs ==
    ASSUME NEW len \in Nat, NEW before \in Nat
    PROVE  NewWith(len, before) \in Memory /\ NewWith(len, before).data = <<>>
<1>1. PICK k \in Nat : k = IF len <= MinLen THEN MinLen ELSE len
  BY BufferAssumption
<1>2. NewWith(len, before)
        = [data |-> <<>>, cur |-> before, before |-> before, cap |-> k + before]
  BY <1>1 DEF NewWith
<1>3. <<>> \in Seq(Cell) /\ before \in Nat /\ k + before \in Nat
  OBVIOUS
<1>4. NewWith(len, before) \in Memory
  BY <1>2, <1>3, MemoryOf
<1> QED
  BY <1>2, <1>4

LEMMA WriteIs ==
    ASSUME NEW b \in Memory, NEW x \in Seq(Cell), NEW flag
    PROVE  Write(b, x, flag) \in Memory /\ Write(b, x, flag).data = b.data \o x
<1>1. PICK o : o = IF flag THEN OptimizeSpace(b) ELSE b
  OBVIOUS
<1>2. o \in Memory /\ o.data = b.data /\ o.before = b.before
  <2>1. CASE flag /\ 10 * b.cur > 7 * b.cap
    <3>1. o = [data |-> b.data, cur |-> b.before, before |-> b.before, cap |-> b.cap]
      BY <1>1, <2>1, NewCur DEF OptimizeSpace
    <3> QED
      BY <3>1, MemoryIs, MemoryOf
  <2>2. CASE ~(flag /\ 10 * b.cur > 7 * b.cap)
    BY <1>1, <2>2 DEF OptimizeSpace
  <2> QED
    BY <2>1, <2>2
<1>3. PICK e : e = IF Len(x) <= FreeSize(o) THEN o ELSE Expand(o, Growth(o, Len(x)))
  OBVIOUS
<1>4. e \in Memory /\ e.data = b.data
  <2>0. /\ Len(x) \in Nat /\ Len(o.data) \in Nat /\ o.cur \in Nat /\ o.cap \in Nat
        /\ o.before \in Nat /\ o.data \in Seq(Cell)
    BY <1>2, MemoryIs
  <2>1. CASE Len(x) <= FreeSize(o)
    BY <1>2, <1>3, <2>1
  <2>2. CASE ~(Len(x) <= FreeSize(o))
    <3>1. PICK k \in Nat : k = 2 * (Len(o.data) + Len(x)) + o.before
      BY <2>0
    <3>2. PICK c \in Nat : c = o.before
      BY <2>0
    <3>3. e = [o EXCEPT !.cap = k, !.cur = c]
      BY <1>3, <2>2, <3>1, <3>2 DEF Expand, Growth, Size
    <3>4. o \in Memory
      BY <1>2
    <3>5. e = [data |-> o.data, cur |-> c, before |-> o.before, cap |-> k]
      BY <3>3, <3>4, NewCapCur
    <3> QED
      BY <1>2, <2>0, <3>5, MemoryOf
  <2> QED
    BY <2>1, <2>2
<1>5. PICK d \in Seq(Cell) : d = b.data \o x
  BY MemoryIs, ConcatProperties
<1>6. Write(b, x, flag) = [e EXCEPT !.data = d]
  BY <1>1, <1>3, <1>4, <1>5 DEF Write
<1>7. Write(b, x, flag) = [data |-> d, cur |-> e.cur, before |-> e.before, cap |-> e.cap]
  BY <1>4, <1>6, NewData
<1>8. Write(b, x, flag) \in Memory
  BY <1>4, <1>7, MemoryIs, MemoryOf
<1> QED
  BY <1>5, <1>7, <1>8

LEMMA RestIs ==
    ASSUME NEW S, NEW s \in Seq(S), NEW n \in 0..Len(s)
    PROVE  /\ SubSeq(s, n + 1, Len(s)) \in Seq(S)
           /\ Len(SubSeq(s, n + 1, Len(s))) = Len(s) - n
           /\ \A i \in 1..(Len(s) - n) : SubSeq(s, n + 1, Len(s))[i] = s[n + i]
<1>0. Len(s) \in Nat /\ n \in Nat /\ n <= Len(s)
  OBVIOUS
<1>1. PICK m \in Int : m = n + 1
  BY <1>0
<1>2. \A i \in m..Len(s) : s[i] \in S
  BY <1>0, <1>1, ElementOfSeq
<1>3. /\ SubSeq(s, m, Len(s)) \in Seq(S)
      /\ Len(SubSeq(s, m, Len(s))) = IF m <= Len(s) THEN Len(s) - m + 1 ELSE 0
      /\ \A i \in 1..(Len(s) - m + 1) : SubSeq(s, m, Len(s))[i] = s[m + i - 1]
  BY <1>0, <1>2, SubSeqProperties
<1>4. \A i \in 1..(Len(s) - n) : i \in 1..(Len(s) - m + 1) /\ m + i - 1 = n + i
  BY <1>0, <1>1
<1> QED
  BY <1>0, <1>1, <1>3, <1>4

LEMMA FirstIs ==
    ASSUME NEW S, NEW s \in Seq(S), NEW n \in 0..Len(s)
    PROVE  /\ SubSeq(s, 1, n) \in Seq(S)
           /\ Len(SubSeq(s, 1, n)) = n
           /\ \A i \in 1..n : SubSeq(s, 1, n)[i] = s[i]
<1>0. Len(s) \in Nat /\ n \in Nat /\ n <= Len(s)
  OBVIOUS
<1>1. PICK m \in Int : m = 1
  OBVIOUS
<1>2. \A i \in m..n : s[i] \in S
  BY <1>0, <1>1, ElementOfSeq
<1>3. /\ SubSeq(s, m, n) \in Seq(S)
      /\ Len(SubSeq(s, m, n)) = IF m <= n THEN n - m + 1 ELSE 0
      /\ \A i \in 1..(n - m + 1) : SubSeq(s, m, n)[i] = s[m + i - 1]
  BY <1>0, <1>2, SubSeqProperties
<1>4. \A i \in 1..n : i \in 1..(n - m + 1) /\ m + i - 1 = i
  BY <1>0, <1>1
<1> QED
  BY <1>0, <1>1, <1>3, <1>4

(* The size of an element goes over the place that was kept for it, and      *)
(* nothing else changes.                                                     *)
LEMMA OverWriteIs ==
    ASSUME NEW b \in Memory, NEW pos \in Nat, NEW v \in Int, pos + 2 <= Len(b.data)
    PROVE  LET d == OverWriteInt(b, pos, 2, v).data IN
           /\ OverWriteInt(b, pos, 2, v) \in Memory
           /\ Len(d) = Len(b.data)
           /\ At(d, pos, BytesOf(2, v))
           /\ \A p \in Nat, s \in Seq(Cell) :
                At(b.data, p, s) /\ (p + Len(s) <= pos \/ p >= pos + 2) => At(d, p, s)
<1>0. /\ b.data \in Seq(Cell) /\ Len(b.data) \in Nat /\ Size(b) = Len(b.data)
      /\ pos \in 0..Len(b.data)
  BY MemoryIs
<1>1. PICK h \in Seq(Cell) : h = SubSeq(b.data, 1, pos)
  BY <1>0, FirstIs
<1>2. Len(h) = pos /\ \A i \in 1..pos : h[i] = b.data[i]
  BY <1>0, <1>1, FirstIs
<1>3. PICK z \in Seq(Cell) : z = BytesOf(2, v)
  <2>1. BytesOf(2, v) \in Seq(Byte)
    BY BytesTyped
  <2>2. Byte \subseteq Cell
    BY DEF Cell
  <2> QED
    BY <2>1, <2>2
<1>4. Len(z) = 2
  BY <1>3, BytesTyped
<1>5. PICK n \in Nat : n = pos + 2
  OBVIOUS
<1>6. n \in 0..Len(b.data) /\ n + 1 = pos + 2 + 1
  BY <1>0, <1>5
<1>7. PICK w \in Seq(Cell) : w = SubSeq(b.data, n + 1, Len(b.data))
  BY <1>0, <1>6, RestIs
<1>8. Len(w) = Len(b.data) - n /\ \A i \in 1..(Len(b.data) - n) : w[i] = b.data[n + i]
  BY <1>0, <1>6, <1>7, RestIs
<1>9. PICK x \in Seq(Cell) : x = h \o z
  BY ConcatProperties
<1>10. /\ Len(x) = pos + 2
       /\ \A i \in 1..pos + 2 : x[i] = IF i <= pos THEN h[i] ELSE z[i - pos]
  <2>1. /\ Len(x) = Len(h) + Len(z)
        /\ \A i \in 1..Len(h) + Len(z) : x[i] = IF i <= Len(h) THEN h[i] ELSE z[i - Len(h)]
    BY <1>9, ConcatProperties
  <2> QED
    BY <1>2, <1>4, <2>1
<1>11. PICK d \in Seq(Cell) : d = x \o w
  BY ConcatProperties
<1>12. /\ Len(d) = Len(b.data)
       /\ \A i \in 1..Len(b.data) : d[i] = IF i <= pos + 2 THEN x[i] ELSE w[i - (pos + 2)]
  <2>1. Len(w) = Len(b.data) - n
    BY <1>8
  <2>0. Len(x) = n
    BY <1>5, <1>10
  <2>2. Len(x) + Len(w) = Len(b.data)
    BY <1>0, <2>0, <2>1
  <2>3. /\ Len(d) = Len(x) + Len(w)
        /\ \A i \in 1..Len(x) + Len(w) : d[i] = IF i <= Len(x) THEN x[i] ELSE w[i - Len(x)]
    BY <1>11, ConcatProperties
  <2> QED
    BY <1>10, <2>2, <2>3
<1>13. OverWriteInt(b, pos, 2, v) = [b EXCEPT !.data = d]
  <2>1. ~(pos + 2 > Size(b))
    BY <1>0
  <2> QED
    BY <1>0, <1>1, <1>3, <1>6, <1>7, <1>9, <1>11, <2>1 DEF OverWriteInt
<1>14. OverWriteInt(b, pos, 2, v) = [data |-> d, cur |-> b.cur, before |-> b.before, cap |-> b.cap]
  BY <1>13, NewData
<1>15. OverWriteInt(b, pos, 2, v) \in Memory
  BY <1>14, MemoryIs, MemoryOf
<1>16. At(d, pos, z)
  <2>1. ASSUME NEW i \in 1..2 PROVE d[pos + i] = z[i]
    <3>1. PICK j \in Nat : j = pos + i
      OBVIOUS
    <3>2. j \in 1..Len(b.data) /\ j <= pos + 2 /\ j \in 1..pos + 2 /\ ~(j <= pos) /\ j - pos = i
      BY <1>0, <3>1
    <3> QED
      BY <1>10, <1>12, <3>1, <3>2
  <2> QED
    BY <1>4, <1>12, <2>1 DEF At
<1>17. ASSUME NEW p \in Nat, NEW s \in Seq(Cell), At(b.data, p, s),
              p + Len(s) <= pos \/ p >= pos + 2
       PROVE  At(d, p, s)
  <2>0. Len(s) \in Nat /\ p + Len(s) <= Len(b.data)
    BY <1>17 DEF At
  <2>1. ASSUME NEW i \in 1..Len(s) PROVE d[p + i] = s[i]
    <3>1. PICK j \in Nat : j = p + i
      OBVIOUS
    <3>2. j \in 1..Len(b.data) /\ b.data[j] = s[i]
      BY <1>0, <1>17, <2>0, <3>1 DEF At
    <3>3. CASE j <= pos
      <4>1. j <= pos + 2 /\ j \in 1..pos + 2 /\ j \in 1..pos
        BY <3>2, <3>3
      <4> QED
        BY <1>2, <1>10, <1>12, <3>1, <3>2, <3>3, <4>1
    <3>4. CASE ~(j <= pos)
      <4>1. j > pos + 2
        BY <1>17, <2>0, <3>1, <3>4
      <4>2. PICK k \in Nat : k = j - (pos + 2)
        BY <4>1
      <4>3. k \in 1..(Len(b.data) - n) /\ n + k = j
        BY <1>0, <1>5, <3>2, <4>1, <4>2
      <4>4. d[j] = w[k]
        BY <1>12, <3>2, <4>1, <4>2
      <4>5. w[k] = b.data[j]
        BY <1>8, <4>3
      <4> QED
        BY <3>1, <3>2, <4>4, <4>5
    <3> QED
      BY <3>3, <3>4
  <2> QED
    BY <1>12, <2>0, <2>1 DEF At
<1> QED
  BY <1>3, <1>12, <1>14, <1>15, <1>16, <1>17

LEMMA Repeated ==
    ASSUME NEW S, NEW x \in S, NEW n \in Nat
    PROVE  [i \in 1..n |-> x] \in Seq(S) /\ Len([i \in 1..n |-> x]) = n
OBVIOUS

(* The data of a package arrive as they were sent.                           *)
LEMMA ArrivedIs ==
    ASSUME NEW b \in Memory
    PROVE  Arrived(b) \in Memory /\ Arrived(b).data = b.data
<1>0. b.data \in Seq(Cell) /\ Len(b.data) \in Nat /\ Size(b) = Len(b.data)
      /\ Heads \in Nat /\ Before \in Nat
  BY MemoryIs, BufferAssumption, IdlCallAssumption
<1>1. PICK h \in Seq(Cell) : h = [i \in 1..Heads |-> Junk]
  <2>1. Junk \in Cell
    BY DEF Cell
  <2> QED
    BY <1>0, <2>1, Repeated
<1>2. Len(h) = Heads
  BY <1>0, <1>1, Repeated
<1>3. PICK x \in Seq(Cell) : x = h \o b.data
  BY <1>0, ConcatProperties
<1>4. /\ Len(x) = Heads + Len(b.data)
      /\ \A i \in 1..Heads + Len(b.data) : x[i] = IF i <= Heads THEN h[i] ELSE b.data[i - Heads]
  BY <1>0, <1>2, <1>3, ConcatProperties
<1>5. PICK e \in Memory : e = NewWith(Heads + Size(b), Before) /\ e.data = <<>>
  <2>1. Heads + Size(b) \in Nat
    BY <1>0
  <2> QED
    BY <1>0, <2>1, NewIs
<1>6. PICK w \in Memory : w = Write(e, x, TRUE) /\ w.data = x
  <2>1. e.data \o x = x
    BY <1>5, ConcatEmptySeq
  <2> QED
    BY <2>1, WriteIs
<1>7. Arrived(b) = SkipBytes(w, Heads)
  BY <1>1, <1>3, <1>5, <1>6 DEF Arrived
<1>8. PICK d \in Seq(Cell) : d = SubSeq(x, Heads + 1, Len(x))
  BY <1>0, <1>4, RestIs
<1>9. Len(d) = Len(b.data) /\ \A i \in 1..Len(b.data) : d[i] = b.data[i]
  <2>1. /\ Len(d) = Len(x) - Heads
        /\ \A i \in 1..(Len(x) - Heads) : d[i] = x[Heads + i]
    BY <1>0, <1>4, <1>8, RestIs
  <2>2. Len(x) - Heads = Len(b.data)
    BY <1>0, <1>4
  <2>3. ASSUME NEW i \in 1..Len(b.data) PROVE x[Heads + i] = b.data[i]
    <3>1. PICK j \in Nat : j = Heads + i
      BY <1>0
    <3>2. j \in 1..Heads + Len(b.data) /\ ~(j <= Heads) /\ j - Heads = i
      BY <1>0, <3>1
    <3> QED
      BY <1>4, <3>1, <3>2
  <2> QED
    BY <2>1, <2>2, <2>3
<1>10. d = b.data
  BY <1>0, <1>9, SeqEqual
<1>11. PICK c \in Nat : c = w.cur + Heads
  BY <1>0, MemoryIs
<1>12. Arrived(b) = [w EXCEPT !.cur = c, !.data = d]
  <2>1. Size(w) >= Heads
    <3>1. Size(w) = Len(x)
      BY <1>6, MemoryIs
    <3> QED
      BY <1>0, <1>4, <3>1
  <2> QED
    BY <1>6, <1>7, <1>8, <1>11, <2>1 DEF SkipBytes
<1>13. Arrived(b) = [data |-> d, cur |-> c, before |-> w.before, cap |-> w.cap]
  BY <1>12, NewCurData
<1>14. Arrived(b) \in Memory
  BY <1>13, MemoryIs, MemoryOf
<1> QED
  BY <1>10, <1>13, <1>14

(* What is read where something lies.                                        *)
LEMMA BytesRead ==
    ASSUME NEW b \in Memory, NEW p \in Nat, NEW s \in Seq(Cell), At(b.data, p, s)
    PROVE  /\ Bytes(b, p, Len(s)) = s
           /\ Has(b, p, Len(s)) /\ ~PeekFails(b, Len(s), p)
           /\ Get(b, p, Len(s)) = s
           /\ p + Len(s) <= Size(b)
<1>0. /\ b.data \in Seq(Cell) /\ Len(b.data) \in Nat /\ Size(b) = Len(b.data)
      /\ b.cur \in Nat /\ Len(s) \in Nat
  BY MemoryIs
<1>1. p + Len(s) <= Len(b.data) /\ \A i \in 1..Len(s) : b.data[p + i] = s[i]
  BY DEF At
<1>2. Bytes(b, p, Len(s)) = [i \in 1..Len(s) |-> s[i]]
  BY <1>0, <1>1 DEF Bytes
<1>3. s = [i \in 1..Len(s) |-> s[i]]
  OBVIOUS
<1>4. Has(b, p, Len(s)) /\ ~PeekFails(b, Len(s), p)
  BY <1>0, <1>1 DEF Has, PeekFails, End
<1>5. Get(b, p, Len(s)) = Bytes(b, p, Len(s))
  BY <1>0, <1>1 DEF Get, End
<1> QED
  BY <1>0, <1>1, <1>2, <1>3, <1>4, <1>5

LEMMA CellsAre ==
    ASSUME NEW s \in Seq(Byte)
    PROVE  s \in Seq(Cell)
BY DEF Cell

LEMMA PeekIs ==
    ASSUME NEW b \in Memory, NEW p \in Nat, NEW s \in Seq(Byte), At(b.data, p, s)
    PROVE  /\ PeekInt(b, Len(s), p) = IntOf(s)
           /\ Peek(b, Len(s), p) = Read1(p + Len(s), IntOf(s))
<1>1. s \in Seq(Cell)
  BY CellsAre
<1>2. /\ Bytes(b, p, Len(s)) = s
      /\ Has(b, p, Len(s)) /\ ~PeekFails(b, Len(s), p)
  BY <1>1, BytesRead
<1> QED
  BY <1>2 DEF PeekInt, Peek
-----------------------------------------------------------------------------
(* FlattenSeq: each sequence lies behind those before it.                    *)
Flat(e) ==
    CHOOSE f : f = [i \in 1..Len(e) |-> IF i = 1 THEN e[i] ELSE f[i - 1] \o e[i]]

LEMMA FlatDef ==
    ASSUME NEW e, Len(e) # 0
    PROVE  FlattenSeq(e) = Flat(e)[Len(e)]
BY DEF FlattenSeq, Flat

(* g is what the first k sequences make together, for each k.                *)
Partial(e, n, g) == g[0] = <<>> /\ \A k \in 1..n : g[k] = g[k - 1] \o e[k]

LEMMA PrefixesExist ==
    ASSUME NEW S, NEW e \in Seq(Seq(S))
    PROVE  \E g \in [0..Len(e) -> Seq(S)] : Partial(e, Len(e), g)
<1>0. Len(e) \in Nat /\ \A k \in 1..Len(e) : e[k] \in Seq(S)
  BY ElementOfSeq
<1>1. PICK T : T = {n \in Nat : n <= Len(e) => \E g \in [0..n -> Seq(S)] : Partial(e, n, g)}
  OBVIOUS
<1>2. 0 \in T
  <2>1. PICK g : g = [k \in 0..0 |-> <<>>]
    OBVIOUS
  <2>2. <<>> \in Seq(S)
    OBVIOUS
  <2>3. g \in [0..0 -> Seq(S)] /\ g[0] = <<>> /\ 1..0 = {}
    BY <2>1, <2>2
  <2>4. Partial(e, 0, g)
    BY <2>3 DEF Partial
  <2> QED
    BY <1>1, <2>3, <2>4
<1>3. ASSUME NEW n \in Nat, n \in T PROVE n + 1 \in T
  <2>0. n + 1 \in Nat
    OBVIOUS
  <2>1. SUFFICES ASSUME n + 1 <= Len(e)
                 PROVE  \E g \in [0..n + 1 -> Seq(S)] : Partial(e, n + 1, g)
    BY <1>1, <2>0, Zenon
  <2>a. n <= Len(e)
    BY <1>0, <2>1
  <2>b. PICK g \in [0..n -> Seq(S)] : Partial(e, n, g)
    BY <1>1, <1>3, <2>a, Zenon
  <2>2. g[0] = <<>> /\ \A k \in 1..n : g[k] = g[k - 1] \o e[k]
    BY <2>b DEF Partial
  <2>3. PICK x \in Seq(S) : x = g[n] \o e[n + 1]
    <3>1. g[n] \in Seq(S) /\ e[n + 1] \in Seq(S)
      BY <1>0, <2>1
    <3> QED
      BY <3>1, ConcatProperties
  <2>4. PICK h : h = [k \in 0..n + 1 |-> IF k <= n THEN g[k] ELSE x]
    OBVIOUS
  <2>5. h \in [0..n + 1 -> Seq(S)]
    BY <2>4
  <2>6. h[0] = <<>> /\ h[n] = g[n] /\ h[n + 1] = x
    BY <2>2, <2>4
  <2>7. ASSUME NEW k \in 1..n + 1 PROVE h[k] = h[k - 1] \o e[k]
    <3>1. CASE k <= n
      <4>1. k \in 1..n /\ h[k] = g[k] /\ h[k - 1] = g[k - 1]
        BY <2>4, <3>1
      <4> QED
        BY <2>2, <4>1
    <3>2. CASE ~(k <= n)
      <4>1. k = n + 1 /\ k - 1 = n
        BY <3>2
      <4> QED
        BY <2>3, <2>6, <4>1
    <3> QED
      BY <3>1, <3>2
  <2>8. Partial(e, n + 1, h)
    BY <2>6, <2>7 DEF Partial
  <2> QED
    BY <2>5, <2>8
<1>4. \A n \in Nat : n \in T
  BY <1>2, <1>3, AllNumbers
<1>5. Len(e) \in T /\ Len(e) <= Len(e)
  BY <1>0, <1>4
<1> QED
  BY <1>1, <1>5, Zenon

LEMMA FlatIs ==
    ASSUME NEW S, NEW e \in Seq(Seq(S)), NEW g \in [0..Len(e) -> Seq(S)],
           Partial(e, Len(e), g)
    PROVE  FlattenSeq(e) = g[Len(e)]
<1>0. Len(e) \in Nat /\ \A k \in 1..Len(e) : e[k] \in Seq(S)
  BY ElementOfSeq
<1>p. g[0] = <<>> /\ \A k \in 1..Len(e) : g[k] = g[k - 1] \o e[k]
  BY DEF Partial
<1>1. CASE Len(e) = 0
  <2>1. FlattenSeq(e) = e /\ e = <<>>
    BY <1>1 DEF FlattenSeq
  <2> QED
    BY <1>1, <1>p, <2>1
<1>2. CASE Len(e) # 0
  <2>1. PICK f : f = [i \in 1..Len(e) |-> g[i]]
    OBVIOUS
  <2>2. ASSUME NEW i \in 1..Len(e)
        PROVE  g[i] = IF i = 1 THEN e[i] ELSE f[i - 1] \o e[i]
    <3>1. CASE i = 1
      <4>0. 1 \in 1..Len(e) /\ 1 - 1 = 0
        BY <3>1
      <4>1. g[1] = <<>> \o e[1]
        BY <1>p, <4>0
      <4>2. e[1] \in Seq(S)
        BY <1>0, <3>1
      <4> QED
        BY <3>1, <4>1, <4>2, ConcatEmptySeq
    <3>2. CASE i # 1
      <4>1. i - 1 \in 1..Len(e)
        BY <3>2
      <4> QED
        BY <1>p, <2>1, <3>2, <4>1
    <3> QED
      BY <3>1, <3>2
  <2>3. f = [i \in 1..Len(e) |-> IF i = 1 THEN e[i] ELSE f[i - 1] \o e[i]]
    BY <2>1, <2>2, Zenon
  <2>4. Flat(e) = [i \in 1..Len(e) |-> IF i = 1 THEN e[i] ELSE Flat(e)[i - 1] \o e[i]]
    BY <2>3, Zenon DEF Flat
  <2>5. PICK c : c = Flat(e)
    OBVIOUS
  <2>6. \A i \in 1..Len(e) : c[i] = IF i = 1 THEN e[i] ELSE c[i - 1] \o e[i]
    BY <2>4, <2>5
  <2>7. PICK T : T = {n \in Nat : n \in 1..Len(e) => c[n] = g[n]}
    OBVIOUS
  <2>8. 0 \in T
    BY <2>7
  <2>9. ASSUME NEW n \in Nat, n \in T PROVE n + 1 \in T
    <3>1. SUFFICES ASSUME n + 1 \in 1..Len(e) PROVE c[n + 1] = g[n + 1]
      BY <2>7
    <3>2. CASE n = 0
      <4>1. c[1] = e[1]
        BY <2>6, <3>1, <3>2
      <4>2. g[1] = e[1]
        BY <2>2, <3>1, <3>2
      <4> QED
        BY <3>2, <4>1, <4>2
    <3>3. CASE n # 0
      <4>1. n \in 1..Len(e) /\ n + 1 # 1 /\ (n + 1) - 1 = n
        BY <1>0, <3>1, <3>3
      <4>2. c[n + 1] = c[n] \o e[n + 1]
        BY <2>6, <3>1, <4>1
      <4>3. g[n + 1] = g[n] \o e[n + 1]
        BY <1>p, <3>1, <4>1
      <4>4. c[n] = g[n]
        BY <2>7, <2>9, <4>1
      <4> QED
        BY <4>2, <4>3, <4>4
    <3> QED
      BY <3>2, <3>3
  <2>10. \A n \in Nat : n \in T
    BY <2>8, <2>9, AllNumbers
  <2>11. c[Len(e)] = g[Len(e)]
    <3>1. Len(e) \in Nat /\ Len(e) \in 1..Len(e)
      BY <1>0, <1>2
    <3> QED
      BY <2>7, <2>10, <3>1
  <2> QED
    BY <1>2, <2>5, <2>11, FlatDef
<1> QED
  BY <1>1, <1>2

LEMMA FlattenIs ==
    ASSUME NEW S, NEW e \in Seq(Seq(S))
    PROVE  /\ FlattenSeq(e) \in Seq(S)
           /\ \E off \in [0..Len(e) -> Nat] :
                /\ off[0] = 0
                /\ off[Len(e)] = Len(FlattenSeq(e))
                /\ \A k \in 1..Len(e) : /\ off[k] = off[k - 1] + Len(e[k])
                                        /\ At(FlattenSeq(e), off[k - 1], e[k])
<1>0. Len(e) \in Nat /\ \A k \in 1..Len(e) : e[k] \in Seq(S)
  BY ElementOfSeq
<1>p. PICK g \in [0..Len(e) -> Seq(S)] : Partial(e, Len(e), g)
  BY PrefixesExist
<1>1. g[0] = <<>> /\ \A k \in 1..Len(e) : g[k] = g[k - 1] \o e[k]
  BY <1>p DEF Partial
<1>2. FlattenSeq(e) = g[Len(e)]
  BY <1>p, FlatIs
<1>3. \A k \in 0..Len(e) : g[k] \in Seq(S) /\ Len(g[k]) \in Nat
  BY <1>1
<1>4. PICK off \in [0..Len(e) -> Nat] : \A k \in 0..Len(e) : off[k] = Len(g[k])
  <2>1. [k \in 0..Len(e) |-> Len(g[k])] \in [0..Len(e) -> Nat]
    BY <1>3
  <2> QED
    BY <2>1
<1>5. ASSUME NEW k \in 1..Len(e)
      PROVE  off[k] = off[k - 1] + Len(e[k]) /\ At(FlattenSeq(e), off[k - 1], e[k])
  <2>1. PICK j \in 0..Len(e) : j = k - 1
    OBVIOUS
  <2>0. k \in 0..Len(e) /\ k \in Nat
    OBVIOUS
  <2>2. /\ g[j] \in Seq(S) /\ e[k] \in Seq(S) /\ k \in 0..Len(e) /\ k \in Nat
        /\ off[j] = Len(g[j]) /\ off[k] = Len(g[k]) /\ g[k] = g[j] \o e[k]
    <3>1. g[k] = g[j] \o e[k]
      BY <1>1, <2>1
    <3> QED
      BY <1>0, <1>3, <1>4, <2>0, <3>1
  <2>3. Len(g[k]) = Len(g[j]) + Len(e[k])
    BY <2>2, ConcatProperties
  <2>4. At(g[k], off[j], e[k])
    BY <2>2, AtEnd
  <2>5. PICK T : T = {n \in Nat : k <= n /\ n <= Len(e) => At(g[n], off[j], e[k])}
    OBVIOUS
  <2>6. 0 \in T
    BY <2>5
  <2>7. ASSUME NEW n \in Nat, n \in T PROVE n + 1 \in T
    <3>1. SUFFICES ASSUME k <= n + 1, n + 1 <= Len(e) PROVE At(g[n + 1], off[j], e[k])
      BY <2>5
    <3>2. CASE k = n + 1
      BY <2>4, <3>2
    <3>3. CASE k # n + 1
      <4>1. k <= n /\ n <= Len(e) /\ n \in 0..Len(e) /\ n + 1 \in 1..Len(e) /\ (n + 1) - 1 = n
        BY <1>0, <3>1, <3>3
      <4>2. At(g[n], off[j], e[k])
        BY <2>5, <2>7, <4>1
      <4>3. g[n] \in Seq(S) /\ e[n + 1] \in Seq(S) /\ off[j] \in Nat
        BY <1>0, <1>3, <4>1
      <4>4. g[n + 1] = g[n] \o e[n + 1]
        BY <1>1, <4>1
      <4> QED
        BY <2>2, <4>2, <4>3, <4>4, AtKept
    <3> QED
      BY <3>2, <3>3
  <2>8. \A n \in Nat : n \in T
    BY <2>6, <2>7, AllNumbers
  <2>9. At(g[Len(e)], off[j], e[k])
    BY <1>0, <2>5, <2>8
  <2> QED
    BY <1>2, <2>1, <2>2, <2>3, <2>9
<1>6. off[0] = 0 /\ off[Len(e)] = Len(FlattenSeq(e)) /\ FlattenSeq(e) \in Seq(S)
  BY <1>0, <1>1, <1>2, <1>3, <1>4
<1> QED
  BY <1>5, <1>6

(* Sequences that are not empty are as long, together, as they are many.     *)
LEMMA OffsetsGrow ==
    ASSUME NEW n \in Nat, NEW off \in [0..n -> Nat], NEW len \in [1..n -> Nat],
           \A k \in 1..n : off[k] = off[k - 1] + len[k] /\ len[k] >= 1
    PROVE  off[n] >= n
<1>1. PICK T : T = {k \in Nat : k <= n => off[k] >= k}
  OBVIOUS
<1>2. 0 \in T
  BY <1>1
<1>3. ASSUME NEW k \in Nat, k \in T PROVE k + 1 \in T
  <2>1. SUFFICES ASSUME k + 1 <= n PROVE off[k + 1] >= k + 1
    BY <1>1
  <2>2. k <= n /\ k + 1 \in 1..n /\ (k + 1) - 1 = k /\ off[k] \in Nat /\ len[k + 1] \in Nat
    BY <2>1
  <2>3. off[k + 1] = off[k] + len[k + 1] /\ len[k + 1] >= 1
    BY <2>2
  <2>4. off[k] >= k
    BY <1>1, <1>3, <2>2
  <2> QED
    BY <2>2, <2>3, <2>4
<1>4. \A k \in Nat : k \in T
  BY <1>2, <1>3, AllNumbers
<1> QED
  BY <1>1, <1>4
-----------------------------------------------------------------------------
(* ReadItems: what the readers find, one item behind the other.              *)
ItemsStep(readers, pos, g, k) ==
    IF k = 0 THEN Read1(pos, <<>>)
    ELSE LET before == g[k - 1]
             item == readers[((k - 1) % Len(readers)) + 1][before.pos]
         IN  IF before.pos < 0 \/ item.pos < 0 THEN Thrown
             ELSE Read1(item.pos, Append(before.value, item.value))
Items(readers, pos, count) ==
    CHOOSE g : g = [k \in 0..count |-> ItemsStep(readers, pos, g, k)]

LEMMA ItemsDef ==
    ASSUME NEW readers, NEW pos, NEW count
    PROVE  ReadItems(readers, pos, count) = Items(readers, pos, count)[count]
BY DEF ReadItems, Items, ItemsStep

LEMMA ItemsAre ==
    ASSUME NEW readers, NEW pos, NEW count \in Nat
    PROVE  \A k \in 0..count : Items(readers, pos, count)[k]
                                 = ItemsStep(readers, pos, Items(readers, pos, count), k)
<1>1. PICK T : T = {n \in Nat : \E g : g = [k \in 0..n |-> ItemsStep(readers, pos, g, k)]}
  OBVIOUS
<1>2. 0 \in T
  <2>1. PICK g : g = [k \in 0..0 |-> Read1(pos, <<>>)]
    OBVIOUS
  <2>2. \A k \in 0..0 : Read1(pos, <<>>) = ItemsStep(readers, pos, g, k)
    BY DEF ItemsStep
  <2>3. g = [k \in 0..0 |-> ItemsStep(readers, pos, g, k)]
    BY <2>1, <2>2, Zenon
  <2> QED
    BY <1>1, <2>3
<1>3. ASSUME NEW n \in Nat, n \in T PROVE n + 1 \in T
  <2>1. PICK g : g = [k \in 0..n |-> ItemsStep(readers, pos, g, k)]
    BY <1>1, <1>3
  <2>2. \A k \in 0..n : g[k] = ItemsStep(readers, pos, g, k)
    BY <2>1, Zenon
  <2>3. PICK h : h = [k \in 0..n + 1 |-> IF k \in 0..n THEN g[k]
                                         ELSE ItemsStep(readers, pos, g, k)]
    OBVIOUS
  <2>4. ASSUME NEW k \in 0..n + 1
        PROVE  (IF k \in 0..n THEN g[k] ELSE ItemsStep(readers, pos, g, k))
                 = ItemsStep(readers, pos, h, k)
    <3>1. (IF k \in 0..n THEN g[k] ELSE ItemsStep(readers, pos, g, k))
            = ItemsStep(readers, pos, g, k)
      BY <2>2
    <3>2. CASE k = 0
      BY <3>1, <3>2 DEF ItemsStep
    <3>3. CASE k # 0
      <4>1. k - 1 \in 0..n /\ k - 1 \in 0..n + 1
        BY <3>3
      <4>2. h[k - 1] = g[k - 1]
        BY <2>3, <4>1
      <4> QED
        BY <3>1, <4>2 DEF ItemsStep
    <3> QED
      BY <3>2, <3>3
  <2>5. h = [k \in 0..n + 1 |-> ItemsStep(readers, pos, h, k)]
    BY <2>3, <2>4, Zenon
  <2>6. n + 1 \in Nat
    OBVIOUS
  <2> QED
    BY <1>1, <2>5, <2>6, Zenon
<1>4. count \in T
  BY <1>2, <1>3, AllNumbers
<1>5. \E g : g = [k \in 0..count |-> ItemsStep(readers, pos, g, k)]
  BY <1>1, <1>4, Zenon
<1>6. Items(readers, pos, count)
        = [k \in 0..count |-> ItemsStep(readers, pos, Items(readers, pos, count), k)]
  BY <1>5, Zenon DEF Items
<1> QED
  BY <1>6, Zenon

LEMMA FirstGrows ==
    ASSUME NEW S, NEW s \in Seq(S), NEW n \in Nat, n + 1 <= Len(s)
    PROVE  SubSeq(s, 1, n + 1) = Append(SubSeq(s, 1, n), s[n + 1])
<1>0. Len(s) \in Nat /\ n \in 0..Len(s) /\ n + 1 \in 0..Len(s) /\ n + 1 \in 1..Len(s)
  OBVIOUS
<1>1. PICK x \in Seq(S) : x = SubSeq(s, 1, n)
  BY <1>0, FirstIs
<1>2. Len(x) = n /\ \A i \in 1..n : x[i] = s[i]
  BY <1>0, <1>1, FirstIs
<1>3. PICK y \in Seq(S) : y = SubSeq(s, 1, n + 1)
  BY <1>0, FirstIs
<1>4. Len(y) = n + 1 /\ \A i \in 1..n + 1 : y[i] = s[i]
  BY <1>0, <1>3, FirstIs
<1>5. s[n + 1] \in S
  BY <1>0, ElementOfSeq
<1>6. PICK z \in Seq(S) : z = Append(x, s[n + 1])
  BY <1>5, AppendProperties
<1>7. Len(z) = n + 1 /\ (\A i \in 1..n : z[i] = x[i]) /\ z[n + 1] = s[n + 1]
  BY <1>2, <1>5, <1>6, AppendProperties
<1>8. ASSUME NEW i \in 1..n + 1 PROVE y[i] = z[i]
  <2>1. CASE i = n + 1
    BY <1>4, <1>7, <2>1
  <2>2. CASE i # n + 1
    <3>1. i \in 1..n
      BY <2>2
    <3> QED
      BY <1>2, <1>4, <1>7, <3>1
  <2> QED
    BY <2>1, <2>2
<1>9. y = z
  BY <1>4, <1>7, <1>8, SeqEqual
<1> QED
  BY <1>1, <1>3, <1>6, <1>9

LEMMA ReadItemsIs ==
    ASSUME NEW readers, NEW count \in Nat, NEW q \in [0..count -> Nat],
           NEW V, NEW x \in Seq(V), Len(x) = count, NEW B, B \subseteq {Thrown},
           \A k \in 1..count :
              readers[((k - 1) % Len(readers)) + 1][q[k - 1]] \in B \cup {Read1(q[k], x[k])}
    PROVE  ReadItems(readers, q[0], count) \in B \cup {Read1(q[count], x)}
<1>1. PICK g : g = Items(readers, q[0], count)
  OBVIOUS
<1>2. \A k \in 0..count : g[k] = ItemsStep(readers, q[0], g, k)
  BY <1>1, ItemsAre
<1>3. PICK T : T = {k \in Nat : k <= count => g[k] \in B \cup {Read1(q[k], SubSeq(x, 1, k))}}
  OBVIOUS
<1>4. 0 \in T
  <2>1. g[0] = Read1(q[0], <<>>)
    BY <1>2 DEF ItemsStep
  <2>2. SubSeq(x, 1, 0) = <<>>
    OBVIOUS
  <2> QED
    BY <1>3, <2>1, <2>2
<1>5. ASSUME NEW k \in Nat, k \in T PROVE k + 1 \in T
  <2>1. SUFFICES ASSUME k + 1 <= count
                 PROVE  g[k + 1] \in B \cup {Read1(q[k + 1], SubSeq(x, 1, k + 1))}
    BY <1>3
  <2>2. k <= count /\ k \in 0..count /\ k + 1 \in 0..count /\ k + 1 \in 1..count
        /\ (k + 1) - 1 = k /\ k + 1 # 0
    BY <2>1
  <2>3. PICK item : item = readers[(k % Len(readers)) + 1][q[k]]
    OBVIOUS
  <2>4. item \in B \cup {Read1(q[k + 1], x[k + 1])}
    BY <2>2, <2>3
  <2>5. g[k] \in B \cup {Read1(q[k], SubSeq(x, 1, k))}
    BY <1>3, <1>5, <2>2
  <2>6. g[k + 1] = ItemsStep(readers, q[0], g, k + 1)
    BY <1>2, <2>2
  <2>7. CASE g[k] \in B
    <3>1. g[k] = Thrown /\ g[k].pos < 0
      BY <2>7 DEF Thrown
    <3>2. g[k + 1] = Thrown
      BY <2>2, <2>6, <3>1 DEF ItemsStep
    <3> QED
      BY <2>7, <3>1, <3>2
  <2>8. CASE g[k] = Read1(q[k], SubSeq(x, 1, k))
    <3>1. g[k].pos = q[k] /\ g[k].value = SubSeq(x, 1, k) /\ q[k] \in Nat /\ ~(g[k].pos < 0)
      BY <2>2, <2>8 DEF Read1
    <3>2. g[k + 1] = IF item.pos < 0 THEN Thrown
                     ELSE Read1(item.pos, Append(SubSeq(x, 1, k), item.value))
      BY <2>2, <2>3, <2>6, <3>1 DEF ItemsStep
    <3>3. CASE item \in B
      <4>1. item = Thrown /\ item.pos < 0
        BY <3>3 DEF Thrown
      <4> QED
        BY <3>2, <3>3, <4>1
    <3>4. CASE item = Read1(q[k + 1], x[k + 1])
      <4>1. item.pos = q[k + 1] /\ item.value = x[k + 1] /\ q[k + 1] \in Nat
        BY <2>2, <3>4 DEF Read1
      <4>2. ~(item.pos < 0)
        BY <4>1
      <4>3. SubSeq(x, 1, k + 1) = Append(SubSeq(x, 1, k), x[k + 1])
        BY <2>1, FirstGrows
      <4> QED
        BY <3>2, <4>1, <4>2, <4>3
    <3> QED
      BY <2>4, <3>3, <3>4
  <2> QED
    BY <2>5, <2>7, <2>8
<1>6. \A k \in Nat : k \in T
  BY <1>4, <1>5, AllNumbers
<1>7. g[count] \in B \cup {Read1(q[count], SubSeq(x, 1, count))}
  BY <1>3, <1>6
<1>8. SubSeq(x, 1, count) = x
  <2>1. count \in 0..Len(x)
    OBVIOUS
  <2>2. /\ SubSeq(x, 1, count) \in Seq(V) /\ Len(SubSeq(x, 1, count)) = count
        /\ \A i \in 1..count : SubSeq(x, 1, count)[i] = x[i]
    BY <2>1, FirstIs
  <2> QED
    BY <2>2, SeqEqual
<1> QED
  BY <1>1, <1>7, <1>8, ItemsDef
-----------------------------------------------------------------------------
(* WriteData and ReadData go down the types: what a type is made of comes    *)
(* before it.                                                                *)
Firsts(n) == {Types[j] : j \in 1..n}

LEMMA TypesAre ==
    /\ Len(Types) \in Nat /\ Firsts(Len(Types)) = InUse /\ Firsts(0) = {}
    /\ \A t \in InUse : \E n \in 1..Len(Types) : t = Types[n]
    /\ \A n \in 1..Len(Types) : Types[n] \in InUse /\ IsType(Types[n], Firsts(n - 1))
<1>1. Types \in Seq(InUse)
  BY SerialiseAssumption
<1>2. Len(Types) \in Nat /\ DOMAIN Types = 1..Len(Types)
  BY <1>1
<1>3. Firsts(Len(Types)) = InUse
  BY <1>2 DEF Firsts, InUse, Range
<1>4. \A n \in 1..Len(Types) : IsType(Types[n], Firsts(n - 1))
  BY <1>2, SerialiseAssumption DEF Firsts
<1>5. \A n \in 1..Len(Types) : Types[n] \in InUse
  BY <1>1, ElementOfSeq
<1>6. \A t \in InUse : \E n \in 1..Len(Types) : t = Types[n]
  BY <1>3 DEF Firsts
<1>7. Firsts(0) = {}
  BY DEF Firsts
<1> QED
  BY <1>2, <1>3, <1>4, <1>5, <1>6, <1>7

LEMMA TypeCases ==
    ASSUME NEW t, NEW P, IsType(t, P)
    PROVE  \/ t.is \in {"Int8", "Int16", "Int32", "Int64", "float", "bool", "string"}
           \/ t.is = "vector" /\ t.of \in P
           \/ t.is = "map" /\ t.key \in P /\ t.of \in P
<1>1. CASE \E s \in DOMAIN Width \cup {"string"} : t = [is |-> s]
  <2>1. PICK s \in DOMAIN Width \cup {"string"} : t = [is |-> s]
    BY <1>1
  <2>2. DOMAIN Width = {"Int8", "Int16", "Int32", "Int64", "float", "bool"}
    BY DEF Width
  <2> QED
    BY <2>1, <2>2
<1>2. CASE \E e \in P : t = [is |-> "vector", of |-> e]
  BY <1>2
<1>3. CASE \E k, e \in P : t = [is |-> "map", key |-> k, of |-> e]
  BY <1>3
<1> QED
  BY <1>1, <1>2, <1>3 DEF IsType

Writing(write, t, v) ==
    CASE t.is = "vector" ->
           <<GetDataType(t.of)>> \o BytesOf(Sizes, Len(v))
             \o FlattenSeq([i \in 1..Len(v) |-> write[t.of][v[i]]])
      [] t.is = "map" ->
           LET keys == SetToSeq(DOMAIN v) IN
           <<16 * GetDataType(t.key) + GetDataType(t.of)>> \o BytesOf(Sizes, Len(keys))
             \o FlattenSeq([i \in 1..Len(keys) |->
                              write[t.key][keys[i]] \o write[t.of][v[keys[i]]]])
      [] t.is = "bool" -> IF v THEN <<1>> ELSE <<0>>
      [] t.is = "string" -> BytesOf(Sizes, Len(v)) \o v
      [] OTHER -> BytesOf(Width[t.is], v)

LEMMA WriteDef ==
    WriteData = CHOOSE f : f = [t \in InUse |-> [v \in Values[t] |-> Writing(f, t, v)]]
BY DEF WriteData, Writing

Reading(b, read, t, pos) ==
    CASE t.is = "vector" -> ReadElements(b, pos, GetDataType(t.of), <<read[t.of]>>)
      [] t.is = "map" ->
           LET items == ReadElements(b, pos, 16 * GetDataType(t.key) + GetDataType(t.of),
                                     <<read[t.key], read[t.of]>>)
           IN  IF items.pos < 0 THEN Thrown ELSE Read1(items.pos, AsMap(items.value))
      [] t.is = "bool" ->
           LET r == Peek(b, 1, pos) IN
           IF r.pos < 0 \/ r.value \notin {0, 1} THEN Thrown ELSE Read1(r.pos, r.value = 1)
      [] t.is = "string" -> ReadString(b, pos)
      [] OTHER -> Peek(b, Width[t.is], pos)

LEMMA ReadDef ==
    ASSUME NEW b
    PROVE  ReadData(b) = CHOOSE f : f = [t \in InUse |-> [pos \in Nat |-> Reading(b, f, t, pos)]]
BY DEF ReadData, Reading

LEMMA WritingSame ==
    ASSUME NEW f, NEW h, NEW t, NEW v, NEW P, IsType(t, P), \A e \in P : f[e] = h[e]
    PROVE  Writing(f, t, v) = Writing(h, t, v)
<1>1. CASE t.is = "vector" /\ t.of \in P
  <2>1. f[t.of] = h[t.of]
    BY <1>1
  <2> QED
    BY <1>1, <2>1 DEF Writing
<1>2. CASE t.is = "map" /\ t.key \in P /\ t.of \in P
  <2>1. f[t.key] = h[t.key] /\ f[t.of] = h[t.of]
    BY <1>2
  <2> QED
    BY <1>2, <2>1 DEF Writing
<1>3. CASE t.is \in {"Int8", "Int16", "Int32", "Int64", "float", "bool", "string"}
  BY <1>3 DEF Writing
<1> QED
  BY <1>1, <1>2, <1>3, TypeCases

LEMMA ReadingSame ==
    ASSUME NEW b, NEW f, NEW h, NEW t, NEW pos, NEW P, IsType(t, P), \A e \in P : f[e] = h[e]
    PROVE  Reading(b, f, t, pos) = Reading(b, h, t, pos)
<1>1. CASE t.is = "vector" /\ t.of \in P
  <2>1. f[t.of] = h[t.of]
    BY <1>1
  <2> QED
    BY <1>1, <2>1 DEF Reading
<1>2. CASE t.is = "map" /\ t.key \in P /\ t.of \in P
  <2>1. f[t.key] = h[t.key] /\ f[t.of] = h[t.of]
    BY <1>2
  <2> QED
    BY <1>2, <2>1 DEF Reading
<1>3. CASE t.is \in {"Int8", "Int16", "Int32", "Int64", "float", "bool", "string"}
  BY <1>3 DEF Reading
<1> QED
  BY <1>1, <1>2, <1>3, TypeCases

LEMMA WriteAre ==
    ASSUME NEW t \in InUse, NEW v \in Values[t]
    PROVE  WriteData[t][v] = Writing(WriteData, t, v)
<1>1. PICK T : T = {n \in Nat : n <= Len(Types) =>
                      \E f : f = [e \in Firsts(n) |-> [x \in Values[e] |-> Writing(f, e, x)]]}
  OBVIOUS
<1>2. 0 \in T
  <2>1. PICK f : f = [e \in {} |-> {}]
    OBVIOUS
  <2>2. \A e \in {} : {} = [x \in Values[e] |-> Writing(f, e, x)]
    OBVIOUS
  <2>3. f = [e \in {} |-> [x \in Values[e] |-> Writing(f, e, x)]]
    BY <2>1, <2>2, Zenon
  <2>4. f = [e \in Firsts(0) |-> [x \in Values[e] |-> Writing(f, e, x)]]
    BY <2>3, TypesAre, Zenon
  <2>5. 0 \in Nat
    OBVIOUS
  <2> QED
    BY <1>1, <2>4, <2>5, Zenon
<1>3. ASSUME NEW n \in Nat, n \in T PROVE n + 1 \in T
  <2>0. n + 1 \in Nat
    OBVIOUS
  <2>1. SUFFICES ASSUME n + 1 <= Len(Types)
                 PROVE  \E f : f = [e \in Firsts(n + 1) |-> [x \in Values[e] |-> Writing(f, e, x)]]
    BY <1>1, <2>0, Zenon
  <2>2. n <= Len(Types) /\ n + 1 \in 1..Len(Types)
    BY <2>1, TypesAre
  <2>3. PICK f : f = [e \in Firsts(n) |-> [x \in Values[e] |-> Writing(f, e, x)]]
    BY <1>1, <1>3, <2>2, Zenon
  <2>4. \A e \in Firsts(n) : f[e] = [x \in Values[e] |-> Writing(f, e, x)]
    BY <2>3, Zenon
  <2>5. PICK h : h = [e \in Firsts(n + 1) |-> [x \in Values[e] |-> Writing(f, e, x)]]
    OBVIOUS
  <2>6. Firsts(n) \subseteq Firsts(n + 1)
    BY DEF Firsts
  <2>7. \A e \in Firsts(n) : f[e] = h[e]
    BY <2>4, <2>5, <2>6, Zenon
  <2>8. ASSUME NEW e \in Firsts(n + 1)
        PROVE  [x \in Values[e] |-> Writing(f, e, x)] = [x \in Values[e] |-> Writing(h, e, x)]
    <3>1. PICK j \in 1..n + 1 : e = Types[j]
      BY DEF Firsts
    <3>2. j \in 1..Len(Types)
      BY <2>2, TypesAre
    <3>3. IsType(e, Firsts(j - 1))
      BY <3>1, <3>2, TypesAre
    <3>4. Firsts(j - 1) \subseteq Firsts(n)
      BY DEF Firsts
    <3>a. \A d \in Firsts(j - 1) : f[d] = h[d]
      BY <2>7, <3>4
    <3>b. PICK P : P = Firsts(j - 1)
      OBVIOUS
    <3>c. IsType(e, P) /\ \A d \in P : f[d] = h[d]
      BY <3>3, <3>a, <3>b
    <3>5. ASSUME NEW x \in Values[e] PROVE Writing(f, e, x) = Writing(h, e, x)
      BY <3>c, WritingSame
    <3> QED
      BY <3>5, Zenon
  <2>9. h = [e \in Firsts(n + 1) |-> [x \in Values[e] |-> Writing(h, e, x)]]
    BY <2>5, <2>8, Zenon
  <2> QED
    BY <2>9
<1>a. \A n \in Nat : n \in T
  BY <1>2, <1>3, AllNumbers
<1>4. Len(Types) \in T /\ Len(Types) <= Len(Types)
  BY <1>a, TypesAre
<1>5. \E f : f = [e \in InUse |-> [x \in Values[e] |-> Writing(f, e, x)]]
  BY <1>1, <1>4, TypesAre, Zenon
<1>6. WriteData = [e \in InUse |-> [x \in Values[e] |-> Writing(WriteData, e, x)]]
  BY <1>5, WriteDef, Zenon
<1>7. WriteData[t] = [x \in Values[t] |-> Writing(WriteData, t, x)]
  BY <1>6, Zenon
<1> QED
  BY <1>7, Zenon

LEMMA ReadAre ==
    ASSUME NEW b, NEW t \in InUse, NEW pos \in Nat
    PROVE  ReadData(b)[t][pos] = Reading(b, ReadData(b), t, pos)
<1>1. PICK T : T = {n \in Nat : n <= Len(Types) =>
                      \E f : f = [e \in Firsts(n) |-> [p \in Nat |-> Reading(b, f, e, p)]]}
  OBVIOUS
<1>2. 0 \in T
  <2>1. PICK f : f = [e \in {} |-> {}]
    OBVIOUS
  <2>2. \A e \in {} : {} = [p \in Nat |-> Reading(b, f, e, p)]
    OBVIOUS
  <2>3. f = [e \in {} |-> [p \in Nat |-> Reading(b, f, e, p)]]
    BY <2>1, <2>2, Zenon
  <2>4. f = [e \in Firsts(0) |-> [p \in Nat |-> Reading(b, f, e, p)]]
    BY <2>3, TypesAre, Zenon
  <2>5. 0 \in Nat
    OBVIOUS
  <2> QED
    BY <1>1, <2>4, <2>5, Zenon
<1>3. ASSUME NEW n \in Nat, n \in T PROVE n + 1 \in T
  <2>0. n + 1 \in Nat
    OBVIOUS
  <2>1. SUFFICES ASSUME n + 1 <= Len(Types)
                 PROVE  \E f : f = [e \in Firsts(n + 1) |-> [p \in Nat |-> Reading(b, f, e, p)]]
    BY <1>1, <2>0, Zenon
  <2>2. n <= Len(Types) /\ n + 1 \in 1..Len(Types)
    BY <2>1, TypesAre
  <2>3. PICK f : f = [e \in Firsts(n) |-> [p \in Nat |-> Reading(b, f, e, p)]]
    BY <1>1, <1>3, <2>2, Zenon
  <2>4. \A e \in Firsts(n) : f[e] = [p \in Nat |-> Reading(b, f, e, p)]
    BY <2>3, Zenon
  <2>5. PICK h : h = [e \in Firsts(n + 1) |-> [p \in Nat |-> Reading(b, f, e, p)]]
    OBVIOUS
  <2>6. Firsts(n) \subseteq Firsts(n + 1)
    BY DEF Firsts
  <2>7. \A e \in Firsts(n) : f[e] = h[e]
    BY <2>4, <2>5, <2>6, Zenon
  <2>8. ASSUME NEW e \in Firsts(n + 1)
        PROVE  [p \in Nat |-> Reading(b, f, e, p)] = [p \in Nat |-> Reading(b, h, e, p)]
    <3>1. PICK j \in 1..n + 1 : e = Types[j]
      BY DEF Firsts
    <3>2. j \in 1..Len(Types)
      BY <2>2, TypesAre
    <3>3. IsType(e, Firsts(j - 1))
      BY <3>1, <3>2, TypesAre
    <3>4. Firsts(j - 1) \subseteq Firsts(n)
      BY DEF Firsts
    <3>a. \A d \in Firsts(j - 1) : f[d] = h[d]
      BY <2>7, <3>4
    <3>b. PICK P : P = Firsts(j - 1)
      OBVIOUS
    <3>c. IsType(e, P) /\ \A d \in P : f[d] = h[d]
      BY <3>3, <3>a, <3>b
    <3>5. ASSUME NEW p \in Nat PROVE Reading(b, f, e, p) = Reading(b, h, e, p)
      BY <3>c, ReadingSame
    <3> QED
      BY <3>5, Zenon
  <2>9. h = [e \in Firsts(n + 1) |-> [p \in Nat |-> Reading(b, h, e, p)]]
    BY <2>5, <2>8, Zenon
  <2> QED
    BY <2>9
<1>a. \A n \in Nat : n \in T
  BY <1>2, <1>3, AllNumbers
<1>4. Len(Types) \in T /\ Len(Types) <= Len(Types)
  BY <1>a, TypesAre
<1>5. \E f : f = [e \in InUse |-> [p \in Nat |-> Reading(b, f, e, p)]]
  BY <1>1, <1>4, TypesAre, Zenon
<1>6. ReadData(b) = [e \in InUse |-> [p \in Nat |-> Reading(b, ReadData(b), e, p)]]
  BY <1>5, ReadDef, Zenon
<1>7. ReadData(b)[t] = [p \in Nat |-> Reading(b, ReadData(b), t, p)]
  BY <1>6, Zenon
<1> QED
  BY <1>7, Zenon
-----------------------------------------------------------------------------
(* The keys of a map, each once.                                             *)
LEMMA KeysAre ==
    ASSUME NEW S, IsFiniteSet(S)
    PROVE  /\ SetToSeq(S) \in Seq(S)
           /\ \A i, j \in 1..Len(SetToSeq(S)) : SetToSeq(S)[i] = SetToSeq(S)[j] => i = j
           /\ \A x \in S : \E i \in 1..Len(SetToSeq(S)) : SetToSeq(S)[i] = x
<1>1. PICK n \in Nat : n = Cardinality(S) /\ ExistsBijection(1..n, S)
  BY FS_CardinalityType
<1>2. \E f \in [1..n -> S] : IsInjective(f)
  BY <1>1 DEF ExistsBijection, Bijection, Injection
<1>3. PICK f : f = SetToSeq(S)
  OBVIOUS
<1>4. f \in [1..n -> S] /\ IsInjective(f)
  BY <1>1, <1>2, <1>3 DEF SetToSeq
<1>5. f \in Seq(S) /\ Len(f) = n
  BY <1>4
<1>6. \A i, j \in 1..n : f[i] = f[j] => i = j
  BY <1>4 DEF IsInjective
<1>7. \A x \in S : \E i \in 1..n : f[i] = x
  <2>1. f \in Injection(1..n, S)
    BY <1>4 DEF Injection
  <2>2. Cardinality(1..n) = Cardinality(S)
    <3>1. 1 \in Int /\ n \in Int
      OBVIOUS
    <3>2. Cardinality(1..n) = IF 1 > n THEN 0 ELSE n - 1 + 1
      BY <3>1, FS_Interval
    <3> QED
      BY <1>1, <3>2
  <2>3. f \in Surjection(1..n, S)
    BY <2>1, <2>2, FS_Injection
  <2> QED
    BY <2>3 DEF Surjection
<1> QED
  BY <1>3, <1>5, <1>6, <1>7
-----------------------------------------------------------------------------
(* Types and values.                                                         *)
Numbers == {"Int8", "Int16", "Int32", "Int64", "float"}

LEMMA KindIs ==
    ASSUME NEW t \in InUse
    PROVE  /\ t.is \in Numbers \cup {"bool", "string", "vector", "map"}
           /\ t.is = "vector" => t.of \in InUse
           /\ t.is = "map" => t.key \in InUse /\ t.of \in InUse
<1>1. PICK n \in 1..Len(Types) : t = Types[n]
  BY TypesAre
<1>2. IsType(t, Firsts(n - 1))
  BY <1>1, TypesAre
<1>3. Firsts(n - 1) \subseteq InUse
  <2>1. Firsts(n - 1) \subseteq Firsts(Len(Types))
    BY TypesAre DEF Firsts
  <2> QED
    BY <2>1, TypesAre
<1> QED
  BY <1>2, <1>3, TypeCases DEF Numbers

LEMMA TagIs ==
    ASSUME NEW t \in InUse
    PROVE  /\ GetDataType(t) \in 1..9
           /\ \A u \in InUse : GetDataType(t) = GetDataType(u) => t.is = u.is
<1>1. t.is \in Numbers \cup {"bool", "string", "vector", "map"}
  BY KindIs
<1>2. \A u \in InUse : u.is \in Numbers \cup {"bool", "string", "vector", "map"}
  BY KindIs
<1> QED
  BY <1>1, <1>2 DEF GetDataType, Tag, Numbers

LEMMA ValueIs ==
    ASSUME NEW t \in InUse, NEW v \in Values[t]
    PROVE  /\ t.is = "bool" => v \in BOOLEAN
           /\ t.is = "string" => v \in Seq(Byte)
           /\ t.is = "vector" => v \in Seq(Values[t.of])
           /\ t.is = "map" => /\ IsFiniteSet(DOMAIN v) /\ DOMAIN v \subseteq Values[t.key]
                              /\ v \in [DOMAIN v -> Values[t.of]]
           /\ t.is = "Int8" => v \in Int8
           /\ t.is = "Int16" => v \in Int16
           /\ t.is \in {"Int32", "Int64", "float"} => v \in Int32
<1>1. IsValue(t, v)
  BY SerialiseAssumption
<1> QED
  BY <1>1, Zenon DEF IsValue

LEMMA NumberIs ==
    ASSUME NEW t \in InUse, NEW v \in Values[t], t.is \in Numbers
    PROVE  /\ v \in Int /\ Width[t.is] \in {1, 2, 4, 8}
           /\ WriteData[t][v] = BytesOf(Width[t.is], v)
           /\ IntOf(BytesOf(Width[t.is], v)) = v
<1>1. WriteData[t][v] = BytesOf(Width[t.is], v)
  BY WriteAre DEF Writing, Numbers
<1>2. CASE t.is = "Int8"
  <2>1. v \in Int8 /\ Width[t.is] = 1
    BY <1>2, ValueIs DEF Width
  <2>2. v \in Int
    BY <2>1 DEF Int8
  <2> QED
    BY <1>1, <2>1, <2>2, OneBack
<1>3. CASE t.is = "Int16"
  <2>1. v \in Int16 /\ Width[t.is] = 2
    BY <1>3, ValueIs DEF Width
  <2>2. v \in Int
    BY <2>1 DEF Int16
  <2> QED
    BY <1>1, <2>1, <2>2, TwoBack
<1>4. CASE t.is \in {"Int32", "float"}
  <2>1. v \in Int32 /\ Width[t.is] = 4
    BY <1>4, ValueIs DEF Width
  <2>2. v \in Int
    BY <2>1 DEF Int32
  <2> QED
    BY <1>1, <2>1, <2>2, FourBack
<1>5. CASE t.is = "Int64"
  <2>1. v \in Int32 /\ Width[t.is] = 8
    BY <1>5, ValueIs DEF Width
  <2>2. v \in Int
    BY <2>1 DEF Int32
  <2> QED
    BY <1>1, <2>1, <2>2, EightBack
<1> QED
  BY <1>2, <1>3, <1>4, <1>5 DEF Numbers

(* What is written for a value, by its type.                                 *)
LEMMA OneIs ==
    ASSUME NEW n \in Byte
    PROVE  <<n>> \in Seq(Byte) /\ Len(<<n>>) = 1 /\ <<n>>[1] = n
OBVIOUS

LEMMA BoolWritten ==
    ASSUME NEW t \in InUse, NEW v \in Values[t], t.is = "bool"
    PROVE  v \in BOOLEAN /\ WriteData[t][v] = IF v THEN <<1>> ELSE <<0>>
<1>1. v \in BOOLEAN
  BY ValueIs
<1>2. WriteData[t][v] = Writing(WriteData, t, v)
  BY WriteAre
<1> QED
  BY <1>1, <1>2, Zenon DEF Writing

LEMMA StringWritten ==
    ASSUME NEW t \in InUse, NEW v \in Values[t], t.is = "string"
    PROVE  v \in Seq(Byte) /\ WriteData[t][v] = BytesOf(2, Len(v)) \o v
<1>1. v \in Seq(Byte)
  BY ValueIs
<1>2. WriteData[t][v] = Writing(WriteData, t, v)
  BY WriteAre
<1> QED
  BY <1>1, <1>2 DEF Writing, Sizes

(* The elements of a vector, and the pairs of a map.                         *)
Elements(t, v) == [i \in 1..Len(v) |-> WriteData[t.of][v[i]]]
Pairs(t, v, keys) ==
    [i \in 1..Len(keys) |-> WriteData[t.key][keys[i]] \o WriteData[t.of][v[keys[i]]]]

LEMMA VectorWritten ==
    ASSUME NEW t \in InUse, NEW v \in Values[t], t.is = "vector"
    PROVE  /\ t.of \in InUse /\ v \in Seq(Values[t.of])
           /\ WriteData[t][v]
                = <<GetDataType(t.of)>> \o BytesOf(2, Len(v)) \o FlattenSeq(Elements(t, v))
<1>1. t.of \in InUse /\ v \in Seq(Values[t.of])
  BY KindIs, ValueIs
<1>2. WriteData[t][v] = Writing(WriteData, t, v)
  BY WriteAre
<1> QED
  BY <1>1, <1>2 DEF Writing, Sizes, Elements

LEMMA MapWritten ==
    ASSUME NEW t \in InUse, NEW v \in Values[t], t.is = "map"
    PROVE  LET keys == SetToSeq(DOMAIN v) IN
           /\ t.key \in InUse /\ t.of \in InUse
           /\ IsFiniteSet(DOMAIN v) /\ DOMAIN v \subseteq Values[t.key]
           /\ v \in [DOMAIN v -> Values[t.of]]
           /\ WriteData[t][v]
                = <<16 * GetDataType(t.key) + GetDataType(t.of)>> \o BytesOf(2, Len(keys))
                    \o FlattenSeq(Pairs(t, v, keys))
<1>1. /\ t.key \in InUse /\ t.of \in InUse
      /\ IsFiniteSet(DOMAIN v) /\ DOMAIN v \subseteq Values[t.key]
      /\ v \in [DOMAIN v -> Values[t.of]]
  BY KindIs, ValueIs
<1>2. WriteData[t][v] = Writing(WriteData, t, v)
  BY WriteAre
<1> QED
  BY <1>1, <1>2 DEF Writing, Sizes, Pairs
-----------------------------------------------------------------------------
(* What is written for a value is bytes, at least one.                       *)
Sound(t) ==
    \A v \in Values[t] : WriteData[t][v] \in Seq(Byte) /\ Len(WriteData[t][v]) >= 1

LEMMA JoinedIs ==
    ASSUME NEW x \in Seq(Byte), NEW y \in Seq(Byte)
    PROVE  /\ x \o y \in Seq(Byte) /\ Len(x \o y) = Len(x) + Len(y)
           /\ Len(x) >= 1 /\ Len(y) >= 1 => Len(x \o y) >= 1
<1>1. x \o y \in Seq(Byte) /\ Len(x \o y) = Len(x) + Len(y)
  BY ConcatProperties
<1>2. Len(x) \in Nat /\ Len(y) \in Nat
  OBVIOUS
<1>3. Len(x) >= 1 /\ Len(y) >= 1 => Len(x) + Len(y) >= 1
  BY <1>2
<1> QED
  BY <1>1, <1>3

LEMMA ElementsAre ==
    ASSUME NEW t \in InUse, NEW v \in Values[t], t.is = "vector", Sound(t.of)
    PROVE  /\ Elements(t, v) \in Seq(Seq(Byte)) /\ Len(Elements(t, v)) = Len(v)
           /\ \A i \in 1..Len(v) : /\ v[i] \in Values[t.of]
                                   /\ Elements(t, v)[i] = WriteData[t.of][v[i]]
                                   /\ Len(Elements(t, v)[i]) >= 1
<1>0. v \in Seq(Values[t.of])
  BY VectorWritten
<1>1. v \in Seq(Values[t.of]) /\ Len(v) \in Nat
  BY <1>0
<1>2. \A i \in 1..Len(v) : v[i] \in Values[t.of]
  BY <1>1, ElementOfSeq
<1>3. \A i \in 1..Len(v) : /\ WriteData[t.of][v[i]] \in Seq(Byte)
                           /\ Len(WriteData[t.of][v[i]]) >= 1
  BY <1>2 DEF Sound
<1>4. PICK e : e = Elements(t, v)
  OBVIOUS
<1>5. e \in [1..Len(v) -> Seq(Byte)] /\ \A i \in 1..Len(v) : e[i] = WriteData[t.of][v[i]]
  BY <1>3, <1>4 DEF Elements
<1>6. e \in Seq(Seq(Byte)) /\ Len(e) = Len(v)
  BY <1>1, <1>5
<1> QED
  BY <1>2, <1>3, <1>4, <1>5, <1>6

PairsSound(t, v, keys) ==
    /\ Pairs(t, v, keys) \in Seq(Seq(Byte)) /\ Len(Pairs(t, v, keys)) = Len(keys)
    /\ \A i \in 1..Len(keys) :
         /\ keys[i] \in Values[t.key] /\ v[keys[i]] \in Values[t.of]
         /\ WriteData[t.key][keys[i]] \in Seq(Byte)
         /\ WriteData[t.of][v[keys[i]]] \in Seq(Byte)
         /\ Pairs(t, v, keys)[i] = WriteData[t.key][keys[i]] \o WriteData[t.of][v[keys[i]]]
         /\ Len(Pairs(t, v, keys)[i])
              = Len(WriteData[t.key][keys[i]]) + Len(WriteData[t.of][v[keys[i]]])
         /\ Len(Pairs(t, v, keys)[i]) >= 1

LEMMA PairsAre ==
    ASSUME NEW t \in InUse, NEW v \in Values[t], t.is = "map", Sound(t.key), Sound(t.of),
           NEW keys \in Seq(DOMAIN v)
    PROVE  PairsSound(t, v, keys)
<1>0. DOMAIN v \subseteq Values[t.key] /\ v \in [DOMAIN v -> Values[t.of]]
  BY MapWritten, Zenon
<1>1. DOMAIN v \subseteq Values[t.key] /\ v \in [DOMAIN v -> Values[t.of]] /\ Len(keys) \in Nat
  BY <1>0
<1>2. \A i \in 1..Len(keys) : keys[i] \in DOMAIN v
  BY ElementOfSeq
<1>3. \A i \in 1..Len(keys) : keys[i] \in Values[t.key] /\ v[keys[i]] \in Values[t.of]
  BY <1>1, <1>2
<1>4. \A i \in 1..Len(keys) : /\ WriteData[t.key][keys[i]] \in Seq(Byte)
                              /\ WriteData[t.of][v[keys[i]]] \in Seq(Byte)
                              /\ Len(WriteData[t.key][keys[i]]) >= 1
                              /\ Len(WriteData[t.of][v[keys[i]]]) >= 1
  BY <1>3 DEF Sound
<1>5. ASSUME NEW i \in 1..Len(keys)
      PROVE  LET x == WriteData[t.key][keys[i]]
                 y == WriteData[t.of][v[keys[i]]]
             IN  x \o y \in Seq(Byte) /\ Len(x \o y) = Len(x) + Len(y) /\ Len(x \o y) >= 1
  BY <1>4, JoinedIs
<1>6. PICK e : e = Pairs(t, v, keys)
  OBVIOUS
<1>7. \A i \in 1..Len(keys) : e[i] = WriteData[t.key][keys[i]] \o WriteData[t.of][v[keys[i]]]
  BY <1>6 DEF Pairs
<1>8. e \in [1..Len(keys) -> Seq(Byte)]
  BY <1>5, <1>6 DEF Pairs
<1>9. e \in Seq(Seq(Byte)) /\ Len(e) = Len(keys)
  BY <1>1, <1>8
<1> QED
  BY <1>3, <1>4, <1>5, <1>6, <1>7, <1>9 DEF PairsSound

(* A tag, a count and what follows them.                                     *)
LEMMA HeadedIs ==
    ASSUME NEW n \in Byte, NEW c \in Int, NEW x \in Seq(Byte)
    PROVE  /\ <<n>> \o BytesOf(2, c) \o x \in Seq(Byte)
           /\ Len(<<n>> \o BytesOf(2, c) \o x) = 3 + Len(x)
<1>1. <<n>> \in Seq(Byte) /\ Len(<<n>>) = 1
  BY OneIs
<1>2. PICK z \in Seq(Byte) : z = BytesOf(2, c) /\ Len(z) = 2
  BY BytesTyped
<1>3. <<n>> \o z \in Seq(Byte) /\ Len(<<n>> \o z) = Len(<<n>>) + Len(z)
  BY <1>1, ConcatProperties
<1>a. Len(<<n>>) + Len(z) = 3
  <2>1. Len(<<n>>) + Len(z) = 1 + 2
    BY <1>1, <1>2, Zenon
  <2> QED
    BY <2>1
<1>4. PICK h \in Seq(Byte) : h = <<n>> \o z /\ Len(h) = 3
  BY <1>3, <1>a, Zenon
<1>5. h \o x \in Seq(Byte) /\ Len(h \o x) = Len(h) + Len(x)
  BY ConcatProperties
<1> QED
  BY <1>2, <1>4, <1>5

LEMMA TagBytes ==
    ASSUME NEW t \in InUse, NEW u \in InUse
    PROVE  GetDataType(t) \in Byte /\ 16 * GetDataType(t) + GetDataType(u) \in Byte
<1>1. GetDataType(t) \in 1..9 /\ GetDataType(u) \in 1..9
  BY TagIs
<1> QED
  BY <1>1 DEF Byte

LEMMA SoundParts ==
    ASSUME NEW t \in InUse, t.is = "vector" => Sound(t.of),
           t.is = "map" => Sound(t.key) /\ Sound(t.of)
    PROVE  Sound(t)
<1>1. SUFFICES ASSUME NEW v \in Values[t]
               PROVE  WriteData[t][v] \in Seq(Byte) /\ Len(WriteData[t][v]) >= 1
  BY DEF Sound
<1>2. CASE t.is \in Numbers
  <2>1. /\ v \in Int /\ Width[t.is] \in {1, 2, 4, 8}
        /\ WriteData[t][v] = BytesOf(Width[t.is], v)
    BY <1>2, NumberIs
  <2>2. BytesOf(Width[t.is], v) \in Seq(Byte) /\ Len(BytesOf(Width[t.is], v)) = Width[t.is]
    BY <2>1, BytesTyped
  <2> QED
    BY <2>1, <2>2
<1>3. CASE t.is = "bool"
  <2>1. WriteData[t][v] = IF v THEN <<1>> ELSE <<0>>
    BY <1>3, BoolWritten
  <2>2. 1 \in Byte /\ 0 \in Byte
    BY DEF Byte
  <2> QED
    BY <2>1, <2>2, OneIs
<1>4. CASE t.is = "string"
  <2>1. v \in Seq(Byte) /\ WriteData[t][v] = BytesOf(2, Len(v)) \o v
    BY <1>4, StringWritten
  <2>2. Len(v) \in Int
    BY <2>1
  <2>3. BytesOf(2, Len(v)) \in Seq(Byte) /\ Len(BytesOf(2, Len(v))) = 2
    BY <2>2, BytesTyped
  <2>4. /\ BytesOf(2, Len(v)) \o v \in Seq(Byte)
        /\ Len(BytesOf(2, Len(v)) \o v) = Len(BytesOf(2, Len(v))) + Len(v)
    BY <2>1, <2>3, ConcatProperties
  <2> QED
    BY <2>1, <2>3, <2>4
<1>5. CASE t.is = "vector"
  <2>1. /\ t.of \in InUse /\ v \in Seq(Values[t.of])
        /\ WriteData[t][v]
             = <<GetDataType(t.of)>> \o BytesOf(2, Len(v)) \o FlattenSeq(Elements(t, v))
    BY <1>5, VectorWritten
  <2>2. FlattenSeq(Elements(t, v)) \in Seq(Byte) /\ Len(v) \in Int
    BY <1>5, <2>1, ElementsAre, FlattenIs
  <2>3. GetDataType(t.of) \in Byte
    BY <2>1, TagBytes
  <2>4. Len(FlattenSeq(Elements(t, v))) \in Nat
    BY <2>2
  <2>5. /\ WriteData[t][v] \in Seq(Byte)
        /\ Len(WriteData[t][v]) = 3 + Len(FlattenSeq(Elements(t, v)))
    BY <2>1, <2>2, <2>3, HeadedIs
  <2> QED
    BY <2>4, <2>5
<1>6. CASE t.is = "map"
  <2>0. PICK keys : keys = SetToSeq(DOMAIN v)
    OBVIOUS
  <2>1. /\ t.key \in InUse /\ t.of \in InUse /\ IsFiniteSet(DOMAIN v)
        /\ WriteData[t][v]
             = <<16 * GetDataType(t.key) + GetDataType(t.of)>> \o BytesOf(2, Len(keys))
                 \o FlattenSeq(Pairs(t, v, keys))
    BY <1>6, <2>0, MapWritten
  <2>2. keys \in Seq(DOMAIN v) /\ Len(keys) \in Int
    BY <2>0, <2>1, KeysAre
  <2>3. FlattenSeq(Pairs(t, v, keys)) \in Seq(Byte)
    BY <1>6, <2>2, PairsAre, FlattenIs DEF PairsSound
  <2>4. 16 * GetDataType(t.key) + GetDataType(t.of) \in Byte
    BY <2>1, TagBytes
  <2>5. Len(FlattenSeq(Pairs(t, v, keys))) \in Nat
    BY <2>3
  <2>6. /\ WriteData[t][v] \in Seq(Byte)
        /\ Len(WriteData[t][v]) = 3 + Len(FlattenSeq(Pairs(t, v, keys)))
    BY <2>1, <2>2, <2>3, <2>4, HeadedIs
  <2> QED
    BY <2>5, <2>6
<1> QED
  BY <1>2, <1>3, <1>4, <1>5, <1>6, KindIs

LEMMA AllSound ==
    ASSUME NEW t \in InUse
    PROVE  Sound(t)
<1>1. PICK T : T = {n \in Nat : n \in 1..Len(Types) => Sound(Types[n])}
  OBVIOUS
<1>2. ASSUME NEW n \in Nat, \A m \in Nat : m < n => m \in T PROVE n \in T
  <2>1. SUFFICES ASSUME n \in 1..Len(Types) PROVE Sound(Types[n])
    BY <1>1
  <2>2. PICK u \in InUse : u = Types[n]
    BY <2>1, TypesAre
  <2>3. IsType(u, Firsts(n - 1))
    BY <2>1, <2>2, TypesAre
  <2>4. \A e \in Firsts(n - 1) : Sound(e)
    <3>1. ASSUME NEW j \in 1..n - 1 PROVE Sound(Types[j])
      <4>1. j \in Nat /\ j < n /\ j \in 1..Len(Types)
        BY <2>1, TypesAre
      <4> QED
        BY <1>1, <1>2, <4>1
    <3> QED
      BY <3>1 DEF Firsts
  <2>5. /\ u.is = "vector" => Sound(u.of)
        /\ u.is = "map" => Sound(u.key) /\ Sound(u.of)
    BY <2>3, <2>4, TypeCases
  <2> QED
    BY <2>2, <2>5, SoundParts
<1>3. \A n \in Nat : n \in T
  BY <1>2, AllBelow
<1>4. PICK n \in 1..Len(Types) : t = Types[n]
  BY TypesAre
<1>5. n \in Nat
  OBVIOUS
<1> QED
  BY <1>1, <1>3, <1>4, <1>5

LEMMA WrittenIs ==
    ASSUME NEW t \in InUse, NEW v \in Values[t]
    PROVE  /\ WriteData[t][v] \in Seq(Byte)
           /\ Len(WriteData[t][v]) \in Nat /\ Len(WriteData[t][v]) >= 1
<1>1. WriteData[t][v] \in Seq(Byte) /\ Len(WriteData[t][v]) >= 1
  BY AllSound DEF Sound
<1> QED
  BY <1>1
-----------------------------------------------------------------------------
(* What was written for a value is read back.                                *)
LEMMA AtInner ==
    ASSUME NEW S, NEW d \in Seq(S), NEW s \in Seq(S), NEW x \in Seq(S),
           NEW p \in Nat, NEW o \in Nat,
           At(d, p, s), At(s, o, x)
    PROVE  At(d, p + o, x)
<1>1. Len(d) \in Nat /\ Len(s) \in Nat /\ Len(x) \in Nat
  OBVIOUS
<1>2. p + Len(s) <= Len(d) /\ \A i \in 1..Len(s) : d[p + i] = s[i]
  BY DEF At
<1>3. o + Len(x) <= Len(s) /\ \A i \in 1..Len(x) : s[o + i] = x[i]
  BY DEF At
<1>4. (p + o) + Len(x) <= Len(d)
  BY <1>1, <1>2, <1>3
<1>5. ASSUME NEW i \in 1..Len(x) PROVE d[(p + o) + i] = x[i]
  <2>1. PICK j \in Nat : j = o + i
    OBVIOUS
  <2>2. j \in 1..Len(s) /\ (p + o) + i = p + j
    BY <1>1, <1>3, <2>1
  <2> QED
    BY <1>2, <1>3, <2>1, <2>2
<1> QED
  BY <1>4, <1>5 DEF At

Short == {n \in Nat : n <= 32767}

LEMMA ShortIs ==
    ASSUME NEW n \in Short
    PROVE  n \in Nat /\ n \in Int /\ n \in Int16
BY DEF Short, Int16

LEMMA ShortBelow ==
    ASSUME NEW n \in Short, NEW m \in Nat, m <= n
    PROVE  m \in Short
BY DEF Short

LEMMA FitIs ==
    ASSUME NEW t \in InUse, NEW v \in Values[t]
    PROVE  Fit(t, v) <=> Len(WriteData[t][v]) \in Short
BY WrittenIs DEF Short, Fit

LEMMA ByteBack ==
    ASSUME NEW n \in Byte
    PROVE  IntOf(<<n>>) \in Int /\ IntOf(<<n>>) % 256 = n /\ (n < 128 => IntOf(<<n>>) = n)
<1>1. n \in Int /\ 0 <= n /\ n <= 255
  BY DEF Byte
<1>2. PICK s \in Seq(Byte) : s = <<n>> /\ Len(s) = 1 /\ s[1] = n
  BY OneIs
<1>3. IntOf(s) = IF n >= 128 THEN n - 256 ELSE n
  BY <1>2, OneByte
<1> QED
  BY <1>1, <1>2, <1>3

(* The results of reading a value of type t as one of type u: of another     *)
(* type, it may be refused.                                                  *)
Outcomes(t, u, pos, v) == (IF u = t THEN {} ELSE {Thrown}) \cup {Read1(pos, v)}

ReadsBack(t) ==
    \A u \in InUse, v \in Values[t], b \in Memory, p \in Nat :
        u.is = t.is /\ Fit(t, v) /\ At(b.data, p, WriteData[t][v])
        => ReadData(b)[u][p] \in Outcomes(t, u, p + Len(WriteData[t][v]), v)

LEMMA NumberBack ==
    ASSUME NEW t \in InUse, t.is \in Numbers, NEW u \in InUse, u.is = t.is, NEW v \in Values[t],
           NEW b \in Memory, NEW p \in Nat, At(b.data, p, WriteData[t][v])
    PROVE  ReadData(b)[u][p] = Read1(p + Len(WriteData[t][v]), v)
<1>1. /\ v \in Int /\ Width[t.is] \in {1, 2, 4, 8}
      /\ WriteData[t][v] = BytesOf(Width[t.is], v)
      /\ IntOf(BytesOf(Width[t.is], v)) = v
  BY NumberIs
<1>2. PICK s \in Seq(Byte) : s = WriteData[t][v]
  BY WrittenIs
<1>3. Len(s) = Width[t.is]
  BY <1>1, <1>2, BytesTyped
<1>4. Peek(b, Width[t.is], p) = Read1(p + Len(s), v)
  BY <1>1, <1>2, <1>3, PeekIs
<1>5. ReadData(b)[u][p] = Peek(b, Width[t.is], p)
  <2>1. ReadData(b)[u][p] = Reading(b, ReadData(b), u, p)
    BY ReadAre
  <2> QED
    BY <2>1 DEF Reading, Numbers
<1> QED
  BY <1>2, <1>4, <1>5

LEMMA BoolBack ==
    ASSUME NEW t \in InUse, t.is = "bool", NEW u \in InUse, u.is = t.is, NEW v \in Values[t],
           NEW b \in Memory, NEW p \in Nat, At(b.data, p, WriteData[t][v])
    PROVE  ReadData(b)[u][p] = Read1(p + Len(WriteData[t][v]), v)
<1>1. v \in BOOLEAN /\ WriteData[t][v] = IF v THEN <<1>> ELSE <<0>>
  BY BoolWritten
<1>2. PICK n \in {0, 1} : WriteData[t][v] = <<n>> /\ v = (n = 1)
  BY <1>1
<1>3. n \in Byte /\ n < 128
  BY DEF Byte
<1>4. <<n>> \in Seq(Byte) /\ Len(<<n>>) = 1 /\ IntOf(<<n>>) = n
  BY <1>3, OneIs, ByteBack
<1>5. Peek(b, Len(<<n>>), p) = Read1(p + Len(<<n>>), IntOf(<<n>>))
  BY <1>2, <1>4, PeekIs
<1>6. Peek(b, 1, p) = Read1(p + 1, n)
  BY <1>4, <1>5
<1>7. ReadData(b)[u][p] = LET r == Peek(b, 1, p) IN
          IF r.pos < 0 \/ r.value \notin {0, 1} THEN Thrown ELSE Read1(r.pos, r.value = 1)
  <2>1. ReadData(b)[u][p] = Reading(b, ReadData(b), u, p)
    BY ReadAre
  <2> QED
    BY <2>1 DEF Reading
<1>8. Read1(p + 1, n).pos = p + 1 /\ Read1(p + 1, n).value = n /\ ~(p + 1 < 0)
  BY DEF Read1
<1>9. ReadData(b)[u][p] = Read1(p + 1, n = 1)
  BY <1>6, <1>7, <1>8
<1> QED
  BY <1>2, <1>4, <1>9

LEMMA StringBack ==
    ASSUME NEW t \in InUse, t.is = "string", NEW u \in InUse, u.is = t.is, NEW v \in Values[t],
           Fit(t, v), NEW b \in Memory, NEW p \in Nat, At(b.data, p, WriteData[t][v])
    PROVE  ReadData(b)[u][p] = Read1(p + Len(WriteData[t][v]), v)
<1>1. v \in Seq(Byte) /\ WriteData[t][v] = BytesOf(2, Len(v)) \o v
  BY StringWritten
<1>2. PICK n \in Nat : n = Len(v)
  BY <1>1
<1>3. PICK z \in Seq(Byte) : z = BytesOf(2, n) /\ Len(z) = 2
  <2>1. n \in Int
    OBVIOUS
  <2> QED
    BY <2>1, BytesTyped
<1>4. Len(z \o v) = Len(z) + Len(v)
  BY <1>1, ConcatProperties
<1>5. Len(WriteData[t][v]) = 2 + n
  BY <1>1, <1>2, <1>3, <1>4
<1>6. n \in Int16
  <2>1. Len(WriteData[t][v]) \in Short
    BY FitIs
  <2>2. n <= 2 + n
    OBVIOUS
  <2> QED
    BY <1>5, <2>1, <2>2, ShortBelow, ShortIs
<1>7. IntOf(z) = n
  BY <1>3, <1>6, TwoBack
<1>8. z \in Seq(Cell) /\ v \in Seq(Cell) /\ b.data \in Seq(Cell)
  BY <1>1, CellsAre, MemoryIs
<1>9. At(b.data, p, z \o v)
  BY <1>1, <1>2, <1>3
<1>10. At(b.data, p, z) /\ At(b.data, p + Len(z), v)
  BY <1>8, <1>9, AtParts
<1>11. Peek(b, Len(z), p) = Read1(p + Len(z), IntOf(z))
  BY <1>10, PeekIs
<1>12. Peek(b, 2, p) = Read1(p + 2, n)
  BY <1>3, <1>7, <1>11
<1>13. Get(b, p + 2, n) = v
  <2>1. PICK o \in Nat : o = p + 2
    OBVIOUS
  <2>2. p + Len(z) = o
    BY <1>3, <2>1
  <2>3. At(b.data, o, v)
    BY <1>10, <2>2, Zenon
  <2>4. Get(b, o, Len(v)) = v
    BY <1>8, <2>3, BytesRead
  <2> QED
    BY <1>2, <2>1, <2>4, Zenon
<1>14. ReadData(b)[u][p] = ReadString(b, p)
  <2>1. ReadData(b)[u][p] = Reading(b, ReadData(b), u, p)
    BY ReadAre
  <2> QED
    BY <2>1 DEF Reading
<1>15. Read1(p + 2, n).pos = p + 2 /\ Read1(p + 2, n).value = n /\ ~(p + 2 < 0) /\ ~(n < 0)
  BY DEF Read1
<1>16. ReadString(b, p) = IF n = 0 THEN Read1(p + 2, <<>>)
                          ELSE IF v = <<>> THEN Thrown ELSE Read1(p + 2 + n, v)
  BY <1>12, <1>13, <1>15 DEF ReadString, Sizes
<1>17. ReadString(b, p) = Read1(p + 2 + n, v)
  <2>1. CASE n = 0
    <3>1. v = <<>>
      <4>1. Len(v) = 0
        BY <1>2, <2>1, Zenon
      <4> QED
        BY <1>1, <4>1, EmptySeq
    <3>2. p + 2 + n = p + 2
      BY <2>1
    <3> QED
      BY <1>16, <2>1, <3>1, <3>2, Zenon
  <2>2. CASE n # 0
    <3>1. v # <<>>
      BY <1>2, <2>2
    <3> QED
      BY <1>16, <2>2, <3>1
  <2> QED
    BY <2>1, <2>2
<1>18. p + Len(WriteData[t][v]) = p + 2 + n
  BY <1>5
<1> QED
  BY <1>14, <1>17, <1>18

LEMMA HeadBack ==
    ASSUME NEW b \in Memory, NEW p \in Nat, NEW n \in Byte, NEW c \in Short,
           At(b.data, p, <<n>>), At(b.data, p + 1, BytesOf(2, c)), NEW m \in Byte, NEW readers
    PROVE  ReadElements(b, p, m, readers)
             = IF m # n THEN Thrown ELSE ReadItems(readers, p + 3, Len(readers) * c)
<1>0. c \in Nat /\ c \in Int /\ c \in Int16
  BY ShortIs
<1>1. PICK s \in Seq(Byte) : s = <<n>> /\ Len(s) = 1 /\ IntOf(s) % 256 = n
  BY OneIs, ByteBack, Zenon
<1>2. PeekInt(b, Len(s), p) = IntOf(s)
  BY <1>1, PeekIs, Zenon
<1>3. PICK z \in Seq(Byte) : z = BytesOf(2, c) /\ Len(z) = 2
  BY <1>0, BytesTyped
<1>4. IntOf(z) = c
  BY <1>0, <1>3, TwoBack
<1>5. PICK o \in Nat : o = p + 1
  OBVIOUS
<1>a. At(b.data, o, z)
  BY <1>3, <1>5, Zenon
<1>6. PeekInt(b, Len(z), o) = IntOf(z)
  BY <1>a, PeekIs, Zenon
<1>7. PeekInt(b, 1, p) % 256 = n /\ PeekInt(b, 2, p + 1) = c
  BY <1>1, <1>2, <1>3, <1>4, <1>5, <1>6, Zenon
<1>8. Len(b.data) \in Nat /\ Size(b) = Len(b.data) /\ b.cur \in Nat
  BY MemoryIs
<1>9. p + 3 <= Len(b.data)
  <2>1. o + Len(z) <= Len(b.data)
    BY <1>a DEF At
  <2>2. o + 2 <= Len(b.data)
    BY <1>3, <2>1, Zenon
  <2> QED
    BY <1>5, <2>2
<1>10. Has(b, p, 3) /\ ~PeekFails(b, 3, p)
  BY <1>8, <1>9 DEF Has, PeekFails, End
<1>11. 1 + Sizes = 3 /\ Sizes = 2 /\ p + 1 + Sizes = p + 3 /\ ~(c < 0)
  BY <1>0 DEF Sizes
<1> QED
  BY <1>7, <1>10, <1>11 DEF ReadElements

LEMMA HeadedLies ==
    ASSUME NEW b \in Memory, NEW p \in Nat, NEW n \in Byte, NEW z \in Seq(Byte), Len(z) = 2,
           NEW x \in Seq(Byte), At(b.data, p, (<<n>> \o z) \o x)
    PROVE  /\ At(b.data, p, <<n>>) /\ At(b.data, p + 1, z) /\ At(b.data, p + 3, x)
           /\ Len((<<n>> \o z) \o x) = 3 + Len(x)
<1>1. PICK s \in Seq(Byte) : s = <<n>> /\ Len(s) = 1
  BY OneIs
<1>2. PICK h \in Seq(Byte) : h = s \o z /\ Len(h) = Len(s) + Len(z)
  BY ConcatProperties
<1>3. Len(h) = 3
  <2>1. Len(h) = 1 + 2
    BY <1>1, <1>2, Zenon
  <2> QED
    BY <2>1
<1>4. Len(h \o x) = 3 + Len(x)
  <2>1. Len(h \o x) = Len(h) + Len(x)
    BY ConcatProperties
  <2> QED
    BY <1>3, <2>1, Zenon
<1>5. /\ b.data \in Seq(Cell) /\ s \in Seq(Cell) /\ z \in Seq(Cell)
      /\ h \in Seq(Cell) /\ x \in Seq(Cell)
  BY MemoryIs, CellsAre
<1>6. At(b.data, p, h) /\ At(b.data, p + Len(h), x)
  BY <1>1, <1>2, <1>5, AtParts
<1>7. At(b.data, p, s) /\ At(b.data, p + Len(s), z)
  BY <1>2, <1>5, <1>6, AtParts
<1> QED
  BY <1>1, <1>2, <1>3, <1>4, <1>6, <1>7, Zenon

(* The elements of a vector lie one behind the other.                        *)
VectorAt(d, p, t, v, n, q) ==
    /\ q[0] = p + 3 /\ q[n] = p + Len(WriteData[t][v])
    /\ \A k \in 1..n : LET w == WriteData[t.of][v[k]] IN
                        q[k] = q[k - 1] + Len(w) /\ Len(w) \in Short /\ At(d, q[k - 1], w)

LEMMA VectorLies ==
    ASSUME NEW t \in InUse, t.is = "vector", NEW v \in Values[t], Fit(t, v),
           NEW b \in Memory, NEW p \in Nat, At(b.data, p, WriteData[t][v])
    PROVE  /\ Len(v) \in Short
           /\ At(b.data, p, <<GetDataType(t.of)>>) /\ At(b.data, p + 1, BytesOf(2, Len(v)))
           /\ \E q \in [0..Len(v) -> Nat] : VectorAt(b.data, p, t, v, Len(v), q)
<1>1. /\ t.of \in InUse /\ v \in Seq(Values[t.of])
      /\ WriteData[t][v]
           = <<GetDataType(t.of)>> \o BytesOf(2, Len(v)) \o FlattenSeq(Elements(t, v))
  BY VectorWritten
<1>2. PICK e : e = Elements(t, v)
  OBVIOUS
<1>3. /\ e \in Seq(Seq(Byte)) /\ Len(e) = Len(v)
      /\ \A i \in 1..Len(v) : /\ v[i] \in Values[t.of] /\ e[i] = WriteData[t.of][v[i]]
                              /\ Len(e[i]) >= 1
  BY <1>1, <1>2, AllSound, ElementsAre
<1>4. PICK n \in Nat : n = Len(v)
  BY <1>1
<1>5. PICK flat \in Seq(Byte) : flat = FlattenSeq(e)
  BY <1>3, FlattenIs
<1>6. PICK off \in [0..n -> Nat] :
        /\ off[0] = 0 /\ off[n] = Len(flat)
        /\ \A k \in 1..n : off[k] = off[k - 1] + Len(e[k]) /\ At(flat, off[k - 1], e[k])
  BY <1>3, <1>4, <1>5, FlattenIs
<1>7. PICK m \in Byte : m = GetDataType(t.of)
  BY <1>1, TagBytes
<1>8. PICK z \in Seq(Byte) : z = BytesOf(2, n) /\ Len(z) = 2
  <2>1. n \in Int
    OBVIOUS
  <2> QED
    BY <2>1, BytesTyped
<1>9. WriteData[t][v] = (<<m>> \o z) \o flat
  BY <1>1, <1>2, <1>4, <1>5, <1>7, <1>8, Zenon
<1>10. /\ At(b.data, p, <<m>>) /\ At(b.data, p + 1, z) /\ At(b.data, p + 3, flat)
       /\ Len(WriteData[t][v]) = 3 + Len(flat)
  <2>1. At(b.data, p, (<<m>> \o z) \o flat)
    BY <1>9, Zenon
  <2>2. Len(z) = 2
    BY <1>8
  <2> QED
    BY <1>9, <2>1, <2>2, HeadedLies
<1>11. Len(flat) \in Nat /\ Len(flat) \in Short
  <2>1. Len(flat) \in Nat
    OBVIOUS
  <2>2. 3 + Len(flat) \in Short
    BY <1>10, FitIs, Zenon
  <2>3. Len(flat) <= 3 + Len(flat)
    BY <2>1
  <2> QED
    BY <2>1, <2>2, <2>3, ShortBelow
<1>12. PICK len \in [1..n -> Nat] : \A k \in 1..n : len[k] = Len(e[k])
  <2>1. \A k \in 1..n : Len(e[k]) \in Nat
    BY <1>3, <1>4, ElementOfSeq
  <2>2. [k \in 1..n |-> Len(e[k])] \in [1..n -> Nat]
    BY <2>1
  <2> QED
    BY <2>2
<1>13. off[n] >= n
  <2>1. \A k \in 1..n : off[k] = off[k - 1] + len[k] /\ len[k] >= 1
    BY <1>3, <1>4, <1>6, <1>12
  <2> QED
    BY <2>1, OffsetsGrow
<1>14. n \in Short
  <2>1. n <= Len(flat)
    BY <1>6, <1>13
  <2> QED
    BY <1>11, <2>1, ShortBelow
<1>15. PICK q \in [0..n -> Nat] : \A k \in 0..n : q[k] = p + 3 + off[k]
  <2>1. \A k \in 0..n : p + 3 + off[k] \in Nat
    OBVIOUS
  <2>2. [k \in 0..n |-> p + 3 + off[k]] \in [0..n -> Nat]
    BY <2>1
  <2> QED
    BY <2>2
<1>16. q[0] = p + 3 /\ q[n] = p + Len(WriteData[t][v])
  <2>1. q[0] = p + 3
    BY <1>6, <1>15
  <2>2. q[n] = p + 3 + Len(flat)
    <3>1. n \in 0..n
      OBVIOUS
    <3> QED
      BY <1>6, <1>15, <3>1, Zenon
  <2>3. p + 3 + Len(flat) = p + (3 + Len(flat))
    BY <1>11
  <2> QED
    BY <1>10, <2>1, <2>2, <2>3, Zenon
<1>17. ASSUME NEW k \in 1..n
       PROVE  LET w == WriteData[t.of][v[k]] IN
              q[k] = q[k - 1] + Len(w) /\ Len(w) \in Short /\ At(b.data, q[k - 1], w)
  <2>1. PICK j \in 0..n : j = k - 1
    OBVIOUS
  <2>2. PICK w \in Seq(Byte) : w = e[k]
    BY <1>3, <1>4, ElementOfSeq
  <2>3. w = WriteData[t.of][v[k]]
    BY <1>3, <1>4, <2>2
  <2>4. off[k] = off[j] + Len(w) /\ At(flat, off[j], w) /\ off[j] \in Nat
    BY <1>6, <2>1, <2>2
  <2>5. Len(w) \in Nat
    OBVIOUS
  <2>6. Len(w) \in Short
    <3>1. off[j] + Len(w) <= Len(flat)
      BY <2>4 DEF At
    <3>2. Len(w) <= Len(flat)
      BY <1>11, <2>4, <2>5, <3>1
    <3> QED
      BY <1>11, <2>5, <3>2, ShortBelow
  <2>7. q[k] = q[j] + Len(w)
    BY <1>15, <2>4, <2>5
  <2>8. At(b.data, (p + 3) + off[j], w)
    <3>1. flat \in Seq(Cell) /\ w \in Seq(Cell) /\ b.data \in Seq(Cell) /\ p + 3 \in Nat
      BY CellsAre, MemoryIs
    <3> QED
      BY <1>10, <2>4, <3>1, AtInner
  <2>9. q[j] = (p + 3) + off[j]
    BY <1>15
  <2> QED
    BY <2>1, <2>3, <2>6, <2>7, <2>8, <2>9
<1>18. At(b.data, p, <<GetDataType(t.of)>>) /\ At(b.data, p + 1, BytesOf(2, Len(v)))
  BY <1>4, <1>7, <1>8, <1>10, Zenon
<1>19. VectorAt(b.data, p, t, v, n, q)
  BY <1>16, <1>17, Zenon DEF VectorAt
<1> QED
  BY <1>4, <1>14, <1>18, <1>19, Zenon

LEMMA VectorBack ==
    ASSUME NEW t \in InUse, t.is = "vector", ReadsBack(t.of), NEW u \in InUse, u.is = t.is,
           NEW v \in Values[t], Fit(t, v),
           NEW b \in Memory, NEW p \in Nat, At(b.data, p, WriteData[t][v])
    PROVE  ReadData(b)[u][p] \in Outcomes(t, u, p + Len(WriteData[t][v]), v)
<1>1. t.of \in InUse /\ u.of \in InUse /\ v \in Seq(Values[t.of])
  BY VectorWritten, KindIs
<1>2. PICK n \in Short : n = Len(v)
  BY VectorLies
<1>3. n \in Nat
  BY ShortIs
<1>q. PICK q \in [0..n -> Nat] : VectorAt(b.data, p, t, v, n, q)
  <2>1. \E q \in [0..Len(v) -> Nat] : VectorAt(b.data, p, t, v, Len(v), q)
    BY VectorLies
  <2> QED
    BY <1>2, <2>1, Zenon
<1>4. /\ q[0] = p + 3 /\ q[n] = p + Len(WriteData[t][v])
      /\ \A k \in 1..n : LET w == WriteData[t.of][v[k]] IN
                          q[k] = q[k - 1] + Len(w) /\ Len(w) \in Short /\ At(b.data, q[k - 1], w)
  BY <1>q, Zenon DEF VectorAt
<1>5. PICK x : x = GetDataType(t.of) /\ x \in Byte
  BY <1>1, TagBytes
<1>6. PICK y : y = GetDataType(u.of) /\ y \in Byte
  BY <1>1, TagBytes
<1>7. PICK readers : readers = <<ReadData(b)[u.of]>>
  OBVIOUS
<1>8. ReadData(b)[u][p] = ReadElements(b, p, y, readers)
  <2>1. ReadData(b)[u][p] = Reading(b, ReadData(b), u, p)
    BY ReadAre
  <2> QED
    BY <1>6, <1>7, <2>1 DEF Reading
<1>9. At(b.data, p, <<x>>) /\ At(b.data, p + 1, BytesOf(2, n))
  BY <1>2, <1>5, VectorLies, Zenon
<1>10. Len(readers) = 1 /\ readers[1] = ReadData(b)[u.of] /\ Len(readers) * n = n
  BY <1>3, <1>7
<1>11. ReadData(b)[u][p] = IF y # x THEN Thrown ELSE ReadItems(readers, q[0], n)
  <2>1. ReadElements(b, p, y, readers)
          = IF y # x THEN Thrown ELSE ReadItems(readers, p + 3, Len(readers) * n)
    BY <1>5, <1>6, <1>9, HeadBack, SMTT(60)
  <2> QED
    BY <1>4, <1>8, <1>10, <2>1, Zenon
<1>12. CASE y # x
  <2>1. u # t
    BY <1>5, <1>6, <1>12, Zenon
  <2> QED
    BY <1>11, <1>12, <2>1, Zenon DEF Outcomes
<1>13. CASE y = x
  <2>1. u.of.is = t.of.is
    BY <1>1, <1>5, <1>6, <1>13, TagIs
  <2>2. PICK B : B = IF u = t THEN {} ELSE {Thrown}
    OBVIOUS
  <2>3. B \subseteq {Thrown}
    BY <2>2
  <2>4. ASSUME NEW k \in 1..n
        PROVE  readers[((k - 1) % Len(readers)) + 1][q[k - 1]] \in B \cup {Read1(q[k], v[k])}
    <3>1. PICK j \in 0..n : j = k - 1
      BY <1>3
    <3>2. ((k - 1) % Len(readers)) + 1 = 1
      BY <1>3, <1>10
    <3>3. v[k] \in Values[t.of]
      BY <1>1, <1>2, ElementOfSeq
    <3>4. PICK w : w = WriteData[t.of][v[k]]
      OBVIOUS
    <3>5. q[k] = q[j] + Len(w) /\ Len(w) \in Short /\ At(b.data, q[j], w) /\ q[j] \in Nat
      BY <1>4, <3>1, <3>4
    <3>6. Fit(t.of, v[k])
      BY <1>1, <3>3, <3>4, <3>5, FitIs
    <3>7. ReadData(b)[u.of][q[j]] \in Outcomes(t.of, u.of, q[k], v[k])
      BY <1>1, <2>1, <3>3, <3>4, <3>5, <3>6, Zenon DEF ReadsBack
    <3>8. Outcomes(t.of, u.of, q[k], v[k]) \subseteq B \cup {Read1(q[k], v[k])}
      <4>1. u = t => u.of = t.of
        OBVIOUS
      <4> QED
        BY <2>2, <4>1, Zenon DEF Outcomes
    <3> QED
      BY <1>10, <3>1, <3>2, <3>7, <3>8, Zenon
  <2>5. ReadItems(readers, q[0], n) \in B \cup {Read1(q[n], v)}
    BY <1>1, <1>2, <1>3, <2>3, <2>4, ReadItemsIs
  <2> QED
    BY <1>4, <1>11, <1>13, <2>2, <2>5, Zenon DEF Outcomes
<1> QED
  BY <1>12, <1>13
-----------------------------------------------------------------------------
(* The keys and the values of a map in turn.                                 *)
LEMMA HalfIs ==
    ASSUME NEW i \in Nat
    PROVE  (2 * i) % 2 = 0 /\ (2 * i) \div 2 = i /\ (2 * i + 1) % 2 = 1 /\ (2 * i + 1) \div 2 = i
OBVIOUS

LEMMA InTurn ==
    ASSUME NEW n \in Nat, NEW k \in 1..2 * n
    PROVE  \E i \in 1..n : k = 2 * i - 1 \/ k = 2 * i
<1>1. CASE k % 2 = 0
  <2>1. k \div 2 \in 1..n /\ k = 2 * (k \div 2)
    BY <1>1
  <2> QED
    BY <2>1
<1>2. CASE k % 2 # 0
  <2>1. (k + 1) \div 2 \in 1..n /\ k = 2 * ((k + 1) \div 2) - 1
    BY <1>2
  <2> QED
    BY <2>1
<1> QED
  BY <1>1, <1>2

AllIn(f, T, S) == \A i \in T : f[i] \in S
TakesTurns(q, S, n, even, odd) ==
    /\ q \in [0..2 * n -> S]
    /\ \A i \in 0..n : q[2 * i] = even[i]
    /\ \A i \in 1..n : q[2 * i - 1] = odd[i]

LEMMA Interleaved ==
    ASSUME NEW n \in Nat, NEW S, NEW even, NEW odd,
           AllIn(even, 0..n, S), AllIn(odd, 1..n, S)
    PROVE  \E q : TakesTurns(q, S, n, even, odd)
<1>0. (\A i \in 0..n : even[i] \in S) /\ (\A i \in 1..n : odd[i] \in S)
  BY DEF AllIn
<1>1. PICK q : q = [k \in 0..2 * n |-> IF k % 2 = 0 THEN even[k \div 2] ELSE odd[(k + 1) \div 2]]
  OBVIOUS
<1>2. ASSUME NEW k \in 0..2 * n
      PROVE  (IF k % 2 = 0 THEN even[k \div 2] ELSE odd[(k + 1) \div 2]) \in S
  <2>1. CASE k % 2 = 0
    <3>1. k \div 2 \in 0..n
      OBVIOUS
    <3> QED
      BY <1>0, <2>1, <3>1
  <2>2. CASE k % 2 # 0
    <3>1. (k + 1) \div 2 \in 1..n
      BY <2>2
    <3> QED
      BY <1>0, <2>2, <3>1
  <2> QED
    BY <2>1, <2>2
<1>3. q \in [0..2 * n -> S]
  BY <1>1, <1>2, Zenon
<1>4. ASSUME NEW i \in 0..n PROVE q[2 * i] = even[i]
  <2>1. 2 * i \in 0..2 * n /\ (2 * i) % 2 = 0 /\ (2 * i) \div 2 = i
    OBVIOUS
  <2> QED
    BY <1>1, <2>1, Zenon
<1>5. ASSUME NEW i \in 1..n PROVE q[2 * i - 1] = odd[i]
  <2>1. 2 * i - 1 \in 0..2 * n /\ (2 * i - 1) % 2 # 0 /\ ((2 * i - 1) + 1) \div 2 = i
    OBVIOUS
  <2> QED
    BY <1>1, <2>1, Zenon
<1> QED
  BY <1>3, <1>4, <1>5, Zenon DEF TakesTurns

LEMMA SumsAre ==
    ASSUME NEW p \in Nat, NEW o \in Nat, NEW c \in Nat, NEW d \in Nat
    PROVE  (p + 3) + (o + (c + d)) = ((p + 3) + o + c) + d
OBVIOUS

LEMMA ShortParts ==
    ASSUME NEW z \in Short, NEW x \in Nat, NEW y \in Nat, x + y <= z
    PROVE  x \in Short /\ y \in Short
BY DEF Short

LastOf(x, n, k) ==
    CHOOSE i \in 1..n : x[2 * i - 1] = k /\ \A j \in (i + 1)..n : x[2 * j - 1] # k

LEMMA AsMapDef ==
    ASSUME NEW x
    PROVE  AsMap(x) = [k \in {x[2 * i - 1] : i \in 1..Len(x) \div 2}
                         |-> x[2 * LastOf(x, Len(x) \div 2, k)]]
BY DEF AsMap, LastOf

PairsOf(n, x, S, v, keys) ==
    /\ Len(x) = 2 * n
    /\ \A i \in 1..n : keys[i] \in S /\ x[2 * i - 1] = keys[i] /\ x[2 * i] = v[keys[i]]
    /\ \A k \in S : \E i \in 1..n : keys[i] = k

LEMMA AsMapIs ==
    ASSUME NEW n \in Nat, NEW x, NEW S, NEW v, v = [k \in S |-> v[k]], NEW keys,
           PairsOf(n, x, S, v, keys)
    PROVE  AsMap(x) = v
<1>0. /\ Len(x) = 2 * n
      /\ \A i \in 1..n : keys[i] \in S /\ x[2 * i - 1] = keys[i] /\ x[2 * i] = v[keys[i]]
      /\ \A k \in S : \E i \in 1..n : keys[i] = k
  BY Zenon DEF PairsOf
<1>1. (2 * n) \div 2 = n
  OBVIOUS
<1>2. PICK h \in Nat : h = Len(x) \div 2 /\ h = n
  BY <1>0, <1>1, Zenon
<1>3. {x[2 * i - 1] : i \in 1..n} = S
  <2>1. ASSUME NEW k \in S PROVE \E i \in 1..n : k = x[2 * i - 1]
    <3>1. PICK i \in 1..n : keys[i] = k
      BY <1>0
    <3>2. x[2 * i - 1] = k
      BY <1>0, <3>1, Zenon
    <3> QED
      BY <3>2, Zenon
  <2>2. ASSUME NEW i \in 1..n PROVE x[2 * i - 1] \in S
    BY <1>0
  <2> QED
    BY <2>1, <2>2
<1>4. ASSUME NEW k \in S PROVE x[2 * LastOf(x, n, k)] = v[k]
  <2>1. PICK T : T = {m \in Nat : m \in 1..n /\ keys[m] = k}
    OBVIOUS
  <2>2. \E i \in T : \A j \in T : j <= i
    <3>1. PICK N : N = {m \in Nat : \E i \in T : i + m = n}
      OBVIOUS
    <3>2. PICK a \in 1..n : keys[a] = k
      BY <1>0
    <3>3. N # {} /\ N \subseteq Nat
      <4>1. a \in T /\ n - a \in Nat /\ a + (n - a) = n
        BY <2>1, <3>2
      <4> QED
        BY <3>1, <4>1
    <3>4. PICK m \in N : \A l \in N : m <= l
      BY <3>3, LeastIs
    <3>5. PICK i \in T : i + m = n
      BY <3>1, <3>4
    <3>6. ASSUME NEW j \in T PROVE j <= i
      <4>1. j \in 1..n /\ n - j \in Nat /\ j + (n - j) = n
        BY <2>1
      <4>2. m <= n - j
        BY <3>1, <3>4, <4>1
      <4> QED
        BY <2>1, <3>1, <3>4, <3>5, <4>1, <4>2
    <3> QED
      BY <3>6
  <2>3. PICK i \in T : \A j \in T : j <= i
    BY <2>2
  <2>4. i \in 1..n /\ keys[i] = k
    BY <2>1
  <2>5. x[2 * i - 1] = k
    BY <1>0, <2>4, Zenon
  <2>6. ASSUME NEW j \in (i + 1)..n PROVE x[2 * j - 1] # k
    <3>1. j \in Nat /\ j \in 1..n /\ ~(j <= i)
      BY <2>4
    <3>2. j \notin T
      BY <2>3, <3>1
    <3>3. keys[j] # k
      BY <2>1, <3>1, <3>2
    <3> QED
      BY <1>0, <3>1, <3>3, Zenon
  <2>7. PICK c : c = LastOf(x, n, k)
    OBVIOUS
  <2>8. c \in 1..n /\ x[2 * c - 1] = k
    BY <2>4, <2>5, <2>6, <2>7, Zenon DEF LastOf
  <2>9. keys[c] = k /\ x[2 * c] = v[keys[c]]
    BY <1>0, <2>8, Zenon
  <2> QED
    BY <2>7, <2>9, Zenon
<1>5. AsMap(x) = [k \in {x[2 * i - 1] : i \in 1..n} |-> x[2 * LastOf(x, n, k)]]
  BY <1>2, AsMapDef, Zenon
<1>6. AsMap(x) = [k \in S |-> x[2 * LastOf(x, n, k)]]
  BY <1>3, <1>5, Zenon
<1>7. AsMap(x) = [k \in S |-> v[k]]
  BY <1>4, <1>6, Zenon
<1> QED
  BY <1>7

MapAt(d, p, t, v, keys, n, q) ==
    /\ q[0] = p + 3 /\ q[2 * n] = p + Len(WriteData[t][v])
    /\ \A i \in 1..n : LET a == WriteData[t.key][keys[i]]
                           w == WriteData[t.of][v[keys[i]]]
                       IN  /\ q[2 * i - 1] = q[2 * i - 2] + Len(a)
                           /\ q[2 * i] = q[2 * i - 1] + Len(w)
                           /\ Len(a) \in Short /\ At(d, q[2 * i - 2], a)
                           /\ Len(w) \in Short /\ At(d, q[2 * i - 1], w)

LEMMA MapLies ==
    ASSUME NEW t \in InUse, t.is = "map", NEW v \in Values[t], Fit(t, v),
           NEW b \in Memory, NEW p \in Nat, At(b.data, p, WriteData[t][v])
    PROVE  LET keys == SetToSeq(DOMAIN v) IN
           /\ Len(keys) \in Short
           /\ At(b.data, p, <<16 * GetDataType(t.key) + GetDataType(t.of)>>)
           /\ At(b.data, p + 1, BytesOf(2, Len(keys)))
           /\ \E q \in [0..2 * Len(keys) -> Nat] : MapAt(b.data, p, t, v, keys, Len(keys), q)
<1>1. PICK keys \in Seq(DOMAIN v) : keys = SetToSeq(DOMAIN v)
  BY MapWritten, KeysAre
<1>2. /\ t.key \in InUse /\ t.of \in InUse
      /\ DOMAIN v \subseteq Values[t.key] /\ v \in [DOMAIN v -> Values[t.of]]
      /\ WriteData[t][v] = <<16 * GetDataType(t.key) + GetDataType(t.of)>> \o BytesOf(2, Len(keys))
                              \o FlattenSeq(Pairs(t, v, keys))
  BY <1>1, MapWritten
<1>3. PICK e : e = Pairs(t, v, keys)
  OBVIOUS
<1>4. PICK n \in Nat : n = Len(keys)
  OBVIOUS
<1>5. PICK A, W : /\ A = [i \in 1..n |-> WriteData[t.key][keys[i]]]
                  /\ W = [i \in 1..n |-> WriteData[t.of][v[keys[i]]]]
  OBVIOUS
<1>6. /\ e \in Seq(Seq(Byte)) /\ Len(e) = n
      /\ \A i \in 1..n : /\ keys[i] \in Values[t.key] /\ v[keys[i]] \in Values[t.of]
                          /\ A[i] = WriteData[t.key][keys[i]] /\ W[i] = WriteData[t.of][v[keys[i]]]
                          /\ A[i] \in Seq(Byte) /\ W[i] \in Seq(Byte) /\ e[i] = A[i] \o W[i]
                          /\ Len(e[i]) = Len(A[i]) + Len(W[i]) /\ Len(e[i]) >= 1
  <2>1. Sound(t.key) /\ Sound(t.of)
    BY <1>2, AllSound
  <2>2. PairsSound(t, v, keys)
    BY <2>1, PairsAre
  <2>3. \A i \in 1..n : A[i] = WriteData[t.key][keys[i]] /\ W[i] = WriteData[t.of][v[keys[i]]]
    BY <1>5
  <2> QED
    BY <1>3, <1>4, <2>2, <2>3, Zenon DEF PairsSound
<1>7. PICK flat \in Seq(Byte) : flat = FlattenSeq(e)
  BY <1>6, FlattenIs
<1>8. PICK off \in [0..n -> Nat] :
        /\ off[0] = 0 /\ off[n] = Len(flat)
        /\ \A k \in 1..n : off[k] = off[k - 1] + Len(e[k]) /\ At(flat, off[k - 1], e[k])
  BY <1>6, <1>7, FlattenIs
<1>9. PICK m \in Byte : m = 16 * GetDataType(t.key) + GetDataType(t.of)
  BY <1>2, TagBytes
<1>10. PICK z \in Seq(Byte) : z = BytesOf(2, n) /\ Len(z) = 2
  <2>1. n \in Int
    OBVIOUS
  <2> QED
    BY <2>1, BytesTyped
<1>11. WriteData[t][v] = (<<m>> \o z) \o flat
  BY <1>2, <1>3, <1>4, <1>7, <1>9, <1>10, Zenon
<1>12. /\ At(b.data, p, <<m>>) /\ At(b.data, p + 1, z) /\ At(b.data, p + 3, flat)
       /\ Len(WriteData[t][v]) = 3 + Len(flat)
  <2>1. At(b.data, p, (<<m>> \o z) \o flat)
    BY <1>11, Zenon
  <2>2. Len(z) = 2
    BY <1>10
  <2> QED
    BY <1>11, <2>1, <2>2, HeadedLies
<1>13. Len(flat) \in Nat /\ Len(flat) \in Short
  <2>1. Len(flat) \in Nat
    OBVIOUS
  <2>2. 3 + Len(flat) \in Short
    BY <1>12, FitIs, Zenon
  <2>3. Len(flat) <= 3 + Len(flat)
    BY <2>1
  <2> QED
    BY <2>1, <2>2, <2>3, ShortBelow
<1>14. PICK la, lw \in [1..n -> Nat] : \A i \in 1..n : la[i] = Len(A[i]) /\ lw[i] = Len(W[i])
  <2>1. \A i \in 1..n : Len(A[i]) \in Nat /\ Len(W[i]) \in Nat
    BY <1>6
  <2>2. [i \in 1..n |-> Len(A[i])] \in [1..n -> Nat] /\ [i \in 1..n |-> Len(W[i])] \in [1..n -> Nat]
    BY <2>1
  <2> QED
    BY <2>2
<1>15. \A i \in 1..n : off[i] = off[i - 1] + (la[i] + lw[i]) /\ la[i] + lw[i] >= 1
  <2>1. ASSUME NEW i \in 1..n PROVE off[i] = off[i - 1] + (la[i] + lw[i]) /\ la[i] + lw[i] >= 1
    <3>1. Len(e[i]) = la[i] + lw[i] /\ Len(e[i]) >= 1 /\ off[i] = off[i - 1] + Len(e[i])
      BY <1>6, <1>8, <1>14, Zenon
    <3> QED
      BY <3>1, Zenon
  <2> QED
    BY <2>1
<1>16. off[n] >= n
  <2>1. PICK len \in [1..n -> Nat] : \A i \in 1..n : len[i] = la[i] + lw[i]
    <3>1. [i \in 1..n |-> la[i] + lw[i]] \in [1..n -> Nat]
      OBVIOUS
    <3> QED
      BY <3>1
  <2>2. \A k \in 1..n : off[k] = off[k - 1] + len[k] /\ len[k] >= 1
    BY <1>15, <2>1
  <2> QED
    BY <2>2, OffsetsGrow
<1>17. n \in Short
  <2>1. n <= Len(flat)
    BY <1>8, <1>16
  <2> QED
    BY <1>13, <2>1, ShortBelow
<1>18. PICK even \in [0..n -> Nat], odd \in [1..n -> Nat] :
         /\ \A i \in 0..n : even[i] = (p + 3) + off[i]
         /\ \A i \in 1..n : odd[i] = even[i - 1] + la[i]
  <2>1. PICK even \in [0..n -> Nat] : \A i \in 0..n : even[i] = (p + 3) + off[i]
    <3>1. [i \in 0..n |-> (p + 3) + off[i]] \in [0..n -> Nat]
      OBVIOUS
    <3> QED
      BY <3>1
  <2>2. [i \in 1..n |-> even[i - 1] + la[i]] \in [1..n -> Nat]
    BY SMTT(60)
  <2> QED
    BY <2>1, <2>2
<1>19. PICK q \in [0..2 * n -> Nat] :
         /\ \A i \in 0..n : q[2 * i] = even[i]
         /\ \A i \in 1..n : q[2 * i - 1] = odd[i]
  <2>1. (\A i \in 0..n : even[i] \in Nat) /\ (\A i \in 1..n : odd[i] \in Nat)
    OBVIOUS
  <2>2. AllIn(even, 0..n, Nat) /\ AllIn(odd, 1..n, Nat)
    BY <2>1, Zenon DEF AllIn
  <2>3. \E q : TakesTurns(q, Nat, n, even, odd)
    BY <2>2, Interleaved
  <2> QED
    BY <2>3, Zenon DEF TakesTurns
<1>20. q[0] = p + 3 /\ q[2 * n] = p + Len(WriteData[t][v])
  <2>1. 0 \in 0..n /\ n \in 0..n /\ 2 * 0 = 0
    OBVIOUS
  <2>2. q[0] = (p + 3) + 0 /\ q[2 * n] = (p + 3) + Len(flat)
    BY <1>8, <1>18, <1>19, <2>1, Zenon
  <2>3. (p + 3) + Len(flat) = p + (3 + Len(flat)) /\ (p + 3) + 0 = p + 3
    BY <1>13
  <2> QED
    BY <1>12, <2>2, <2>3, Zenon
<1>21. ASSUME NEW i \in 1..n
       PROVE  LET a == WriteData[t.key][keys[i]]
                  w == WriteData[t.of][v[keys[i]]]
              IN  /\ q[2 * i - 1] = q[2 * i - 2] + Len(a) /\ q[2 * i] = q[2 * i - 1] + Len(w)
                  /\ Len(a) \in Short /\ At(b.data, q[2 * i - 2], a)
                  /\ Len(w) \in Short /\ At(b.data, q[2 * i - 1], w)
  <2>1. PICK j \in 0..n : j = i - 1 /\ 2 * i - 2 = 2 * j /\ i \in 0..n
    OBVIOUS
  <2>2. PICK a, w \in Seq(Byte) : a = A[i] /\ w = W[i]
    BY <1>6
  <2>3. a = WriteData[t.key][keys[i]] /\ w = WriteData[t.of][v[keys[i]]]
    BY <1>6, <2>2
  <2>4. Len(a) = la[i] /\ Len(w) = lw[i] /\ Len(a) \in Nat /\ Len(w) \in Nat
    BY <1>14, <2>2
  <2>5. q[2 * j] = (p + 3) + off[j] /\ q[2 * i - 1] = q[2 * j] + Len(a) /\ off[j] \in Nat
    BY <1>18, <1>19, <2>1, <2>4
  <2>6. q[2 * i] = q[2 * i - 1] + Len(w)
    <3>1. q[2 * i] = (p + 3) + off[i] /\ off[i] = off[j] + (la[i] + lw[i])
      BY <1>15, <1>18, <1>19, <2>1
    <3>2. PICK c, d \in Nat : c = la[i] /\ d = lw[i]
      OBVIOUS
    <3>3. q[2 * i] = (p + 3) + (off[j] + (c + d))
      BY <3>1, <3>2, Zenon
    <3>4. q[2 * i - 1] + Len(w) = ((p + 3) + off[j] + c) + d
      <4>1. Len(a) = c /\ Len(w) = d
        BY <2>4, <3>2, Zenon
      <4>2. q[2 * i - 1] = ((p + 3) + off[j]) + c
        BY <2>5, <4>1, Zenon
      <4> QED
        BY <4>1, <4>2, Zenon
    <3>5. (p + 3) + (off[j] + (c + d)) = ((p + 3) + off[j] + c) + d
      <4>1. PICK o \in Nat : o = off[j]
        BY <2>5
      <4>2. (p + 3) + (o + (c + d)) = ((p + 3) + o + c) + d
        BY SumsAre
      <4> QED
        BY <4>1, <4>2, Zenon
    <3> QED
      BY <3>3, <3>4, <3>5, Zenon
  <2>7. At(flat, off[j], a \o w)
    BY <1>6, <1>8, <2>1, <2>2
  <2>8. At(flat, off[j], a) /\ At(flat, off[j] + Len(a), w)
    BY <2>5, <2>7, AtParts
  <2>9. PICK o \in Nat : o = off[j] + Len(a)
    BY <2>4, <2>5
  <2>10. At(flat, o, w)
    BY <2>8, <2>9, Zenon
  <2>11. /\ flat \in Seq(Cell) /\ a \in Seq(Cell) /\ w \in Seq(Cell)
         /\ b.data \in Seq(Cell) /\ p + 3 \in Nat
    BY CellsAre, MemoryIs
  <2>12. At(b.data, (p + 3) + off[j], a) /\ At(b.data, (p + 3) + o, w)
    BY <1>12, <2>5, <2>8, <2>10, <2>11, AtInner
  <2>13. (p + 3) + o = q[2 * i - 1]
    BY <2>4, <2>5, <2>9, SMTT(60)
  <2>14. Len(a) \in Short /\ Len(w) \in Short
    <3>1. off[j] + Len(a) <= Len(flat)
      BY <2>8 DEF At
    <3>2. o + Len(w) <= Len(flat)
      BY <2>10 DEF At
    <3> QED
      BY <1>13, <2>4, <2>5, <3>1, <3>2, ShortParts, Zenon
  <2> QED
    BY <2>1, <2>3, <2>5, <2>6, <2>12, <2>13, <2>14, Zenon
<1>22. MapAt(b.data, p, t, v, keys, n, q)
  BY <1>20, <1>21, Zenon DEF MapAt
<1>23. /\ At(b.data, p, <<16 * GetDataType(t.key) + GetDataType(t.of)>>)
       /\ At(b.data, p + 1, BytesOf(2, n))
  BY <1>9, <1>10, <1>12, Zenon
<1> QED
  BY <1>1, <1>4, <1>17, <1>22, <1>23, Zenon

LEMMA TwoTags ==
    ASSUME NEW a \in 1..9, NEW b \in 1..9, NEW c \in 1..9, NEW d \in 1..9, 16 * a + b = 16 * c + d
    PROVE  a = c /\ b = d
OBVIOUS

LEMMA MapBack ==
    ASSUME NEW t \in InUse, t.is = "map", ReadsBack(t.key), ReadsBack(t.of),
           NEW u \in InUse, u.is = t.is, NEW v \in Values[t], Fit(t, v),
           NEW b \in Memory, NEW p \in Nat, At(b.data, p, WriteData[t][v])
    PROVE  ReadData(b)[u][p] \in Outcomes(t, u, p + Len(WriteData[t][v]), v)
<1>1. /\ t.key \in InUse /\ t.of \in InUse /\ u.key \in InUse /\ u.of \in InUse
      /\ IsFiniteSet(DOMAIN v) /\ DOMAIN v \subseteq Values[t.key]
      /\ v \in [DOMAIN v -> Values[t.of]]
  BY MapWritten, KindIs
<1>2. PICK keys \in Seq(DOMAIN v) : keys = SetToSeq(DOMAIN v)
  BY <1>1, KeysAre
<1>3. \A k \in DOMAIN v : \E i \in 1..Len(keys) : keys[i] = k
  BY <1>1, <1>2, KeysAre
<1>4. PICK n \in Short : n = Len(keys)
  BY <1>2, MapLies
<1>5. n \in Nat
  BY ShortIs
<1>6. PICK x : x = 16 * GetDataType(t.key) + GetDataType(t.of) /\ x \in Byte
  BY <1>1, TagBytes
<1>7. PICK y : y = 16 * GetDataType(u.key) + GetDataType(u.of) /\ y \in Byte
  BY <1>1, TagBytes
<1>8. PICK readers : readers = <<ReadData(b)[u.key], ReadData(b)[u.of]>>
  OBVIOUS
<1>9. Len(readers) = 2 /\ readers[1] = ReadData(b)[u.key] /\ readers[2] = ReadData(b)[u.of]
  BY <1>8
<1>10. PICK items : items = ReadElements(b, p, y, readers)
  OBVIOUS
<1>11. ReadData(b)[u][p] = IF items.pos < 0 THEN Thrown ELSE Read1(items.pos, AsMap(items.value))
  <2>1. ReadData(b)[u][p] = Reading(b, ReadData(b), u, p)
    BY ReadAre
  <2> QED
    BY <1>7, <1>8, <1>10, <2>1 DEF Reading
<1>a. At(b.data, p, <<x>>) /\ At(b.data, p + 1, BytesOf(2, n))
  BY <1>2, <1>4, <1>6, MapLies, Zenon
<1>12. ReadElements(b, p, y, readers)
         = IF y # x THEN Thrown ELSE ReadItems(readers, p + 3, Len(readers) * n)
  <2>1. x \in Byte /\ y \in Byte
    BY <1>6, <1>7
  <2> QED
    BY <1>a, <2>1, HeadBack, SMTT(90)
<1>13. PICK q \in [0..2 * n -> Nat] : MapAt(b.data, p, t, v, keys, n, q)
  <2>1. \E q \in [0..2 * Len(keys) -> Nat] : MapAt(b.data, p, t, v, keys, Len(keys), q)
    BY <1>2, MapLies, Zenon
  <2> QED
    BY <1>4, <2>1, Zenon
<1>14. q[0] = p + 3 /\ q[2 * n] = p + Len(WriteData[t][v])
  BY <1>13, Zenon DEF MapAt
<1>15. \A i \in 1..n : LET a == WriteData[t.key][keys[i]]
                           w == WriteData[t.of][v[keys[i]]]
                       IN  /\ q[2 * i - 1] = q[2 * i - 2] + Len(a)
                           /\ q[2 * i] = q[2 * i - 1] + Len(w)
                           /\ Len(a) \in Short /\ At(b.data, q[2 * i - 2], a)
                           /\ Len(w) \in Short /\ At(b.data, q[2 * i - 1], w)
  BY <1>13, Zenon DEF MapAt
<1>16. items = IF y # x THEN Thrown ELSE ReadItems(readers, q[0], 2 * n)
  <2>1. items = IF y # x THEN Thrown ELSE ReadItems(readers, p + 3, Len(readers) * n)
    BY <1>10, <1>12, Zenon
  <2> QED
    BY <1>14, <1>9, <2>1, Zenon
<1>17. ASSUME items = Thrown PROVE ReadData(b)[u][p] = Thrown
  <2>1. Thrown.pos < 0
    BY DEF Thrown
  <2> QED
    BY <1>11, <1>17, <2>1
<1>18. CASE y # x
  <2>1. u # t
    BY <1>6, <1>7, <1>18, Zenon
  <2> QED
    BY <1>16, <1>17, <1>18, <2>1, Zenon DEF Outcomes
<1>19. CASE y = x
  <2>1. u.key.is = t.key.is /\ u.of.is = t.of.is
    <3>1. /\ GetDataType(t.key) \in 1..9 /\ GetDataType(t.of) \in 1..9
          /\ GetDataType(u.key) \in 1..9 /\ GetDataType(u.of) \in 1..9
      BY <1>1, TagIs
    <3>2. 16 * GetDataType(u.key) + GetDataType(u.of) = 16 * GetDataType(t.key) + GetDataType(t.of)
      BY <1>6, <1>7, <1>19, Zenon
    <3>3. GetDataType(u.key) = GetDataType(t.key) /\ GetDataType(u.of) = GetDataType(t.of)
      <4>1. PICK a1, a2, c1, c2 \in 1..9 :
              /\ a1 = GetDataType(u.key) /\ a2 = GetDataType(u.of)
              /\ c1 = GetDataType(t.key) /\ c2 = GetDataType(t.of)
        BY <3>1
      <4>2. 16 * a1 + a2 = 16 * c1 + c2
        BY <3>2, <4>1, Zenon
      <4>3. a1 = c1 /\ a2 = c2
        BY <4>2, TwoTags
      <4> QED
        BY <4>1, <4>3, Zenon
    <3> QED
      BY <1>1, <3>3, TagIs
  <2>2. PICK B : B = IF u = t THEN {} ELSE {Thrown}
    OBVIOUS
  <2>3. B \subseteq {Thrown}
    BY <2>2
  <2>4. PICK V : V = Values[t.key] \cup Values[t.of]
    OBVIOUS
  <2>5. ASSUME NEW i \in 1..n
        PROVE  /\ keys[i] \in DOMAIN v /\ keys[i] \in Values[t.key] /\ v[keys[i]] \in Values[t.of]
               /\ keys[i] \in V /\ v[keys[i]] \in V
    <3>1. keys[i] \in DOMAIN v
      BY <1>4, ElementOfSeq
    <3> QED
      BY <1>1, <2>4, <3>1
  <2>6. PICK z \in Seq(V) :
          /\ Len(z) = 2 * n
          /\ \A i \in 1..n : z[2 * i - 1] = keys[i] /\ z[2 * i] = v[keys[i]]
    <3>2. PICK z : z = [k \in 1..2 * n |-> IF k % 2 = 0 THEN v[keys[k \div 2]]
                                           ELSE keys[(k + 1) \div 2]]
      OBVIOUS
    <3>3. ASSUME NEW k \in 1..2 * n
          PROVE  (IF k % 2 = 0 THEN v[keys[k \div 2]] ELSE keys[(k + 1) \div 2]) \in V
      <4>1. CASE k % 2 = 0
        <5>1. k \div 2 \in 1..n
          BY <1>5, <4>1
        <5> QED
          BY <2>5, <4>1, <5>1
      <4>2. CASE k % 2 # 0
        <5>1. (k + 1) \div 2 \in 1..n
          BY <1>5, <4>2
        <5> QED
          BY <2>5, <4>2, <5>1
      <4> QED
        BY <4>1, <4>2
    <3>4. z \in [1..2 * n -> V]
      BY <3>2, <3>3, Zenon
    <3>5. z \in Seq(V) /\ Len(z) = 2 * n
      BY <1>5, <3>4, SMTT(60)
    <3>6. ASSUME NEW i \in 1..n PROVE z[2 * i - 1] = keys[i] /\ z[2 * i] = v[keys[i]]
      <4>1. /\ 2 * i - 1 \in 1..2 * n /\ (2 * i - 1) % 2 # 0 /\ ((2 * i - 1) + 1) \div 2 = i
            /\ 2 * i \in 1..2 * n /\ (2 * i) % 2 = 0 /\ (2 * i) \div 2 = i
        BY <1>5
      <4> QED
        BY <3>2, <4>1, Zenon
    <3> QED
      BY <3>5, <3>6
  <2>7. ASSUME NEW k \in 1..2 * n
        PROVE  readers[((k - 1) % Len(readers)) + 1][q[k - 1]] \in B \cup {Read1(q[k], z[k])}
    <3>1. PICK i \in 1..n : k = 2 * i - 1 \/ k = 2 * i
      BY <1>5, InTurn
    <3>2. CASE k = 2 * i - 1
      <4>1. PICK j \in 0..2 * n : j = k - 1 /\ j = 2 * i - 2
        BY <1>5, <3>2
      <4>2. ((k - 1) % Len(readers)) + 1 = 1
        BY <1>9, <3>2
      <4>3. PICK w : w = WriteData[t.key][keys[i]]
        OBVIOUS
      <4>4. q[k] = q[j] + Len(w) /\ Len(w) \in Short /\ At(b.data, q[j], w) /\ q[j] \in Nat
        BY <1>15, <3>2, <4>1, <4>3, Zenon
      <4>5. keys[i] \in Values[t.key] /\ Fit(t.key, keys[i])
        BY <1>1, <2>5, <4>3, <4>4, FitIs
      <4>6. ReadData(b)[u.key][q[j]] \in Outcomes(t.key, u.key, q[k], keys[i])
        BY <1>1, <2>1, <4>3, <4>4, <4>5, Zenon DEF ReadsBack
      <4>7. Outcomes(t.key, u.key, q[k], keys[i]) \subseteq B \cup {Read1(q[k], keys[i])}
        <5>1. u = t => u.key = t.key
          OBVIOUS
        <5> QED
          BY <2>2, <5>1, Zenon DEF Outcomes
      <4> QED
        BY <1>9, <2>6, <3>2, <4>1, <4>2, <4>6, <4>7, Zenon
    <3>3. CASE k = 2 * i
      <4>1. PICK j \in 0..2 * n : j = k - 1 /\ j = 2 * i - 1
        BY <1>5, <3>3
      <4>2. ((k - 1) % Len(readers)) + 1 = 2
        BY <1>9, <3>3
      <4>3. PICK w : w = WriteData[t.of][v[keys[i]]]
        OBVIOUS
      <4>4. q[k] = q[j] + Len(w) /\ Len(w) \in Short /\ At(b.data, q[j], w) /\ q[j] \in Nat
        BY <1>15, <3>3, <4>1, <4>3, Zenon
      <4>5. v[keys[i]] \in Values[t.of] /\ Fit(t.of, v[keys[i]])
        BY <1>1, <2>5, <4>3, <4>4, FitIs
      <4>6. ReadData(b)[u.of][q[j]] \in Outcomes(t.of, u.of, q[k], v[keys[i]])
        BY <1>1, <2>1, <4>3, <4>4, <4>5, Zenon DEF ReadsBack
      <4>7. Outcomes(t.of, u.of, q[k], v[keys[i]]) \subseteq B \cup {Read1(q[k], v[keys[i]])}
        <5>1. u = t => u.of = t.of
          OBVIOUS
        <5> QED
          BY <2>2, <5>1, Zenon DEF Outcomes
      <4> QED
        BY <1>9, <2>6, <3>3, <4>1, <4>2, <4>6, <4>7, Zenon
    <3> QED
      BY <3>1, <3>2, <3>3
  <2>8. items \in B \cup {Read1(q[2 * n], z)}
    <3>1. PICK m \in Nat : m = 2 * n
      BY <1>5
    <3>2. q \in [0..m -> Nat] /\ Len(z) = m
      BY <2>6, <3>1, Zenon
    <3>3. \A k \in 1..m :
            readers[((k - 1) % Len(readers)) + 1][q[k - 1]] \in B \cup {Read1(q[k], z[k])}
      BY <2>7, <3>1, Zenon
    <3>4. ReadItems(readers, q[0], m) \in B \cup {Read1(q[m], z)}
      BY <2>3, <3>2, <3>3, ReadItemsIs
    <3> QED
      BY <1>16, <1>19, <3>1, <3>4, Zenon
  <2>9. CASE items \in B
    <3>1. items = Thrown /\ u # t
      BY <2>2, <2>9
    <3> QED
      BY <1>17, <3>1, Zenon DEF Outcomes
  <2>10. CASE items = Read1(q[2 * n], z)
    <3>1. AsMap(z) = v
      <4>1. v = [k \in DOMAIN v |-> v[k]]
        BY <1>1
      <4>2. PairsOf(n, z, DOMAIN v, v, keys)
        BY <1>3, <1>4, <2>5, <2>6, Zenon DEF PairsOf
      <4> QED
        BY <1>5, <4>1, <4>2, AsMapIs, Zenon
    <3>2. items.pos = q[2 * n] /\ items.value = z /\ q[2 * n] \in Nat
      <4>1. 2 * n \in 0..2 * n
        BY <1>5
      <4> QED
        BY <2>10, <4>1 DEF Read1
    <3>3. ~(items.pos < 0)
      BY <3>2
    <3>4. ReadData(b)[u][p] = Read1(q[2 * n], v)
      BY <1>11, <3>1, <3>2, <3>3, Zenon
    <3> QED
      BY <1>14, <3>4, Zenon DEF Outcomes
  <2> QED
    BY <2>8, <2>9, <2>10
<1> QED
  BY <1>18, <1>19

(* What writeData makes of a value of a type, readData turns back into that  *)
(* value, wherever it lies and whatever is around it; if it is asked for     *)
(* another type of the same tag it returns the same value or throws.  By     *)
(* induction along Types, in which what a type is made of comes before it.   *)
THEOREM AllReadBack ==
    ASSUME NEW t \in InUse
    PROVE  ReadsBack(t)
<1>1. PICK T : T = {n \in Nat : n \in 1..Len(Types) => ReadsBack(Types[n])}
  OBVIOUS
<1>2. ASSUME NEW n \in Nat, \A m \in Nat : m < n => m \in T PROVE n \in T
  <2>1. SUFFICES ASSUME n \in 1..Len(Types) PROVE ReadsBack(Types[n])
    BY <1>1
  <2>2. PICK u \in InUse : u = Types[n]
    BY <2>1, TypesAre
  <2>3. IsType(u, Firsts(n - 1))
    BY <2>1, <2>2, TypesAre
  <2>4. \A e \in Firsts(n - 1) : ReadsBack(e)
    <3>1. ASSUME NEW j \in 1..n - 1 PROVE ReadsBack(Types[j])
      <4>1. j \in Nat /\ j < n /\ j \in 1..Len(Types)
        BY <2>1, TypesAre
      <4> QED
        BY <1>1, <1>2, <4>1
    <3> QED
      BY <3>1 DEF Firsts
  <2>5. /\ u.is = "vector" => ReadsBack(u.of)
        /\ u.is = "map" => ReadsBack(u.key) /\ ReadsBack(u.of)
    BY <2>3, <2>4, TypeCases
  <2>6. SUFFICES ASSUME NEW r \in InUse, NEW v \in Values[u], NEW b \in Memory, NEW p \in Nat,
                        r.is = u.is, Fit(u, v), At(b.data, p, WriteData[u][v])
                 PROVE  ReadData(b)[r][p] \in Outcomes(u, r, p + Len(WriteData[u][v]), v)
    BY <2>2, Zenon DEF ReadsBack
  <2>7. CASE u.is = "vector"
    BY <2>5, <2>6, <2>7, VectorBack
  <2>8. CASE u.is = "map"
    BY <2>5, <2>6, <2>8, MapBack
  <2>9. CASE u.is \in Numbers \cup {"bool", "string"}
    <3>1. ReadData(b)[r][p] = Read1(p + Len(WriteData[u][v]), v)
      BY <2>6, <2>9, NumberBack, BoolBack, StringBack
    <3> QED
      BY <3>1, Zenon DEF Outcomes
  <2> QED
    BY <2>7, <2>8, <2>9, KindIs
<1>3. \A n \in Nat : n \in T
  BY <1>2, AllBelow
<1>4. PICK n \in 1..Len(Types) : t = Types[n]
  BY TypesAre
<1>5. n \in Nat
  OBVIOUS
<1> QED
  BY <1>1, <1>3, <1>4, <1>5
-----------------------------------------------------------------------------
(* An element: its type and number, its size, and its data.                  *)
HeadBytes(m, t) == IF m < 15 THEN <<16 * GetDataType(t) + m>> ELSE <<16 * GetDataType(t) + 15, m>>
HeadLen(m) == IF m < 15 THEN 1 ELSE 2

ElementAt(d, p, m, t, v, q) ==
    /\ At(d, p, HeadBytes(m, t))
    /\ At(d, p + HeadLen(m), BytesOf(2, Len(WriteData[t][v])))
    /\ At(d, p + HeadLen(m) + 2, WriteData[t][v])
    /\ q = p + HeadLen(m) + 2 + Len(WriteData[t][v])

LEMMA TwoIs ==
    ASSUME NEW n \in Byte, NEW m \in Byte
    PROVE  <<n, m>> \in Seq(Byte) /\ Len(<<n, m>>) = 2 /\ <<n, m>>[1] = n /\ <<n, m>>[2] = m
OBVIOUS

LEMMA FrontBytes ==
    ASSUME NEW m \in 0..127, NEW t \in InUse
    PROVE  /\ m < 15 => 16 * GetDataType(t) + m \in Byte
           /\ 16 * GetDataType(t) + 15 \in Byte /\ m \in Byte
<1>1. GetDataType(t) \in 1..9
  BY TagIs
<1> QED
  BY <1>1 DEF Byte

LEMMA HeadIs ==
    ASSUME NEW m \in 0..127, NEW t \in InUse
    PROVE  /\ HeadBytes(m, t) \in Seq(Byte) /\ Len(HeadBytes(m, t)) = HeadLen(m)
           /\ HeadLen(m) \in {1, 2}
           /\ SetDataHead(m, t) = HeadBytes(m, t) \o BytesOf(2, 0)
<1>1. CASE m < 15
  <2>1. PICK n \in Byte : n = 16 * GetDataType(t) + m
    BY <1>1, FrontBytes
  <2>2. HeadBytes(m, t) = <<n>> /\ HeadLen(m) = 1 /\ SetDataHead(m, t) = <<n>> \o BytesOf(2, 0)
    BY <1>1, <2>1, Zenon DEF HeadBytes, HeadLen, SetDataHead, Sizes
  <2> QED
    BY <2>2, OneIs
<1>2. CASE ~(m < 15)
  <2>1. PICK n \in Byte : n = 16 * GetDataType(t) + 15
    BY FrontBytes
  <2>2. m \in Byte
    BY FrontBytes
  <2>3. /\ HeadBytes(m, t) = <<n, m>> /\ HeadLen(m) = 2
        /\ SetDataHead(m, t) = <<n, m>> \o BytesOf(2, 0)
    BY <1>2, <2>1, Zenon DEF HeadBytes, HeadLen, SetDataHead, Sizes
  <2> QED
    BY <2>2, <2>3, TwoIs
<1> QED
  BY <1>1, <1>2

LEMMA OverWriteBytes ==
    ASSUME NEW b \in Memory, b.data \in Seq(Byte), NEW pos \in Nat, NEW v \in Int,
           pos + 2 <= Len(b.data)
    PROVE  OverWriteInt(b, pos, 2, v).data \in Seq(Byte)
<1>0. PICK s \in Seq(Byte) : s = b.data
  OBVIOUS
<1>1. Len(s) \in Nat /\ pos \in 0..Len(s) /\ pos + 2 \in 0..Len(s) /\ ~(pos + 2 > Len(s))
  BY <1>0
<1>2. PICK x \in Seq(Byte) : x = SubSeq(s, 1, pos)
  BY <1>1, FirstIs
<1>3. PICK n \in 0..Len(s) : n = pos + 2
  BY <1>1
<1>4. PICK y \in Seq(Byte) : y = SubSeq(s, n + 1, Len(s))
  BY <1>1, <1>3, RestIs
<1>5. PICK z \in Seq(Byte) : z = BytesOf(2, v)
  BY BytesTyped
<1>6. (x \o z) \o y \in Seq(Byte)
  BY ConcatProperties
<1>7. OverWriteInt(b, pos, 2, v) = [b EXCEPT !.data = (x \o z) \o y]
  <2>1. pos + 2 + 1 = n + 1 /\ ~(pos + 2 > Size(b))
    BY <1>0, <1>1, <1>3 DEF Size
  <2> QED
    BY <1>0, <1>2, <1>4, <1>5, <2>1 DEF OverWriteInt
<1> QED
  BY <1>6, <1>7, NewData

LEMMA WriteToIs ==
    ASSUME NEW b \in Memory, b.data \in Seq(Byte), NEW m \in 0..127,
           NEW t \in InUse, NEW v \in Values[t]
    PROVE  LET d == WriteTo(b, m, t, v).data IN
           /\ WriteTo(b, m, t, v) \in Memory /\ d \in Seq(Byte)
           /\ ElementAt(d, Len(b.data), m, t, v, Len(d))
           /\ \A p \in Nat, s \in Seq(Byte) : At(b.data, p, s) => At(d, p, s)
<1>1. PICK f \in Seq(Byte) : /\ f = HeadBytes(m, t) /\ Len(f) = HeadLen(m)
                             /\ SetDataHead(m, t) = f \o BytesOf(2, 0)
  BY HeadIs
<1>2. PICK k \in {1, 2} : k = HeadLen(m) /\ k = Len(f)
  BY <1>1, HeadIs
<1>3. PICK z \in Seq(Byte) : z = BytesOf(2, 0) /\ Len(z) = 2
  BY BytesTyped
<1>4. PICK w \in Seq(Byte) : w = WriteData[t][v]
  BY WrittenIs
<1>5. PICK s0 \in Seq(Byte) : s0 = b.data
  OBVIOUS
<1>6. PICK l, n \in Nat : l = Len(s0) /\ n = Len(w)
  OBVIOUS
<1>7. PICK h \in Seq(Byte) : h = f \o z /\ Len(h) = k + 2
  <2>1. f \o z \in Seq(Byte) /\ Len(f \o z) = Len(f) + Len(z)
    BY ConcatProperties
  <2> QED
    BY <1>2, <1>3, <2>1, Zenon
<1>8. PICK s1 \in Seq(Byte) : s1 = s0 \o h /\ Len(s1) = l + (k + 2)
  <2>1. s0 \o h \in Seq(Byte) /\ Len(s0 \o h) = Len(s0) + Len(h)
    BY ConcatProperties
  <2> QED
    BY <1>6, <1>7, <2>1, Zenon
<1>9. PICK s2 \in Seq(Byte) : s2 = s1 \o w /\ Len(s2) = (l + (k + 2)) + n
  <2>1. s1 \o w \in Seq(Byte) /\ Len(s1 \o w) = Len(s1) + Len(w)
    BY ConcatProperties
  <2> QED
    BY <1>6, <1>8, <2>1, Zenon
<1>10. PICK b1 \in Memory : b1 = Write(b, h, TRUE) /\ b1.data = s1
  BY <1>5, <1>8, CellsAre, WriteIs
<1>11. PICK b2 \in Memory : b2 = Write(b1, w, TRUE) /\ b2.data = s2
  BY <1>9, <1>10, CellsAre, WriteIs
<1>12. PICK pos \in Nat : pos = l + k
  BY <1>6
<1>13. Size(b1) - 2 = pos /\ Size(b2) - pos - 2 = n
  <2>1. Size(b1) = l + (k + 2) /\ Size(b2) = (l + (k + 2)) + n
    BY <1>8, <1>9, <1>10, <1>11, Zenon DEF Size
  <2>2. (l + (k + 2)) - 2 = pos /\ ((l + (k + 2)) + n) - pos - 2 = n
    BY <1>12
  <2> QED
    BY <2>1, <2>2, Zenon
<1>14. WriteTo(b, m, t, v) = OverWriteInt(b2, pos, 2, n)
  <2>1. WriteTo(b, m, t, v) = SetDataBody(b1, t, v)
    BY <1>1, <1>3, <1>7, <1>10, Zenon DEF WriteTo
  <2>2. SetDataBody(b1, t, v) = OverWriteInt(Write(b1, w, TRUE), Size(b1) - 2, 2,
                                             Size(Write(b1, w, TRUE)) - (Size(b1) - 2) - 2)
    BY <1>4, Zenon DEF SetDataBody, Sizes
  <2> QED
    BY <1>11, <1>13, <2>1, <2>2, Zenon
<1>15. pos + 2 <= Len(b2.data) /\ n \in Int
  <2>1. pos + 2 <= (l + (k + 2)) + n
    BY <1>12
  <2>2. pos + 2 <= Len(b2.data)
    BY <1>9, <1>11, <2>1, Zenon
  <2> QED
    BY <2>2
<1>16. PICK d : d = OverWriteInt(b2, pos, 2, n).data
  OBVIOUS
<1>17. /\ OverWriteInt(b2, pos, 2, n) \in Memory
       /\ Len(d) = Len(s2) /\ At(d, pos, BytesOf(2, n))
       /\ \A p \in Nat, s \in Seq(Cell) :
             At(s2, p, s) /\ (p + Len(s) <= pos \/ p >= pos + 2) => At(d, p, s)
  BY <1>11, <1>15, <1>16, OverWriteIs, Zenon
<1>18. d \in Seq(Byte)
  BY <1>11, <1>15, <1>16, OverWriteBytes
<1>19. ASSUME NEW p \in Nat, NEW s \in Seq(Byte), At(s0, p, s)
       PROVE  At(d, p, s)
  <2>1. At(s1, p, s)
    BY <1>8, <1>19, AtKept
  <2>2. At(s2, p, s)
    BY <1>9, <2>1, AtKept
  <2>3. p + Len(s) <= pos
    BY <1>6, <1>12, <1>19 DEF At
  <2> QED
    BY <1>17, <2>2, <2>3, CellsAre
<1>20. At(d, l, f)
  <2>1. At(s1, l, h)
    BY <1>6, <1>8, AtEnd
  <2>2. At(s1, l, f)
    BY <1>7, <2>1, AtParts
  <2>3. At(s2, l, f)
    BY <1>9, <2>2, AtKept
  <2>4. l + Len(f) <= pos
    BY <1>2, <1>12
  <2> QED
    BY <1>17, <2>3, <2>4, CellsAre
<1>21. At(d, pos + 2, w)
  <2>1. At(s2, Len(s1), w)
    BY <1>9, AtEnd
  <2>2. Len(s1) = pos + 2 /\ pos + 2 \in Nat
    BY <1>8, <1>12
  <2>3. At(s2, pos + 2, w)
    BY <2>1, <2>2, Zenon
  <2> QED
    BY <1>17, <2>2, <2>3, CellsAre
<1>22. Len(d) = l + k + 2 + n
  BY <1>9, <1>17
<1>23. ElementAt(d, l, m, t, v, Len(d))
  BY <1>1, <1>2, <1>4, <1>6, <1>12, <1>17, <1>20, <1>21, <1>22, Zenon DEF ElementAt
<1> QED
  BY <1>5, <1>6, <1>14, <1>16, <1>17, <1>18, <1>19, <1>23, Zenon
-----------------------------------------------------------------------------
(* find: the numbers that it goes by.                                        *)
FindStep(b, seq, find, cur) ==
    LET head == PeekInt(b, 1, cur)
        type == (head % 256) \div 16
        far == head % 16 = 15
        number == IF far THEN PeekInt(b, 1, cur + 1) ELSE head % 16
        size == cur + IF far THEN 2 ELSE 1
    IN  IF cur >= Size(b) \/ (far /\ Size(b) - cur < 2) THEN Absent
        ELSE IF number = seq THEN Read1(size + Sizes, type)
        ELSE IF Size(b) - size < Sizes THEN Absent
        ELSE IF PeekInt(b, Sizes, size) < 0 THEN Thrown
        ELSE find[size + Sizes + PeekInt(b, Sizes, size)]

LEMMA FindDef ==
    ASSUME NEW b, NEW seq
    PROVE  FindFrom(b, seq) = CHOOSE f : f = [cur \in Nat |-> FindStep(b, seq, f, cur)]
BY DEF FindFrom, FindStep

(* The sizes of a buffer of bytes are integers, so find goes forwards.       *)
LEMMA BytesPeeked ==
    ASSUME NEW b \in Memory, b.data \in Seq(Byte), NEW p \in Nat, p + 2 <= Len(b.data)
    PROVE  PeekInt(b, 2, p) \in Int
<1>1. PICK s \in Seq(Byte) : s = b.data
  OBVIOUS
<1>2. Len(s) \in Nat /\ Size(b) = Len(s)
  BY <1>1 DEF Size
<1>3. ASSUME NEW i \in 1..2 PROVE p + i <= Size(b) /\ s[p + i] \in Byte
  <2>1. p + i \in 1..Len(s) /\ p + i <= Len(s)
    BY <1>1, <1>2
  <2> QED
    BY <1>2, <2>1, ElementOfSeq
<1>4. PICK x : x = Bytes(b, p, 2)
  OBVIOUS
<1>5. x = [i \in 1..2 |-> s[p + i]]
  BY <1>1, <1>3, <1>4, Zenon DEF Bytes
<1>6. x \in Seq(Byte) /\ Len(x) = 2
  BY <1>3, <1>5
<1>7. /\ x[1] \in Byte /\ x[2] \in Byte
      /\ IntOf(x) = 256 * (IF x[1] >= 128 THEN x[1] - 256 ELSE x[1]) + x[2]
  BY <1>6, TwoBytes
<1>8. IntOf(x) \in Int
  BY <1>7 DEF Byte
<1> QED
  BY <1>4, <1>8 DEF PeekInt

(* What a step needs of the function: its value further on.                  *)
LEMMA FindGoesOn ==
    ASSUME NEW b \in Memory, b.data \in Seq(Byte), NEW seq, NEW f, NEW g, NEW cur \in Nat,
           \A c \in Nat : c > cur => f[c] = g[c]
    PROVE  FindStep(b, seq, f, cur) = FindStep(b, seq, g, cur)
<1>1. PICK n \in Nat : n = Size(b) /\ n = Len(b.data)
  BY MemoryIs
<1>2. PICK far : far = (PeekInt(b, 1, cur) % 16 = 15)
  OBVIOUS
<1>3. PICK size \in Nat : size = cur + (IF far THEN 2 ELSE 1) /\ size > cur
  <2>1. cur + 2 \in Nat /\ cur + 1 \in Nat /\ cur + 2 > cur /\ cur + 1 > cur
    OBVIOUS
  <2> QED
    BY <2>1
<1>4. PICK next : next = size + 2 + PeekInt(b, 2, size)
  OBVIOUS
<1>5. CASE n - size < 2 \/ PeekInt(b, 2, size) < 0
  BY <1>1, <1>2, <1>3, <1>5 DEF FindStep, Sizes
<1>6. CASE ~(n - size < 2) /\ ~(PeekInt(b, 2, size) < 0)
  <2>1. size + 2 <= Len(b.data)
    BY <1>1, <1>6
  <2>2. PeekInt(b, 2, size) \in Int
    BY <2>1, BytesPeeked
  <2>3. next \in Nat /\ next > cur
    BY <1>3, <1>4, <1>6, <2>2
  <2>4. f[next] = g[next]
    BY <2>3
  <2> QED
    BY <1>1, <1>2, <1>3, <1>4, <2>4 DEF FindStep, Sizes
<1> QED
  BY <1>5, <1>6

Found(b, seq, g, m) == \A cur \in Nat : cur + m >= Size(b) => g[cur] = FindStep(b, seq, g, cur)

LEMMA FindExists ==
    ASSUME NEW b \in Memory, b.data \in Seq(Byte), NEW seq
    PROVE  \E f : f = [cur \in Nat |-> FindStep(b, seq, f, cur)]
<1>1. PICK n \in Nat : n = Size(b)
  BY MemoryIs
<1>2. PICK T : T = {m \in Nat : \E g : Found(b, seq, g, m)}
  OBVIOUS
<1>3. 0 \in T
  <2>1. PICK g : g = [cur \in Nat |-> Absent]
    OBVIOUS
  <2>2. ASSUME NEW cur \in Nat, cur + 0 >= Size(b) PROVE g[cur] = FindStep(b, seq, g, cur)
    <3>1. cur >= Size(b)
      BY <1>1, <2>2
    <3> QED
      BY <2>1, <3>1 DEF FindStep
  <2> QED
    BY <1>2, <2>2 DEF Found
<1>4. ASSUME NEW m \in Nat, m \in T PROVE m + 1 \in T
  <2>1. PICK g : Found(b, seq, g, m)
    BY <1>2, <1>4
  <2>2. PICK h : h = [cur \in Nat |-> FindStep(b, seq, g, cur)]
    OBVIOUS
  <2>3. ASSUME NEW cur \in Nat, cur + (m + 1) >= Size(b) PROVE h[cur] = FindStep(b, seq, h, cur)
    <3>1. ASSUME NEW c \in Nat, c > cur PROVE g[c] = h[c]
      <4>1. c + m >= Size(b)
        BY <1>1, <2>3, <3>1
      <4>2. g[c] = FindStep(b, seq, g, c)
        BY <2>1, <4>1 DEF Found
      <4> QED
        BY <2>2, <4>2
    <3>2. FindStep(b, seq, g, cur) = FindStep(b, seq, h, cur)
      BY <3>1, FindGoesOn
    <3> QED
      BY <2>2, <3>2
  <2>4. Found(b, seq, h, m + 1)
    BY <2>3, Zenon DEF Found
  <2>5. m + 1 \in Nat
    OBVIOUS
  <2> QED
    BY <1>2, <2>4, <2>5, Zenon
<1>5. n \in T
  BY <1>3, <1>4, AllNumbers
<1>6. PICK g : Found(b, seq, g, n)
  BY <1>2, <1>5
<1>7. \A cur \in Nat : g[cur] = FindStep(b, seq, g, cur)
  <2>1. \A cur \in Nat : cur + n >= Size(b)
    BY <1>1
  <2> QED
    BY <1>6, <2>1 DEF Found
<1>8. PICK f : f = [cur \in Nat |-> g[cur]]
  OBVIOUS
<1>9. ASSUME NEW cur \in Nat PROVE g[cur] = FindStep(b, seq, f, cur)
  <2>1. \A c \in Nat : c > cur => g[c] = f[c]
    BY <1>8
  <2>2. FindStep(b, seq, g, cur) = FindStep(b, seq, f, cur)
    BY <2>1, FindGoesOn
  <2> QED
    BY <1>7, <2>2
<1>10. f = [cur \in Nat |-> FindStep(b, seq, f, cur)]
  BY <1>8, <1>9, Zenon
<1> QED
  BY <1>10

LEMMA FindAre ==
    ASSUME NEW b \in Memory, b.data \in Seq(Byte), NEW seq, NEW cur \in Nat
    PROVE  FindFrom(b, seq)[cur] = FindStep(b, seq, FindFrom(b, seq), cur)
<1>1. FindFrom(b, seq) = [c \in Nat |-> FindStep(b, seq, FindFrom(b, seq), c)]
  BY FindExists, FindDef, Zenon
<1> QED
  BY <1>1, Zenon

LEMMA UpTo15 ==
    ASSUME NEW m \in 0..127, m < 15
    PROVE  m \in 0..15
OBVIOUS

Joined(h, x, m) == h \in Int /\ h % 256 = 16 * x + m
Split(h, x, m) == (h % 256) \div 16 = x /\ h % 16 = m

LEMMA HeadByte ==
    ASSUME NEW x \in 1..9, NEW m \in 0..15, NEW h, Joined(h, x, m)
    PROVE  Split(h, x, m)
<1>0. h \in Int /\ h % 256 = 16 * x + m
  BY DEF Joined
<1>1. h = 256 * (h \div 256) + (16 * x + m)
  BY <1>0
<1>2. PICK k \in Int : k = h \div 256
  BY <1>0
<1>3. h = 16 * (16 * k + x) + m
  BY <1>0, <1>1, <1>2
<1>4. h % 16 = m
  BY <1>0, <1>2, <1>3
<1>5. (16 * x + m) \div 16 = x
  OBVIOUS
<1> QED
  BY <1>0, <1>4, <1>5 DEF Split

LEMMA TwoJoined ==
    ASSUME NEW n \in Byte, NEW m \in Byte
    PROVE  <<n>> \o <<m>> = <<n, m>>
<1>1. PICK x, y \in Seq(Byte) : x = <<n>> /\ y = <<m>> /\ Len(x) = 1 /\ Len(y) = 1
                               /\ x[1] = n /\ y[1] = m
  BY OneIs, Zenon
<1>2. /\ x \o y \in Seq(Byte) /\ Len(x \o y) = Len(x) + Len(y)
      /\ \A i \in 1..Len(x) + Len(y) : (x \o y)[i] = IF i <= Len(x) THEN x[i] ELSE y[i - Len(x)]
  BY ConcatProperties
<1>3. PICK z \in Seq(Byte) : z = x \o y
  BY <1>2
<1>4. Len(x) + Len(y) = 2
  BY <1>1
<1>5. Len(z) = 2 /\ \A i \in 1..2 : z[i] = IF i <= 1 THEN x[i] ELSE y[i - 1]
  BY <1>1, <1>2, <1>3, <1>4, Zenon
<1>6. z[1] = n /\ z[2] = m
  BY <1>1, <1>5
<1>7. PICK s \in Seq(Byte) : s = <<n, m>> /\ Len(s) = 2 /\ s[1] = n /\ s[2] = m
  BY TwoIs, ZenonT(60)
<1>8. Len(z) = Len(s) /\ \A i \in 1..Len(z) : z[i] = s[i]
  <2>1. \A i \in 1..2 : i = 1 \/ i = 2
    OBVIOUS
  <2> QED
    BY <1>5, <1>6, <1>7, <2>1, Zenon
<1>9. z = s
  BY <1>8, SeqEqual
<1> QED
  BY <1>1, <1>3, <1>7, <1>9, Zenon

LEMMA FindStops ==
    ASSUME NEW b \in Memory, b.data \in Seq(Byte), NEW seq, NEW p \in Nat, p >= Len(b.data)
    PROVE  FindFrom(b, seq)[p] = Absent
<1>1. p >= Size(b)
  BY DEF Size
<1>2. FindFrom(b, seq)[p] = FindStep(b, seq, FindFrom(b, seq), p)
  BY FindAre
<1> QED
  BY <1>1, <1>2 DEF FindStep

(* At an element of another number it goes to the next one.                  *)
Passes(b, seq, p, m, t, q) ==
    FindFrom(b, seq)[p] = IF m = seq THEN Read1(p + HeadLen(m) + 2, GetDataType(t))
                          ELSE FindFrom(b, seq)[q]

LEMMA FindElement ==
    ASSUME NEW b \in Memory, b.data \in Seq(Byte), NEW seq \in Nat, NEW p \in Nat, NEW q,
           NEW m \in 0..127, NEW t \in InUse, NEW v \in Values[t], Fit(t, v),
           ElementAt(b.data, p, m, t, v, q)
    PROVE  Passes(b, seq, p, m, t, q)
<1>1. PICK w \in Seq(Byte) : w = WriteData[t][v]
  BY WrittenIs
<1>2. PICK c \in Short : c = Len(w)
  BY <1>1, FitIs
<1>3. c \in Nat /\ c \in Int /\ c \in Int16
  BY ShortIs
<1>4. PICK k \in {1, 2} : k = HeadLen(m)
  BY HeadIs
<1>5. PICK x \in 1..9 : x = GetDataType(t)
  BY TagIs
<1>6. PICK size \in Nat : size = p + k
  OBVIOUS
<1>7. PICK z \in Seq(Byte) : z = BytesOf(2, c) /\ Len(z) = 2
  BY <1>3, BytesTyped
<1>8. /\ At(b.data, p, HeadBytes(m, t)) /\ At(b.data, size, z) /\ At(b.data, size + 2, w)
      /\ q = size + 2 + c
  BY <1>1, <1>2, <1>4, <1>6, <1>7, Zenon DEF ElementAt
<1>9. PeekInt(b, 2, size) = c
  <2>1. PeekInt(b, Len(z), size) = IntOf(z)
    BY <1>8, PeekIs
  <2>2. IntOf(z) = c
    BY <1>3, <1>7, TwoBack
  <2> QED
    BY <1>7, <2>1, <2>2, Zenon
<1>10. PICK n \in Nat : n = Size(b) /\ n = Len(b.data)
  BY MemoryIs
<1>11. size + 2 <= n
  <2>1. size + Len(z) <= Len(b.data)
    BY <1>8 DEF At
  <2> QED
    BY <1>7, <1>10, <2>1, Zenon
<1>12. PICK head : head = PeekInt(b, 1, p)
  OBVIOUS
<1>13. CASE m < 15
  <2>1. PICK f \in Byte : f = 16 * x + m
    BY <1>5, <1>13, FrontBytes
  <2>2. HeadBytes(m, t) = <<f>> /\ k = 1
    BY <1>4, <1>5, <1>13, <2>1, Zenon DEF HeadBytes, HeadLen
  <2>3. PICK s \in Seq(Byte) : s = <<f>> /\ Len(s) = 1 /\ IntOf(s) \in Int /\ IntOf(s) % 256 = f
    BY OneIs, ByteBack
  <2>4. head = IntOf(s)
    <3>1. PeekInt(b, Len(s), p) = IntOf(s)
      BY <1>8, <2>2, <2>3, PeekIs, Zenon
    <3> QED
      BY <1>12, <2>3, <3>1, Zenon
  <2>5. head \in Int /\ head % 256 = 16 * x + m
    BY <2>1, <2>3, <2>4, Zenon
  <2>6. (head % 256) \div 16 = x /\ head % 16 = m
    <3>1. m \in 0..15
      BY <1>13, UpTo15, Zenon
    <3>2. Joined(head, x, m)
      BY <2>5, Zenon DEF Joined
    <3>3. Split(head, x, m)
      BY <3>1, <3>2, HeadByte, Zenon
    <3> QED
      BY <3>3, Zenon DEF Split
  <2>7. ~(head % 16 = 15)
    BY <1>13, <2>6
  <2>8. FindStep(b, seq, FindFrom(b, seq), p)
          = IF p >= n THEN Absent
            ELSE IF m = seq THEN Read1(size + 2, x)
            ELSE IF n - size < 2 THEN Absent
            ELSE IF c < 0 THEN Thrown
            ELSE FindFrom(b, seq)[size + 2 + c]
    <3>1. p + 1 = size
      BY <1>6, <2>2
    <3> QED
      BY <1>9, <1>10, <1>12, <2>6, <2>7, <3>1, Zenon DEF FindStep, Sizes
  <2>9. ~(p >= n) /\ ~(n - size < 2) /\ ~(c < 0)
    BY <1>3, <1>6, <1>11
  <2>10. FindFrom(b, seq)[p] = IF m = seq THEN Read1(size + 2, x)
                               ELSE FindFrom(b, seq)[size + 2 + c]
    BY <2>8, <2>9, FindAre, Zenon
  <2> QED
    BY <1>4, <1>5, <1>6, <1>8, <2>10, Zenon DEF Passes
<1>14. CASE ~(m < 15)
  <2>1. PICK f \in Byte : f = 16 * x + 15
    BY <1>5, FrontBytes
  <2>2. HeadBytes(m, t) = <<f, m>> /\ k = 2 /\ m \in Byte /\ m < 128
    <3>1. HeadBytes(m, t) = <<f, m>> /\ k = 2
      BY <1>4, <1>5, <1>14, <2>1, Zenon DEF HeadBytes, HeadLen
    <3>2. m \in Byte
      BY FrontBytes
    <3>3. m < 128
      OBVIOUS
    <3> QED
      BY <3>1, <3>2, <3>3, Zenon
  <2>3. PICK s \in Seq(Byte) : s = <<f>> /\ Len(s) = 1 /\ IntOf(s) \in Int /\ IntOf(s) % 256 = f
    BY OneIs, ByteBack
  <2>4. PICK r \in Seq(Byte) : r = <<m>> /\ Len(r) = 1 /\ IntOf(r) = m
    BY <2>2, OneIs, ByteBack
  <2>5. At(b.data, p, s) /\ At(b.data, p + 1, r)
    <3>1. s \o r = <<f, m>>
      BY <2>2, <2>3, <2>4, TwoJoined, Zenon
    <3>2. At(b.data, p, s \o r)
      BY <1>8, <2>2, <3>1, Zenon
    <3>3. At(b.data, p, s) /\ At(b.data, p + Len(s), r)
      BY <3>2, AtParts
    <3> QED
      BY <2>3, <3>3, Zenon
  <2>6. head = IntOf(s)
    <3>1. PeekInt(b, Len(s), p) = IntOf(s)
      BY <2>5, PeekIs, Zenon
    <3> QED
      BY <1>12, <2>3, <3>1, Zenon
  <2>7. PeekInt(b, 1, p + 1) = m
    <3>1. PICK o \in Nat : o = p + 1
      OBVIOUS
    <3>2. PeekInt(b, Len(r), o) = IntOf(r)
      BY <2>5, <3>1, PeekIs, Zenon
    <3> QED
      BY <2>4, <3>1, <3>2, Zenon
  <2>8. head \in Int /\ head % 256 = 16 * x + 15
    BY <2>1, <2>3, <2>6, Zenon
  <2>9. (head % 256) \div 16 = x /\ head % 16 = 15
    <3>1. 15 \in 0..15
      OBVIOUS
    <3>2. Joined(head, x, 15)
      BY <2>8, Zenon DEF Joined
    <3>3. Split(head, x, 15)
      BY <3>1, <3>2, HeadByte, Zenon
    <3> QED
      BY <3>3, Zenon DEF Split
  <2>10. FindStep(b, seq, FindFrom(b, seq), p)
           = IF p >= n \/ n - p < 2 THEN Absent
             ELSE IF m = seq THEN Read1(size + 2, x)
             ELSE IF n - size < 2 THEN Absent
             ELSE IF c < 0 THEN Thrown
             ELSE FindFrom(b, seq)[size + 2 + c]
    <3>1. p + 2 = size
      BY <1>6, <2>2
    <3> QED
      BY <1>9, <1>10, <1>12, <2>7, <2>9, <3>1, Zenon DEF FindStep, Sizes
  <2>11. ~(p >= n) /\ ~(n - p < 2) /\ ~(n - size < 2) /\ ~(c < 0)
    BY <1>3, <1>6, <1>11, <2>2
  <2>12. FindFrom(b, seq)[p] = IF m = seq THEN Read1(size + 2, x)
                               ELSE FindFrom(b, seq)[size + 2 + c]
    BY <2>10, <2>11, FindAre, Zenon
  <2> QED
    BY <1>4, <1>5, <1>6, <1>8, <2>12, Zenon DEF Passes
<1> QED
  BY <1>13, <1>14

(* Elements one behind the other, of the numbers N; ty and va are the types  *)
(* and the values of the numbers.                                            *)
Carried(d, N, ty, va, n, es, q) ==
    /\ es \in [1..n -> N] /\ q \in [0..n -> Nat]
    /\ q[0] = 0 /\ q[n] = Len(d)
    /\ \A k \in 1..n : ElementAt(d, q[k - 1], es[k], ty[es[k]], va[es[k]], q[k])
    /\ \A m \in N : \E k \in 1..n : es[k] = m

Carries(b, N, ty, va) ==
    /\ b \in Memory /\ b.data \in Seq(Byte)
    /\ N \subseteq 0..127
    /\ \A m \in N : ty[m] \in InUse /\ va[m] \in Values[ty[m]]
    /\ \E n \in Nat : \E es, q : Carried(b.data, N, ty, va, n, es, q)

LEMMA CarriesNone ==
    ASSUME NEW b \in Memory, b.data = <<>>, NEW ty, NEW va
    PROVE  Carries(b, {}, ty, va)
<1>1. PICK es : es = [k \in 1..0 |-> {}]
  OBVIOUS
<1>2. PICK q : q = [k \in 0..0 |-> 0]
  OBVIOUS
<1>3. es \in [1..0 -> {}]
  BY <1>1
<1>4. q \in [0..0 -> Nat] /\ q[0] = 0 /\ Len(b.data) = 0
  BY <1>2
<1>5. 0 \in Nat /\ 1..0 = {}
  OBVIOUS
<1>6. Carried(b.data, {}, ty, va, 0, es, q)
  BY <1>3, <1>4, <1>5, Zenon DEF Carried
<1>7. b.data \in Seq(Byte)
  OBVIOUS
<1> QED
  BY <1>5, <1>6, <1>7, Zenon DEF Carries

LEMMA ElementKept ==
    ASSUME NEW d, NEW d2, \A p \in Nat, s \in Seq(Byte) : At(d, p, s) => At(d2, p, s),
           NEW p \in Nat, NEW m \in 0..127, NEW t \in InUse, NEW v \in Values[t], NEW q,
           ElementAt(d, p, m, t, v, q)
    PROVE  ElementAt(d2, p, m, t, v, q)
<1>1. PICK f \in Seq(Byte) : f = HeadBytes(m, t)
  BY HeadIs
<1>2. PICK w \in Seq(Byte) : w = WriteData[t][v]
  BY WrittenIs
<1>3. PICK c \in Int : c = Len(w)
  OBVIOUS
<1>4. PICK z \in Seq(Byte) : z = BytesOf(2, c)
  BY BytesTyped
<1>5. PICK o \in Nat : o = p + HeadLen(m)
  <2>1. HeadLen(m) \in {1, 2}
    BY HeadIs
  <2> QED
    BY <2>1
<1>6. o + 2 \in Nat
  OBVIOUS
<1>7. At(d, p, f) /\ At(d, o, z) /\ At(d, o + 2, w) /\ q = p + HeadLen(m) + 2 + Len(w)
  BY <1>1, <1>2, <1>3, <1>4, <1>5, Zenon DEF ElementAt
<1>8. At(d2, p, f) /\ At(d2, o, z) /\ At(d2, o + 2, w)
  BY <1>6, <1>7
<1> QED
  BY <1>1, <1>2, <1>3, <1>4, <1>5, <1>7, <1>8, Zenon DEF ElementAt

LEMMA CarriesMore ==
    ASSUME NEW b, NEW N, NEW ty, NEW va, Carries(b, N, ty, va), NEW m \in 0..127,
           ty[m] \in InUse, va[m] \in Values[ty[m]]
    PROVE  Carries(WriteTo(b, m, ty[m], va[m]), N \cup {m}, ty, va)
<1>1. /\ b \in Memory /\ b.data \in Seq(Byte) /\ N \subseteq 0..127
      /\ \A i \in N : ty[i] \in InUse /\ va[i] \in Values[ty[i]]
  BY Zenon DEF Carries
<1>2. PICK n \in Nat : \E es, q : Carried(b.data, N, ty, va, n, es, q)
  BY Zenon DEF Carries
<1>3. PICK es, q : Carried(b.data, N, ty, va, n, es, q)
  BY <1>2
<1>4. /\ es \in [1..n -> N] /\ q \in [0..n -> Nat]
      /\ q[0] = 0 /\ q[n] = Len(b.data)
      /\ \A k \in 1..n : ElementAt(b.data, q[k - 1], es[k], ty[es[k]], va[es[k]], q[k])
      /\ \A i \in N : \E k \in 1..n : es[k] = i
  BY <1>3, Zenon DEF Carried
<1>5. PICK c : c = WriteTo(b, m, ty[m], va[m])
  OBVIOUS
<1>6. PICK d \in Seq(Byte) : d = c.data
  BY <1>1, <1>5, WriteToIs
<1>7. /\ c \in Memory /\ ElementAt(d, Len(b.data), m, ty[m], va[m], Len(d))
      /\ \A p \in Nat, s \in Seq(Byte) : At(b.data, p, s) => At(d, p, s)
  BY <1>1, <1>5, <1>6, WriteToIs
<1>8. PICK es2 : es2 = [k \in 1..n + 1 |-> IF k = n + 1 THEN m ELSE es[k]]
  OBVIOUS
<1>9. PICK q2 : q2 = [k \in 0..n + 1 |-> IF k = n + 1 THEN Len(d) ELSE q[k]]
  OBVIOUS
<1>10. PICK M : M = N \cup {m}
  OBVIOUS
<1>11. es2 \in [1..n + 1 -> M]
  <2>1. ASSUME NEW k \in 1..n + 1 PROVE (IF k = n + 1 THEN m ELSE es[k]) \in M
    <3>1. k = n + 1 \/ k \in 1..n
      OBVIOUS
    <3> QED
      BY <1>4, <1>10, <3>1
  <2> QED
    BY <1>8, <2>1, Zenon
<1>12. q2 \in [0..n + 1 -> Nat]
  <2>1. ASSUME NEW k \in 0..n + 1 PROVE (IF k = n + 1 THEN Len(d) ELSE q[k]) \in Nat
    <3>1. k = n + 1 \/ k \in 0..n
      OBVIOUS
    <3> QED
      BY <1>4, <3>1
  <2> QED
    BY <1>9, <2>1, Zenon
<1>13. q2[0] = 0 /\ q2[n + 1] = Len(d)
  BY <1>4, <1>9
<1>14. ASSUME NEW k \in 1..n + 1
       PROVE  ElementAt(d, q2[k - 1], es2[k], ty[es2[k]], va[es2[k]], q2[k])
  <2>1. CASE k = n + 1
    <3>1. es2[k] = m /\ q2[k - 1] = q[n] /\ q2[k] = Len(d)
      BY <1>8, <1>9, <2>1
    <3> QED
      BY <1>4, <1>7, <3>1, Zenon
  <2>2. CASE k # n + 1
    <3>1. k \in 1..n /\ k - 1 \in 0..n /\ k - 1 # n + 1 /\ k \in 0..n + 1 /\ k - 1 \in 0..n + 1
      BY <2>2
    <3>2. es2[k] = es[k] /\ q2[k - 1] = q[k - 1] /\ q2[k] = q[k]
      BY <1>8, <1>9, <2>2, <3>1, Zenon
    <3>3. PICK i \in N : i = es[k]
      BY <1>4, <3>1
    <3>4. PICK p \in Nat : p = q[k - 1]
      BY <1>4, <3>1
    <3>5. ElementAt(b.data, p, i, ty[i], va[i], q[k])
      BY <1>4, <3>1, <3>3, <3>4, Zenon
    <3>6. ElementAt(d, p, i, ty[i], va[i], q[k])
      <4>1. ty[i] \in InUse /\ va[i] \in Values[ty[i]] /\ i \in 0..127
        BY <1>1
      <4> QED
        BY <1>7, <3>5, <4>1, ElementKept
    <3> QED
      BY <3>2, <3>3, <3>4, <3>6, Zenon
  <2> QED
    BY <2>1, <2>2
<1>15. ASSUME NEW i \in M PROVE \E k \in 1..n + 1 : es2[k] = i
  <2>1. CASE i = m
    <3>1. n + 1 \in 1..n + 1
      OBVIOUS
    <3> QED
      BY <1>8, <2>1, <3>1
  <2>2. CASE i # m
    <3>1. PICK k \in 1..n : es[k] = i
      BY <1>4, <1>10, <2>2
    <3>2. k \in 1..n + 1 /\ k # n + 1
      OBVIOUS
    <3> QED
      BY <1>8, <3>1, <3>2
  <2> QED
    BY <2>1, <2>2
<1>16. Carried(d, M, ty, va, n + 1, es2, q2)
  BY <1>11, <1>12, <1>13, <1>14, <1>15, Zenon DEF Carried
<1>17. /\ n + 1 \in Nat /\ M \subseteq 0..127
       /\ \A i \in M : ty[i] \in InUse /\ va[i] \in Values[ty[i]]
  BY <1>1, <1>10
<1> QED
  BY <1>5, <1>6, <1>7, <1>10, <1>16, <1>17, Zenon DEF Carries

(* find returns the place of the data of a number that is there.             *)
FoundAt(b, N, ty, va, seq, r) ==
    IF seq \in N
    THEN \E pos \in Nat : /\ r = Read1(pos, GetDataType(ty[seq]))
                          /\ At(b.data, pos, WriteData[ty[seq]][va[seq]])
    ELSE r = Absent

LEMMA FindIs ==
    ASSUME NEW b, NEW N, NEW ty, NEW va, Carries(b, N, ty, va), \A m \in N : Fit(ty[m], va[m]),
           NEW seq \in Nat
    PROVE  FoundAt(b, N, ty, va, seq, Find1(b, seq))
<1>1. /\ b \in Memory /\ b.data \in Seq(Byte) /\ N \subseteq 0..127
      /\ \A i \in N : ty[i] \in InUse /\ va[i] \in Values[ty[i]]
  BY Zenon DEF Carries
<1>2. PICK n \in Nat : \E es, q : Carried(b.data, N, ty, va, n, es, q)
  BY Zenon DEF Carries
<1>3. PICK es, q : Carried(b.data, N, ty, va, n, es, q)
  BY <1>2
<1>4. /\ es \in [1..n -> N] /\ q \in [0..n -> Nat]
      /\ q[0] = 0 /\ q[n] = Len(b.data)
      /\ \A k \in 1..n : ElementAt(b.data, q[k - 1], es[k], ty[es[k]], va[es[k]], q[k])
      /\ \A i \in N : \E k \in 1..n : es[k] = i
  BY <1>3, Zenon DEF Carried
<1>5. PICK f : f = FindFrom(b, seq)
  OBVIOUS
<1>6. PICK P : P = {r \in {f[q[k]] : k \in 0..n} :
                     seq \in N /\ \E pos \in Nat : /\ r = Read1(pos, GetDataType(ty[seq]))
                                               /\ At(b.data, pos, WriteData[ty[seq]][va[seq]])}
  OBVIOUS
<1>7. PICK T : T = {j \in Nat : \A k \in 0..n : k + j = n =>
                     \/ f[q[k]] \in P
                     \/ f[q[k]] = Absent /\ \A i \in k + 1..n : es[i] # seq}
  OBVIOUS
<1>8. 0 \in T
  <2>1. SUFFICES ASSUME NEW k \in 0..n, k + 0 = n
                 PROVE  f[q[k]] = Absent /\ \A i \in k + 1..n : es[i] # seq
    BY <1>7
  <2>2. k = n /\ k + 1..n = {}
    BY <2>1
  <2>3. q[k] \in Nat /\ q[k] = Len(b.data) /\ q[k] >= Len(b.data)
    BY <1>4, <2>2
  <2>4. f[q[k]] = Absent
    BY <1>1, <1>5, <2>3, FindStops
  <2> QED
    BY <2>2, <2>4
<1>9. ASSUME NEW j \in Nat, j \in T PROVE j + 1 \in T
  <2>1. SUFFICES ASSUME NEW k \in 0..n, k + (j + 1) = n
                 PROVE  \/ f[q[k]] \in P
                        \/ f[q[k]] = Absent /\ \A i \in k + 1..n : es[i] # seq
    BY <1>7
  <2>2. PICK h \in 1..n : h = k + 1 /\ h + j = n /\ h \in 0..n /\ h - 1 = k
    BY <2>1
  <2>3. \/ f[q[h]] \in P
        \/ f[q[h]] = Absent /\ \A i \in h + 1..n : es[i] # seq
    BY <1>7, <1>9, <2>2
  <2>4. PICK m \in N : m = es[h]
    BY <1>4
  <2>5. /\ m \in 0..127 /\ ty[m] \in InUse /\ va[m] \in Values[ty[m]]
        /\ Fit(ty[m], va[m]) /\ q[k] \in Nat
    BY <1>1, <1>4
  <2>6. ElementAt(b.data, q[k], m, ty[m], va[m], q[h])
    BY <1>4, <2>2, <2>4, Zenon
  <2>7. f[q[k]] = IF m = seq THEN Read1(q[k] + HeadLen(m) + 2, GetDataType(ty[m])) ELSE f[q[h]]
    <3>1. PICK t \in InUse : t = ty[m]
      BY <2>5
    <3>2. PICK v \in Values[t] : v = va[m]
      BY <2>5, <3>1
    <3>3. PICK p \in Nat : p = q[k]
      BY <2>5
    <3>4. Fit(t, v) /\ ElementAt(b.data, p, m, t, v, q[h])
      BY <2>5, <2>6, <3>1, <3>2, <3>3, Zenon
    <3>5. FindFrom(b, seq)[p] = IF m = seq THEN Read1(p + HeadLen(m) + 2, GetDataType(t))
                                ELSE FindFrom(b, seq)[q[h]]
      <4>1. b \in Memory /\ b.data \in Seq(Byte) /\ m \in 0..127
        BY <1>1, <2>5
      <4>2. Passes(b, seq, p, m, t, q[h])
        BY <3>4, <4>1, FindElement
      <4> QED
        BY <4>2, Zenon DEF Passes
    <3> QED
      BY <1>5, <3>1, <3>3, <3>5, Zenon
  <2>8. CASE m = seq
    <3>1. PICK pos \in Nat : pos = q[k] + HeadLen(m) + 2
      <4>1. HeadLen(m) \in {1, 2}
        BY <2>5, HeadIs
      <4> QED
        BY <2>5, <4>1
    <3>2. At(b.data, pos, WriteData[ty[m]][va[m]])
      BY <2>6, <3>1, Zenon DEF ElementAt
    <3>3. f[q[k]] = Read1(pos, GetDataType(ty[m]))
      BY <2>7, <2>8, <3>1, Zenon
    <3> QED
      BY <1>6, <2>8, <3>2, <3>3
  <2>9. CASE m # seq
    <3>1. f[q[k]] = f[q[h]]
      BY <2>7, <2>9, Zenon
    <3>2. \A i \in k + 1..n : i = h \/ i \in h + 1..n
      BY <2>2
    <3> QED
      BY <2>3, <2>4, <2>9, <3>1, <3>2, Zenon
  <2> QED
    BY <2>8, <2>9
<1>10. n \in T
  BY <1>8, <1>9, AllNumbers
<1>11. \/ f[0] \in P
       \/ f[0] = Absent /\ \A i \in 1..n : es[i] # seq
  <2>1. 0 \in 0..n /\ 0 + n = n /\ 0 + 1 = 1
    OBVIOUS
  <2> QED
    BY <1>4, <1>7, <1>10, <2>1, Zenon
<1>12. Find1(b, seq) = f[0]
  BY <1>5 DEF Find1
<1>13. CASE f[0] \in P
  BY <1>6, <1>12, <1>13 DEF FoundAt
<1>14. CASE f[0] = Absent /\ \A i \in 1..n : es[i] # seq
  <2>1. seq \notin N
    BY <1>4, <1>14
  <2> QED
    BY <1>12, <1>14, <2>1 DEF FoundAt
<1> QED
  BY <1>11, <1>13, <1>14

(* A number is read with the value it was written with, as its own type; as  *)
(* another one it may also be refused.                                       *)
LEMMA ReadFromIs ==
    ASSUME NEW b, NEW N, NEW ty, NEW va, Carries(b, N, ty, va), \A m \in N : Fit(ty[m], va[m]),
           NEW seq \in Nat, NEW u \in InUse
    PROVE  /\ seq \notin N => ReadFrom(b, seq, u) = Absent
           /\ seq \in N => \/ ReadFrom(b, seq, u) = Thrown /\ u # ty[seq]
                           \/ \E pos \in Nat : ReadFrom(b, seq, u) = Read1(pos, va[seq])
<1>1. /\ b \in Memory /\ b.data \in Seq(Byte)
      /\ \A i \in N : ty[i] \in InUse /\ va[i] \in Values[ty[i]]
  BY Zenon DEF Carries
<1>2. PICK found : found = Find1(b, seq)
  OBVIOUS
<1>3. FoundAt(b, N, ty, va, seq, found)
  BY <1>2, FindIs
<1>4. ReadFrom(b, seq, u) = IF found.pos < 0 THEN found
                            ELSE IF found.value # GetDataType(u) THEN Thrown
                            ELSE ReadData(b)[u][found.pos]
  BY <1>2 DEF ReadFrom
<1>5. CASE seq \notin N
  <2>1. found = Absent /\ found.pos < 0
    BY <1>3, <1>5 DEF FoundAt, Absent
  <2> QED
    BY <1>4, <1>5, <2>1
<1>6. CASE seq \in N
  <2>1. PICK t \in InUse : t = ty[seq]
    BY <1>1, <1>6
  <2>2. PICK v \in Values[t] : v = va[seq]
    BY <1>1, <1>6, <2>1
  <2>3. PICK pos \in Nat : found = Read1(pos, GetDataType(t)) /\ At(b.data, pos, WriteData[t][v])
    BY <1>3, <1>6, <2>1, <2>2, Zenon DEF FoundAt
  <2>4. found.pos = pos /\ found.value = GetDataType(t) /\ ~(found.pos < 0)
    BY <2>3 DEF Read1
  <2>5. CASE GetDataType(t) # GetDataType(u)
    <3>1. u # t
      BY <2>5, Zenon
    <3>2. ReadFrom(b, seq, u) = Thrown
      BY <1>4, <2>4, <2>5, Zenon
    <3> QED
      BY <1>6, <2>1, <3>1, <3>2, Zenon
  <2>6. CASE GetDataType(t) = GetDataType(u)
    <3>1. u.is = t.is
      BY <2>6, TagIs
    <3>2. ReadFrom(b, seq, u) = ReadData(b)[u][pos]
      BY <1>4, <2>4, <2>6, Zenon
    <3>3. Fit(t, v)
      BY <1>6, <2>1, <2>2
    <3>4. ReadsBack(t)
      BY AllReadBack
    <3>5. ReadData(b)[u][pos] \in Outcomes(t, u, pos + Len(WriteData[t][v]), v)
      BY <1>1, <2>3, <3>1, <3>3, <3>4, Zenon DEF ReadsBack
    <3>6. PICK end \in Nat : end = pos + Len(WriteData[t][v])
      <4>1. Len(WriteData[t][v]) \in Nat
        BY WrittenIs
      <4> QED
        BY <4>1
    <3>7. (ReadFrom(b, seq, u) = Thrown /\ u # t) \/ ReadFrom(b, seq, u) = Read1(end, v)
      BY <3>2, <3>5, <3>6 DEF Outcomes
    <3> QED
      BY <1>6, <2>1, <2>2, <3>7, Zenon
  <2> QED
    BY <2>5, <2>6
<1> QED
  BY <1>5, <1>6
-----------------------------------------------------------------------------
(* The functions of the two sides, of a case c.                              *)
SidesOf(c, proxy, handler) ==
    /\ \E i \in DOMAIN Cases : c = Cases[i]
    /\ proxy = Translated(c.client) /\ handler = Translated(c.server)
    /\ c.class \in DOMAIN proxy.classes \cap DOMAIN handler.classes

LEMMA ParamsAre ==
    ASSUME NEW f, IsFunc(f)
    PROVE  /\ Len(f.params) \in Nat /\ DOMAIN f.params = 1..Len(f.params)
           /\ f.ret \in InUse
           /\ \A i \in 1..Len(f.params) : f.params[i].type \in InUse /\ f.params[i].out \in BOOLEAN
           /\ Outs(f) \subseteq 1..Len(f.params)
           /\ \A i \in Outs(f) : f.params[i].out
           /\ \A i \in 1..Len(f.params) : f.params[i].out => i \in Outs(f)
<1>1. f.params \in Seq(Range(f.params))
  BY DEF IsFunc
<1>2. Len(f.params) \in Nat /\ DOMAIN f.params = 1..Len(f.params)
  BY <1>1
<1>3. Outs(f) = {i \in 1..Len(f.params) : f.params[i].out}
  BY <1>2 DEF Outs
<1> QED
  BY <1>2, <1>3, Zenon DEF IsFunc

LEMMA FuncIs ==
    ASSUME NEW c, NEW proxy, NEW handler, SidesOf(c, proxy, handler)
    PROVE  /\ IsFunc(Called(proxy, c))
           /\ DOMAIN c.args = DOMAIN Called(proxy, c).params
           /\ \A i \in DOMAIN c.args : c.args[i] \in Values[Called(proxy, c).params[i].type]
           /\ proxy = handler => c.func \in Named(handler, c, Called(proxy, c).name)
<1>1. PICK i \in DOMAIN Cases : c = Cases[i]
  BY Zenon DEF SidesOf
<1>2. IsInterface(proxy) /\ Typed(c, proxy, handler)
  BY <1>1, IdlCallAssumption, Zenon DEF SidesOf
<1>3. c.class \in DOMAIN proxy.classes
  BY DEF SidesOf
<1>4. c.func \in DOMAIN proxy.classes[c.class].funcs
  BY <1>2, Zenon DEF Typed
<1>5. IsFunc(Called(proxy, c))
  BY <1>2, <1>3, <1>4, Zenon DEF IsInterface, Called
<1>6. /\ DOMAIN c.args = DOMAIN Called(proxy, c).params
      /\ \A j \in DOMAIN Called(proxy, c).params :
            c.args[j] \in Values[Called(proxy, c).params[j].type]
  BY <1>2, Zenon DEF Typed
<1>7. proxy = handler => c.func \in Named(handler, c, Called(proxy, c).name)
  BY <1>4 DEF Named, Called
<1> QED
  BY <1>5, <1>6, <1>7, Zenon

LEMMA FirstIsOf ==
    ASSUME NEW c, NEW proxy, NEW handler, SidesOf(c, proxy, handler), NEW S,
           S = Named(handler, c, Called(proxy, c).name), S # {}
    PROVE  LET g == First(handler, c, S) IN
           /\ \E k \in S : g = handler.classes[c.class].funcs[k] /\ \A j \in S : k <= j
           /\ S \subseteq Nat
           /\ IsFunc(g)
           /\ c.ret \in Values[g.ret]
           /\ \A i \in Outs(g) : c.outs[i] \in Values[g.params[i].type]
<1>1. PICK i \in DOMAIN Cases : c = Cases[i]
  BY Zenon DEF SidesOf
<1>2. IsInterface(handler) /\ Typed(c, proxy, handler)
  BY <1>1, IdlCallAssumption, Zenon DEF SidesOf
<1>3. c.class \in DOMAIN handler.classes
  BY DEF SidesOf
<1>4. PICK funcs : funcs = handler.classes[c.class].funcs
  OBVIOUS
<1>5. funcs \in Seq(Range(funcs)) /\ \A j \in DOMAIN funcs : IsFunc(funcs[j])
  BY <1>2, <1>3, <1>4, Zenon DEF IsInterface
<1>6. S \subseteq DOMAIN funcs
  BY <1>4, Zenon DEF Named
<1>7. S \subseteq Nat
  BY <1>5, <1>6
<1>8. PICK k \in S : k = CHOOSE m \in S : \A j \in S : m <= j
  BY <1>7, LeastIs, Zenon
<1>9. \A j \in S : k <= j
  BY <1>7, <1>8, LeastIs, Zenon
<1>10. PICK g : g = First(handler, c, S)
  OBVIOUS
<1>11. g = funcs[k]
  BY <1>4, <1>8, <1>10, Zenon DEF First
<1>12. IsFunc(g)
  BY <1>5, <1>6, <1>11
<1>13. /\ c.ret \in Values[g.ret]
       /\ \A j \in DOMAIN g.params : g.params[j].out => c.outs[j] \in Values[g.params[j].type]
  BY <1>2, <1>10, Zenon DEF Typed
<1>14. \A j \in Outs(g) : j \in DOMAIN g.params /\ g.params[j].out
  BY Zenon DEF Outs
<1> QED
  BY <1>4, <1>7, <1>9, <1>10, <1>11, <1>12, <1>13, <1>14, Zenon

(* With one interface on both sides, the first function of a name that has   *)
(* none before it is the one that is called.                                 *)
LEMMA SameFunc ==
    ASSUME NEW c, NEW proxy, SidesOf(c, proxy, proxy), NEW S,
           S = Named(proxy, c, Called(proxy, c).name)
    PROVE  /\ c.func \in S /\ \A j \in S : j \in Nat
           /\ (\A j \in S : ~(j < c.func)) => First(proxy, c, S) = Called(proxy, c)
<1>1. c.func \in S
  BY FuncIs
<1>2. /\ S \subseteq Nat
      /\ \E k \in S : /\ First(proxy, c, S) = proxy.classes[c.class].funcs[k]
                      /\ \A j \in S : k <= j
  <2>1. S # {}
    BY <1>1
  <2> QED
    BY <2>1, FirstIsOf
<1>3. PICK k \in S : /\ First(proxy, c, S) = proxy.classes[c.class].funcs[k]
                     /\ \A j \in S : k <= j
  BY <1>2
<1>4. SUFFICES ASSUME \A j \in S : ~(j < c.func) PROVE First(proxy, c, S) = Called(proxy, c)
  BY <1>1, <1>2
<1>5. k = c.func
  BY <1>1, <1>2, <1>3, <1>4
<1> QED
  BY <1>3, <1>5, Zenon DEF Called
-----------------------------------------------------------------------------
(* The inductive invariant.  A buffer carries what was written so far, and   *)
(* what was read is what was written.                                        *)
TypesOf(f) == [i \in {0} \cup DOMAIN f.params |-> IF i = 0 THEN f.ret ELSE f.params[i].type]
ResultsOf(g, c) == [i \in {0} \cup DOMAIN g.params |-> IF i = 0 THEN c.ret ELSE c.outs[i]]
Below(f, n) == {i \in {0} \cup Outs(f) : i < n}

IsList(s, n) == (\E S : s \in Seq(S)) /\ Len(s) = n
GivenAs(s, n, g, c) ==
    \A i \in 1..n : s[i] = IF i \in DOMAIN c.args THEN c.args[i] ELSE Unread(g.params[i].type)
GotAs(r, n, f, g, c) ==
    r = [i \in Below(f, n) |->
           IF i = 0 THEN c.ret ELSE IF i \in Outs(g) THEN c.outs[i] ELSE c.args[i]]

Blameless ==
    client = server /\ FirstOfItsName /\ ArgsFit /\ ResultsFit /\ Len(ClientFunc.params) <= MaxSeq
    => case.servant = "missing"

Sending ==
    /\ at \in 1..Len(ClientFunc.params) + 1 /\ given = <<>> /\ got = <<>>
    /\ Carries(buf, 1..at - 1, TypesOf(ClientFunc), case.args)
Receiving ==
    /\ at \in 1..Len(ServerFunc.params) + 1 /\ SameName # {} /\ got = <<>>
    /\ Carries(buf, Args, TypesOf(ClientFunc), case.args)
    /\ IsList(given, at - 1)
    /\ ArgsFit => GivenAs(given, at - 1, ServerFunc, case)
Answering ==
    /\ at \in 0..Len(ServerFunc.params) + 1 /\ SameName # {} /\ got = <<>>
    /\ Carries(buf, Below(ServerFunc, at), TypesOf(ServerFunc), ResultsOf(ServerFunc, case))
    /\ IsList(given, Len(ServerFunc.params))
    /\ ArgsFit => GivenAs(given, Len(ServerFunc.params), ServerFunc, case)
Returning ==
    /\ at \in 0..Len(ClientFunc.params) + 1 /\ SameName # {}
    /\ Carries(buf, {0} \cup Outs(ServerFunc), TypesOf(ServerFunc), ResultsOf(ServerFunc, case))
    /\ ResultsFit => GotAs(got, at, ClientFunc, ServerFunc, case)

Inv ==
    /\ \E i \in DOMAIN Cases : case = Cases[i]
    /\ pc \in {"translate", "refused", "write", "read", "answer", "return", "done", "thrown",
               "aborted"}
    /\ pc = "translate" => at = 1 /\ given = <<>> /\ got = <<>>
    /\ pc \notin {"translate", "refused"} => SidesOf(case, client, server)
    /\ pc = "write" => Sending
    /\ pc = "read" => Receiving
    /\ pc = "answer" => Answering
    /\ pc = "return" => Returning
    /\ pc = "done" /\ ResultsFit =>
           GotAs(got, Len(ClientFunc.params) + 1, ClientFunc, ServerFunc, case)
    /\ pc \in {"thrown", "aborted"} => Blameless

LEMMA InitInv ==
    ASSUME Init
    PROVE  Inv
BY DEF Init, Inv

(* The functions of the two sides in a state after the translation.          *)
LEMMA ClientIs ==
    ASSUME SidesOf(case, client, server)
    PROVE  /\ IsFunc(ClientFunc)
           /\ Len(ClientFunc.params) \in Nat /\ Args = 1..Len(ClientFunc.params)
           /\ \A i \in Args : /\ TypesOf(ClientFunc)[i] = ClientFunc.params[i].type
                              /\ TypesOf(ClientFunc)[i] \in InUse
                              /\ case.args[i] \in Values[TypesOf(ClientFunc)[i]]
           /\ Outs(ClientFunc) \subseteq Args
           /\ TypesOf(ClientFunc)[0] = ClientFunc.ret /\ ClientFunc.ret \in InUse
           /\ client = server => case.func \in SameName
           /\ client = server /\ FirstOfItsName => ServerFunc = ClientFunc
<1>1. PICK f : f = ClientFunc
  OBVIOUS
<1>2. IsFunc(f) /\ Args = DOMAIN f.params
      /\ \A i \in Args : case.args[i] \in Values[f.params[i].type]
  BY <1>1, FuncIs, Zenon DEF ClientFunc, Args
<1>3. /\ Len(f.params) \in Nat /\ DOMAIN f.params = 1..Len(f.params) /\ f.ret \in InUse
      /\ \A i \in 1..Len(f.params) : f.params[i].type \in InUse
      /\ Outs(f) \subseteq 1..Len(f.params)
  BY <1>2, ParamsAre
<1>4. /\ TypesOf(f)[0] = f.ret
      /\ \A i \in 1..Len(f.params) : TypesOf(f)[i] = f.params[i].type
  <2>1. \A i \in 1..Len(f.params) : i # 0
    BY <1>3
  <2> QED
    BY <1>3, <2>1 DEF TypesOf
<1>5. client = server => case.func \in SameName
  BY FuncIs, Zenon DEF SameName, ClientFunc
<1>6. ASSUME client = server, FirstOfItsName PROVE ServerFunc = f
  <2>1. SidesOf(case, client, client)
    BY <1>6
  <2>2. SameName = Named(client, case, Called(client, case).name)
    BY <1>6, Zenon DEF SameName, ClientFunc
  <2>3. \A j \in SameName : j \in Nat
    BY <2>1, <2>2, SameFunc, Zenon
  <2>4. \A j \in SameName : ~(j < case.func)
    BY <1>5, <1>6, <2>3 DEF FirstOfItsName
  <2>5. First(client, case, SameName) = Called(client, case)
    BY <2>1, <2>2, <2>4, SameFunc
  <2> QED
    BY <1>1, <1>6, <2>5, Zenon DEF ServerFunc, ClientFunc
<1> QED
  BY <1>1, <1>2, <1>3, <1>4, <1>5, <1>6, Zenon

LEMMA ServerIs ==
    ASSUME SidesOf(case, client, server), SameName # {}
    PROVE  /\ IsFunc(ServerFunc)
           /\ Len(ServerFunc.params) \in Nat /\ DOMAIN ServerFunc.params = 1..Len(ServerFunc.params)
           /\ \A i \in 1..Len(ServerFunc.params) : ServerFunc.params[i].type \in InUse
           /\ Outs(ServerFunc) \subseteq 1..Len(ServerFunc.params)
           /\ \A i \in {0} \cup Outs(ServerFunc) :
                /\ TypesOf(ServerFunc)[i] \in InUse
                /\ ResultsOf(ServerFunc, case)[i] \in Values[TypesOf(ServerFunc)[i]]
           /\ TypesOf(ServerFunc)[0] = ServerFunc.ret /\ ResultsOf(ServerFunc, case)[0] = case.ret
           /\ \A i \in Outs(ServerFunc) :
                /\ TypesOf(ServerFunc)[i] = ServerFunc.params[i].type
                /\ ResultsOf(ServerFunc, case)[i] = case.outs[i]
<1>1. PICK g : g = ServerFunc
  OBVIOUS
<1>2. /\ IsFunc(g) /\ case.ret \in Values[g.ret]
      /\ \A i \in Outs(g) : case.outs[i] \in Values[g.params[i].type]
  BY <1>1, FirstIsOf, ZenonT(60) DEF ServerFunc, SameName, ClientFunc
<1>3. /\ Len(g.params) \in Nat /\ DOMAIN g.params = 1..Len(g.params) /\ g.ret \in InUse
      /\ \A i \in 1..Len(g.params) : g.params[i].type \in InUse
      /\ Outs(g) \subseteq 1..Len(g.params)
  BY <1>2, ParamsAre
<1>4. /\ TypesOf(g)[0] = g.ret /\ ResultsOf(g, case)[0] = case.ret
      /\ \A i \in 1..Len(g.params) : /\ TypesOf(g)[i] = g.params[i].type
                                     /\ ResultsOf(g, case)[i] = case.outs[i]
  <2>1. \A i \in 1..Len(g.params) : i # 0
    BY <1>3
  <2> QED
    BY <1>3, <2>1 DEF TypesOf, ResultsOf
<1>5. \A i \in Outs(g) : i \in 1..Len(g.params)
  BY <1>3
<1>6. ASSUME NEW i \in {0} \cup Outs(g)
      PROVE  TypesOf(g)[i] \in InUse /\ ResultsOf(g, case)[i] \in Values[TypesOf(g)[i]]
  <2>1. CASE i = 0
    BY <1>2, <1>3, <1>4, <2>1, Zenon
  <2>2. CASE i \in Outs(g)
    BY <1>2, <1>3, <1>4, <1>5, <2>2, Zenon
  <2> QED
    BY <2>1, <2>2
<1> QED
  BY <1>1, <1>2, <1>3, <1>4, <1>5, <1>6, Zenon

LEMMA FitsAre ==
    ASSUME SidesOf(case, client, server)
    PROVE  /\ ArgsFit => \A m \in Args : Fit(TypesOf(ClientFunc)[m], case.args[m])
           /\ SameName # {} /\ ResultsFit =>
                \A m \in {0} \cup Outs(ServerFunc) :
                    Fit(TypesOf(ServerFunc)[m], ResultsOf(ServerFunc, case)[m])
<1>1. ArgsFit => \A m \in Args : Fit(TypesOf(ClientFunc)[m], case.args[m])
  BY ClientIs, Zenon DEF ArgsFit
<1>2. ASSUME SameName # {}, ResultsFit, NEW m \in {0} \cup Outs(ServerFunc)
      PROVE  Fit(TypesOf(ServerFunc)[m], ResultsOf(ServerFunc, case)[m])
  <2>1. CASE m = 0
    BY <1>2, <2>1, ServerIs, Zenon DEF ResultsFit
  <2>2. CASE m \in Outs(ServerFunc)
    <3>1. m \in DOMAIN ServerFunc.params /\ ServerFunc.params[m].out
      BY <2>2, Zenon DEF Outs
    <3> QED
      BY <1>2, <2>2, <3>1, ServerIs, Zenon DEF ResultsFit
  <2> QED
    BY <2>1, <2>2
<1> QED
  BY <1>1, <1>2, Zenon

LEMMA Keeps ==
    ASSUME UNCHANGED <<case, client, server>>
    PROVE  /\ ClientFunc' = ClientFunc /\ ServerFunc' = ServerFunc /\ SameName' = SameName
           /\ Args' = Args /\ (ArgsFit' <=> ArgsFit) /\ (ResultsFit' <=> ResultsFit)
           /\ (FirstOfItsName' <=> FirstOfItsName) /\ (Blameless' <=> Blameless)
           /\ (SidesOf(case, client, server)' <=> SidesOf(case, client, server))
<1>1. case' = case /\ client' = client /\ server' = server
  OBVIOUS
<1>2. ClientFunc' = ClientFunc /\ Args' = Args
  BY <1>1, Zenon DEF ClientFunc, Called, Args
<1>3. SameName' = SameName
  BY <1>1, <1>2, Zenon DEF SameName, Named
<1>4. ServerFunc' = ServerFunc
  BY <1>1, <1>3, Zenon DEF ServerFunc, First
<1>5. ArgsFit' <=> ArgsFit
  BY <1>1, <1>2, Zenon DEF ArgsFit
<1>6. ResultsFit' <=> ResultsFit
  BY <1>1, <1>4, Zenon DEF ResultsFit
<1>7. FirstOfItsName' <=> FirstOfItsName
  BY <1>1, <1>3, Zenon DEF FirstOfItsName
<1>8. Blameless' <=> Blameless
  BY <1>1, <1>2, <1>5, <1>6, <1>7, Zenon DEF Blameless
<1>9. SidesOf(case, client, server)' <=> SidesOf(case, client, server)
  BY <1>1, Zenon DEF SidesOf
<1> QED
  BY <1>2, <1>3, <1>4, <1>5, <1>6, <1>7, <1>8, <1>9

LEMMA CarriesArrived ==
    ASSUME NEW b, NEW N, NEW ty, NEW va, Carries(b, N, ty, va)
    PROVE  Carries(Arrived(b), N, ty, va)
<1>1. b \in Memory
  BY Zenon DEF Carries
<1>2. Arrived(b) \in Memory /\ Arrived(b).data = b.data
  BY <1>1, ArrivedIs
<1> QED
  BY <1>2, Zenon DEF Carries

LEMMA EmptyList ==
    /\ IsList(<<>>, 0)
    /\ \A g, c : GivenAs(<<>>, 0, g, c)
<1>1. <<>> \in Seq({}) /\ Len(<<>>) = 0 /\ 1..0 = {}
  OBVIOUS
<1> QED
  BY <1>1, Zenon DEF IsList, GivenAs

LEMMA UpToNext ==
    ASSUME NEW n \in Nat
    PROVE  \A i \in 1..n + 1 : i # n + 1 => i \in 1..n
OBVIOUS

Longer(s, n, x) ==
    /\ IsList(Append(s, x), n + 1)
    /\ \A i \in 1..n + 1 : Append(s, x)[i] = IF i = n + 1 THEN x ELSE s[i]

LEMMA LongerList ==
    ASSUME NEW n \in Nat, NEW s, IsList(s, n), NEW x
    PROVE  Longer(s, n, x)
<1>1. PICK S : s \in Seq(S) /\ Len(s) = n
  BY DEF IsList
<1>2. PICK T : T = S \cup {x}
  OBVIOUS
<1>3. s \in Seq(T) /\ x \in T
  BY <1>1, <1>2
<1>4. /\ Append(s, x) \in Seq(T) /\ Len(Append(s, x)) = Len(s) + 1
      /\ \A i \in 1..Len(s) : Append(s, x)[i] = s[i]
      /\ Append(s, x)[Len(s) + 1] = x
  BY <1>3, AppendProperties
<1> QED
  BY <1>1, <1>4, UpToNext, Zenon DEF IsList, Longer
-----------------------------------------------------------------------------
(* Each action preserves it.                                                 *)
LEMMA TranslateInv ==
    ASSUME Inv, Translate
    PROVE  Inv'
<1>1. /\ pc = "translate" /\ at = 1 /\ given = <<>> /\ got = <<>>
      /\ \E i \in DOMAIN Cases : case = Cases[i]
  BY DEF Inv, Translate
<1>2. /\ case' = case /\ at' = 1 /\ given' = <<>> /\ got' = <<>> /\ buf' = NewWith(512, 32)
      /\ client' = Translated(case.client) /\ server' = Translated(case.server)
      /\ pc' = IF case.class \in DOMAIN client'.classes \cap DOMAIN server'.classes
               THEN "write" ELSE "refused"
  BY <1>1 DEF Translate
<1>3. \E i \in DOMAIN Cases : case' = Cases[i]
  BY <1>1, <1>2
<1>4. CASE pc' = "refused"
  BY <1>3, <1>4 DEF Inv
<1>5. CASE pc' = "write"
  <2>1. case.class \in DOMAIN client'.classes \cap DOMAIN server'.classes
    BY <1>2, <1>5
  <2>2. SidesOf(case', client', server')
    BY <1>2, <1>3, <2>1, Zenon DEF SidesOf
  <2>3. buf' \in Memory /\ buf'.data = <<>>
    BY <1>2, NewIs
  <2>4. Carries(buf', {}, TypesOf(ClientFunc'), case'.args)
    BY <2>3, CarriesNone
  <2>5. Len(ClientFunc'.params) \in Nat
    <3>1. SidesOf(case, client, server)'
      BY <2>2
    <3>2. (SidesOf(case, client, server) => Len(ClientFunc.params) \in Nat)'
      BY ClientIs, PTL
    <3> QED
      BY <3>1, <3>2
  <2>6. at' \in 1..Len(ClientFunc'.params) + 1 /\ 1..at' - 1 = {}
    BY <1>2, <2>5
  <2>7. Sending'
    BY <1>2, <2>4, <2>6, ZenonT(60) DEF Sending
  <2> QED
    BY <1>3, <1>5, <2>2, <2>7 DEF Inv
<1> QED
  BY <1>2, <1>4, <1>5

LEMMA ClientWriteInv ==
    ASSUME Inv, ClientWrite
    PROVE  Inv'
<1>1. /\ pc = "write" /\ at <= Len(ClientFunc.params) /\ ~(at > MaxSeq)
      /\ buf' = WriteTo(buf, at, ClientFunc.params[at].type, case.args[at])
      /\ at' = at + 1 /\ pc' = pc /\ given' = given /\ got' = got
      /\ UNCHANGED <<case, client, server>>
  BY DEF ClientWrite, WriteFails
<1>2. SidesOf(case, client, server) /\ Sending /\ \E i \in DOMAIN Cases : case = Cases[i]
  BY <1>1 DEF Inv
<1>3. /\ at \in 1..Len(ClientFunc.params) + 1 /\ given = <<>> /\ got = <<>>
      /\ Carries(buf, 1..at - 1, TypesOf(ClientFunc), case.args)
  BY <1>2, Zenon DEF Sending
<1>4. Len(ClientFunc.params) \in Nat /\ MaxSeq \in 15..127
  BY <1>2, ClientIs, SerialiseAssumption
<1>5. at \in 1..Len(ClientFunc.params) /\ at \in 0..127 /\ at' \in 1..Len(ClientFunc.params) + 1
  BY <1>1, <1>3, <1>4
<1>6. 1..at' - 1 = (1..at - 1) \cup {at}
  BY <1>1, <1>5
<1>7. PICK ty, va : ty = TypesOf(ClientFunc) /\ va = case.args
  OBVIOUS
<1>8. ty[at] = ClientFunc.params[at].type /\ ty[at] \in InUse /\ va[at] \in Values[ty[at]]
  BY <1>2, <1>5, <1>7, ClientIs
<1>9. Carries(buf', 1..at' - 1, ty, va)
  <2>1. Carries(buf, 1..at - 1, ty, va)
    BY <1>3, <1>7, Zenon
  <2>2. Carries(WriteTo(buf, at, ty[at], va[at]), (1..at - 1) \cup {at}, ty, va)
    BY <1>5, <1>8, <2>1, CarriesMore
  <2> QED
    BY <1>1, <1>6, <1>7, <1>8, <2>2, Zenon
<1>10. ClientFunc' = ClientFunc /\ SidesOf(case, client, server)'
  BY <1>1, <1>2, Keeps
<1>11. Sending'
  BY <1>1, <1>3, <1>5, <1>7, <1>9, <1>10, Zenon DEF Sending
<1> QED
  BY <1>1, <1>2, <1>10, <1>11 DEF Inv

LEMMA ClientWriteFailsInv ==
    ASSUME Inv, ClientWriteFails
    PROVE  Inv'
<1>1. /\ pc = "write" /\ at <= Len(ClientFunc.params) /\ at > MaxSeq
      /\ pc' = "thrown" /\ UNCHANGED <<case, client, server>>
  BY DEF ClientWriteFails, WriteFails
<1>2. SidesOf(case, client, server) /\ Sending /\ \E i \in DOMAIN Cases : case = Cases[i]
  BY <1>1 DEF Inv
<1>3. ~(Len(ClientFunc.params) <= MaxSeq)
  <2>1. at \in 1..Len(ClientFunc.params) + 1
    BY <1>2, Zenon DEF Sending
  <2>2. Len(ClientFunc.params) \in Nat /\ MaxSeq \in 15..127
    BY <1>2, ClientIs, SerialiseAssumption
  <2> QED
    BY <1>1, <2>1, <2>2
<1>4. Blameless' /\ SidesOf(case, client, server)'
  BY <1>1, <1>2, <1>3, Keeps, Zenon DEF Blameless
<1> QED
  BY <1>1, <1>2, <1>4 DEF Inv

LEMMA InvolveInv ==
    ASSUME Inv, Involve
    PROVE  Inv'
<1>1. /\ pc = "write" /\ at > Len(ClientFunc.params)
      /\ pc' = (IF SameName = {} THEN "aborted" ELSE "read")
      /\ buf' = Arrived(buf) /\ at' = 1 /\ given' = given /\ got' = got
      /\ UNCHANGED <<case, client, server>>
  BY DEF Involve
<1>2. SidesOf(case, client, server) /\ Sending /\ \E i \in DOMAIN Cases : case = Cases[i]
  BY <1>1 DEF Inv
<1>3. /\ at \in 1..Len(ClientFunc.params) + 1 /\ given = <<>> /\ got = <<>>
      /\ Carries(buf, 1..at - 1, TypesOf(ClientFunc), case.args)
  BY <1>2, Zenon DEF Sending
<1>4. SidesOf(case, client, server)' /\ \E i \in DOMAIN Cases : case' = Cases[i]
  BY <1>1, <1>2, Keeps
<1>5. CASE SameName = {}
  <2>1. ~(client = server)
    BY <1>2, <1>5, ClientIs
  <2>2. Blameless'
    BY <1>1, <2>1, Keeps, Zenon DEF Blameless
  <2> QED
    BY <1>1, <1>4, <1>5, <2>2 DEF Inv
<1>6. CASE SameName # {}
  <2>1. Len(ClientFunc.params) \in Nat /\ Args = 1..Len(ClientFunc.params)
    BY <1>2, ClientIs
  <2>2. 1..at - 1 = Args
    <3>1. at - 1 = Len(ClientFunc.params)
      BY <1>1, <1>3, <2>1
    <3> QED
      BY <2>1, <3>1, Zenon
  <2>3. Carries(buf', Args, TypesOf(ClientFunc), case.args)
    BY <1>1, <1>3, <2>2, CarriesArrived, Zenon
  <2>4. Len(ServerFunc.params) \in Nat
    BY <1>2, <1>6, ServerIs
  <2>5. at' \in 1..Len(ServerFunc.params) + 1 /\ at' - 1 = 0
    BY <1>1, <2>4
  <2>6. IsList(given', 0) /\ GivenAs(given', 0, ServerFunc, case)
    BY <1>1, <1>3, EmptyList, Zenon
  <2>7. /\ ClientFunc' = ClientFunc /\ ServerFunc' = ServerFunc /\ SameName' = SameName
        /\ Args' = Args /\ case' = case
    BY <1>1, Keeps
  <2>8. Receiving'
    BY <1>1, <1>3, <1>6, <2>3, <2>5, <2>6, <2>7, Zenon DEF Receiving
  <2> QED
    BY <1>1, <1>4, <1>6, <2>8 DEF Inv
<1> QED
  BY <1>5, <1>6

LEMMA ServerReadInv ==
    ASSUME Inv, ServerRead
    PROVE  Inv'
<1>1. /\ pc = "read" /\ at <= Len(ServerFunc.params) /\ at' = at + 1
      /\ buf' = buf /\ got' = got /\ UNCHANGED <<case, client, server>>
  BY DEF ServerRead
<1>2. SidesOf(case, client, server) /\ Receiving /\ \E i \in DOMAIN Cases : case = Cases[i]
  BY <1>1 DEF Inv
<1>3. /\ at \in 1..Len(ServerFunc.params) + 1 /\ SameName # {} /\ got = <<>>
      /\ Carries(buf, Args, TypesOf(ClientFunc), case.args)
      /\ IsList(given, at - 1)
      /\ ArgsFit => GivenAs(given, at - 1, ServerFunc, case)
  BY <1>2, Zenon DEF Receiving
<1>4. /\ Len(ServerFunc.params) \in Nat
      /\ \A i \in 1..Len(ServerFunc.params) : ServerFunc.params[i].type \in InUse
  BY <1>2, <1>3, ServerIs
<1>5. PICK n \in Nat : n = at - 1 /\ n + 1 = at /\ n + 1 = at' - 1
                     /\ at \in 1..Len(ServerFunc.params) /\ at' \in 1..Len(ServerFunc.params) + 1
                     /\ at \in Nat
  BY <1>1, <1>3, <1>4
<1>6. PICK t \in InUse : t = ServerFunc.params[at].type
  BY <1>4, <1>5
<1>7. PICK r : r = ReadFrom(buf, at, t)
  OBVIOUS
<1>8. /\ pc' = (IF r = Thrown THEN "aborted" ELSE "read")
      /\ given' = IF r = Thrown THEN given
                  ELSE Append(given, IF r = Absent THEN Unread(t) ELSE r.value)
  BY <1>6, <1>7 DEF ServerRead
<1>9. SidesOf(case, client, server)' /\ \E i \in DOMAIN Cases : case' = Cases[i]
  BY <1>1, <1>2, Keeps
<1>10. ASSUME ArgsFit
       PROVE  /\ at \notin Args => r = Absent
              /\ at \in Args => \/ r = Thrown /\ t # TypesOf(ClientFunc)[at]
                                \/ \E pos \in Nat : r = Read1(pos, case.args[at])
  <2>1. \A m \in Args : Fit(TypesOf(ClientFunc)[m], case.args[m])
    BY <1>2, <1>10, FitsAre
  <2> QED
    BY <1>3, <1>5, <1>7, <2>1, ReadFromIs
<1>11. CASE r = Thrown
  <2>1. SUFFICES ASSUME client = server, FirstOfItsName, ArgsFit PROVE FALSE
    <3>1. Blameless
      BY <2>1, Zenon DEF Blameless
    <3>2. Blameless'
      BY <1>1, <3>1, Keeps
    <3> QED
      BY <1>8, <1>9, <1>11, <3>2 DEF Inv
  <2>2. ServerFunc = ClientFunc
    BY <1>2, <2>1, ClientIs
  <2>3. at \in Args /\ t = TypesOf(ClientFunc)[at]
    BY <1>2, <1>5, <1>6, <2>2, ClientIs
  <2>4. \E pos \in Nat : r = Read1(pos, case.args[at])
    BY <1>10, <2>1, <2>3
  <2> QED
    BY <1>11, <2>4 DEF Read1, Thrown
<1>12. CASE r # Thrown
  <2>1. PICK x : x = IF r = Absent THEN Unread(t) ELSE r.value
    OBVIOUS
  <2>2. given' = Append(given, x) /\ pc' = "read"
    BY <1>8, <1>12, <2>1
  <2>3. IsList(given', n + 1) /\ \A i \in 1..n + 1 : given'[i] = IF i = n + 1 THEN x ELSE given[i]
    <3>1. IsList(given, n)
      BY <1>3, <1>5, Zenon
    <3>2. Longer(given, n, x)
      BY <3>1, LongerList, Zenon
    <3> QED
      BY <2>2, <3>2, Zenon DEF Longer
  <2>4. ASSUME ArgsFit PROVE GivenAs(given', n + 1, ServerFunc, case)
    <3>1. x = IF at \in Args THEN case.args[at] ELSE Unread(t)
      <4>1. CASE at \in Args
        <5>1. PICK pos \in Nat : r = Read1(pos, case.args[at])
          BY <1>10, <1>12, <2>4, <4>1
        <5>2. r # Absent /\ r.value = case.args[at]
          BY <5>1 DEF Read1, Absent
        <5> QED
          BY <2>1, <4>1, <5>2
      <4>2. CASE at \notin Args
        BY <1>10, <2>1, <2>4, <4>2
      <4> QED
        BY <4>1, <4>2
    <3>2. \A i \in 1..n : given[i] = IF i \in DOMAIN case.args THEN case.args[i]
                                     ELSE Unread(ServerFunc.params[i].type)
      BY <1>3, <1>5, <2>4, Zenon DEF GivenAs
    <3> QED
      BY <1>5, <1>6, <2>3, <3>1, <3>2, UpToNext, ZenonT(60) DEF GivenAs, Args
  <2>5. /\ ClientFunc' = ClientFunc /\ ServerFunc' = ServerFunc /\ SameName' = SameName
        /\ Args' = Args /\ case' = case /\ (ArgsFit' <=> ArgsFit)
    BY <1>1, Keeps
  <2>6. Receiving'
    BY <1>1, <1>3, <1>5, <2>3, <2>4, <2>5, Zenon DEF Receiving
  <2> QED
    BY <1>9, <2>2, <2>6 DEF Inv
<1> QED
  BY <1>11, <1>12

LEMMA BelowNone ==
    ASSUME NEW f, Outs(f) \subseteq Nat
    PROVE  Below(f, 0) = {}
BY DEF Below

LEMMA BelowNext ==
    ASSUME NEW f, Outs(f) \subseteq Nat, NEW n \in Nat
    PROVE  Below(f, n + 1) = IF n = 0 \/ n \in Outs(f) THEN Below(f, n) \cup {n} ELSE Below(f, n)
BY DEF Below

LEMMA BelowAll ==
    ASSUME NEW f, NEW n \in Nat, Outs(f) \subseteq 1..n
    PROVE  Below(f, n + 1) = {0} \cup Outs(f)
BY DEF Below

LEMMA ServerCallInv ==
    ASSUME Inv, ServerCall
    PROVE  Inv'
<1>1. /\ pc = "read" /\ at > Len(ServerFunc.params) /\ at' = 0 /\ buf' = NewBuffer
      /\ pc' = (IF case.servant = "missing" THEN "aborted" ELSE "answer")
      /\ given' = given /\ got' = got /\ UNCHANGED <<case, client, server>>
  BY DEF ServerCall
<1>2. SidesOf(case, client, server) /\ Receiving /\ \E i \in DOMAIN Cases : case = Cases[i]
  BY <1>1 DEF Inv
<1>3. /\ at \in 1..Len(ServerFunc.params) + 1 /\ SameName # {} /\ got = <<>>
      /\ IsList(given, at - 1)
      /\ ArgsFit => GivenAs(given, at - 1, ServerFunc, case)
  BY <1>2, Zenon DEF Receiving
<1>4. SidesOf(case, client, server)' /\ \E i \in DOMAIN Cases : case' = Cases[i]
  BY <1>1, <1>2, Keeps
<1>5. CASE case.servant = "missing"
  <2>1. Blameless'
    BY <1>1, <1>5, Keeps, Zenon DEF Blameless
  <2> QED
    BY <1>1, <1>4, <1>5, <2>1 DEF Inv
<1>6. CASE case.servant # "missing"
  <2>1. Len(ServerFunc.params) \in Nat /\ Outs(ServerFunc) \subseteq 1..Len(ServerFunc.params)
    BY <1>2, <1>3, ServerIs
  <2>2. at - 1 = Len(ServerFunc.params)
    BY <1>1, <1>3, <2>1
  <2>3. Below(ServerFunc, at') = {}
    <3>1. Outs(ServerFunc) \subseteq Nat
      BY <2>1
    <3> QED
      BY <1>1, <3>1, BelowNone, Zenon
  <2>4. buf' \in Memory /\ buf'.data = <<>>
    BY <1>1, BufferAssumption, NewIs DEF NewBuffer
  <2>5. Carries(buf', Below(ServerFunc, at'), TypesOf(ServerFunc), ResultsOf(ServerFunc, case))
    BY <2>3, <2>4, CarriesNone, Zenon
  <2>6. at' \in 0..Len(ServerFunc.params) + 1
    BY <1>1, <2>1
  <2>7. /\ ServerFunc' = ServerFunc /\ SameName' = SameName
        /\ case' = case /\ (ArgsFit' <=> ArgsFit)
    BY <1>1, Keeps
  <2>8. Answering'
    BY <1>1, <1>3, <2>2, <2>5, <2>6, <2>7, Zenon DEF Answering
  <2> QED
    BY <1>1, <1>4, <1>6, <2>8 DEF Inv
<1> QED
  BY <1>5, <1>6

(* What a number of the answer is, of the server's function.                 *)
LEMMA Returned ==
    ASSUME SidesOf(case, client, server), SameName # {}, NEW m, m = 0 \/ m \in Outs(ServerFunc)
    PROVE  /\ TypesOf(ServerFunc)[m] \in InUse
           /\ ResultsOf(ServerFunc, case)[m] \in Values[TypesOf(ServerFunc)[m]]
           /\ TypesOf(ServerFunc)[m] = IF m = 0 THEN ServerFunc.ret ELSE ServerFunc.params[m].type
           /\ ResultsOf(ServerFunc, case)[m] = IF m = 0 THEN case.ret ELSE case.outs[m]
<1>1. m \in {0} \cup Outs(ServerFunc)
  OBVIOUS
<1>2. m # 0 => m \in Outs(ServerFunc)
  OBVIOUS
<1>3. /\ TypesOf(ServerFunc)[0] = ServerFunc.ret /\ ResultsOf(ServerFunc, case)[0] = case.ret
      /\ \A i \in Outs(ServerFunc) : /\ TypesOf(ServerFunc)[i] = ServerFunc.params[i].type
                                     /\ ResultsOf(ServerFunc, case)[i] = case.outs[i]
      /\ \A i \in {0} \cup Outs(ServerFunc) :
                /\ TypesOf(ServerFunc)[i] \in InUse
                /\ ResultsOf(ServerFunc, case)[i] \in Values[TypesOf(ServerFunc)[i]]
  BY ServerIs
<1> QED
  BY <1>1, <1>2, <1>3, Zenon

LEMMA ServerWriteInv ==
    ASSUME Inv, ServerWrite
    PROVE  Inv'
<1>1. /\ pc = "answer" /\ at <= Len(ServerFunc.params) /\ at' = at + 1
      /\ pc' = (IF at \in Outs(ServerFunc) /\ WriteFails(at) THEN "aborted" ELSE "answer")
      /\ buf' = (IF at = 0 THEN WriteTo(buf, 0, ServerFunc.ret, case.ret)
                 ELSE IF at \in Outs(ServerFunc) /\ ~WriteFails(at)
                 THEN WriteTo(buf, at, ServerFunc.params[at].type, case.outs[at])
                 ELSE buf)
      /\ given' = given /\ got' = got /\ UNCHANGED <<case, client, server>>
  BY DEF ServerWrite
<1>2. SidesOf(case, client, server) /\ Answering /\ \E i \in DOMAIN Cases : case = Cases[i]
  BY <1>1 DEF Inv
<1>3. /\ at \in 0..Len(ServerFunc.params) + 1 /\ SameName # {} /\ got = <<>>
      /\ Carries(buf, Below(ServerFunc, at), TypesOf(ServerFunc), ResultsOf(ServerFunc, case))
      /\ IsList(given, Len(ServerFunc.params))
      /\ ArgsFit => GivenAs(given, Len(ServerFunc.params), ServerFunc, case)
  BY <1>2, Zenon DEF Answering
<1>4. SidesOf(case, client, server)' /\ \E i \in DOMAIN Cases : case' = Cases[i]
  BY <1>1, <1>2, Keeps
<1>5. Len(ServerFunc.params) \in Nat /\ Outs(ServerFunc) \subseteq 1..Len(ServerFunc.params)
  BY <1>2, <1>3, ServerIs
<1>6. at \in Nat /\ at' \in 0..Len(ServerFunc.params) + 1 /\ Outs(ServerFunc) \subseteq Nat
  BY <1>1, <1>3, <1>5
<1>7. CASE at \in Outs(ServerFunc) /\ WriteFails(at)
  <2>1. SUFFICES ASSUME client = server, FirstOfItsName, Len(ClientFunc.params) <= MaxSeq
                 PROVE  FALSE
    <3>1. Blameless
      BY <2>1, Zenon DEF Blameless
    <3>2. Blameless'
      BY <1>1, <3>1, Keeps
    <3> QED
      BY <1>1, <1>4, <1>7, <3>2 DEF Inv
  <2>2. ServerFunc = ClientFunc
    BY <1>2, <2>1, ClientIs
  <2>3. Len(ServerFunc.params) <= MaxSeq
    BY <2>1, <2>2, Zenon
  <2> QED
    BY <1>1, <1>5, <1>6, <1>7, <2>3, SerialiseAssumption DEF WriteFails
<1>8. CASE ~(at \in Outs(ServerFunc) /\ WriteFails(at))
  <2>1. Carries(buf', Below(ServerFunc, at + 1), TypesOf(ServerFunc), ResultsOf(ServerFunc, case))
    <3>1. CASE at = 0 \/ at \in Outs(ServerFunc)
      <4>1. PICK ty, va : ty = TypesOf(ServerFunc) /\ va = ResultsOf(ServerFunc, case)
        OBVIOUS
      <4>2. /\ ty[at] \in InUse /\ va[at] \in Values[ty[at]]
            /\ ty[at] = IF at = 0 THEN ServerFunc.ret ELSE ServerFunc.params[at].type
            /\ va[at] = IF at = 0 THEN case.ret ELSE case.outs[at]
        BY <1>2, <1>3, <3>1, <4>1, Returned, Zenon
      <4>3. buf' = WriteTo(buf, at, ty[at], va[at])
        BY <1>1, <1>8, <3>1, <4>2, Zenon
      <4>4. at \in 0..127
        <5>1. at = 0 \/ ~(at > MaxSeq)
          BY <1>8, <3>1, Zenon DEF WriteFails
        <5> QED
          BY <1>6, <5>1, SerialiseAssumption
      <4>5. Carries(buf, Below(ServerFunc, at), ty, va)
        BY <1>3, <4>1, Zenon
      <4>6. Carries(buf', Below(ServerFunc, at) \cup {at}, ty, va)
        BY <4>2, <4>3, <4>4, <4>5, CarriesMore, Zenon
      <4>7. Below(ServerFunc, at + 1) = Below(ServerFunc, at) \cup {at}
        BY <1>6, <3>1, BelowNext, Zenon
      <4> QED
        BY <4>1, <4>6, <4>7, Zenon
    <3>2. CASE ~(at = 0 \/ at \in Outs(ServerFunc))
      <4>1. Below(ServerFunc, at + 1) = Below(ServerFunc, at) /\ buf' = buf
        BY <1>1, <1>6, <3>2, BelowNext, Zenon
      <4> QED
        BY <1>3, <4>1, Zenon
    <3> QED
      BY <3>1, <3>2
  <2>2. /\ ServerFunc' = ServerFunc /\ SameName' = SameName
        /\ case' = case /\ (ArgsFit' <=> ArgsFit)
    BY <1>1, Keeps
  <2>3. Answering'
    BY <1>1, <1>3, <1>6, <2>1, <2>2, Zenon DEF Answering
  <2> QED
    BY <1>1, <1>4, <1>8, <2>3 DEF Inv
<1> QED
  BY <1>7, <1>8

LEMMA ServerReturnInv ==
    ASSUME Inv, ServerReturn
    PROVE  Inv'
<1>1. /\ pc = "answer" /\ at > Len(ServerFunc.params) /\ at' = 0 /\ pc' = "return"
      /\ buf' = Arrived(buf)
      /\ given' = given /\ got' = got /\ UNCHANGED <<case, client, server>>
  BY DEF ServerReturn
<1>2. SidesOf(case, client, server) /\ Answering /\ \E i \in DOMAIN Cases : case = Cases[i]
  BY <1>1 DEF Inv
<1>3. /\ at \in 0..Len(ServerFunc.params) + 1 /\ SameName # {} /\ got = <<>>
      /\ Carries(buf, Below(ServerFunc, at), TypesOf(ServerFunc), ResultsOf(ServerFunc, case))
  BY <1>2, Zenon DEF Answering
<1>4. SidesOf(case, client, server)' /\ \E i \in DOMAIN Cases : case' = Cases[i]
  BY <1>1, <1>2, Keeps
<1>5. Len(ServerFunc.params) \in Nat /\ Outs(ServerFunc) \subseteq 1..Len(ServerFunc.params)
  BY <1>2, <1>3, ServerIs
<1>6. at = Len(ServerFunc.params) + 1
  BY <1>1, <1>3, <1>5
<1>7. Below(ServerFunc, at) = {0} \cup Outs(ServerFunc)
  BY <1>5, <1>6, BelowAll, Zenon
<1>8. Carries(buf', {0} \cup Outs(ServerFunc), TypesOf(ServerFunc), ResultsOf(ServerFunc, case))
  BY <1>1, <1>3, <1>7, CarriesArrived, Zenon
<1>9. Len(ClientFunc.params) \in Nat /\ Outs(ClientFunc) \subseteq Nat
  BY <1>2, ClientIs
<1>10. at' \in 0..Len(ClientFunc.params) + 1
  BY <1>1, <1>9
<1>11. GotAs(got, at', ClientFunc, ServerFunc, case)
  <2>1. Below(ClientFunc, 0) = {}
    BY <1>9, BelowNone, Zenon
  <2>2. got = [i \in {} |-> IF i = 0 THEN case.ret ELSE IF i \in Outs(ServerFunc) THEN case.outs[i]
                            ELSE case.args[i]]
    BY <1>3
  <2> QED
    BY <1>1, <2>1, <2>2, Zenon DEF GotAs
<1>12. /\ ServerFunc' = ServerFunc /\ ClientFunc' = ClientFunc /\ SameName' = SameName
       /\ case' = case /\ (ResultsFit' <=> ResultsFit)
  BY <1>1, Keeps
<1>13. Returning'
  BY <1>1, <1>3, <1>8, <1>10, <1>11, <1>12, Zenon DEF Returning
<1> QED
  BY <1>1, <1>4, <1>13 DEF Inv

(* The value under the next number.                                          *)
With(r, n, x) == [i \in DOMAIN r \cup {n} |-> IF i # n THEN r[i] ELSE x]

LEMMA OneMoreGot ==
    ASSUME NEW r, NEW n \in Nat, NEW f, NEW g, NEW c, Outs(f) \subseteq Nat, GotAs(r, n, f, g, c)
    PROVE  /\ n = 0 \/ n \in Outs(f) =>
                \A x : x = (IF n = 0 THEN c.ret ELSE IF n \in Outs(g) THEN c.outs[n] ELSE c.args[n])
                   => GotAs(With(r, n, x), n + 1, f, g, c)
           /\ ~(n = 0 \/ n \in Outs(f)) => GotAs(r, n + 1, f, g, c)
<1>1. PICK B : B = Below(f, n)
  OBVIOUS
<1>2. Below(f, n + 1) = IF n = 0 \/ n \in Outs(f) THEN B \cup {n} ELSE B
  BY <1>1, BelowNext, Zenon
<1>3. PICK F : F = [i \in B \cup {n} |-> IF i = 0 THEN c.ret ELSE IF i \in Outs(g) THEN c.outs[i]
                                         ELSE c.args[i]]
  OBVIOUS
<1>4. DOMAIN r = B /\ \A i \in B : r[i] = F[i]
  BY <1>1, <1>3 DEF GotAs
<1>5. ASSUME n = 0 \/ n \in Outs(f),
             NEW x, x = IF n = 0 THEN c.ret ELSE IF n \in Outs(g) THEN c.outs[n] ELSE c.args[n]
      PROVE  GotAs(With(r, n, x), n + 1, f, g, c)
  <2>1. F[n] = x
    BY <1>3, <1>5
  <2>2. With(r, n, x) = [i \in B \cup {n} |-> IF i # n THEN r[i] ELSE x]
    BY <1>4 DEF With
  <2>3. \A i \in B \cup {n} : (IF i # n THEN r[i] ELSE x) = F[i]
    BY <1>4, <2>1
  <2>4. [i \in B \cup {n} |-> IF i # n THEN r[i] ELSE x] = [i \in B \cup {n} |-> F[i]]
    BY <2>3
  <2>5. [i \in B \cup {n} |-> F[i]] = F
    BY <1>3
  <2> QED
    BY <1>2, <1>3, <1>5, <2>2, <2>4, <2>5, Zenon DEF GotAs
<1>6. ~(n = 0 \/ n \in Outs(f)) => GotAs(r, n + 1, f, g, c)
  BY <1>1, <1>2, Zenon DEF GotAs
<1> QED
  BY <1>5, <1>6, Zenon

LEMMA ClientReadInv ==
    ASSUME Inv, ClientRead
    PROVE  Inv'
<1>1. PICK t : t = IF at = 0 THEN ClientFunc.ret ELSE ClientFunc.params[at].type
  OBVIOUS
<1>2. PICK r : r = ReadFrom(buf, at, t)
  OBVIOUS
<1>3. PICK had : had = IF at = 0 THEN Unread(t) ELSE case.args[at]
  OBVIOUS
<1>4. /\ pc = "return" /\ at <= Len(ClientFunc.params) /\ at' = at + 1
      /\ buf' = buf /\ given' = given /\ UNCHANGED <<case, client, server>>
      /\ IF at = 0 \/ at \in Outs(ClientFunc)
         THEN /\ pc' = IF r = Thrown THEN "thrown" ELSE "return"
              /\ got' = IF r = Thrown THEN got
                        ELSE [i \in DOMAIN got \cup {at} |->
                          IF i # at THEN got[i] ELSE IF r = Absent THEN had ELSE r.value]
         ELSE pc' = pc /\ got' = got
  BY <1>1, <1>2, <1>3 DEF ClientRead
<1>5. SidesOf(case, client, server) /\ Returning /\ \E i \in DOMAIN Cases : case = Cases[i]
  BY <1>4 DEF Inv
<1>6. /\ at \in 0..Len(ClientFunc.params) + 1 /\ SameName # {}
      /\ Carries(buf, {0} \cup Outs(ServerFunc), TypesOf(ServerFunc), ResultsOf(ServerFunc, case))
      /\ ResultsFit => GotAs(got, at, ClientFunc, ServerFunc, case)
  BY <1>5, Zenon DEF Returning
<1>7. SidesOf(case, client, server)' /\ \E i \in DOMAIN Cases : case' = Cases[i]
  BY <1>4, <1>5, Keeps
<1>8. Len(ClientFunc.params) \in Nat /\ Outs(ClientFunc) \subseteq 1..Len(ClientFunc.params)
  BY <1>5, ClientIs
<1>9. at \in Nat /\ at' \in 0..Len(ClientFunc.params) + 1 /\ Outs(ClientFunc) \subseteq Nat
  BY <1>4, <1>6, <1>8
<1>10. /\ ServerFunc' = ServerFunc /\ ClientFunc' = ClientFunc /\ SameName' = SameName
       /\ case' = case /\ (ResultsFit' <=> ResultsFit)
  BY <1>4, Keeps
<1>11. CASE ~(at = 0 \/ at \in Outs(ClientFunc))
  <2>1. pc' = "return" /\ got' = got
    BY <1>4, <1>11
  <2>2. ResultsFit => GotAs(got', at + 1, ClientFunc, ServerFunc, case)
    BY <1>6, <1>9, <1>11, <2>1, OneMoreGot, Zenon
  <2>3. Returning'
    BY <1>4, <1>6, <1>9, <1>10, <2>2, Zenon DEF Returning
  <2> QED
    BY <1>7, <2>1, <2>3 DEF Inv
<1>12. CASE at = 0 \/ at \in Outs(ClientFunc)
  <2>1. t \in InUse
    <3>1. at # 0 => at \in 1..Len(ClientFunc.params)
      BY <1>8, <1>12
    <3>2. /\ ClientFunc.ret \in InUse
          /\ \A i \in 1..Len(ClientFunc.params) : ClientFunc.params[i].type \in InUse
      BY <1>5, ClientIs, ParamsAre
    <3> QED
      BY <1>1, <3>1, <3>2, Zenon
  <2>2. ASSUME ResultsFit
        PROVE  /\ at \notin {0} \cup Outs(ServerFunc) => r = Absent
               /\ at \in {0} \cup Outs(ServerFunc) =>
                    \/ r = Thrown /\ t # TypesOf(ServerFunc)[at]
                    \/ \E pos \in Nat : r = Read1(pos, ResultsOf(ServerFunc, case)[at])
    <3>1. \A m \in {0} \cup Outs(ServerFunc) :
                Fit(TypesOf(ServerFunc)[m], ResultsOf(ServerFunc, case)[m])
      BY <1>5, <1>6, <2>2, FitsAre
    <3>2. Carries(buf, {0} \cup Outs(ServerFunc), TypesOf(ServerFunc), ResultsOf(ServerFunc, case))
      BY <1>6
    <3>3. PICK N, ty, va : /\ N = {0} \cup Outs(ServerFunc) /\ ty = TypesOf(ServerFunc)
                           /\ va = ResultsOf(ServerFunc, case)
      OBVIOUS
    <3>4. /\ at \notin N => ReadFrom(buf, at, t) = Absent
          /\ at \in N => \/ ReadFrom(buf, at, t) = Thrown /\ t # ty[at]
                        \/ \E pos \in Nat : ReadFrom(buf, at, t) = Read1(pos, va[at])
      <4>1. Carries(buf, N, ty, va) /\ \A m \in N : Fit(ty[m], va[m])
        BY <3>1, <3>2, <3>3, Zenon
      <4> QED
        BY <1>9, <2>1, <4>1, ReadFromIs
    <3> QED
      BY <1>2, <3>3, <3>4, Zenon
  <2>3. CASE r = Thrown
    <3>1. SUFFICES ASSUME client = server, FirstOfItsName, ResultsFit PROVE FALSE
      <4>1. Blameless
        BY <3>1, Zenon DEF Blameless
      <4>2. Blameless'
        BY <1>4, <4>1, Keeps
      <4>3. pc' = "thrown"
        BY <1>4, <1>12, <2>3
      <4> QED
        BY <1>7, <4>2, <4>3 DEF Inv
    <3>2. ServerFunc = ClientFunc
      BY <1>5, <3>1, ClientIs
    <3>3. at = 0 \/ at \in Outs(ServerFunc)
      BY <1>12, <3>2, Zenon
    <3>4. t = TypesOf(ServerFunc)[at]
      BY <1>1, <1>5, <1>6, <3>2, <3>3, Returned, Zenon
    <3>5. \E pos \in Nat : r = Read1(pos, ResultsOf(ServerFunc, case)[at])
      BY <2>2, <3>1, <3>3, <3>4
    <3> QED
      BY <2>3, <3>5 DEF Read1, Thrown
  <2>4. CASE r # Thrown
    <3>1. PICK x : x = IF r = Absent THEN had ELSE r.value
      OBVIOUS
    <3>2. pc' = "return"
          /\ got' = With(got, at, x)
      BY <1>4, <1>12, <2>4, <3>1 DEF With
    <3>3. ASSUME ResultsFit PROVE GotAs(got', at + 1, ClientFunc, ServerFunc, case)
      <4>1. x = IF at = 0 THEN case.ret
                ELSE IF at \in Outs(ServerFunc) THEN case.outs[at] ELSE case.args[at]
        <5>1. CASE at = 0 \/ at \in Outs(ServerFunc)
          <6>1. PICK pos \in Nat : r = Read1(pos, ResultsOf(ServerFunc, case)[at])
            BY <2>2, <2>4, <3>3, <5>1
          <6>2. r # Absent /\ r.value = ResultsOf(ServerFunc, case)[at]
            BY <6>1 DEF Read1, Absent
          <6>3. ResultsOf(ServerFunc, case)[at] = IF at = 0 THEN case.ret ELSE case.outs[at]
            BY <1>5, <1>6, <5>1, Returned, Zenon
          <6> QED
            BY <3>1, <5>1, <6>2, <6>3, Zenon
        <5>2. CASE ~(at = 0 \/ at \in Outs(ServerFunc))
          <6>1. r = Absent
            BY <2>2, <3>3, <5>2
          <6> QED
            BY <1>3, <3>1, <5>2, <6>1, Zenon
        <5> QED
          BY <5>1, <5>2
      <4>2. GotAs(got, at, ClientFunc, ServerFunc, case)
        BY <1>6, <3>3
      <4> QED
        BY <1>9, <1>12, <3>2, <4>1, <4>2, OneMoreGot, Zenon
    <3>4. Returning'
      BY <1>4, <1>6, <1>9, <1>10, <3>3, Zenon DEF Returning
    <3> QED
      BY <1>7, <3>2, <3>4 DEF Inv
  <2> QED
    BY <2>3, <2>4
<1> QED
  BY <1>11, <1>12

LEMMA ClientReturnInv ==
    ASSUME Inv, ClientReturn
    PROVE  Inv'
<1>1. /\ pc = "return" /\ at > Len(ClientFunc.params) /\ pc' = "done" /\ got' = got
      /\ UNCHANGED <<case, client, server>>
  BY DEF ClientReturn
<1>2. SidesOf(case, client, server) /\ Returning /\ \E i \in DOMAIN Cases : case = Cases[i]
  BY <1>1 DEF Inv
<1>3. /\ at \in 0..Len(ClientFunc.params) + 1
      /\ ResultsFit => GotAs(got, at, ClientFunc, ServerFunc, case)
  BY <1>2, Zenon DEF Returning
<1>4. at = Len(ClientFunc.params) + 1
  <2>1. Len(ClientFunc.params) \in Nat
    BY <1>2, ClientIs
  <2> QED
    BY <1>1, <1>3, <2>1
<1>5. SidesOf(case, client, server)' /\ \E i \in DOMAIN Cases : case' = Cases[i]
  BY <1>1, <1>2, Keeps
<1>6. /\ ServerFunc' = ServerFunc /\ ClientFunc' = ClientFunc
      /\ case' = case /\ (ResultsFit' <=> ResultsFit)
  BY <1>1, Keeps
<1>7. (ResultsFit => GotAs(got, Len(ClientFunc.params) + 1, ClientFunc, ServerFunc, case))'
  BY <1>1, <1>3, <1>4, <1>6, Zenon
<1> QED
  BY <1>1, <1>5, <1>7 DEF Inv

LEMMA StutterInv ==
    ASSUME Inv, UNCHANGED vars
    PROVE  Inv'
<1>1. /\ case' = case /\ pc' = pc /\ client' = client /\ server' = server
      /\ at' = at /\ buf' = buf /\ given' = given /\ got' = got
  BY DEF vars
<1>2. /\ ServerFunc' = ServerFunc /\ ClientFunc' = ClientFunc /\ SameName' = SameName
      /\ Args' = Args /\ (ArgsFit' <=> ArgsFit) /\ (ResultsFit' <=> ResultsFit)
      /\ (Blameless' <=> Blameless)
      /\ (SidesOf(case, client, server)' <=> SidesOf(case, client, server))
  BY <1>1, Keeps
<1>3. /\ (Sending' <=> Sending) /\ (Receiving' <=> Receiving)
      /\ (Answering' <=> Answering) /\ (Returning' <=> Returning)
  BY <1>1, <1>2, Zenon DEF Sending, Receiving, Answering, Returning
<1> QED
  BY <1>1, <1>2, <1>3, Zenon DEF Inv

LEMMA Inductive == Spec => []Inv
<1>1. Inv /\ [Next]_vars => Inv'
  <2> SUFFICES ASSUME Inv, [Next]_vars PROVE Inv'
    OBVIOUS
  <2> QED
    BY TranslateInv, ClientWriteInv, ClientWriteFailsInv, InvolveInv, ServerReadInv, ServerCallInv,
       ServerWriteInv, ServerReturnInv, ClientReadInv, ClientReturnInv, StutterInv, Zenon DEF Next
<1> QED
  BY InitInv, <1>1, PTL DEF Spec
-----------------------------------------------------------------------------
(* What the handler of the server passes to the function of the user is what *)
(* the caller passed to the proxy, under the same number and of the same     *)
(* type, or what the parameter was declared with: for all interfaces of the  *)
(* two sides, all types and all values whose sizes fit their heads.          *)
THEOREM ArgumentsAlwaysArrive == Spec => []ArgumentsArrive
<1>1. Inv => ArgumentsArrive
  <2> SUFFICES ASSUME Inv, pc = "answer", ArgsFit
               PROVE  \A i \in DOMAIN given : given[i] = IF i \in Args THEN case.args[i]
                                                         ELSE Unread(ServerFunc.params[i].type)
    BY DEF ArgumentsArrive
  <2>1. /\ IsList(given, Len(ServerFunc.params))
        /\ GivenAs(given, Len(ServerFunc.params), ServerFunc, case)
    BY Zenon DEF Inv, Answering
  <2>2. PICK n : n = Len(ServerFunc.params)
    OBVIOUS
  <2>3. DOMAIN given = 1..n
    BY <2>1, <2>2 DEF IsList
  <2> QED
    BY <2>1, <2>2, <2>3, Zenon DEF GivenAs, Args
<1> QED
  BY <1>1, Inductive, PTL

(* The proxy gives the caller what the function returned and what it left in *)
(* its out parameters, each at its place, and leaves a parameter that the    *)
(* server's version does not return as the caller had it.                    *)
THEOREM ResultsAlwaysArrive == Spec => []ResultsArrive
<1>1. Inv => ResultsArrive
  <2> SUFFICES ASSUME Inv, pc = "done", ResultsFit PROVE ResultsArrive
    BY DEF ResultsArrive
  <2>1. /\ GotAs(got, Len(ClientFunc.params) + 1, ClientFunc, ServerFunc, case)
        /\ SidesOf(case, client, server)
    BY Zenon DEF Inv
  <2>2. Len(ClientFunc.params) \in Nat /\ Outs(ClientFunc) \subseteq 1..Len(ClientFunc.params)
    BY <2>1, ClientIs
  <2>3. Below(ClientFunc, Len(ClientFunc.params) + 1) = {0} \cup Outs(ClientFunc)
    BY <2>2, BelowAll, Zenon
  <2>4. got = [i \in {0} \cup Outs(ClientFunc) |->
                 IF i = 0 THEN case.ret
                 ELSE IF i \in Outs(ServerFunc) THEN case.outs[i] ELSE case.args[i]]
    BY <2>1, <2>3, Zenon DEF GotAs
  <2> QED
    BY <2>4, Zenon DEF ResultsArrive, Outs
<1> QED
  BY <1>1, Inductive, PTL

(* A call between two sides of one interface ends in an exception, at the    *)
(* proxy or in the server, only if the user has not written the function, an *)
(* earlier function has its name, or it has a parameter beyond MaxSeq.       *)
THEOREM SoundCallsAlwaysSucceed == Spec => []SoundCallsSucceed
<1>1. Inv => SoundCallsSucceed
  BY Zenon DEF Inv, Blameless, SoundCallsSucceed
<1> QED
  BY <1>1, Inductive, PTL
==============================================================================
