--------------------------- MODULE Framing_proofs ---------------------------
(* The theorems of Framing.                                                  *)
EXTENDS Framing, SequenceTheorems, WellFoundedInduction, TLAPS

(* Integers as bytes.                                                        *)
LEMMA BytesTyped ==
    ASSUME NEW width \in {1, 2, 4}, NEW v \in Int
    PROVE  BytesOf(width, v) \in Seq(Byte) /\ Len(BytesOf(width, v)) = width
<1>1. ASSUME NEW i \in 1..width PROVE BytesOf(width, v)[i] \in Byte
  <2>1. BytesOf(width, v)[i] = (v \div Weight[width - i + 1]) % 256
    BY SMT DEF BytesOf
  <2>2. Weight[width - i + 1] \in {1, 256, 65536, 16777216}
    BY SMT DEF Weight
  <2> QED
    BY <2>1, <2>2, SMT DEF Byte
<1>2. BytesOf(width, v) \in [1..width -> Byte]
  BY <1>1, SMT DEF BytesOf
<1> QED
  BY <1>2, SMT

(* The bytes of an integer one by one, of 4 and of fewer.                    *)
LEMMA BytesAre ==
    ASSUME NEW v \in Int
    PROVE  /\ BytesOf(1, v)[1] = v % 256
           /\ BytesOf(2, v)[2] = v % 256 /\ BytesOf(2, v)[1] = (v \div 256) % 256
           /\ BytesOf(4, v)[4] = v % 256 /\ BytesOf(4, v)[3] = (v \div 256) % 256
           /\ BytesOf(4, v)[2] = (v \div 65536) % 256
           /\ BytesOf(4, v)[1] = (v \div 16777216) % 256
<1>1. v \div 1 = v
  BY SMT
<1>2. Weight[1] = 1 /\ Weight[2] = 256 /\ Weight[3] = 65536 /\ Weight[4] = 16777216
  BY SMT DEF Weight
<1>3. /\ BytesOf(1, v)[1] = (v \div Weight[1]) % 256
      /\ BytesOf(2, v)[2] = (v \div Weight[1]) % 256
      /\ BytesOf(2, v)[1] = (v \div Weight[2]) % 256
  BY SMT DEF BytesOf
<1>4. /\ BytesOf(4, v)[4] = (v \div Weight[1]) % 256
      /\ BytesOf(4, v)[3] = (v \div Weight[2]) % 256
      /\ BytesOf(4, v)[2] = (v \div Weight[3]) % 256
      /\ BytesOf(4, v)[1] = (v \div Weight[4]) % 256
  BY SMT DEF BytesOf
<1> QED
  BY <1>1, <1>2, <1>3, <1>4, SMT

LEMMA NoJunk ==
    ASSUME NEW b \in Seq(Byte)
    PROVE  ~ \E i \in 1..Len(b) : b[i] = Junk
BY BufferAssumption, ElementOfSeq

LEMMA IntTyped ==
    ASSUME NEW b \in Seq(Byte), Len(b) >= 1
    PROVE  IntOf(b) \in Int
<1>0. Len(b) \in Nat
  OBVIOUS
<1>1. \A i \in 1..Len(b) : b[i] \in Int
  BY ElementOfSeq DEF Byte
<1>2. ~ \E i \in 1..Len(b) : b[i] = Junk
  BY NoJunk
<1>3. PICK sign \in Int : sign = IF b[1] >= 128 THEN -1 ELSE 0
  OBVIOUS
<1>4. ASSUME NEW k \in 0..3
      PROVE  (IF k < Len(b) THEN b[Len(b) - k] ELSE -255 * sign) \in Int
  BY <1>0, <1>1
<1>5. PICK c \in [0..3 -> Int] :
        \A k \in 0..3 : c[k] = IF k < Len(b) THEN b[Len(b) - k] ELSE -255 * sign
  <2>1. [k \in 0..3 |-> IF k < Len(b) THEN b[Len(b) - k] ELSE -255 * sign] \in [0..3 -> Int]
    BY <1>4
  <2> QED
    BY <2>1
<1>6. IntOf(b) = 256 * (256 * (256 * (256 * sign + c[3]) + c[2]) + c[1]) + c[0]
  <2>1. /\ c[3] = IF 3 < Len(b) THEN b[Len(b) - 3] ELSE -255 * sign
        /\ c[2] = IF 2 < Len(b) THEN b[Len(b) - 2] ELSE -255 * sign
        /\ c[1] = IF 1 < Len(b) THEN b[Len(b) - 1] ELSE -255 * sign
        /\ c[0] = IF 0 < Len(b) THEN b[Len(b) - 0] ELSE -255 * sign
    BY <1>5, SMT
  <2> QED
    BY <1>2, <1>3, <2>1, SMT DEF IntOf
<1>7. c[0] \in Int /\ c[1] \in Int /\ c[2] \in Int /\ c[3] \in Int
  BY <1>5
<1> QED
  BY <1>6, <1>7, SMT

LEMMA OneByte ==
    ASSUME NEW v \in Int, 0 <= v, v <= 127
    PROVE  IntOf(BytesOf(1, v)) = v
<1>1. PICK b \in Seq(Byte) : b = BytesOf(1, v)
  BY BytesTyped
<1>2. Len(b) = 1 /\ b[1] = v % 256
  BY <1>1, BytesTyped, BytesAre, SMT
<1>3. b[1] = v
  BY <1>2, SMT
<1>4. ~ \E i \in 1..Len(b) : b[i] = Junk
  BY NoJunk
<1>5. IntOf(b) = v
  BY <1>2, <1>3, <1>4, SMT DEF IntOf
<1> QED
  BY <1>1, <1>5

Short == {n \in Nat : n <= 32767}

LEMMA TwoBytes ==
    ASSUME NEW v \in Short
    PROVE  IntOf(BytesOf(2, v)) = v
<1>0. v \in Int /\ 0 <= v /\ v <= 32767
  BY SMT DEF Short
<1>1. PICK b \in Seq(Byte) : b = BytesOf(2, v)
  BY <1>0, BytesTyped
<1>2. Len(b) = 2 /\ b[2] = v % 256 /\ b[1] = (v \div 256) % 256
  <2>1. Len(BytesOf(2, v)) = 2
    BY <1>0, BytesTyped
  <2>2. BytesOf(2, v)[2] = v % 256 /\ BytesOf(2, v)[1] = (v \div 256) % 256
    BY <1>0, BytesAre, SMT
  <2> QED
    BY <1>1, <2>1, <2>2, SMT
<1>3. /\ b[1] \in Int /\ 0 <= b[1] /\ b[1] <= 127
      /\ b[2] \in Int /\ 256 * b[1] + b[2] = v
  BY <1>0, <1>2, SMT
<1>4. ~ \E i \in 1..Len(b) : b[i] = Junk
  BY NoJunk
<1>5. IntOf(b) = 256 * b[1] + b[2]
  <2>1. Len(b) = 2 /\ ~(b[1] >= 128) /\ b[1] \in Int /\ b[2] \in Int
    BY <1>2, <1>3, SMT
  <2> QED
    BY <2>1, <1>4, SMT DEF IntOf
<1> QED
  BY <1>1, <1>3, <1>5, SMT

LEMMA FourBytes ==
    ASSUME NEW v \in Int32
    PROVE  IntOf(BytesOf(4, v)) = v
<1>0. v \in Int /\ -2147483647 - 1 <= v /\ v <= 2147483647
  BY SMT DEF Int32
<1>1. PICK b \in Seq(Byte) : b = BytesOf(4, v)
  BY <1>0, BytesTyped
<1>2. /\ Len(b) = 4 /\ b[4] = v % 256 /\ b[3] = (v \div 256) % 256
      /\ b[2] = (v \div 65536) % 256 /\ b[1] = (v \div 16777216) % 256
  <2>1. Len(BytesOf(4, v)) = 4
    BY <1>0, BytesTyped
  <2>2. /\ BytesOf(4, v)[4] = v % 256 /\ BytesOf(4, v)[3] = (v \div 256) % 256
        /\ BytesOf(4, v)[2] = (v \div 65536) % 256
        /\ BytesOf(4, v)[1] = (v \div 16777216) % 256
    BY <1>0, BytesAre, SMT
  <2> QED
    BY <1>1, <2>1, <2>2, SMT
<1>3. b[1] \in Int /\ b[2] \in Int /\ b[3] \in Int /\ b[4] \in Int
  BY <1>0, <1>2, SMT
<1>4. ~ \E i \in 1..Len(b) : b[i] = Junk
  BY NoJunk
<1>5. PICK h : h = IF b[1] >= 128 THEN b[1] - 256 ELSE b[1]
  OBVIOUS
<1>6. IntOf(b) = 256 * (256 * (256 * h + b[2]) + b[3]) + b[4]
  BY <1>2, <1>3, <1>4, <1>5, SMT DEF IntOf
<1>7. h = v \div 16777216
  BY <1>0, <1>2, <1>5, SMT
<1>8. /\ 256 * (v \div 16777216) + b[2] = v \div 65536
      /\ 256 * (v \div 65536) + b[3] = v \div 256
      /\ 256 * (v \div 256) + b[4] = v
  BY <1>0, <1>2, SMT
<1> QED
  BY <1>1, <1>3, <1>6, <1>7, <1>8, SMT
-----------------------------------------------------------------------------
(* The operations of a buffer.                                               *)
LEMMA MemoryIs ==
    ASSUME NEW b \in Memory
    PROVE  /\ b.data \in Seq(Byte) /\ Len(b.data) \in Nat
           /\ b.cur \in Nat /\ b.before \in Nat /\ b.cap \in Nat
BY DEF Memory

LEMMA MemoryOf ==
    ASSUME NEW d \in Seq(Byte), NEW c \in Nat, NEW f \in Nat, NEW k \in Nat
    PROVE  [data |-> d, cur |-> c, before |-> f, cap |-> k] \in Memory
BY DEF Memory

(* The changes a buffer undergoes.                                           *)
LEMMA NewData ==
    ASSUME NEW b \in Memory, NEW d
    PROVE  [b EXCEPT !.data = d]
             = [data |-> d, cur |-> b.cur, before |-> b.before, cap |-> b.cap]
BY DEF Memory

LEMMA NewCur ==
    ASSUME NEW b \in Memory, NEW c
    PROVE  [b EXCEPT !.cur = c]
             = [data |-> b.data, cur |-> c, before |-> b.before, cap |-> b.cap]
BY DEF Memory

LEMMA NewCurData ==
    ASSUME NEW b \in Memory, NEW c \in Nat, NEW d \in Seq(Byte)
    PROVE  [b EXCEPT !.cur = c, !.data = d]
             = [data |-> d, cur |-> c, before |-> b.before, cap |-> b.cap]
<1>1. PICK r : r = [b EXCEPT !.cur = c, !.data = d]
  OBVIOUS
<1>2. r = [data |-> d, cur |-> c, before |-> b.before, cap |-> b.cap]
  BY <1>1 DEF Memory
<1> QED
  BY <1>1, <1>2

LEMMA NewDataCur ==
    ASSUME NEW b \in Memory, NEW c \in Nat, NEW d \in Seq(Byte)
    PROVE  [b EXCEPT !.data = d, !.cur = c]
             = [data |-> d, cur |-> c, before |-> b.before, cap |-> b.cap]
<1>1. PICK r : r = [b EXCEPT !.data = d, !.cur = c]
  OBVIOUS
<1>2. r = [data |-> d, cur |-> c, before |-> b.before, cap |-> b.cap]
  BY <1>1 DEF Memory
<1> QED
  BY <1>1, <1>2

LEMMA NewCapCur ==
    ASSUME NEW b \in Memory, NEW k \in Nat, NEW c \in Nat
    PROVE  [b EXCEPT !.cap = k, !.cur = c]
             = [data |-> b.data, cur |-> c, before |-> b.before, cap |-> k]
<1>1. PICK r : r = [b EXCEPT !.cap = k, !.cur = c]
  OBVIOUS
<1>2. r = [data |-> b.data, cur |-> c, before |-> b.before, cap |-> k]
  BY <1>1 DEF Memory
<1> QED
  BY <1>1, <1>2

LEMMA RestIs ==
    ASSUME NEW S, NEW s \in Seq(S), NEW n \in 0..Len(s)
    PROVE  /\ SubSeq(s, n + 1, Len(s)) \in Seq(S)
           /\ Len(SubSeq(s, n + 1, Len(s))) = Len(s) - n
           /\ \A i \in 1..(Len(s) - n) : SubSeq(s, n + 1, Len(s))[i] = s[n + i]
<1>0. Len(s) \in Nat /\ n \in Nat /\ n <= Len(s)
  OBVIOUS
<1>1. PICK m \in Int : m = n + 1
  BY <1>0
<1>2. \A i \in m..Len(s) : s[i] \in S
  BY <1>0, <1>1, ElementOfSeq
<1>3. /\ SubSeq(s, m, Len(s)) \in Seq(S)
      /\ Len(SubSeq(s, m, Len(s))) = IF m <= Len(s) THEN Len(s) - m + 1 ELSE 0
      /\ \A i \in 1..(Len(s) - m + 1) : SubSeq(s, m, Len(s))[i] = s[m + i - 1]
  BY <1>0, <1>2, SubSeqProperties
<1>4. \A i \in 1..(Len(s) - n) : i \in 1..(Len(s) - m + 1) /\ m + i - 1 = n + i
  BY <1>0, <1>1
<1> QED
  BY <1>0, <1>1, <1>3, <1>4

LEMMA FirstIs ==
    ASSUME NEW S, NEW s \in Seq(S), NEW n \in 0..Len(s)
    PROVE  /\ SubSeq(s, 1, n) \in Seq(S)
           /\ Len(SubSeq(s, 1, n)) = n
           /\ \A i \in 1..n : SubSeq(s, 1, n)[i] = s[i]
<1>0. Len(s) \in Nat /\ n \in Nat /\ n <= Len(s)
  OBVIOUS
<1>1. PICK m \in Int : m = 1
  OBVIOUS
<1>2. \A i \in m..n : s[i] \in S
  BY <1>0, <1>1, ElementOfSeq
<1>3. /\ SubSeq(s, m, n) \in Seq(S)
      /\ Len(SubSeq(s, m, n)) = IF m <= n THEN n - m + 1 ELSE 0
      /\ \A i \in 1..(n - m + 1) : SubSeq(s, m, n)[i] = s[m + i - 1]
  BY <1>0, <1>2, SubSeqProperties
<1>4. \A i \in 1..n : i \in 1..(n - m + 1) /\ m + i - 1 = i
  BY <1>0, <1>1
<1> QED
  BY <1>0, <1>1, <1>3, <1>4

LEMMA NewIs ==
    ASSUME NEW len \in Nat
    PROVE  /\ NewWith(len, Before) \in Memory /\ Roomy(NewWith(len, Before))
           /\ NewWith(len, Before).data = <<>> /\ NewWith(len, Before).cur = Before
<1>1. PICK k \in Nat : k = IF len <= MinLen THEN MinLen ELSE len
  BY BufferAssumption
<1>2. NewWith(len, Before)
        = [data |-> <<>>, cur |-> Before, before |-> Before, cap |-> k + Before]
  BY <1>1 DEF NewWith
<1>3. <<>> \in Seq(Byte) /\ Len(<<>>) = 0 /\ Before \in Nat /\ k + Before \in Nat
  BY BufferAssumption
<1>4. NewWith(len, Before) \in Memory
  BY <1>2, <1>3, MemoryOf
<1> QED
  BY <1>2, <1>3, <1>4 DEF Roomy, End

LEMMA WriteIs ==
    ASSUME NEW b \in Memory, NEW x \in Seq(Byte), NEW flag
    PROVE  /\ Write(b, x, flag) \in Memory
           /\ Write(b, x, flag).data = b.data \o x
           /\ Roomy(b) => Roomy(Write(b, x, flag))
<1>1. PICK o : o = IF flag THEN OptimizeSpace(b) ELSE b
  OBVIOUS
<1>2. /\ o \in Memory /\ o.data = b.data /\ o.before = b.before /\ o.cap = b.cap
      /\ Roomy(b) => Roomy(o)
  <2>1. CASE flag /\ 10 * b.cur > 7 * b.cap
    <3>1. o = [data |-> b.data, cur |-> b.before, before |-> b.before, cap |-> b.cap]
      BY <1>1, <2>1, NewCur DEF OptimizeSpace
    <3> QED
      BY <3>1, MemoryIs, MemoryOf DEF Roomy, End
  <2>2. CASE ~(flag /\ 10 * b.cur > 7 * b.cap)
    BY <1>1, <2>2 DEF OptimizeSpace
  <2> QED
    BY <2>1, <2>2
<1>3. PICK e : e = IF Len(x) <= FreeSize(o) THEN o ELSE Expand(o, Growth(o, Len(x)))
  OBVIOUS
<1>4. /\ e \in Memory /\ e.data = b.data
      /\ Roomy(b) => e.before <= e.cur /\ End(e) + Len(x) <= e.cap
  <2>0. /\ Len(x) \in Nat /\ Len(o.data) \in Nat /\ o.cur \in Nat /\ o.cap \in Nat
        /\ o.before \in Nat /\ o.data \in Seq(Byte)
    BY <1>2, MemoryIs
  <2>1. CASE Len(x) <= FreeSize(o)
    BY <1>2, <1>3, <2>0, <2>1 DEF Roomy, FreeSize, End
  <2>2. CASE ~(Len(x) <= FreeSize(o))
    <3>1. PICK k \in Nat : k = 2 * (Len(o.data) + Len(x)) + o.before
      BY <2>0
    <3>2. e = [data |-> o.data, cur |-> o.before, before |-> o.before, cap |-> k]
      <4>1. PICK c \in Nat : c = o.before
        BY <2>0
      <4>2. e = [o EXCEPT !.cap = k, !.cur = c]
        BY <1>3, <2>2, <3>1, <4>1 DEF Expand, Growth, Size
      <4>3. o \in Memory
        BY <1>2
      <4>4. e = [data |-> o.data, cur |-> c, before |-> o.before, cap |-> k]
        BY <4>2, <4>3, NewCapCur
      <4> QED
        BY <4>1, <4>4
    <3>3. e \in Memory
      BY <2>0, <3>2, MemoryOf
    <3> QED
      BY <1>2, <2>0, <3>1, <3>2, <3>3 DEF End
  <2> QED
    BY <2>1, <2>2
<1>5. PICK d \in Seq(Byte) : d = b.data \o x
  BY MemoryIs, ConcatProperties
<1>6. Len(d) = Len(b.data) + Len(x)
  BY <1>5, MemoryIs, ConcatProperties
<1>7. Write(b, x, flag) = [data |-> d, cur |-> e.cur, before |-> e.before, cap |-> e.cap]
  <2>1. Write(b, x, flag) = [e EXCEPT !.data = d]
    BY <1>1, <1>3, <1>4, <1>5 DEF Write
  <2> QED
    BY <1>4, <2>1, NewData
<1>8. Write(b, x, flag) \in Memory
  BY <1>4, <1>7, MemoryIs, MemoryOf
<1>9. Roomy(b) => Roomy(Write(b, x, flag))
  <2>0. /\ e.cur \in Nat /\ e.before \in Nat /\ e.cap \in Nat
        /\ Len(x) \in Nat /\ Len(b.data) \in Nat
    BY <1>4, MemoryIs
  <2> QED
    BY <1>4, <1>6, <1>7, <1>8, <2>0 DEF Roomy, End
<1> QED
  BY <1>5, <1>7, <1>8, <1>9

LEMMA FrontIs ==
    ASSUME NEW b \in Memory, NEW x \in Seq(Byte)
    PROVE  /\ AppendFront(b, x) \in Memory
           /\ b.cur >= Len(x) => /\ AppendFront(b, x).data = x \o b.data
                                 /\ AppendFront(b, x).cur = b.cur - Len(x)
<1>0. b.cur \in Nat /\ Len(x) \in Nat
  BY MemoryIs
<1>1. CASE b.cur >= Len(x)
  <2>1. PICK d \in Seq(Byte) : d = x \o b.data
    BY MemoryIs, ConcatProperties
  <2>2. PICK c \in Nat : c = b.cur - Len(x)
    BY <1>0, <1>1
  <2>3. AppendFront(b, x) = [b EXCEPT !.cur = c, !.data = d]
    BY <1>1, <2>1, <2>2 DEF AppendFront
  <2>4. AppendFront(b, x) = [data |-> d, cur |-> c, before |-> b.before, cap |-> b.cap]
    BY <2>3, NewCurData
  <2>5. AppendFront(b, x) \in Memory
    BY <2>1, <2>2, <2>4, MemoryIs, MemoryOf
  <2> QED
    BY <1>1, <2>1, <2>2, <2>4, <2>5
<1>2. CASE ~(b.cur >= Len(x))
  BY <1>2 DEF AppendFront
<1> QED
  BY <1>1, <1>2

LEMMA SkipIs ==
    ASSUME NEW b \in Memory, NEW n \in 0..Len(b.data)
    PROVE  /\ SkipBytes(b, n) \in Memory
           /\ SkipBytes(b, n).data = SubSeq(b.data, n + 1, Len(b.data))
           /\ Len(SkipBytes(b, n).data) = Len(b.data) - n
           /\ Roomy(b) => Roomy(SkipBytes(b, n))
<1>0. b.data \in Seq(Byte) /\ Len(b.data) \in Nat /\ b.cur \in Nat /\ b.before \in Nat
      /\ b.cap \in Nat /\ n \in Nat /\ n <= Len(b.data)
  BY MemoryIs
<1>2. PICK d \in Seq(Byte) : d = SubSeq(b.data, n + 1, Len(b.data))
  BY <1>0, RestIs
<1>3. Len(d) = Len(b.data) - n
  BY <1>0, <1>2, RestIs
<1>4. SkipBytes(b, n) = [b EXCEPT !.cur = b.cur + n, !.data = d]
  BY <1>0, <1>2 DEF SkipBytes, Size
<1>c. PICK c \in Nat : c = b.cur + n
  BY <1>0
<1>5. SkipBytes(b, n) = [data |-> d, cur |-> c, before |-> b.before, cap |-> b.cap]
  BY <1>4, <1>c, NewCurData
<1>6. SkipBytes(b, n) \in Memory
  BY <1>0, <1>5, MemoryOf
<1>7. ASSUME Roomy(b) PROVE Roomy(SkipBytes(b, n))
  <2>1. b.before <= c /\ c + Len(d) <= b.cap
    BY <1>0, <1>c, <1>3, <1>7 DEF Roomy, End
  <2> QED
    BY <1>5, <1>6, <2>1 DEF Roomy, End
<1>8. SkipBytes(b, n).data = d
  BY <1>5
<1> QED
  BY <1>2, <1>3, <1>6, <1>7, <1>8

LEMMA ClearIs ==
    ASSUME NEW b, Roomy(b)
    PROVE  Roomy(Clear(b)) /\ Clear(b).data = <<>>
<1>0. b \in Memory /\ <<>> \in Seq(Byte) /\ Len(<<>>) = 0
  BY DEF Roomy
<1>c. PICK c \in Nat : c = b.before
  BY <1>0, MemoryIs
<1>1. Clear(b) = [data |-> <<>>, cur |-> c, before |-> b.before, cap |-> b.cap]
  BY <1>0, <1>c, NewDataCur DEF Clear
<1>2. Clear(b) \in Memory
  BY <1>0, <1>1, MemoryIs, MemoryOf
<1> QED
  BY <1>0, <1>c, <1>1, <1>2, MemoryIs DEF Roomy, End
-----------------------------------------------------------------------------
(* What the sender makes of a message is a buffer of bytes.                  *)
LEMMA NamesTyped ==
    /\ Code \in Seq(Byte) /\ Len(Code) = 4 /\ Code # <<>>
    /\ HRPC \in Seq(Byte) /\ Len(HRPC) = 4
    /\ HEART \in Seq(Byte) /\ Len(HEART) = 5
    /\ <<Dot>> \in Seq(Byte) /\ Len(<<Dot>>) = 1
BY DEF Code, HRPC, HEART, Dot, Byte

LEMMA NewBufferIs ==
    NewBuffer \in Memory /\ Roomy(NewBuffer) /\ NewBuffer.data = <<>> /\ NewBuffer.cur = Before
BY BufferAssumption, NewIs DEF NewBuffer

LEMMA IntsAppend ==
    ASSUME NEW b \in Memory, NEW width \in {1, 2, 4}, NEW v \in Int, NEW flag
    PROVE  AppendInt(b, width, v, flag) \in Memory
BY BytesTyped, WriteIs DEF AppendInt

LEMMA IntsGoInFront ==
    ASSUME NEW b \in Memory, NEW width \in {1, 2, 4}, NEW v \in Int
    PROVE  AppendFrontInt(b, width, v) \in Memory
BY BytesTyped, FrontIs DEF AppendFrontInt

LEMMA BodyTyped ==
    ASSUME NEW d \in Seq(Byte)
    PROVE  Body(d) \in Memory
BY NewBufferIs, WriteIs DEF Body

LEMMA HrpcBodyTyped ==
    ASSUME NEW b \in Memory, NEW object \in Seq(Byte), NEW func \in Seq(Byte)
    PROVE  MakeHrpcBody(b, object, func) \in Memory
<1>1. PICK dest \in Seq(Byte) : dest = object \o <<Dot>> \o func
  BY NamesTyped, ConcatProperties
<1>2. Len(dest) \in Int
  OBVIOUS
<1>3. AppendFrontInt(AppendFront(b, dest), 2, Len(dest)) \in Memory
  BY <1>2, FrontIs, IntsGoInFront
<1>4. AppendInt(NewBuffer, 2, Len(dest), TRUE) \in Memory
  BY <1>2, NewBufferIs, IntsAppend
<1>5. Write(Write(AppendInt(NewBuffer, 2, Len(dest), TRUE), dest, TRUE), b.data, TRUE) \in Memory
  BY <1>4, MemoryIs, WriteIs
<1> QED
  BY <1>1, <1>3, <1>5 DEF MakeHrpcBody

LEMMA HeadedTyped ==
    ASSUME NEW b \in Memory, NEW seq \in Int, NEW type \in Int
    PROVE  Headed(b, seq, type) \in Memory
<1>1. AppendFrontInt(b, 1, type) \in Memory
  BY IntsGoInFront
<1>2. AppendFrontInt(AppendFrontInt(b, 1, type), 4, seq) \in Memory
  BY <1>1, IntsGoInFront
<1>3. AppendFront(AppendFrontInt(AppendFrontInt(b, 1, type), 4, seq), HRPC) \in Memory
  BY <1>2, NamesTyped, FrontIs
<1> QED
  BY <1>3, IntsGoInFront DEF Headed

LEMMA HeadedAnewTyped ==
    ASSUME NEW b \in Memory, NEW seq \in Int, NEW type \in Int
    PROVE  HeadedAnew(b, seq, type) \in Memory
<1>1. AppendInt(NewBuffer, 1, 4, TRUE) \in Memory
  <2>1. 1 \in {1, 2, 4} /\ 4 \in Int /\ NewBuffer \in Memory
    BY NewBufferIs
  <2> QED
    BY <2>1, IntsAppend, Zenon
<1>2. Write(AppendInt(NewBuffer, 1, 4, TRUE), HRPC, TRUE) \in Memory
  BY <1>1, NamesTyped, WriteIs
<1>3. PICK head \in Memory :
        head = AppendInt(Write(AppendInt(NewBuffer, 1, 4, TRUE), HRPC, TRUE), 4, seq, TRUE)
  BY <1>2, IntsAppend
<1>4. AppendInt(head, 1, type, TRUE) \in Memory
  BY IntsAppend
<1>5. Write(AppendInt(head, 1, type, TRUE), b.data, TRUE) \in Memory
  BY <1>4, MemoryIs, WriteIs
<1> QED
  BY <1>3, <1>5 DEF HeadedAnew

LEMMA SendTyped ==
    ASSUME NEW b \in Memory
    PROVE  /\ SendRequest(b) \in Memory /\ Len(SendRequest(b).data) >= 4
           /\ SendResponse(b) \in Memory /\ Len(SendResponse(b).data) >= 4
<1>1. PICK size \in Int : size = Size(b) + Len(Code)
  BY NamesTyped, MemoryIs DEF Size
<1>2. ASSUME NEW o \in Memory
      PROVE  Write(o, Code, TRUE) \in Memory /\ Len(Write(o, Code, TRUE).data) >= 4
  <2>1. Write(o, Code, TRUE).data = o.data \o Code /\ Write(o, Code, TRUE) \in Memory
    BY NamesTyped, WriteIs
  <2>2. PICK d \in Seq(Byte) : d = o.data
    BY MemoryIs
  <2>3. PICK c \in Seq(Byte) : c = Code /\ Len(c) = 4
    BY NamesTyped
  <2>4. Len(d \o c) = Len(d) + Len(c)
    BY ConcatProperties
  <2>5. Len(d) \in Nat
    OBVIOUS
  <2>6. Len(d \o c) >= 4
    BY <2>3, <2>4, <2>5
  <2>7. Write(o, Code, TRUE).data = d \o c
    BY <2>1, <2>2, <2>3
  <2> QED
    BY <2>1, <2>6, <2>7
<1>3. AppendFrontInt(b, 4, size) \in Memory
  BY IntsGoInFront
<1>4. AppendInt(NewBuffer, 4, size, TRUE) \in Memory
  BY NewBufferIs, IntsAppend
<1>5. Write(AppendInt(NewBuffer, 4, size, TRUE), b.data, TRUE) \in Memory
  BY <1>4, MemoryIs, WriteIs
<1> QED
  BY <1>1, <1>2, <1>3, <1>5 DEF SendRequest, SendResponse

LEMMA PackageTyped ==
    ASSUME NEW to \in {"server", "client"}, NEW m \in Message(to)
    PROVE  Package(m) \in Memory /\ Len(Package(m).data) >= 4
<1>t. Type.request \in Int /\ Type.response \in Int /\ Type.oneway \in Int
  BY DEF Type
<1>1. CASE to = "server"
  <2>1. /\ m.kind \in {"request", "oneway"} /\ m.seq \in Int /\ m.object \in Seq(Byte)
        /\ m.func \in Seq(Byte) /\ m.data \in Seq(Byte)
    BY <1>1 DEF Message, Int32
  <2>2. PICK h \in Memory : h = MakeHrpcBody(Body(m.data), m.object, m.func)
    BY <2>1, BodyTyped, HrpcBodyTyped
  <2>3. PICK type \in Int : type = Type[m.kind]
    BY <2>1, <1>t DEF Type
  <2>4. MakeRequest(h, m.seq, type) \in Memory
    BY <2>1, HeadedTyped, HeadedAnewTyped DEF MakeRequest
  <2>5. Package(m) = SendRequest(MakeRequest(h, m.seq, type))
    BY <2>1, <2>2, <2>3 DEF Package
  <2> QED
    BY <2>4, <2>5, SendTyped
<1>2. CASE to = "client" /\ m.kind = "response"
  <2>1. m.seq \in Int /\ m.data \in Seq(Byte)
    BY <1>2 DEF Message, Int32
  <2>2. PICK h \in Memory : h = Body(m.data)
    BY <2>1, BodyTyped
  <2>3. AddProtocolHeadMsg(h, m.seq) \in Memory
    BY <2>1, <1>t, HeadedTyped, HeadedAnewTyped DEF AddProtocolHeadMsg
  <2>4. Package(m) = SendResponse(AddProtocolHeadMsg(h, m.seq))
    BY <1>2, <2>2 DEF Package
  <2> QED
    BY <2>3, <2>4, SendTyped
<1>3. CASE to = "client" /\ m.kind = "heart"
  <2>1. AppendInt(NewBuffer, 1, Len(HEART), TRUE) \in Memory
    <3>1. 1 \in {1, 2, 4} /\ Len(HEART) \in Int /\ NewBuffer \in Memory
      BY NewBufferIs, NamesTyped
    <3> QED
      BY <3>1, IntsAppend, Zenon
  <2>2. Write(AppendInt(NewBuffer, 1, Len(HEART), TRUE), HEART, TRUE) \in Memory
    BY <2>1, NamesTyped, WriteIs
  <2>3. DoRequest \in Memory
    <3>1. 1 \in {1, 2, 4} /\ HeartRequest \in Int
      BY DEF HeartRequest
    <3> QED
      BY <2>2, <3>1, IntsAppend, Zenon DEF DoRequest
  <2>4. Package(m) = SendResponse(DoRequest)
    BY <1>3 DEF Package
  <2> QED
    BY <2>3, <2>4, SendTyped
<1>4. to = "client" => m.kind \in {"response", "heart"}
  BY DEF Message
<1> QED
  BY <1>1, <1>2, <1>3, <1>4
-----------------------------------------------------------------------------
(* The receiver.                                                             *)

(* What is read inside the data is what lies there.                          *)
LEMMA BytesThere ==
    ASSUME NEW b \in Memory, NEW pos \in Nat, NEW len \in Nat, pos + len <= Len(b.data)
    PROVE  /\ Bytes(b, pos, len) \in Seq(Byte)
           /\ Len(Bytes(b, pos, len)) = len
           /\ \A i \in 1..len : Bytes(b, pos, len)[i] = b.data[pos + i]
<1>0. b.data \in Seq(Byte) /\ Len(b.data) \in Nat
  BY MemoryIs
<1>1. \A i \in 1..len : pos + i \in 1..Len(b.data) /\ b.data[pos + i] \in Byte
  BY <1>0, ElementOfSeq
<1>2. Bytes(b, pos, len) = [i \in 1..len |-> b.data[pos + i]]
  BY <1>0, <1>1 DEF Bytes, Size
<1> QED
  BY <1>1, <1>2

(* find returns a place of the check code, or the end.                       *)
LEMMA FindIs ==
    ASSUME NEW b \in Memory
    PROVE  /\ Find(b, Code) \in 0..Len(b.data)
           /\ Find(b, Code) # Len(b.data) => Find(b, Code) + 4 <= Len(b.data)
<1>0. Len(b.data) \in Nat /\ Len(Code) = 4 /\ Size(b) = Len(b.data)
  BY MemoryIs, NamesTyped DEF Size
<1>1. PICK at : at = {i \in 0..(Size(b) - Len(Code)) :
                        SubSeq(b.data, i + 1, i + Len(Code)) = Code}
  OBVIOUS
<1>2. \A i \in at : i \in Nat /\ i + 4 <= Len(b.data)
  BY <1>0, <1>1
<1>3. CASE at = {}
  BY <1>0, <1>1, <1>3 DEF Find
<1>4. CASE at # {}
  <2>1. \E i \in at : \A j \in at : i <= j
    <3>1. PICK i \in at : \A j \in at : ~(<<j, i>> \in OpToRel(<, Nat))
      BY <1>2, <1>4, WFMin, NatLessThanWellFounded, Zenon
    <3>2. \A j \in at : ~(j < i)
      BY <1>2, <3>1 DEF OpToRel
    <3> QED
      BY <1>2, <3>2
  <2>2. Find(b, Code) \in at
    BY <1>1, <1>4, <2>1 DEF Find
  <2> QED
    BY <1>0, <1>2, <2>2
<1> QED
  BY <1>3, <1>4

LEMMA ErrorIs ==
    ASSUME NEW b, Roomy(b)
    PROVE  /\ Roomy(ProcessError(b))
           /\ Len(b.data) > 0 => Len(ProcessError(b).data) < Len(b.data)
<1>0. b \in Memory /\ Len(b.data) \in Nat /\ Size(b) = Len(b.data)
  BY MemoryIs DEF Roomy, Size
<1>1. PICK dest \in 0..Len(b.data) :
        dest = Find(b, Code) /\ (dest # Len(b.data) => dest + 4 <= Len(b.data))
  BY <1>0, FindIs
<1>2. CASE dest # Size(b)
  <2>1. PICK n \in 0..Len(b.data) : n = dest + 4 /\ n > 0
    BY <1>0, <1>1, <1>2
  <2>2. ProcessError(b) = SkipBytes(b, n)
    BY <1>0, <1>1, <1>2, <2>1, NamesTyped DEF ProcessError, SkipTo
  <2> QED
    BY <1>0, <2>1, <2>2, SkipIs
<1>3. CASE dest = Size(b)
  <2>1. ProcessError(b) = Clear(b)
    BY <1>1, <1>3 DEF ProcessError
  <2> QED
    BY <1>0, <2>1, ClearIs
<1> QED
  BY <1>2, <1>3
-----------------------------------------------------------------------------
(* The positions of the buffers.                                             *)
LEMMA TrafficIs ==
    ASSUME TypeOK
    PROVE  /\ traffic.to \in {"server", "client"}
           /\ Messages \in Seq(Message(traffic.to)) /\ Len(Messages) \in Nat
           /\ traffic.cuts \in Nat
           /\ traffic.damage.at \in Nat /\ traffic.damage.value \in Int
           /\ traffic.damage.kind = "code" => traffic.damage.value \in Byte
BY FramingAssumption DEF TypeOK, Messages

LEMMA DamagedTyped ==
    ASSUME NEW x \in Seq(Byte), Len(x) >= 4, NEW damage, damage.value \in Int,
           damage.kind = "code" => damage.value \in Byte
    PROVE  Damaged(x, damage) \in Seq(Byte)
<1>0. Len(x) \in Nat /\ Len(x) \in 1..Len(x) /\ 4 \in 0..Len(x)
  OBVIOUS
<1>1. CASE damage.kind = "length"
  <2>1. BytesOf(4, damage.value) \in Seq(Byte)
    BY BytesTyped
  <2>2. SubSeq(x, 5, Len(x)) \in Seq(Byte)
    <3>1. SubSeq(x, 4 + 1, Len(x)) \in Seq(Byte)
      BY <1>0, RestIs
    <3> QED
      BY <3>1
  <2> QED
    BY <1>1, <2>1, <2>2, ConcatProperties DEF Damaged
<1>2. CASE damage.kind = "code"
  BY <1>0, <1>2, ExceptSeq DEF Damaged
<1>3. CASE damage.kind \notin {"length", "code"}
  BY <1>3 DEF Damaged
<1> QED
  BY <1>1, <1>2, <1>3

LEMMA AnnouncedIs ==
    ASSUME recvBuf \in Memory, Len(recvBuf.data) >= 4
    PROVE  Announced \in Int
<1>0. 0 \in Nat /\ 4 \in Nat /\ 0 + 4 <= Len(recvBuf.data)
  BY MemoryIs
<1>1. PICK x \in Seq(Byte) : x = Bytes(recvBuf, 0, 4) /\ Len(x) = 4
  BY <1>0, BytesThere
<1> QED
  BY <1>1, IntTyped DEF Announced, PeekFront, PeekInt

LEMMA FrameInit ==
    ASSUME Init
    PROVE  FrameInv
<1>1. Len(traffic.messages) \in Nat /\ traffic.cuts \in Nat /\ <<>> \in Seq(Byte)
  BY FramingAssumption DEF Init
<1>2. TypeOK
  BY <1>1 DEF Init, TypeOK, Messages
<1> QED
  BY <1>2, NewBufferIs DEF Init, FrameInv

LEMMA FrameStep ==
    ASSUME FrameInv, [Next]_vars
    PROVE  FrameInv'
<1>0. /\ TypeOK /\ Roomy(sendBuf) /\ Roomy(recvBuf)
      /\ sendBuf \in Memory /\ recvBuf \in Memory
  BY DEF FrameInv, Roomy
<1>t. /\ traffic \in Traffic /\ next \in 1..(Len(Messages) + 1)
      /\ cuts \in 0..traffic.cuts /\ traffic.cuts \in Nat /\ stream \in Seq(Byte)
      /\ pc \in {"wait", "recv", "extract"} /\ Len(Messages) \in Nat
  BY <1>0, TrafficIs DEF TypeOK
<1>m. traffic' = traffic => Messages' = Messages
  BY DEF Messages
<1>1. CASE PushData
  <2>1. next \in 1..Len(Messages)
    BY <1>1, <1>t DEF PushData, Messages
  <2>2. Messages[next] \in Message(traffic.to) /\ traffic.to \in {"server", "client"}
    BY <1>0, <2>1, TrafficIs
  <2>3. PICK x \in Seq(Byte) : x = Package(Messages[next]).data /\ Len(x) >= 4
    BY <2>2, PackageTyped, MemoryIs
  <2>4. PICK y \in Seq(Byte) :
          y = IF traffic.damage.at = next THEN Damaged(x, traffic.damage) ELSE x
    BY <1>0, <2>3, TrafficIs, DamagedTyped
  <2>5. sendBuf' = Write(sendBuf, y, TRUE)
    BY <1>1, <2>3, <2>4 DEF PushData, SentBytes, Messages
  <2>6. Roomy(sendBuf')
    BY <1>0, <2>5, WriteIs
  <2>7. next' \in 1..(Len(Messages) + 1)
    BY <1>1, <2>1, <1>t DEF PushData
  <2> QED
    BY <1>0, <1>1, <1>t, <1>m, <2>6, <2>7 DEF PushData, FrameInv, TypeOK
<1>2. CASE SendData
  <2>1. PICK n \in 1..Size(sendBuf) :
          /\ n < Size(sendBuf) => cuts < traffic.cuts
          /\ cuts' = IF n < Size(sendBuf) THEN cuts + 1 ELSE cuts
          /\ stream' = stream \o SubSeq(sendBuf.data, 1, n)
          /\ sendBuf' = SkipBytes(sendBuf, n)
    BY <1>2 DEF SendData
  <2>2. n \in 0..Len(sendBuf.data) /\ n \in 1..Len(sendBuf.data)
    BY <1>0, <2>1, MemoryIs DEF Size
  <2>3. Roomy(sendBuf')
    BY <1>0, <2>1, <2>2, SkipIs
  <2>4. SubSeq(sendBuf.data, 1, n) \in Seq(Byte)
    BY <1>0, <2>2, MemoryIs, FirstIs
  <2>5. stream' \in Seq(Byte)
    BY <1>t, <2>1, <2>4, ConcatProperties
  <2>6. cuts' \in 0..traffic.cuts
    BY <1>t, <2>1
  <2>7. UNCHANGED <<traffic, next, recvBuf, pc>>
    BY <1>2 DEF SendData
  <2> QED
    BY <1>0, <1>t, <1>m, <2>3, <2>5, <2>6, <2>7 DEF FrameInv, TypeOK
<1>3. CASE RecvData
  <2>1. PICK n \in 0..Len(stream) : n = IF Len(stream) < RecvLen THEN Len(stream) ELSE RecvLen
    BY <1>t, FramingAssumption
  <2>2. /\ recvBuf' = Write(recvBuf, SubSeq(stream, 1, n), TRUE)
        /\ stream' = SubSeq(stream, n + 1, Len(stream))
        /\ pc' \in {"recv", "extract"}
        /\ UNCHANGED <<traffic, next, cuts, sendBuf>>
    BY <1>3, <2>1 DEF RecvData
  <2>3. SubSeq(stream, 1, n) \in Seq(Byte) /\ stream' \in Seq(Byte)
    BY <1>t, <2>1, <2>2, FirstIs, RestIs
  <2>4. Roomy(recvBuf')
    BY <1>0, <2>2, <2>3, WriteIs
  <2> QED
    BY <1>0, <1>t, <1>m, <2>2, <2>3, <2>4 DEF FrameInv, TypeOK
<1>4. CASE ExtractPackage
  <2>0. Len(recvBuf.data) \in Nat /\ Size(recvBuf) = Len(recvBuf.data)
    BY <1>0, MemoryIs DEF Size
  <2>1. Announced > 0 /\ Size(recvBuf) > 4 /\ ~(Size(recvBuf) < 4 + Announced)
    BY <1>4 DEF ExtractPackage, Sound, Awaits
  <2>2. Announced \in Int
    BY <1>0, <2>0, <2>1, AnnouncedIs
  <2>3. 4 + Announced \in 0..Len(recvBuf.data)
    BY <2>0, <2>1, <2>2
  <2>4. recvBuf' = SkipBytes(recvBuf, 4 + Announced)
    BY <1>4 DEF ExtractPackage
  <2>5. Roomy(recvBuf')
    BY <1>0, <2>3, <2>4, SkipIs
  <2>6. UNCHANGED <<traffic, next, cuts, sendBuf, stream, pc>>
    BY <1>4 DEF ExtractPackage
  <2> QED
    BY <1>0, <1>t, <1>m, <2>5, <2>6 DEF FrameInv, TypeOK
<1>5. CASE ExtractError
  <2>1. Roomy(recvBuf')
    BY <1>0, <1>5, ErrorIs DEF ExtractError
  <2>2. UNCHANGED <<traffic, next, cuts, sendBuf, stream, pc>>
    BY <1>5 DEF ExtractError
  <2> QED
    BY <1>0, <1>t, <1>m, <2>1, <2>2 DEF FrameInv, TypeOK
<1>6. CASE ExtractEnd
  BY <1>0, <1>t, <1>m, <1>6 DEF ExtractEnd, FrameInv, TypeOK
<1>7. CASE UNCHANGED vars
  BY <1>0, <1>t, <1>m, <1>7 DEF vars, FrameInv, TypeOK
<1> QED
  BY <1>1, <1>2, <1>3, <1>4, <1>5, <1>6, <1>7 DEF Next, ReceiverStep

(* The inductive invariant of the buffers: types, and what Roomy says, hold  *)
(* through partial sends, reads of any size, packages and damage.            *)
THEOREM FrameInvariant == Spec => []FrameInv
<1>1. Init => FrameInv
  BY FrameInit
<1>2. FrameInv /\ [Next]_vars => FrameInv'
  BY FrameStep
<1> QED
  BY <1>1, <1>2, PTL DEF Spec

(* BuffersFit always holds: the positions of the two buffers stay inside     *)
(* their memory through growth and moves (hrpc_buffer.cpp:78, 481), and only *)
(* bytes that were written travel.                                           *)
THEOREM PositionsStayInside == Spec => []BuffersFit
<1>1. ASSUME FrameInv PROVE BuffersFit
  <2>1. /\ Roomy(sendBuf) /\ Roomy(recvBuf) /\ sendBuf \in Memory /\ recvBuf \in Memory
        /\ stream \in Seq(Byte)
    BY <1>1 DEF FrameInv, TypeOK, Roomy
  <2>2. ASSUME NEW b, Roomy(b) PROVE Fits(b)
    <3>1. b.cur \in Nat /\ b.before \in Nat /\ b.cap \in Nat /\ Len(b.data) \in Nat
      BY <2>2, MemoryIs DEF Roomy
    <3> QED
      BY <2>2, <3>1 DEF Roomy, Fits, End
  <2>3. \A bytes \in {sendBuf.data, stream, recvBuf.data} : bytes \in Seq(Byte)
    BY <2>1, MemoryIs
  <2>4. \A bytes \in Seq(Byte) : \A i \in 1..Len(bytes) : bytes[i] \in Byte
    BY ElementOfSeq
  <2> QED
    BY <2>1, <2>2, <2>3, <2>4 DEF BuffersFit
<1> QED
  BY <1>1, FrameInvariant, PTL

(* ErrorsConsume always holds: processError makes the buffer shorter, so the *)
(* loop of readEvent ends whatever has come (NetThread.cpp:256).             *)
THEOREM ErrorsAlwaysConsume == Spec => []ErrorsConsume
<1>1. ASSUME FrameInv PROVE ErrorsConsume
  <2>1. Roomy(recvBuf)
    BY <1>1 DEF FrameInv
  <2>2. ~Awaits => Len(recvBuf.data) > 0
    BY <2>1, MemoryIs DEF Roomy, Awaits, Size
  <2> QED
    BY <2>1, <2>2, ErrorIs DEF ErrorsConsume, Size
<1> QED
  BY <1>1, FrameInvariant, PTL
-----------------------------------------------------------------------------
(* What a package is made of.                                                *)
LEMMA Joined ==
    ASSUME NEW x \in Seq(Byte), NEW y \in Seq(Byte)
    PROVE  /\ x \o y \in Seq(Byte) /\ Len(x \o y) = Len(x) + Len(y)
           /\ Len(x) \in Nat /\ Len(y) \in Nat
BY ConcatProperties

LEMMA Rejoined ==
    ASSUME NEW x \in Seq(Byte), NEW y \in Seq(Byte), NEW z \in Seq(Byte)
    PROVE  (x \o y) \o z = x \o (y \o z)
BY ConcatAssociative

LEMMA WriteStays ==
    ASSUME NEW b \in Memory, b.cur = b.before, NEW x \in Seq(Byte), NEW flag
    PROVE  /\ Write(b, x, flag).cur = b.before
           /\ Write(b, x, flag).before = b.before
<1>1. PICK o : o = IF flag THEN OptimizeSpace(b) ELSE b
  OBVIOUS
<1>2. o \in Memory /\ o.cur = b.before /\ o.before = b.before
  <2>1. CASE flag /\ 10 * b.cur > 7 * b.cap
    <3>1. o = [data |-> b.data, cur |-> b.before, before |-> b.before, cap |-> b.cap]
      BY <1>1, <2>1, NewCur DEF OptimizeSpace
    <3> QED
      BY <3>1, MemoryIs, MemoryOf
  <2>2. CASE ~(flag /\ 10 * b.cur > 7 * b.cap)
    BY <1>1, <2>2 DEF OptimizeSpace
  <2> QED
    BY <2>1, <2>2
<1>3. PICK e : e = IF Len(x) <= FreeSize(o) THEN o ELSE Expand(o, Growth(o, Len(x)))
  OBVIOUS
<1>4. e \in Memory /\ e.cur = b.before /\ e.before = b.before
  <2>0. Len(x) \in Nat /\ Len(o.data) \in Nat /\ o.before \in Nat /\ o.data \in Seq(Byte)
    BY <1>2, MemoryIs
  <2>1. CASE Len(x) <= FreeSize(o)
    BY <1>2, <1>3, <2>1
  <2>2. CASE ~(Len(x) <= FreeSize(o))
    <3>1. PICK k \in Nat : k = 2 * (Len(o.data) + Len(x)) + o.before
      BY <2>0
    <3>2. PICK c \in Nat : c = o.before
      BY <2>0
    <3>3. e = [o EXCEPT !.cap = k, !.cur = c]
      BY <1>3, <2>2, <3>1, <3>2 DEF Expand, Growth, Size
    <3>4. e = [data |-> o.data, cur |-> c, before |-> o.before, cap |-> k]
      BY <1>2, <3>3, NewCapCur
    <3> QED
      BY <1>2, <2>0, <3>2, <3>4, MemoryOf
  <2> QED
    BY <2>1, <2>2
<1>5. PICK d \in Seq(Byte) : d = e.data \o x
  BY <1>4, MemoryIs, Joined
<1>6. Write(b, x, flag) = [data |-> d, cur |-> e.cur, before |-> e.before, cap |-> e.cap]
  <2>1. Write(b, x, flag) = [e EXCEPT !.data = d]
    BY <1>1, <1>3, <1>5 DEF Write
  <2> QED
    BY <1>4, <2>1, NewData
<1> QED
  BY <1>4, <1>6

LEMMA FreshIs == NewBuffer.before = Before
BY DEF NewBuffer, NewWith

LEMMA BodyIs ==
    ASSUME NEW d \in Seq(Byte)
    PROVE  Body(d) \in Memory /\ Body(d).data = d /\ Body(d).cur = Before
<1>1. <<>> \o d = d
  BY ConcatEmptySeq
<1>2. NewBuffer.cur = NewBuffer.before
  BY NewBufferIs, FreshIs
<1>3. Body(d).data = NewBuffer.data \o d
  BY NewBufferIs, WriteIs DEF Body
<1>4. Body(d).cur = Before
  BY <1>2, NewBufferIs, FreshIs, WriteStays DEF Body
<1> QED
  BY <1>1, <1>3, <1>4, NewBufferIs, BodyTyped

(* The heads, outermost first, each before what follows it.                  *)
Headers(seq, type, rest) ==
    BytesOf(1, 4) \o (HRPC \o (BytesOf(4, seq) \o (BytesOf(1, type) \o rest)))
Dest(m) == m.object \o <<Dot>> \o m.func
Payload(m) ==
    CASE m.kind \in {"request", "oneway"} ->
           Headers(m.seq, Type[m.kind], BytesOf(2, Len(Dest(m))) \o (Dest(m) \o m.data))
      [] m.kind = "response" -> Headers(m.seq, Type.response, m.data)
      [] m.kind = "heart" -> BytesOf(1, Len(HEART)) \o (HEART \o BytesOf(1, HeartRequest))
Lengthy(rest) == BytesOf(4, Len(rest) + 4) \o (rest \o Code)

LEMMA IntFrontIs ==
    ASSUME NEW b \in Memory, NEW width \in {1, 2, 4}, NEW v \in Int, b.cur >= width
    PROVE  /\ AppendFrontInt(b, width, v) \in Memory
           /\ AppendFrontInt(b, width, v).data = BytesOf(width, v) \o b.data
           /\ AppendFrontInt(b, width, v).cur = b.cur - width
BY BytesTyped, FrontIs DEF AppendFrontInt

LEMMA IntAppendIs ==
    ASSUME NEW b \in Memory, NEW width \in {1, 2, 4}, NEW v \in Int, NEW flag
    PROVE  /\ AppendInt(b, width, v, flag) \in Memory
           /\ AppendInt(b, width, v, flag).data = b.data \o BytesOf(width, v)
BY BytesTyped, WriteIs DEF AppendInt

LEMMA IntAppendStays ==
    ASSUME NEW b \in Memory, b.cur = b.before, NEW width \in {1, 2, 4}, NEW v \in Int, NEW flag
    PROVE  /\ AppendInt(b, width, v, flag).cur = b.before
           /\ AppendInt(b, width, v, flag).before = b.before
BY BytesTyped, WriteStays DEF AppendInt

LEMMA IntFirst ==
    ASSUME NEW width \in {1, 2, 4}, NEW v \in Int
    PROVE  /\ AppendInt(NewBuffer, width, v, TRUE) \in Memory
           /\ AppendInt(NewBuffer, width, v, TRUE).data = BytesOf(width, v)
           /\ AppendInt(NewBuffer, width, v, TRUE).cur = Before
           /\ AppendInt(NewBuffer, width, v, TRUE).before = Before
<1>1. BytesOf(width, v) \in Seq(Byte)
  BY BytesTyped
<1>2. <<>> \o BytesOf(width, v) = BytesOf(width, v)
  BY <1>1, ConcatEmptySeq
<1>3. PICK b \in Memory : b = NewBuffer /\ b.data = <<>> /\ b.cur = Before /\ b.before = Before
  BY NewBufferIs, FreshIs
<1>4. /\ AppendInt(b, width, v, TRUE) \in Memory
      /\ AppendInt(b, width, v, TRUE).data = b.data \o BytesOf(width, v)
      /\ AppendInt(b, width, v, TRUE).cur = b.before
      /\ AppendInt(b, width, v, TRUE).before = b.before
  <2>1. b.cur = b.before
    BY <1>3
  <2>2. /\ AppendInt(b, width, v, TRUE).cur = b.before
        /\ AppendInt(b, width, v, TRUE).before = b.before
    BY <2>1, IntAppendStays, Zenon
  <2>3. /\ AppendInt(b, width, v, TRUE) \in Memory
        /\ AppendInt(b, width, v, TRUE).data = b.data \o BytesOf(width, v)
    BY IntAppendIs, Zenon
  <2> QED
    BY <2>2, <2>3, Zenon
<1> QED
  BY <1>2, <1>3, <1>4

LEMMA HeadersTyped ==
    ASSUME NEW seq \in Int, NEW type \in Int, NEW rest \in Seq(Byte)
    PROVE  /\ Headers(seq, type, rest) \in Seq(Byte)
           /\ Len(Headers(seq, type, rest)) = 10 + Len(rest)
<1>1. PICK a \in Seq(Byte) : a = BytesOf(1, 4) /\ Len(a) = 1
  <2>1. 1 \in {1, 2, 4} /\ 4 \in Int
    OBVIOUS
  <2> QED
    BY <2>1, BytesTyped, Zenon
<1>2. PICK n \in Seq(Byte) : n = HRPC /\ Len(n) = 4
  BY NamesTyped
<1>3. PICK s \in Seq(Byte) : s = BytesOf(4, seq) /\ Len(s) = 4
  BY BytesTyped
<1>4. PICK t \in Seq(Byte) : t = BytesOf(1, type) /\ Len(t) = 1
  BY BytesTyped
<1>5. PICK x1 \in Seq(Byte) : x1 = t \o rest
  BY Joined
<1>x1. Len(x1) = Len(t) + Len(rest)
  BY <1>5, Joined, Zenon
<1>6. PICK x2 \in Seq(Byte) : x2 = s \o x1
  BY Joined
<1>x2. Len(x2) = Len(s) + Len(x1)
  BY <1>6, Joined, Zenon
<1>7. PICK x3 \in Seq(Byte) : x3 = n \o x2
  BY Joined
<1>x3. Len(x3) = Len(n) + Len(x2)
  BY <1>7, Joined, Zenon
<1>8. PICK x4 \in Seq(Byte) : x4 = a \o x3
  BY Joined
<1>x4. Len(x4) = Len(a) + Len(x3)
  BY <1>8, Joined, Zenon
<1>9. Len(rest) \in Nat
  OBVIOUS
<1>10. Len(x4) = 10 + Len(rest)
  <2>1. PICK k \in Nat : k = Len(rest)
    BY <1>9
  <2>2. Len(x1) = 1 + k
    BY <1>4, <1>x1, <2>1
  <2>3. Len(x2) = 5 + k
    BY <1>3, <1>x2, <2>2
  <2>4. Len(x3) = 9 + k
    BY <1>2, <1>x3, <2>3
  <2> QED
    BY <1>1, <1>x4, <2>1, <2>4
<1>11. Headers(seq, type, rest) = x4
  BY <1>1, <1>2, <1>3, <1>4, <1>5, <1>6, <1>7, <1>8 DEF Headers
<1> QED
  BY <1>10, <1>11

LEMMA HrpcBodyIs ==
    ASSUME NEW b \in Memory, NEW object \in Seq(Byte), NEW func \in Seq(Byte)
    PROVE  /\ MakeHrpcBody(b, object, func) \in Memory
           /\ MakeHrpcBody(b, object, func).data
                = BytesOf(2, Len(object \o <<Dot>> \o func)) \o ((object \o <<Dot>> \o func) \o b.data)
<1>1. PICK dest \in Seq(Byte) : dest = object \o <<Dot>> \o func
  BY NamesTyped, Joined
<1>2. Len(dest) \in Nat /\ b.cur \in Nat /\ b.data \in Seq(Byte)
  BY MemoryIs
<1>3. PICK len \in Seq(Byte) : len = BytesOf(2, Len(dest))
  BY <1>2, BytesTyped
<1>4. CASE b.cur >= Len(dest) + 2
  <2>0. b.cur >= Len(dest)
    BY <1>2, <1>4
  <2>1. PICK f \in Memory : f = AppendFront(b, dest)
    BY FrontIs
  <2>f. f.data = dest \o b.data /\ f.cur = b.cur - Len(dest)
    BY <2>0, <2>1, FrontIs
  <2>2. f.cur >= 2 /\ 2 \in {1, 2, 4} /\ Len(dest) \in Int
    BY <1>2, <1>4, <2>f
  <2>3. AppendFrontInt(f, 2, Len(dest)).data = BytesOf(2, Len(dest)) \o f.data
    BY <2>2, IntFrontIs
  <2> QED
    BY <1>1, <1>4, <2>1, <2>f, <2>3, HrpcBodyTyped DEF MakeHrpcBody, BeforeSize
<1>5. CASE ~(b.cur >= Len(dest) + 2)
  <2>0. Len(dest) \in Int
    BY <1>2
  <2>1. PICK f \in Memory : f = AppendInt(NewBuffer, 2, Len(dest), TRUE)
    BY <2>0, IntFirst
  <2>f. f.data = len
    BY <1>3, <2>0, <2>1, IntFirst
  <2>2. PICK g \in Memory : g = Write(f, dest, TRUE)
    BY WriteIs
  <2>g. g.data = len \o dest
    BY <2>f, <2>2, WriteIs
  <2>3. Write(g, b.data, TRUE).data = (len \o dest) \o b.data
    <3>1. Write(g, b.data, TRUE).data = g.data \o b.data
      BY <1>2, WriteIs, Zenon
    <3> QED
      BY <2>g, <3>1, Zenon
  <2>4. (len \o dest) \o b.data = len \o (dest \o b.data)
    BY <1>2, Rejoined
  <2> QED
    BY <1>1, <1>3, <1>5, <2>1, <2>2, <2>3, <2>4, HrpcBodyTyped DEF MakeHrpcBody, BeforeSize
<1> QED
  BY <1>4, <1>5

LEMMA HeadedIs ==
    ASSUME NEW b \in Memory, NEW seq \in Int, NEW type \in Int, b.cur >= 10
    PROVE  /\ Headed(b, seq, type).data = Headers(seq, type, b.data)
           /\ Headed(b, seq, type).cur = b.cur - 10
<1>0. b.cur \in Nat
  BY MemoryIs
<1>w. 1 \in {1, 2, 4} /\ 4 \in {1, 2, 4} /\ 4 \in Int
  OBVIOUS
<1>f. PICK f \in Memory : f = AppendFrontInt(b, 1, type)
  BY <1>w, IntsGoInFront, Zenon
<1>1. f.data = BytesOf(1, type) \o b.data /\ f.cur = b.cur - 1
  <2>1. b.cur >= 1
    BY <1>0
  <2> QED
    BY <1>w, <1>f, <2>1, IntFrontIs, Zenon
<1>g. PICK g \in Memory : g = AppendFrontInt(f, 4, seq)
  BY <1>w, IntsGoInFront, Zenon
<1>2. g.data = BytesOf(4, seq) \o f.data /\ g.cur = f.cur - 4
  <2>1. f.cur >= 4
    BY <1>0, <1>1
  <2> QED
    BY <1>w, <1>g, <2>1, IntFrontIs, Zenon
<1>n. PICK n \in Seq(Byte) : n = HRPC /\ Len(n) = 4
  BY NamesTyped
<1>h. PICK h \in Memory : h = AppendFront(g, n)
  BY FrontIs
<1>3. h.data = n \o g.data /\ h.cur = g.cur - 4
  <2>1. g.cur >= Len(n)
    BY <1>0, <1>1, <1>2, <1>n
  <2>2. h.data = n \o g.data /\ h.cur = g.cur - Len(n)
    BY <1>h, <2>1, FrontIs, Zenon
  <2> QED
    BY <1>n, <2>2, Zenon
<1>4. h.cur >= 1 /\ h.cur = b.cur - 9 /\ 1 \in {1, 2, 4} /\ 4 \in Int
  BY <1>0, <1>1, <1>2, <1>3
<1>5. /\ AppendFrontInt(h, 1, 4).data = BytesOf(1, 4) \o h.data
      /\ AppendFrontInt(h, 1, 4).cur = h.cur - 1
  BY <1>4, IntFrontIs, Zenon
<1>6. Headed(b, seq, type) = AppendFrontInt(h, 1, 4)
  BY <1>f, <1>g, <1>n, <1>h DEF Headed
<1>7. h.cur - 1 = b.cur - 10
  BY <1>0, <1>4
<1> QED
  BY <1>1, <1>2, <1>n, <1>3, <1>5, <1>6, <1>7 DEF Headers

LEMMA HeadsRegrouped ==
    ASSUME NEW seq \in Int, NEW type \in Int, NEW d \in Seq(Byte)
    PROVE  (((BytesOf(1, 4) \o HRPC) \o BytesOf(4, seq)) \o BytesOf(1, type)) \o d
             = Headers(seq, type, d)
<1>1. PICK a \in Seq(Byte) : a = BytesOf(1, 4)
  <2>1. 1 \in {1, 2, 4} /\ 4 \in Int
    OBVIOUS
  <2> QED
    BY <2>1, BytesTyped, Zenon
<1>2. PICK n \in Seq(Byte) : n = HRPC
  BY NamesTyped
<1>3. PICK s \in Seq(Byte) : s = BytesOf(4, seq)
  BY BytesTyped
<1>4. PICK t \in Seq(Byte) : t = BytesOf(1, type)
  BY BytesTyped
<1>5. PICK an \in Seq(Byte) : an = a \o n
  BY Joined
<1>6. PICK ans \in Seq(Byte) : ans = an \o s
  BY Joined
<1>7. PICK td \in Seq(Byte) : td = t \o d
  BY Joined
<1>8. PICK std \in Seq(Byte) : std = s \o td
  BY Joined
<1>9. (ans \o t) \o d = ans \o (t \o d)
  BY Rejoined, SMTT(120)
<1>10. (an \o s) \o td = an \o (s \o td)
  BY Rejoined, SMTT(60)
<1>11. (a \o n) \o std = a \o (n \o std)
  BY Rejoined, SMTT(60)
<1>12. (ans \o t) \o d = ans \o td
  BY <1>7, <1>9, Zenon
<1>13. ans \o td = an \o std
  BY <1>6, <1>8, <1>10, Zenon
<1>14. an \o std = a \o (n \o std)
  BY <1>5, <1>11, Zenon
<1>15. Headers(seq, type, d) = a \o (n \o std)
  BY <1>1, <1>2, <1>3, <1>4, <1>7, <1>8, Zenon DEF Headers
<1>16. (((BytesOf(1, 4) \o HRPC) \o BytesOf(4, seq)) \o BytesOf(1, type)) \o d = (ans \o t) \o d
  BY <1>1, <1>2, <1>3, <1>4, <1>5, <1>6, Zenon
<1> QED
  BY <1>12, <1>13, <1>14, <1>15, <1>16, Zenon

LEMMA HeadedAnewIs ==
    ASSUME NEW b \in Memory, NEW seq \in Int, NEW type \in Int
    PROVE  HeadedAnew(b, seq, type).data = Headers(seq, type, b.data)
<1>1. PICK a \in Seq(Byte) : a = BytesOf(1, 4)
  <2>1. 1 \in {1, 2, 4} /\ 4 \in Int
    OBVIOUS
  <2> QED
    BY <2>1, BytesTyped, Zenon
<1>2. PICK n \in Seq(Byte) : n = HRPC
  BY NamesTyped
<1>3. PICK s \in Seq(Byte) : s = BytesOf(4, seq)
  BY BytesTyped
<1>4. PICK t \in Seq(Byte) : t = BytesOf(1, type)
  BY BytesTyped
<1>5. PICK d \in Seq(Byte) : d = b.data
  BY MemoryIs
<1>12. (((a \o n) \o s) \o t) \o d = Headers(seq, type, d)
  BY <1>1, <1>2, <1>3, <1>4, HeadsRegrouped
<1>6. PICK f \in Memory : f = AppendInt(NewBuffer, 1, 4, TRUE) /\ f.data = a
  <2>1. 1 \in {1, 2, 4} /\ 4 \in Int
    OBVIOUS
  <2> QED
    BY <1>1, <2>1, IntFirst, Zenon
<1>w. 1 \in {1, 2, 4} /\ 4 \in {1, 2, 4}
  OBVIOUS
<1>g. PICK g \in Memory : g = Write(f, n, TRUE)
  BY WriteIs
<1>7. g.data = a \o n
  BY <1>6, <1>g, WriteIs
<1>h. PICK h \in Memory : h = AppendInt(g, 4, seq, TRUE)
  BY <1>w, IntsAppend, Zenon
<1>8. h.data = (a \o n) \o s
  <2>1. AppendInt(g, 4, seq, TRUE).data = g.data \o BytesOf(4, seq)
    BY <1>w, IntAppendIs, Zenon
  <2> QED
    BY <1>3, <1>7, <1>h, <2>1, Zenon
<1>k. PICK k \in Memory : k = AppendInt(h, 1, type, TRUE)
  BY <1>w, IntsAppend, Zenon
<1>9. k.data = ((a \o n) \o s) \o t
  <2>1. AppendInt(h, 1, type, TRUE).data = h.data \o BytesOf(1, type)
    BY <1>w, IntAppendIs, Zenon
  <2> QED
    BY <1>4, <1>8, <1>k, <2>1, Zenon
<1>10. Write(k, d, TRUE).data = (((a \o n) \o s) \o t) \o d
  <2>1. Write(k, d, TRUE).data = k.data \o d
    BY WriteIs
  <2> QED
    BY <1>9, <2>1
<1>11. HeadedAnew(b, seq, type) = Write(k, d, TRUE)
  BY <1>2, <1>5, <1>6, <1>g, <1>h, <1>k DEF HeadedAnew
<1> QED
  BY <1>5, <1>10, <1>11, <1>12

LEMMA RequestIs ==
    ASSUME NEW b \in Memory, NEW seq \in Int, NEW type \in Int
    PROVE  MakeRequest(b, seq, type) \in Memory
           /\ MakeRequest(b, seq, type).data = Headers(seq, type, b.data)
<1>1. HeadLen = 10
  BY NamesTyped DEF HeadLen
<1> QED
  BY <1>1, HeadedIs, HeadedAnewIs, HeadedTyped, HeadedAnewTyped DEF MakeRequest, BeforeSize

LEMMA SendRequestIs ==
    ASSUME NEW b \in Memory
    PROVE  SendRequest(b).data = Lengthy(b.data)
<1>0. Code \in Seq(Byte) /\ Len(Code) = 4 /\ b.cur \in Nat
  BY NamesTyped, MemoryIs
<1>1. PICK d \in Seq(Byte) : d = b.data
  BY MemoryIs
<1>2. PICK size \in Int : size = Size(b) + Len(Code) /\ size = Len(d) + 4
  BY <1>0, <1>1 DEF Size
<1>3. PICK len \in Seq(Byte) : len = BytesOf(4, size)
  BY BytesTyped
<1>a. (len \o d) \o Code = len \o (d \o Code)
  BY <1>0, Rejoined
<1>4. CASE b.cur >= 4
  <2>1. PICK f \in Memory : f = AppendFrontInt(b, 4, size) /\ f.data = len \o d
    BY <1>1, <1>3, <1>4, IntFrontIs
  <2>2. Write(f, Code, TRUE).data = (len \o d) \o Code
    BY <1>0, <2>1, WriteIs
  <2>3. SendRequest(b) = Write(f, Code, TRUE)
    BY <1>2, <1>4, <2>1 DEF SendRequest, BeforeSize
  <2> QED
    BY <1>1, <1>2, <1>3, <1>a, <2>2, <2>3 DEF Lengthy
<1>5. CASE ~(b.cur >= 4)
  <2>1. PICK f \in Memory : f = AppendInt(NewBuffer, 4, size, TRUE) /\ f.data = len
    BY <1>3, IntFirst
  <2>2. PICK g \in Memory : g = Write(f, b.data, TRUE) /\ g.data = len \o d
    BY <1>1, <2>1, WriteIs
  <2>3. Write(g, Code, TRUE).data = (len \o d) \o Code
    BY <1>0, <2>2, WriteIs
  <2>4. SendRequest(b) = Write(g, Code, TRUE)
    BY <1>2, <1>5, <2>1, <2>2 DEF SendRequest, BeforeSize
  <2> QED
    BY <1>1, <1>2, <1>3, <1>a, <2>3, <2>4 DEF Lengthy
<1> QED
  BY <1>4, <1>5

LEMMA SendResponseIs ==
    ASSUME NEW b \in Memory, b.cur >= 4
    PROVE  SendResponse(b).data = Lengthy(b.data)
BY SendRequestIs DEF SendRequest, SendResponse, BeforeSize

LEMMA HeartIs ==
    /\ DoRequest \in Memory /\ DoRequest.cur = Before
    /\ DoRequest.data = BytesOf(1, Len(HEART)) \o (HEART \o BytesOf(1, HeartRequest))
<1>0. /\ HEART \in Seq(Byte) /\ Len(HEART) \in Int /\ HeartRequest \in Int
      /\ 1 \in {1, 2, 4}
  BY NamesTyped DEF HeartRequest
<1>1. PICK a \in Seq(Byte) : a = BytesOf(1, Len(HEART))
  BY <1>0, BytesTyped, Zenon
<1>2. PICK r \in Seq(Byte) : r = BytesOf(1, HeartRequest)
  BY <1>0, BytesTyped, Zenon
<1>3. PICK f \in Memory : /\ f = AppendInt(NewBuffer, 1, Len(HEART), TRUE) /\ f.data = a
                          /\ f.cur = Before /\ f.before = Before
  BY <1>0, <1>1, IntFirst, Zenon
<1>n. PICK n \in Seq(Byte) : n = HEART
  BY <1>0
<1>g. PICK g \in Memory : g = Write(f, n, TRUE)
  BY WriteIs
<1>4. g.data = a \o n
  BY <1>3, <1>g, WriteIs
<1>c. g.cur = Before /\ g.before = Before
  <2>1. f.cur = f.before
    BY <1>3
  <2>2. g.cur = f.before /\ g.before = f.before
    BY <1>g, <2>1, WriteStays, Zenon
  <2> QED
    BY <1>3, <2>2
<1>h. PICK h \in Memory : h = AppendInt(g, 1, HeartRequest, TRUE)
  BY <1>0, IntsAppend, Zenon
<1>5. h.data = (a \o n) \o r /\ h.cur = Before
  <2>1. g.cur = g.before
    BY <1>c
  <2>3. AppendInt(g, 1, HeartRequest, TRUE).data = g.data \o BytesOf(1, HeartRequest)
    BY <1>0, IntAppendIs, Zenon
  <2>4. AppendInt(g, 1, HeartRequest, TRUE).cur = g.before
    BY <1>0, <2>1, IntAppendStays, ZenonT(40)
  <2> QED
    BY <1>2, <1>4, <1>c, <1>h, <2>3, <2>4, Zenon
<1>6. (a \o n) \o r = a \o (n \o r)
  BY Rejoined
<1> QED
  BY <1>1, <1>2, <1>3, <1>n, <1>g, <1>h, <1>5, <1>6 DEF DoRequest

LEMMA PayloadTyped ==
    ASSUME NEW to \in {"server", "client"}, NEW m \in Message(to)
    PROVE  Payload(m) \in Seq(Byte) /\ Len(Payload(m)) >= 7
<1>t. Type.request \in Int /\ Type.response \in Int /\ Type.oneway \in Int
  BY DEF Type
<1>1. CASE to = "server"
  <2>1. /\ m.kind \in {"request", "oneway"} /\ m.seq \in Int /\ m.object \in Seq(Byte)
        /\ m.func \in Seq(Byte) /\ m.data \in Seq(Byte)
    BY <1>1 DEF Message, Int32
  <2>2. PICK type \in Int : type = Type[m.kind]
    BY <2>1, <1>t DEF Type
  <2>3. PICK dest \in Seq(Byte) : dest = Dest(m)
    BY <2>1, NamesTyped, Joined DEF Dest
  <2>4. BytesOf(2, Len(dest)) \in Seq(Byte)
    BY BytesTyped
  <2>5. PICK rest \in Seq(Byte) : rest = BytesOf(2, Len(dest)) \o (dest \o m.data)
    BY <2>1, <2>4, Joined
  <2>6. Payload(m) = Headers(m.seq, type, rest)
    BY <2>1, <2>2, <2>3, <2>5 DEF Payload
  <2> QED
    BY <2>1, <2>6, HeadersTyped
<1>2. CASE to = "client" /\ m.kind = "response"
  <2>1. m.seq \in Int /\ m.data \in Seq(Byte)
    BY <1>2 DEF Message, Int32
  <2>2. PICK type \in Int : type = Type.response
    BY <1>t
  <2>3. Payload(m) = Headers(m.seq, type, m.data)
    BY <1>2, <2>2 DEF Payload
  <2> QED
    BY <2>1, <2>3, HeadersTyped
<1>3. CASE to = "client" /\ m.kind = "heart"
  <2>1. PICK h \in Seq(Byte) : h = HEART /\ Len(h) = 5
    BY NamesTyped
  <2>2. 1 \in {1, 2, 4} /\ Len(HEART) \in Int /\ HeartRequest \in Int
    BY NamesTyped DEF HeartRequest
  <2>3. PICK a \in Seq(Byte) : a = BytesOf(1, Len(HEART)) /\ Len(a) = 1
    BY <2>2, BytesTyped, Zenon
  <2>4. PICK r \in Seq(Byte) : r = BytesOf(1, HeartRequest) /\ Len(r) = 1
    BY <2>2, BytesTyped, Zenon
  <2>5. PICK y \in Seq(Byte) : y = h \o r
    BY Joined
  <2>y. Len(y) = 6
    <3>1. Len(y) = Len(h) + Len(r)
      BY <2>5, Joined
    <3> QED
      BY <2>1, <2>4, <3>1
  <2>6. a \o y \in Seq(Byte) /\ Len(a \o y) = 7
    <3>1. a \o y \in Seq(Byte) /\ Len(a \o y) = Len(a) + Len(y)
      BY Joined
    <3> QED
      <4>1. Len(a \o y) = 1 + 6
        BY <2>3, <2>y, <3>1, Zenon
      <4> QED
        BY <3>1, <4>1
  <2>7. Payload(m) = a \o y
    BY <1>3, <2>1, <2>3, <2>4, <2>5 DEF Payload
  <2> QED
    BY <2>6, <2>7
<1>4. to = "client" => m.kind \in {"response", "heart"}
  BY DEF Message
<1> QED
  BY <1>1, <1>2, <1>3, <1>4

(* Whatever heads found room, a package is its length, its payload and the   *)
(* check code.                                                               *)
LEMMA PackageIs ==
    ASSUME NEW to \in {"server", "client"}, NEW m \in Message(to), Before >= 14
    PROVE  Package(m).data = Lengthy(Payload(m))
<1>t. Type.request \in Int /\ Type.response \in Int /\ Type.oneway \in Int
  BY DEF Type
<1>b. Before \in Nat
  BY BufferAssumption
<1>1. CASE to = "server"
  <2>1. /\ m.kind \in {"request", "oneway"} /\ m.seq \in Int /\ m.object \in Seq(Byte)
        /\ m.func \in Seq(Byte) /\ m.data \in Seq(Byte)
    BY <1>1 DEF Message, Int32
  <2>2. PICK b \in Memory : b = Body(m.data) /\ b.data = m.data
    BY <2>1, BodyIs
  <2>h. PICK h \in Memory : h = MakeHrpcBody(b, m.object, m.func)
    BY <2>1, HrpcBodyTyped
  <2>3. h.data = BytesOf(2, Len(Dest(m))) \o (Dest(m) \o m.data)
    <3>1. /\ m.object \in Seq(Byte) /\ m.func \in Seq(Byte)
          /\ Dest(m) = m.object \o <<Dot>> \o m.func
      BY <2>1 DEF Dest
    <3>2. h.data = BytesOf(2, Len(m.object \o <<Dot>> \o m.func))
                      \o ((m.object \o <<Dot>> \o m.func) \o b.data)
      BY <2>h, <3>1, HrpcBodyIs, Zenon
    <3> QED
      BY <2>2, <3>1, <3>2, Zenon
  <2>4. PICK type \in Int : type = Type[m.kind]
    BY <2>1, <1>t DEF Type
  <2>5. PICK r \in Memory : /\ r = MakeRequest(h, m.seq, type)
                            /\ r.data = Headers(m.seq, type, h.data)
    BY <2>1, RequestIs
  <2>6. Package(m) = SendRequest(r)
    BY <2>1, <2>2, <2>h, <2>4, <2>5 DEF Package
  <2>7. Payload(m) = r.data
    BY <2>1, <2>3, <2>4, <2>5 DEF Payload
  <2> QED
    BY <2>6, <2>7, SendRequestIs
<1>2. CASE to = "client" /\ m.kind = "response"
  <2>1. m.seq \in Int /\ m.data \in Seq(Byte)
    BY <1>2 DEF Message, Int32
  <2>2. PICK b \in Memory : b = Body(m.data) /\ b.data = m.data /\ b.cur = Before
    BY <2>1, BodyIs
  <2>3. AddProtocolHeadMsg(b, m.seq) = Headed(b, m.seq, Type.response)
    BY <1>b, <2>2, NamesTyped DEF AddProtocolHeadMsg, BeforeSize
  <2>4. PICK type \in Int : type = Type.response
    BY <1>t
  <2>5. PICK r \in Memory : /\ r = Headed(b, m.seq, type) /\ r.cur = Before - 10
                            /\ r.data = Headers(m.seq, type, b.data)
    BY <1>b, <2>1, <2>2, HeadedIs, HeadedTyped
  <2>6. Package(m) = SendResponse(r)
    BY <1>2, <2>2, <2>3, <2>4, <2>5 DEF Package
  <2>7. Payload(m) = r.data
    BY <1>2, <2>2, <2>4, <2>5 DEF Payload
  <2>8. r.cur >= 4
    BY <1>b, <2>5
  <2> QED
    BY <2>6, <2>7, <2>8, SendResponseIs
<1>3. CASE to = "client" /\ m.kind = "heart"
  <2>1. Package(m) = SendResponse(DoRequest)
    BY <1>3 DEF Package
  <2>2. Payload(m) = DoRequest.data
    BY <1>3, HeartIs DEF Payload
  <2>3. DoRequest.cur >= 4
    BY <1>b, HeartIs
  <2> QED
    BY <2>1, <2>2, <2>3, HeartIs, SendResponseIs
<1>4. to = "client" => m.kind \in {"response", "heart"}
  BY DEF Message
<1> QED
  BY <1>1, <1>2, <1>3, <1>4
-----------------------------------------------------------------------------
(* What the receiver makes of a package.                                     *)
Starts(bytes, a, rest) == bytes = a \o rest

LEMMA FrontThere ==
    ASSUME NEW b \in Memory, NEW a \in Seq(Byte), NEW r \in Seq(Byte), Starts(b.data, a, r)
    PROVE  /\ Len(b.data) = Len(a) + Len(r)
           /\ Bytes(b, 0, Len(a)) = a
           /\ SkipBytes(b, Len(a)) \in Memory
           /\ SkipBytes(b, Len(a)).data = r
<1>0. b.data = a \o r
  BY DEF Starts
<1>1. Len(a) \in Nat /\ Len(r) \in Nat
  OBVIOUS
<1>2. /\ Len(b.data) = Len(a) + Len(r)
      /\ \A i \in 1..(Len(a) + Len(r)) : b.data[i] = IF i <= Len(a) THEN a[i] ELSE r[i - Len(a)]
  BY <1>0, ConcatProperties
<1>3. Bytes(b, 0, Len(a)) = a
  <2>1. 0 \in Nat /\ Len(a) \in Nat /\ 0 + Len(a) <= Len(b.data)
    BY <1>1, <1>2
  <2>2. PICK x \in Seq(Byte) : /\ x = Bytes(b, 0, Len(a)) /\ Len(x) = Len(a)
                               /\ \A i \in 1..Len(a) : x[i] = b.data[0 + i]
    BY <2>1, BytesThere
  <2>3. \A i \in 1..Len(x) : x[i] = a[i]
    BY <1>1, <1>2, <2>2
  <2>4. x = a
    BY <2>2, <2>3, SeqEqual
  <2> QED
    BY <2>2, <2>4
<1>4. Len(a) \in 0..Len(b.data)
  BY <1>1, <1>2
<1>5. PICK y \in Seq(Byte) : y = SubSeq(b.data, Len(a) + 1, Len(b.data))
  BY <1>4, MemoryIs, RestIs
<1>6. Len(y) = Len(r) /\ \A i \in 1..Len(r) : y[i] = b.data[Len(a) + i]
  <2>1. /\ Len(y) = Len(b.data) - Len(a)
        /\ \A i \in 1..(Len(b.data) - Len(a)) : y[i] = b.data[Len(a) + i]
    BY <1>4, <1>5, MemoryIs, RestIs
  <2> QED
    BY <1>1, <1>2, <2>1
<1>7. \A i \in 1..Len(y) : y[i] = r[i]
  <2> SUFFICES ASSUME NEW i \in 1..Len(r) PROVE y[i] = r[i]
    BY <1>6
  <2>1. /\ Len(a) + i \in 1..(Len(a) + Len(r)) /\ ~(Len(a) + i <= Len(a))
        /\ Len(a) + i - Len(a) = i
    BY <1>1
  <2>2. b.data[Len(a) + i] = r[Len(a) + i - Len(a)]
    BY <1>2, <2>1
  <2> QED
    BY <1>6, <2>1, <2>2
<1>8. y = r
  BY <1>6, <1>7, SeqEqual
<1>9. SkipBytes(b, Len(a)).data = y /\ SkipBytes(b, Len(a)) \in Memory
  BY <1>4, <1>5, SkipIs
<1> QED
  BY <1>2, <1>3, <1>8, <1>9

(* An integer in front, and what lies behind it.                             *)
LEMMA IntThere ==
    ASSUME NEW b \in Memory, NEW width \in {1, 2, 4}, NEW v \in Int, NEW r \in Seq(Byte),
           Starts(b.data, BytesOf(width, v), r)
    PROVE  /\ Len(b.data) = width + Len(r)
           /\ PeekFront(b, width) = IntOf(BytesOf(width, v))
           /\ SkipBytes(b, width) \in Memory
           /\ SkipBytes(b, width).data = r
<1>1. PICK a \in Seq(Byte) : a = BytesOf(width, v) /\ Len(a) = width
  BY BytesTyped
<1>2. /\ Len(b.data) = Len(a) + Len(r)
      /\ Bytes(b, 0, Len(a)) = a
      /\ SkipBytes(b, Len(a)) \in Memory
      /\ SkipBytes(b, Len(a)).data = r
  <2>1. Starts(b.data, a, r)
    BY <1>1
  <2> QED
    BY <2>1, FrontThere
<1> QED
  BY <1>1, <1>2 DEF PeekFront, PeekInt

(* A name behind something, and what lies behind both.                       *)
LEMMA NameThere ==
    ASSUME NEW b \in Memory, NEW a \in Seq(Byte), NEW c \in Seq(Byte), NEW r \in Seq(Byte),
           NEW cr \in Seq(Byte), Starts(b.data, a, cr), Starts(cr, c, r)
    PROVE  /\ Get(b, Len(a), Len(c)) = c
           /\ SkipBytes(b, Len(a) + Len(c)) \in Memory
           /\ SkipBytes(b, Len(a) + Len(c)).data = r
<1>1. Len(a) \in Nat /\ Len(c) \in Nat /\ Len(r) \in Nat /\ b.cur \in Nat
  BY MemoryIs
<1>2. PICK ac \in Seq(Byte) : ac = a \o c
  BY Joined
<1>3. Len(ac) = Len(a) + Len(c)
  BY <1>2, Joined
<1>4. b.data = ac \o r
  <2>1. (a \o c) \o r = a \o (c \o r)
    BY Rejoined, SMTT(40)
  <2> QED
    BY <1>2, <2>1, Zenon DEF Starts
<1>5. /\ Len(b.data) = Len(ac) + Len(r)
      /\ SkipBytes(b, Len(ac)) \in Memory
      /\ SkipBytes(b, Len(ac)).data = r
  <2>1. Starts(b.data, ac, r)
    BY <1>4 DEF Starts
  <2> QED
    BY <2>1, FrontThere
<1>6. Len(a) + Len(c) <= Len(b.data)
  BY <1>1, <1>3, <1>5
<1>7. PICK x \in Seq(Byte) : /\ x = Bytes(b, Len(a), Len(c)) /\ Len(x) = Len(c)
                             /\ \A i \in 1..Len(c) : x[i] = b.data[Len(a) + i]
  BY <1>1, <1>6, BytesThere
<1>8. \A i \in 1..Len(x) : x[i] = c[i]
  <2> SUFFICES ASSUME NEW i \in 1..Len(c) PROVE x[i] = c[i]
    BY <1>7
  <2>1. Len(a) + i \in 1..(Len(ac) + Len(r)) /\ Len(a) + i <= Len(ac)
    BY <1>1, <1>3
  <2>2. b.data[Len(a) + i] = ac[Len(a) + i]
    BY <1>4, <2>1, ConcatProperties
  <2>3. Len(a) + i \in 1..(Len(a) + Len(c)) /\ ~(Len(a) + i <= Len(a)) /\ Len(a) + i - Len(a) = i
    BY <1>1
  <2>4. ac[Len(a) + i] = c[Len(a) + i - Len(a)]
    BY <1>2, <2>3, ConcatProperties
  <2> QED
    BY <1>7, <2>2, <2>3, <2>4
<1>9. x = c
  BY <1>7, <1>8, SeqEqual
<1>10. ~(Len(a) + Len(c) > b.cur + Len(b.data))
  BY <1>1, <1>6
<1> QED
  BY <1>3, <1>5, <1>7, <1>9, <1>10 DEF Get, End

(* The name of a call is taken apart at its first dot, and an object has     *)
(* none.                                                                     *)
Dots(name) == {i \in 1..Len(name) : name[i] = Dot}
FirstDot(name) == CHOOSE i \in Dots(name) : \A j \in Dots(name) : i <= j

LEMMA NameSplits ==
    ASSUME NEW m \in Message("server"), m.object \in Seq(Byte \ {Dot}),
           NEW name \in Seq(Byte), name = Dest(m)
    PROVE  /\ Dots(name) # {}
           /\ SubSeq(name, 1, FirstDot(name) - 1) = m.object
           /\ SubSeq(name, FirstDot(name) + 1, Len(name)) = m.func
           /\ Len(name) = Len(m.object) + 1 + Len(m.func)
<1>o. PICK object \in Seq(Byte \ {Dot}) : object = m.object
  OBVIOUS
<1>f. PICK func \in Seq(Byte) : func = m.func
  BY DEF Message
<1>n. name = object \o <<Dot>> \o func
  BY <1>o, <1>f, Zenon DEF Dest
<1>1. object \in Seq(Byte) /\ <<Dot>> \in Seq(Byte) /\ Len(<<Dot>>) = 1 /\ <<Dot>>[1] = Dot
  BY SeqMonotonic, NamesTyped
<1>2. PICK head \in Seq(Byte) : head = object \o <<Dot>>
  BY <1>1, ConcatProperties
<1>3. /\ Len(head) = Len(object) + 1 /\ Len(object) \in Nat /\ Len(func) \in Nat
      /\ \A i \in 1..Len(object) : head[i] = object[i]
      /\ head[Len(object) + 1] = Dot
  <2>1. /\ Len(head) = Len(object) + Len(<<Dot>>)
        /\ \A i \in 1..(Len(object) + Len(<<Dot>>)) :
             head[i] = IF i <= Len(object) THEN object[i] ELSE <<Dot>>[i - Len(object)]
    BY <1>1, <1>2, ConcatProperties
  <2>2. Len(object) \in Nat /\ Len(func) \in Nat
    BY <1>1
  <2>3. /\ Len(object) + 1 \in 1..(Len(object) + Len(<<Dot>>))
        /\ ~(Len(object) + 1 <= Len(object)) /\ Len(object) + 1 - Len(object) = 1
    BY <1>1, <2>2
  <2>4. \A i \in 1..Len(object) : i \in 1..(Len(object) + Len(<<Dot>>)) /\ i <= Len(object)
    BY <1>1, <2>2
  <2>5. head[Len(object) + 1] = <<Dot>>[Len(object) + 1 - Len(object)]
    BY <2>1, <2>3
  <2>6. head[Len(object) + 1] = Dot
    BY <1>1, <2>3, <2>5
  <2>7. \A i \in 1..Len(object) : head[i] = object[i]
    BY <2>1, <2>4
  <2> QED
    BY <1>1, <2>1, <2>2, <2>6, <2>7
<1>4. /\ Len(name) = Len(head) + Len(func)
      /\ \A i \in 1..(Len(head) + Len(func)) :
           name[i] = IF i <= Len(head) THEN head[i] ELSE func[i - Len(head)]
  <2>1. name = head \o func
    BY <1>2, <1>n, Zenon
  <2> QED
    BY <2>1, ConcatProperties
<1>5. PICK p \in Nat : p = Len(object) + 1
  BY <1>3
<1>6. p \in 1..Len(name) /\ name[p] = Dot
  BY <1>3, <1>4, <1>5
<1>7. \A i \in 1..Len(object) : name[i] # Dot
  <2> SUFFICES ASSUME NEW i \in 1..Len(object) PROVE name[i] # Dot
    OBVIOUS
  <2>1. object[i] \in Byte \ {Dot}
    BY ElementOfSeq
  <2>2. name[i] = object[i]
    BY <1>3, <1>4
  <2> QED
    BY <2>1, <2>2
<1>8. p \in Dots(name) /\ \A j \in Dots(name) : p <= j
  BY <1>3, <1>4, <1>5, <1>6, <1>7 DEF Dots
<1>9. FirstDot(name) = p
  <2>1. FirstDot(name) \in Dots(name) /\ \A j \in Dots(name) : FirstDot(name) <= j
    BY <1>8, Zenon DEF FirstDot
  <2>2. FirstDot(name) \in Int
    BY <2>1 DEF Dots
  <2> QED
    BY <1>8, <2>1, <2>2
<1>10. SubSeq(name, 1, p - 1) = object
  <2>1. p - 1 = Len(object) /\ Len(object) \in 0..Len(name)
    BY <1>3, <1>4, <1>5
  <2>x. /\ SubSeq(name, 1, Len(object)) \in Seq(Byte)
        /\ Len(SubSeq(name, 1, Len(object))) = Len(object)
        /\ \A i \in 1..Len(object) : SubSeq(name, 1, Len(object))[i] = name[i]
    BY <2>1, FirstIs, Zenon
  <2>2. PICK x \in Seq(Byte) : /\ x = SubSeq(name, 1, Len(object)) /\ Len(x) = Len(object)
                               /\ \A i \in 1..Len(object) : x[i] = name[i]
    BY <2>x, Zenon
  <2>3. \A i \in 1..Len(x) : x[i] = object[i]
    BY <1>3, <1>4, <2>2
  <2>4. x = object
    BY <1>1, <2>2, <2>3, SeqEqual
  <2> QED
    BY <2>1, <2>2, <2>4
<1>11. SubSeq(name, p + 1, Len(name)) = func
  <2>1. p = Len(head) /\ p \in 0..Len(name)
    BY <1>3, <1>4, <1>5
  <2>x. /\ SubSeq(name, p + 1, Len(name)) \in Seq(Byte)
        /\ Len(SubSeq(name, p + 1, Len(name))) = Len(name) - p
        /\ \A i \in 1..(Len(name) - p) : SubSeq(name, p + 1, Len(name))[i] = name[p + i]
    BY <2>1, RestIs, Zenon
  <2>2. PICK x \in Seq(Byte) : /\ x = SubSeq(name, p + 1, Len(name)) /\ Len(x) = Len(name) - p
                               /\ \A i \in 1..(Len(name) - p) : x[i] = name[p + i]
    BY <2>x, Zenon
  <2>3. Len(x) = Len(func)
    BY <1>3, <1>4, <2>1, <2>2
  <2>4. \A i \in 1..Len(x) : x[i] = func[i]
    BY <1>3, <1>4, <2>1, <2>2, <2>3
  <2>5. x = func
    BY <2>3, <2>4, SeqEqual
  <2> QED
    BY <2>2, <2>5
<1>12. Len(name) = Len(object) + 1 + Len(func)
  BY <1>3, <1>4
<1> QED
  BY <1>o, <1>f, <1>8, <1>9, <1>10, <1>11, <1>12

LEMMA CallThere ==
    ASSUME NEW b \in Memory, NEW m \in Message("server"), NEW type, type = Type[m.kind],
           m.object \in Seq(Byte \ {Dot}), Len(Dest(m)) \in Short, Len(Dest(m)) >= 2,
           NEW rest \in Seq(Byte), Starts(b.data, BytesOf(2, Len(Dest(m))), rest),
           Starts(rest, Dest(m), m.data)
    PROVE  ExtractFuncName(b, m.seq, type) = m
<1>0. /\ m.kind \in {"request", "oneway"} /\ m.seq \in Int32 /\ m.object \in Seq(Byte)
      /\ m.func \in Seq(Byte) /\ m.data \in Seq(Byte)
      /\ m = [kind |-> m.kind, seq |-> m.seq, object |-> m.object, func |-> m.func,
               data |-> m.data]
  BY DEF Message
<1>1. PICK name \in Seq(Byte) : name = m.object \o <<Dot>> \o m.func /\ name = Dest(m)
  BY <1>0, NamesTyped, ConcatProperties DEF Dest
<1>2. Len(name) \in Int /\ Len(name) \in Short /\ Len(name) >= 2 /\ Len(name) \in Nat
  <2>1. name = Dest(m)
    BY <1>1
  <2>2. Len(name) \in Short /\ Len(name) >= 2
    BY <2>1, Zenon
  <2>3. Len(name) \in Nat
    OBVIOUS
  <2> QED
    BY <2>2, <2>3
<1>3. PICK len \in Seq(Byte) : len = BytesOf(2, Len(name)) /\ Len(len) = 2
  BY <1>2, BytesTyped
<1>k. PICK k \in Int : k = Len(name) /\ IntOf(BytesOf(2, k)) = k
  BY <1>2, TwoBytes
<1>5. Starts(b.data, BytesOf(2, k), rest)
  BY <1>1, <1>k, Zenon
<1>6. PeekFront(b, 2) = Len(name) /\ Len(b.data) = 2 + Len(rest)
  <2>1. 2 \in {1, 2, 4} /\ b \in Memory /\ k \in Int /\ rest \in Seq(Byte)
    OBVIOUS
  <2>2. PeekFront(b, 2) = IntOf(BytesOf(2, k)) /\ Len(b.data) = 2 + Len(rest)
    BY <1>5, <2>1, IntThere
  <2> QED
    BY <1>k, <2>2, Zenon
<1>7. /\ Get(b, 2, Len(name)) = name
      /\ SkipBytes(b, 2 + Len(name)).data = m.data
  <2>0. PICK data \in Seq(Byte) : data = m.data
    BY <1>0
  <2>1. Starts(b.data, len, rest) /\ Starts(rest, name, data)
    BY <1>1, <1>3, <1>5, <1>k, <2>0, Zenon
  <2>2. /\ Get(b, Len(len), Len(name)) = name
        /\ SkipBytes(b, Len(len) + Len(name)).data = data
    BY <2>1, NameThere
  <2> QED
    BY <1>3, <2>0, <2>2, Zenon
<1>8. PICK dot : dot = Dots(name)
  OBVIOUS
<1>9. PICK pos : pos = FirstDot(name)
  OBVIOUS
<1>10. dot # {} /\ SubSeq(name, 1, pos - 1) = m.object /\ SubSeq(name, pos + 1, Len(name)) = m.func
  <2>1. /\ Dots(name) # {}
        /\ SubSeq(name, 1, FirstDot(name) - 1) = m.object
        /\ SubSeq(name, FirstDot(name) + 1, Len(name)) = m.func
    BY <1>1, NameSplits, Zenon
  <2> QED
    BY <1>8, <1>9, <2>1, Zenon
<1>11. ~(Size(b) < 1 \/ PeekFront(b, 2) <= 1 \/ dot = {})
  <2>1. Len(rest) \in Nat
    OBVIOUS
  <2> QED
    BY <1>2, <1>6, <1>10, <2>1 DEF Size
<1>12. m.kind = CASE type = Type.request -> "request"
                  [] type = Type.oneway -> "oneway"
                  [] OTHER -> "error"
  BY <1>0 DEF Type
<1>13. ExtractFuncName(b, m.seq, type)
         = IF Size(b) < 1 \/ PeekFront(b, 2) <= 1 \/ dot = {} THEN NoCall
           ELSE [kind |-> CASE type = Type.request -> "request"
                            [] type = Type.oneway -> "oneway"
                            [] OTHER -> "error",
                 seq |-> m.seq, object |-> SubSeq(name, 1, pos - 1),
                 func |-> SubSeq(name, pos + 1, Len(name)),
                 data |-> SkipBytes(b, 2 + Len(name)).data]
  BY <1>6, <1>7, <1>8, <1>9, Zenon DEF ExtractFuncName, Dots, FirstDot
<1>14. ExtractFuncName(b, m.seq, type)
         = [kind |-> m.kind, seq |-> m.seq, object |-> m.object, func |-> m.func,
            data |-> m.data]
  BY <1>7, <1>10, <1>11, <1>12, <1>13, Zenon
<1> QED
  BY <1>0, <1>14, Zenon

(* checkRequest takes apart what MakeRequest put together.                   *)
LEMMA RequestThere ==
    ASSUME NEW b \in Memory, NEW m \in Message("server"), b.data = Payload(m),
           ObjectName \in Seq(Byte \ {Dot}), m.object = ObjectName,
           Len(Dest(m)) \in Short, Len(Dest(m)) >= 2
    PROVE  CheckRequest(b) = m
<1>0. /\ m.kind \in {"request", "oneway"} /\ m.seq \in Int32 /\ m.object \in Seq(Byte)
      /\ m.func \in Seq(Byte) /\ m.data \in Seq(Byte) /\ m.seq \in Int
  BY DEF Message, Int32
<1>1. PICK type \in Int : /\ type = Type[m.kind] /\ 0 <= type /\ type <= 127
                          /\ m.kind # "error"
  BY <1>0 DEF Type
<1>2. PICK dest \in Seq(Byte) : dest = Dest(m)
  BY <1>0, NamesTyped, ConcatProperties DEF Dest
<1>3. PICK named \in Seq(Byte) : named = dest \o m.data
  BY <1>0, Joined
<1>4. PICK len \in Seq(Byte) : len = BytesOf(2, Len(dest)) /\ Len(len) = 2
  BY BytesTyped
<1>5. PICK r1 \in Seq(Byte) : r1 = len \o named
  BY Joined
<1>6. PICK t \in Seq(Byte) : t = BytesOf(1, type)
  BY <1>1, BytesTyped
<1>7. PICK r2 \in Seq(Byte) : r2 = t \o r1
  BY Joined
<1>8. PICK s \in Seq(Byte) : s = BytesOf(4, m.seq)
  BY <1>0, BytesTyped
<1>9. PICK r3 \in Seq(Byte) : r3 = s \o r2
  BY Joined
<1>10. PICK n \in Seq(Byte) : n = HRPC /\ Len(n) = 4
  BY NamesTyped
<1>11. PICK r4 \in Seq(Byte) : r4 = n \o r3
  BY Joined
<1>12. PICK a \in Seq(Byte) : a = BytesOf(1, 4) /\ Len(a) = 1
  <2>1. 1 \in {1, 2, 4} /\ 4 \in Int
    OBVIOUS
  <2> QED
    BY <2>1, BytesTyped, Zenon
<1>13. b.data = a \o r4
  <2>1. Payload(m) = Headers(m.seq, type, r1)
    BY <1>0, <1>1, <1>2, <1>3, <1>4, <1>5, Zenon DEF Payload
  <2> QED
    BY <2>1, <1>6, <1>7, <1>8, <1>9, <1>10, <1>11, <1>12, Zenon DEF Headers
<1>14. /\ Starts(b.data, a, r4) /\ Starts(r4, n, r3) /\ Starts(r3, s, r2)
       /\ Starts(r2, t, r1) /\ Starts(r1, len, named) /\ Starts(named, Dest(m), m.data)
  BY <1>2, <1>3, <1>5, <1>7, <1>9, <1>11, <1>13, Zenon DEF Starts
<1>15. PeekFront(b, 1) = 4
  <2>1. 1 \in {1, 2, 4} /\ 4 \in Int /\ 0 <= 4 /\ 4 <= 127
    OBVIOUS
  <2>2. Starts(b.data, BytesOf(1, 4), r4)
    BY <1>12, <1>14, Zenon
  <2>3. PeekFront(b, 1) = IntOf(BytesOf(1, 4))
    BY <2>1, <2>2, IntThere, ZenonT(40)
  <2>4. IntOf(BytesOf(1, 4)) = 4
    BY <2>1, OneByte, Zenon
  <2> QED
    BY <2>3, <2>4, Zenon
<1>16. Get(b, 1, 4) = HRPC
  <2>1. Get(b, Len(a), Len(n)) = n
    BY <1>14, NameThere
  <2> QED
    BY <1>10, <1>12, <2>1, Zenon
<1>17. PICK b3 \in Memory : b3 = SkipBytes(b, 5) /\ b3.data = r3
  <2>1. SkipBytes(b, Len(a) + Len(n)).data = r3 /\ SkipBytes(b, Len(a) + Len(n)) \in Memory
    BY <1>14, NameThere
  <2>2. Len(a) + Len(n) = 5
    <3>1. Len(a) = 1
      BY <1>12
    <3>2. Len(n) = 4
      BY <1>10
    <3> QED
      BY <3>1, <3>2
  <2> QED
    BY <2>1, <2>2, Zenon
<1>18. Starts(b3.data, BytesOf(4, m.seq), r2)
  BY <1>8, <1>14, <1>17, Zenon
<1>19. /\ Len(b3.data) = 4 + Len(r2) /\ PeekFront(b3, 4) = m.seq
       /\ SkipBytes(b3, 4) \in Memory /\ SkipBytes(b3, 4).data = r2
  <2>1. 4 \in {1, 2, 4}
    OBVIOUS
  <2>2. /\ Len(b3.data) = 4 + Len(r2) /\ PeekFront(b3, 4) = IntOf(BytesOf(4, m.seq))
        /\ SkipBytes(b3, 4) \in Memory /\ SkipBytes(b3, 4).data = r2
    BY <1>0, <1>18, <2>1, IntThere
  <2>3. IntOf(BytesOf(4, m.seq)) = m.seq
    BY <1>0, FourBytes
  <2> QED
    BY <2>2, <2>3, Zenon
<1>20. PICK b4 \in Memory : b4 = SkipBytes(b3, 4) /\ b4.data = r2
  BY <1>19
<1>21. Starts(b4.data, BytesOf(1, type), r1)
  BY <1>6, <1>14, <1>20, Zenon
<1>22. /\ Len(b4.data) = 1 + Len(r1) /\ PeekFront(b4, 1) = type
       /\ SkipBytes(b4, 1) \in Memory /\ SkipBytes(b4, 1).data = r1
  <2>1. 1 \in {1, 2, 4}
    OBVIOUS
  <2>2. /\ Len(b4.data) = 1 + Len(r1) /\ PeekFront(b4, 1) = IntOf(BytesOf(1, type))
        /\ SkipBytes(b4, 1) \in Memory /\ SkipBytes(b4, 1).data = r1
    BY <1>1, <1>21, <2>1, IntThere, SMTT(40)
  <2>3. IntOf(BytesOf(1, type)) = type
    BY <1>1, OneByte
  <2> QED
    BY <2>2, <2>3, Zenon
<1>23. PICK b5 \in Memory : b5 = SkipBytes(b4, 1) /\ b5.data = r1
  BY <1>22
<1>24. ExtractFuncName(b5, m.seq, type) = m
  <2>1. Starts(b5.data, BytesOf(2, Len(Dest(m))), named)
    BY <1>2, <1>4, <1>14, <1>23, Zenon
  <2> QED
    BY <1>1, <1>14, <2>1, CallThere
<1>25. ~(Size(b3) < 6)
  <2>1. Len(r1) = Len(len) + Len(named) /\ Len(named) \in Nat
    BY <1>5, Joined
  <2>2. Len(r2) = 1 + Len(r1)
    BY <1>20, <1>22
  <2> QED
    BY <1>4, <1>19, <2>1, <2>2 DEF Size
<1>26. Parse(b3) = m
  <2>1. ExtractFuncName(SkipBytes(SkipBytes(b3, 4), 1), PeekFront(b3, 4),
                        PeekFront(SkipBytes(b3, 4), 1)) = m
    BY <1>19, <1>20, <1>22, <1>23, <1>24, Zenon
  <2> QED
    BY <1>1, <1>25, <2>1, Zenon DEF Parse
<1> QED
  <2>1. 4 > 0 /\ 1 + 4 = 5
    OBVIOUS
  <2> QED
    BY <1>15, <1>16, <1>17, <1>26, <2>1, Zenon DEF CheckRequest

LEMMA NamesDiffer == HEART # HRPC
<1>1. Len(HEART) = 5 /\ Len(HRPC) = 4
  BY NamesTyped
<1>2. 5 # 4
  OBVIOUS
<1> QED
  BY <1>1, <1>2, Zenon

(* parseHrpc takes apart what the server put together.                       *)
LEMMA ResponseThere ==
    ASSUME NEW b \in Memory, NEW m \in Message("client"), m.kind = "response",
           b.data = Payload(m)
    PROVE  ParseHrpc(b) = m
<1>0. /\ m.seq \in Int32 /\ m.seq \in Int /\ m.data \in Seq(Byte)
      /\ m = [kind |-> "response", seq |-> m.seq, data |-> m.data]
  BY DEF Message, Int32
<1>1. PICK type \in Int : type = Type.response /\ 0 <= type /\ type <= 127
  BY DEF Type
<1>2. PICK data \in Seq(Byte) : data = m.data
  BY <1>0
<1>6. PICK t \in Seq(Byte) : t = BytesOf(1, type)
  BY <1>1, BytesTyped
<1>7. PICK r2 \in Seq(Byte) : r2 = t \o data
  BY Joined
<1>8. PICK s \in Seq(Byte) : s = BytesOf(4, m.seq)
  BY <1>0, BytesTyped
<1>9. PICK r3 \in Seq(Byte) : r3 = s \o r2
  BY Joined
<1>10. PICK n \in Seq(Byte) : n = HRPC /\ Len(n) = 4
  BY NamesTyped
<1>11. PICK r4 \in Seq(Byte) : r4 = n \o r3
  BY Joined
<1>12. PICK a \in Seq(Byte) : a = BytesOf(1, 4) /\ Len(a) = 1
  <2>1. 1 \in {1, 2, 4} /\ 4 \in Int
    OBVIOUS
  <2> QED
    BY <2>1, BytesTyped, Zenon
<1>13. b.data = a \o r4
  <2>1. Payload(m) = Headers(m.seq, type, data)
    BY <1>1, <1>2 DEF Payload
  <2> QED
    BY <2>1, <1>6, <1>7, <1>8, <1>9, <1>10, <1>11, <1>12, Zenon DEF Headers
<1>14. /\ Starts(b.data, a, r4) /\ Starts(r4, n, r3) /\ Starts(r3, s, r2)
       /\ Starts(r2, t, data)
  BY <1>7, <1>9, <1>11, <1>13, Zenon DEF Starts
<1>15. /\ PeekFront(b, 1) = 4 /\ Len(b.data) = 1 + Len(r4)
       /\ SkipBytes(b, 1) \in Memory /\ SkipBytes(b, 1).data = r4
  <2>1. 1 \in {1, 2, 4} /\ 4 \in Int /\ 0 <= 4 /\ 4 <= 127
    OBVIOUS
  <2>2. Starts(b.data, BytesOf(1, 4), r4)
    BY <1>12, <1>14, Zenon
  <2>3. /\ PeekFront(b, 1) = IntOf(BytesOf(1, 4)) /\ Len(b.data) = 1 + Len(r4)
        /\ SkipBytes(b, 1) \in Memory /\ SkipBytes(b, 1).data = r4
    <3>1. PICK w \in {1, 2, 4} : w = 1
      OBVIOUS
    <3>2. PICK v \in Int : v = 4
      OBVIOUS
    <3>3. Starts(b.data, BytesOf(w, v), r4)
      BY <2>2, <3>1, <3>2, Zenon
    <3>4. /\ PeekFront(b, w) = IntOf(BytesOf(w, v)) /\ Len(b.data) = w + Len(r4)
          /\ SkipBytes(b, w) \in Memory /\ SkipBytes(b, w).data = r4
      BY <3>3, IntThere, ZenonT(40)
    <3> QED
      BY <3>1, <3>2, <3>4, Zenon
  <2>4. IntOf(BytesOf(1, 4)) = 4
    BY <2>1, OneByte, Zenon
  <2> QED
    BY <2>3, <2>4, Zenon
<1>16. PICK b1 \in Memory : b1 = SkipBytes(b, 1) /\ b1.data = r4
  BY <1>15
<1>17. /\ Len(b1.data) = 4 + Len(r3) /\ Bytes(b1, 0, 4) = n
       /\ SkipBytes(b1, 4) \in Memory /\ SkipBytes(b1, 4).data = r3
  <2>1. Starts(b1.data, n, r3)
    BY <1>14, <1>16, Zenon
  <2>2. /\ Len(b1.data) = Len(n) + Len(r3) /\ Bytes(b1, 0, Len(n)) = n
        /\ SkipBytes(b1, Len(n)) \in Memory /\ SkipBytes(b1, Len(n)).data = r3
    BY <2>1, FrontThere
  <2> QED
    BY <1>10, <2>2, Zenon
<1>18. Get(b1, 0, 4) = HRPC
  <2>1. b1.cur \in Nat /\ Len(r3) \in Nat
    BY MemoryIs
  <2>2. ~(0 + 4 > b1.cur + Len(b1.data))
    BY <1>17, <2>1
  <2>3. Get(b1, 0, 4) = Bytes(b1, 0, 4)
    BY <2>2, Zenon DEF Get, End
  <2> QED
    BY <1>10, <1>17, <2>3, Zenon
<1>19. PICK b3 \in Memory : b3 = SkipBytes(b1, 4) /\ b3.data = r3
  BY <1>17
<1>20. PeekFront(b3, 4) = m.seq /\ SkipBytes(b3, 4) \in Memory /\ SkipBytes(b3, 4).data = r2
  <2>1. 4 \in {1, 2, 4}
    OBVIOUS
  <2>2. Starts(b3.data, BytesOf(4, m.seq), r2)
    BY <1>8, <1>14, <1>19, Zenon
  <2>3. /\ PeekFront(b3, 4) = IntOf(BytesOf(4, m.seq))
        /\ SkipBytes(b3, 4) \in Memory /\ SkipBytes(b3, 4).data = r2
    BY <1>0, <2>1, <2>2, IntThere
  <2>4. IntOf(BytesOf(4, m.seq)) = m.seq
    BY <1>0, FourBytes
  <2> QED
    BY <2>3, <2>4, Zenon
<1>21. PICK b4 \in Memory : b4 = SkipBytes(b3, 4) /\ b4.data = r2
  BY <1>20
<1>22. PeekFront(b4, 1) = type /\ SkipBytes(b4, 1).data = data
  <2>1. 1 \in {1, 2, 4}
    OBVIOUS
  <2>2. Starts(b4.data, BytesOf(1, type), data)
    BY <1>6, <1>14, <1>21, Zenon
  <2>3. PeekFront(b4, 1) = IntOf(BytesOf(1, type)) /\ SkipBytes(b4, 1).data = data
    BY <1>1, <2>1, <2>2, IntThere
  <2>4. IntOf(BytesOf(1, type)) = type
    BY <1>1, OneByte
  <2> QED
    BY <2>3, <2>4, Zenon
<1>23. ProcessHrpc(b3) = m
  <2>1. ProcessHrpc(b3) = [kind |-> "response", seq |-> m.seq, data |-> data]
    BY <1>1, <1>20, <1>21, <1>22, Zenon DEF ProcessHrpc
  <2> QED
    BY <1>0, <1>2, <2>1, Zenon
<1>24. ~(Size(b) < 1 + Len(HRPC)) /\ ~(4 <= 0)
  <2>1. Len(r4) = 4 + Len(r3) /\ Len(r3) \in Nat /\ Len(HRPC) = 4
    BY <1>10, <1>16, <1>17
  <2> QED
    BY <1>15, <2>1 DEF Size
<1>25. ParseHrpc(b) = CASE HRPC = HRPC -> ProcessHrpc(b3)
                        [] HRPC = HEART -> ProcessHeart(b3)
                        [] OTHER -> NoCall
  BY <1>15, <1>16, <1>18, <1>19, <1>24, Zenon DEF ParseHrpc
<1> QED
  BY <1>23, <1>25, NamesDiffer

LEMMA HeartThere ==
    ASSUME NEW b \in Memory, NEW m \in Message("client"), m.kind = "heart",
           b.data = Payload(m)
    PROVE  ParseHrpc(b) = m
<1>0. m = [kind |-> "heart"]
  BY DEF Message
<1>1. /\ 1 \in {1, 2, 4} /\ Len(HEART) \in Int /\ HeartRequest \in Int
      /\ 0 <= 5 /\ 5 <= 127 /\ 0 <= HeartRequest /\ HeartRequest <= 127 /\ Len(HEART) = 5
      /\ 5 \in Int
  BY NamesTyped DEF HeartRequest
<1>2. PICK t \in Seq(Byte) : t = BytesOf(1, HeartRequest) /\ Len(t) = 1
  BY <1>1, BytesTyped, Zenon
<1>3. PICK n \in Seq(Byte) : n = HEART /\ Len(n) = 5
  BY NamesTyped
<1>4. PICK r4 \in Seq(Byte) : r4 = n \o t
  BY Joined
<1>5. PICK a \in Seq(Byte) : a = BytesOf(1, 5) /\ Len(a) = 1
  BY <1>1, BytesTyped, Zenon
<1>6. b.data = a \o r4
  <2>1. Payload(m) = BytesOf(1, Len(HEART)) \o (HEART \o BytesOf(1, HeartRequest))
    BY DEF Payload
  <2> QED
    BY <1>1, <1>2, <1>3, <1>4, <1>5, <2>1, Zenon
<1>7. PICK none \in Seq(Byte) : none = <<>>
  <2>1. <<>> \in Seq(Byte)
    BY EmptySeq
  <2> QED
    BY <2>1, Zenon
<1>8. Starts(b.data, a, r4) /\ Starts(r4, n, t) /\ Starts(t, t, none)
  <2>1. t \o <<>> = t
    BY ConcatEmptySeq
  <2> QED
    BY <1>4, <1>6, <1>7, <2>1, Zenon DEF Starts
<1>15. /\ PeekFront(b, 1) = 5 /\ Len(b.data) = 1 + Len(r4)
       /\ SkipBytes(b, 1) \in Memory /\ SkipBytes(b, 1).data = r4
  <2>2. Starts(b.data, BytesOf(1, 5), r4)
    BY <1>5, <1>8, Zenon
  <2>3. /\ PeekFront(b, 1) = IntOf(BytesOf(1, 5)) /\ Len(b.data) = 1 + Len(r4)
        /\ SkipBytes(b, 1) \in Memory /\ SkipBytes(b, 1).data = r4
    <3>1. PICK w \in {1, 2, 4} : w = 1
      OBVIOUS
    <3>2. PICK v \in Int : v = 5
      OBVIOUS
    <3>3. Starts(b.data, BytesOf(w, v), r4)
      BY <2>2, <3>1, <3>2, Zenon
    <3>4. /\ PeekFront(b, w) = IntOf(BytesOf(w, v)) /\ Len(b.data) = w + Len(r4)
          /\ SkipBytes(b, w) \in Memory /\ SkipBytes(b, w).data = r4
      BY <3>3, IntThere, ZenonT(40)
    <3> QED
      BY <3>1, <3>2, <3>4, Zenon
  <2>4. IntOf(BytesOf(1, 5)) = 5
    BY <1>1, OneByte, Zenon
  <2> QED
    BY <2>3, <2>4, Zenon
<1>16. PICK b1 \in Memory : b1 = SkipBytes(b, 1) /\ b1.data = r4
  BY <1>15
<1>17. /\ Len(b1.data) = 5 + 1 /\ Bytes(b1, 0, 5) = n
       /\ SkipBytes(b1, 5) \in Memory /\ SkipBytes(b1, 5).data = t
  <2>1. Starts(b1.data, n, t)
    BY <1>8, <1>16, Zenon
  <2>2. /\ Len(b1.data) = Len(n) + Len(t) /\ Bytes(b1, 0, Len(n)) = n
        /\ SkipBytes(b1, Len(n)) \in Memory /\ SkipBytes(b1, Len(n)).data = t
    BY <2>1, FrontThere
  <2> QED
    BY <1>2, <1>3, <2>2, Zenon
<1>18. Get(b1, 0, 5) = HEART
  <2>1. b1.cur \in Nat
    BY MemoryIs
  <2>2. ~(0 + 5 > b1.cur + Len(b1.data))
    BY <1>17, <2>1
  <2>3. Get(b1, 0, 5) = Bytes(b1, 0, 5)
    BY <2>2, Zenon DEF Get, End
  <2> QED
    BY <1>3, <1>17, <2>3, Zenon
<1>19. PICK b3 \in Memory : b3 = SkipBytes(b1, 5) /\ b3.data = t
  BY <1>17
<1>20. PeekFront(b3, 1) = HeartRequest /\ Size(b3) = 1
  <2>1. Starts(b3.data, BytesOf(1, HeartRequest), none)
    BY <1>2, <1>8, <1>19, Zenon
  <2>2. PeekFront(b3, 1) = IntOf(BytesOf(1, HeartRequest))
    BY <1>1, <2>1, IntThere, Zenon
  <2>3. IntOf(BytesOf(1, HeartRequest)) = HeartRequest
    BY <1>1, OneByte, Zenon
  <2>4. Size(b3) = 1
    BY <1>2, <1>19, Zenon DEF Size
  <2> QED
    BY <2>2, <2>3, <2>4, Zenon
<1>21. ProcessHeart(b3) = m
  BY <1>0, <1>20, Zenon DEF ProcessHeart
<1>23. ~(Size(b) < 1 + Len(HRPC)) /\ ~(5 <= 0)
  <2>1. Len(r4) = 6 /\ Len(HRPC) = 4
    BY NamesTyped, <1>16, <1>17
  <2> QED
    BY <1>15, <2>1 DEF Size
<1>24. ParseHrpc(b) = CASE HEART = HRPC -> ProcessHrpc(b3)
                        [] HEART = HEART -> ProcessHeart(b3)
                        [] OTHER -> NoCall
  BY <1>15, <1>16, <1>18, <1>19, <1>23, Zenon DEF ParseHrpc
<1> QED
  BY <1>21, <1>24, NamesDiffer
-----------------------------------------------------------------------------
(* The packages under way.                                                   *)
LEMMA CutIs ==
    ASSUME NEW s \in Seq(Byte), NEW n \in 0..Len(s)
    PROVE  SubSeq(s, 1, n) \o SubSeq(s, n + 1, Len(s)) = s
<1>1. /\ Len(s) \in Nat /\ 1 \in 1..(Len(s) + 1) /\ n \in (1 - 1)..Len(s)
      /\ Len(s) \in n..Len(s)
  OBVIOUS
<1>2. SubSeq(s, 1, n) \o SubSeq(s, n + 1, Len(s)) = SubSeq(s, 1, Len(s))
  BY <1>1, ConcatAdjacentSubSeq
<1>3. SubSeq(s, 1, Len(s)) = s
  BY SubSeqFull
<1> QED
  BY <1>2, <1>3, Zenon

LEMMA DropFront ==
    ASSUME NEW a \in Seq(Byte), NEW b \in Seq(Byte), NEW n \in 0..Len(a)
    PROVE  SubSeq(a \o b, n + 1, Len(a \o b)) = SubSeq(a, n + 1, Len(a)) \o b
<1>0. Len(a) \in Nat /\ Len(b) \in Nat /\ n \in Nat /\ n <= Len(a)
  OBVIOUS
<1>1. PICK ab \in Seq(Byte) : ab = a \o b
  BY Joined
<1>2. /\ Len(ab) = Len(a) + Len(b)
      /\ \A i \in 1..(Len(a) + Len(b)) : ab[i] = IF i <= Len(a) THEN a[i] ELSE b[i - Len(a)]
  BY <1>1, ConcatProperties
<1>3. n \in 0..Len(ab)
  BY <1>0, <1>2
<1>4. PICK x \in Seq(Byte) : x = SubSeq(ab, n + 1, Len(ab))
  BY <1>3, RestIs
<1>5. Len(x) = Len(ab) - n /\ \A i \in 1..(Len(ab) - n) : x[i] = ab[n + i]
  <2>1. /\ Len(SubSeq(ab, n + 1, Len(ab))) = Len(ab) - n
        /\ \A i \in 1..(Len(ab) - n) : SubSeq(ab, n + 1, Len(ab))[i] = ab[n + i]
    BY <1>3, RestIs, Zenon
  <2> QED
    BY <1>4, <2>1, Zenon
<1>6. PICK y \in Seq(Byte) : y = SubSeq(a, n + 1, Len(a))
  BY RestIs
<1>7. Len(y) = Len(a) - n /\ \A i \in 1..(Len(a) - n) : y[i] = a[n + i]
  <2>1. /\ Len(SubSeq(a, n + 1, Len(a))) = Len(a) - n
        /\ \A i \in 1..(Len(a) - n) : SubSeq(a, n + 1, Len(a))[i] = a[n + i]
    BY RestIs, Zenon
  <2> QED
    BY <1>6, <2>1, Zenon
<1>8. PICK z \in Seq(Byte) : z = y \o b
  BY Joined
<1>9. /\ Len(z) = Len(y) + Len(b)
      /\ \A i \in 1..(Len(y) + Len(b)) : z[i] = IF i <= Len(y) THEN y[i] ELSE b[i - Len(y)]
  BY <1>8, ConcatProperties
<1>10. Len(x) = Len(z)
  BY <1>0, <1>2, <1>5, <1>7, <1>9
<1>11. \A i \in 1..Len(x) : x[i] = z[i]
  <2> SUFFICES ASSUME NEW i \in 1..Len(x) PROVE x[i] = z[i]
    OBVIOUS
  <2>1. /\ i \in 1..(Len(ab) - n) /\ n + i \in 1..(Len(a) + Len(b))
        /\ i \in 1..(Len(y) + Len(b))
    BY <1>0, <1>2, <1>5, <1>7
  <2>2. x[i] = ab[n + i]
    BY <1>5, <2>1
  <2>3. CASE i <= Len(y)
    <3>1. n + i <= Len(a) /\ i \in 1..(Len(a) - n)
      BY <1>0, <1>7, <2>1, <2>3
    <3>2. ab[n + i] = a[n + i] /\ z[i] = y[i] /\ y[i] = a[n + i]
      BY <1>2, <1>7, <1>9, <2>1, <2>3, <3>1
    <3> QED
      BY <2>2, <3>2
  <2>4. CASE ~(i <= Len(y))
    <3>1. ~(n + i <= Len(a)) /\ n + i - Len(a) = i - Len(y)
      BY <1>0, <1>7, <2>1, <2>4
    <3>2. ab[n + i] = b[n + i - Len(a)] /\ z[i] = b[i - Len(y)]
      BY <1>2, <1>9, <2>1, <2>4, <3>1, SMTT(40)
    <3> QED
      BY <2>2, <3>1, <3>2
  <2> QED
    BY <2>3, <2>4
<1>12. x = z
  BY <1>10, <1>11, SeqEqual
<1> QED
  BY <1>1, <1>4, <1>6, <1>8, <1>12, Zenon

(* A package sent goes behind those under way.                               *)
LEMMA LineGrows ==
    ASSUME NEW bytes \in Seq(Byte), NEW messages, NEW k \in Nat, NEW l \in Nat, k <= l,
           \A i \in (k + 1)..(l + 1) : Package(messages[i]).data \in Seq(Byte),
           LinedUp(bytes, messages, k, l),
           NEW x \in Seq(Byte), x = Package(messages[l + 1]).data
    PROVE  LinedUp(bytes \o x, messages, k, l + 1)
<1>0. Len(bytes) \in Nat /\ Len(x) \in Nat
  OBVIOUS
<1>1. PICK p \in [k..l -> 0..Len(bytes)] :
        /\ p[k] = 0 /\ p[l] = Len(bytes)
        /\ \A i, j \in k..l : i <= j => p[i] <= p[j]
        /\ \A i \in (k + 1)..l :
             /\ p[i] = p[i - 1] + Len(Package(messages[i]).data)
             /\ \A j \in 1..Len(Package(messages[i]).data) :
                  bytes[p[i - 1] + j] = Package(messages[i]).data[j]
  BY DEF LinedUp
<1>2. PICK all \in Seq(Byte) : all = bytes \o x
  BY Joined
<1>3. /\ Len(all) = Len(bytes) + Len(x)
      /\ \A i \in 1..(Len(bytes) + Len(x)) :
           all[i] = IF i <= Len(bytes) THEN bytes[i] ELSE x[i - Len(bytes)]
  BY <1>2, ConcatProperties
<1>4. PICK q : q = [i \in k..(l + 1) |-> IF i = l + 1 THEN Len(bytes) + Len(x) ELSE p[i]]
  OBVIOUS
<1>5. \A i \in k..l : p[i] \in Nat /\ p[i] <= Len(bytes) /\ q[i] = p[i]
  BY <1>0, <1>1, <1>4
<1>6. q[l + 1] = Len(bytes) + Len(x) /\ k \in k..l /\ l \in k..l
  BY <1>4
<1>7. q \in [k..(l + 1) -> 0..Len(all)]
  BY <1>0, <1>3, <1>4, <1>5
<1>8. q[k] = 0 /\ q[l + 1] = Len(all)
  BY <1>1, <1>3, <1>5, <1>6
<1>9. \A i, j \in k..(l + 1) : i <= j => q[i] <= q[j]
  <2> SUFFICES ASSUME NEW i \in k..(l + 1), NEW j \in k..(l + 1), i <= j PROVE q[i] <= q[j]
    OBVIOUS
  <2>1. CASE j \in k..l
    <3>1. i \in k..l
      BY <2>1
    <3> QED
      BY <1>1, <1>5, <2>1, <3>1
  <2>2. CASE j = l + 1 /\ i \in k..l
    BY <1>0, <1>5, <1>6, <2>2
  <2>3. CASE j = l + 1 /\ i = l + 1
    BY <1>0, <1>6, <2>3
  <2> QED
    BY <2>1, <2>2, <2>3
<1>10. ASSUME NEW i \in (k + 1)..(l + 1)
       PROVE  /\ q[i] = q[i - 1] + Len(Package(messages[i]).data)
              /\ \A j \in 1..Len(Package(messages[i]).data) :
                   all[q[i - 1] + j] = Package(messages[i]).data[j]
  <2>1. CASE i \in (k + 1)..l
    <3>1. i \in k..l /\ i - 1 \in k..l
      BY <2>1
    <3>2. PICK y \in Seq(Byte) : y = Package(messages[i]).data
      OBVIOUS
    <3>3. p[i] = p[i - 1] + Len(y) /\ \A j \in 1..Len(y) : bytes[p[i - 1] + j] = y[j]
      BY <1>1, <2>1, <3>2
    <3>4. Len(y) \in Nat
      OBVIOUS
    <3>5. \A j \in 1..Len(y) : all[p[i - 1] + j] = y[j]
      <4> SUFFICES ASSUME NEW j \in 1..Len(y) PROVE all[p[i - 1] + j] = y[j]
        OBVIOUS
      <4>1. /\ p[i - 1] + j <= Len(bytes)
            /\ p[i - 1] + j \in 1..(Len(bytes) + Len(x))
        BY <1>0, <1>5, <3>1, <3>3, <3>4, SMTT(40)
      <4> QED
        BY <1>3, <3>3, <4>1
    <3> QED
      BY <1>5, <3>1, <3>2, <3>3, <3>5
  <2>2. CASE i = l + 1
    <3>1. i - 1 = l /\ q[i - 1] = Len(bytes) /\ q[i] = Len(bytes) + Len(x)
      BY <1>1, <1>5, <1>6, <2>2
    <3>2. \A j \in 1..Len(x) : all[Len(bytes) + j] = x[j]
      <4> SUFFICES ASSUME NEW j \in 1..Len(x) PROVE all[Len(bytes) + j] = x[j]
        OBVIOUS
      <4>1. /\ Len(bytes) + j \in 1..(Len(bytes) + Len(x)) /\ ~(Len(bytes) + j <= Len(bytes))
            /\ Len(bytes) + j - Len(bytes) = j
        BY <1>0
      <4>2. all[Len(bytes) + j] = x[Len(bytes) + j - Len(bytes)]
        BY <1>3, <4>1
      <4> QED
        BY <4>1, <4>2
    <3>3. Package(messages[i]).data = x
      BY <2>2
    <3> QED
      BY <3>1, <3>2, <3>3
  <2> QED
    BY <2>1, <2>2
<1> QED
  <2>1. LinedUp(all, messages, k, l + 1)
    BY <1>7, <1>8, <1>9, <1>10 DEF LinedUp
  <2> QED
    BY <1>2, <2>1, Zenon

(* The first package under way, if there is one, is the next to extract.     *)
LEMMA LineBegins ==
    ASSUME NEW bytes \in Seq(Byte), NEW messages, NEW k \in Nat, NEW l \in Nat, k < l,
           LinedUp(bytes, messages, k, l),
           NEW x \in Seq(Byte), x = Package(messages[k + 1]).data
    PROVE  Len(x) <= Len(bytes) /\ \A j \in 1..Len(x) : bytes[j] = x[j]
<1>0. Len(bytes) \in Nat /\ Len(x) \in Nat
  OBVIOUS
<1>1. PICK p \in [k..l -> 0..Len(bytes)] :
        /\ p[k] = 0
        /\ \A i \in (k + 1)..l :
             /\ p[i] = p[i - 1] + Len(Package(messages[i]).data)
             /\ \A j \in 1..Len(Package(messages[i]).data) :
                  bytes[p[i - 1] + j] = Package(messages[i]).data[j]
  BY DEF LinedUp
<1>2. k + 1 \in (k + 1)..l /\ k + 1 - 1 = k /\ k + 1 \in k..l
  OBVIOUS
<1>3. /\ p[k + 1] = p[k + 1 - 1] + Len(x)
      /\ \A j \in 1..Len(x) : bytes[p[k + 1 - 1] + j] = x[j]
  BY <1>1, <1>2
<1>4. p[k + 1 - 1] = 0 /\ p[k + 1] \in 0..Len(bytes)
  BY <1>1, <1>2
<1>5. \A j \in 1..Len(x) : 0 + j = j
  BY <1>0
<1> QED
  BY <1>0, <1>3, <1>4, <1>5

LEMMA LineEnds ==
    ASSUME NEW bytes \in Seq(Byte), NEW messages, NEW k \in Nat,
           LinedUp(bytes, messages, k, k)
    PROVE  Len(bytes) = 0
BY DEF LinedUp

LEMMA Shifted ==
    ASSUME NEW a \in Nat, NEW j \in Nat, NEW x \in Nat, NEW y \in Nat, NEW z \in Nat,
           1 <= j, j <= y, a + y <= z, x <= a
    PROVE  a - x + j \in 1..(z - x) /\ x + (a - x + j) = a + j
OBVIOUS

(* A package extracted goes away in front of the others.                     *)
LEMMA LineMoves ==
    ASSUME NEW bytes \in Seq(Byte), NEW messages, NEW k \in Nat, NEW l \in Nat, k < l,
           \A i \in (k + 1)..l : Package(messages[i]).data \in Seq(Byte),
           LinedUp(bytes, messages, k, l),
           NEW x \in Seq(Byte), x = Package(messages[k + 1]).data
    PROVE  LinedUp(SubSeq(bytes, Len(x) + 1, Len(bytes)), messages, k + 1, l)
<1>0. Len(bytes) \in Nat /\ Len(x) \in Nat
  OBVIOUS
<1>1. PICK p \in [k..l -> 0..Len(bytes)] :
        /\ p[k] = 0 /\ p[l] = Len(bytes)
        /\ \A i, j \in k..l : i <= j => p[i] <= p[j]
        /\ \A i \in (k + 1)..l :
             /\ p[i] = p[i - 1] + Len(Package(messages[i]).data)
             /\ \A j \in 1..Len(Package(messages[i]).data) :
                  bytes[p[i - 1] + j] = Package(messages[i]).data[j]
  BY DEF LinedUp
<1>2. /\ k + 1 \in (k + 1)..l /\ k + 1 - 1 = k /\ k + 1 \in k..l /\ k \in k..l /\ l \in k..l
  OBVIOUS
<1>3. p[k + 1] = Len(x) /\ Len(x) \in 0..Len(bytes)
  <2>1. p[k + 1] = p[k + 1 - 1] + Len(x)
    BY <1>1, <1>2
  <2>2. p[k + 1 - 1] = 0 /\ p[k + 1] \in 0..Len(bytes)
    BY <1>1, <1>2
  <2> QED
    BY <1>0, <2>1, <2>2
<1>4. PICK rest \in Seq(Byte) : rest = SubSeq(bytes, Len(x) + 1, Len(bytes))
  BY <1>3, RestIs
<1>5. /\ Len(rest) = Len(bytes) - Len(x)
      /\ \A i \in 1..(Len(bytes) - Len(x)) : rest[i] = bytes[Len(x) + i]
  <2>1. /\ Len(SubSeq(bytes, Len(x) + 1, Len(bytes))) = Len(bytes) - Len(x)
        /\ \A i \in 1..(Len(bytes) - Len(x)) :
             SubSeq(bytes, Len(x) + 1, Len(bytes))[i] = bytes[Len(x) + i]
    BY <1>3, RestIs, Zenon
  <2> QED
    BY <1>4, <2>1, Zenon
<1>6. PICK q : q = [i \in (k + 1)..l |-> p[i] - Len(x)]
  OBVIOUS
<1>7. \A i \in (k + 1)..l : /\ p[i] \in Nat /\ p[i] <= Len(bytes) /\ Len(x) <= p[i]
                            /\ q[i] = p[i] - Len(x) /\ i \in k..l
  <2> SUFFICES ASSUME NEW i \in (k + 1)..l
               PROVE  /\ p[i] \in Nat /\ p[i] <= Len(bytes) /\ Len(x) <= p[i]
                      /\ q[i] = p[i] - Len(x) /\ i \in k..l
    OBVIOUS
  <2>1. i \in k..l /\ k + 1 <= i
    OBVIOUS
  <2>2. p[i] \in 0..Len(bytes)
    BY <1>1, <2>1
  <2>3. p[k + 1] <= p[i]
    BY <1>1, <1>2, <2>1
  <2> QED
    BY <1>0, <1>3, <1>6, <2>1, <2>2, <2>3
<1>8. q \in [(k + 1)..l -> 0..Len(rest)]
  BY <1>0, <1>5, <1>6, <1>7, SMTT(40)
<1>9. q[k + 1] = 0 /\ q[l] = Len(rest)
  <2>1. l \in (k + 1)..l
    OBVIOUS
  <2>2. q[k + 1] = p[k + 1] - Len(x) /\ q[l] = p[l] - Len(x)
    BY <1>2, <1>7, <2>1
  <2>3. p[l] = Len(bytes)
    BY <1>1
  <2> QED
    BY <1>0, <1>3, <1>5, <2>2, <2>3
<1>10. \A i, j \in (k + 1)..l : i <= j => q[i] <= q[j]
  <2> SUFFICES ASSUME NEW i \in (k + 1)..l, NEW j \in (k + 1)..l, i <= j PROVE q[i] <= q[j]
    OBVIOUS
  <2>1. p[i] <= p[j]
    BY <1>1, <1>7
  <2> QED
    BY <1>0, <1>7, <2>1
<1>11. ASSUME NEW i \in (k + 1 + 1)..l
       PROVE  /\ q[i] = q[i - 1] + Len(Package(messages[i]).data)
              /\ \A j \in 1..Len(Package(messages[i]).data) :
                   rest[q[i - 1] + j] = Package(messages[i]).data[j]
  <2>1. i \in (k + 1)..l /\ i - 1 \in (k + 1)..l
    OBVIOUS
  <2>2. PICK y \in Seq(Byte) : y = Package(messages[i]).data
    BY <2>1
  <2>3. p[i] = p[i - 1] + Len(y) /\ \A j \in 1..Len(y) : bytes[p[i - 1] + j] = y[j]
    BY <1>1, <2>1, <2>2
  <2>4. PICK a \in Nat, c \in Nat : /\ a = p[i - 1] /\ c = p[i] /\ c <= Len(bytes)
                                    /\ Len(x) <= a /\ q[i - 1] = a - Len(x)
                                    /\ q[i] = c - Len(x)
    BY <1>7, <2>1
  <2>5. Len(y) \in Nat
    OBVIOUS
  <2>6. q[i] = q[i - 1] + Len(y)
    BY <1>0, <2>3, <2>4, <2>5, SMTT(40)
  <2>7. \A j \in 1..Len(y) : rest[q[i - 1] + j] = y[j]
    <3> SUFFICES ASSUME NEW j \in 1..Len(y) PROVE rest[q[i - 1] + j] = y[j]
      OBVIOUS
    <3>1. /\ a - Len(x) + j \in 1..(Len(bytes) - Len(x)) /\ Len(x) + (a - Len(x) + j) = a + j
      <4>1. a + Len(y) <= Len(bytes)
        BY <2>3, <2>4
      <4>2. j \in Nat /\ 1 <= j /\ j <= Len(y)
        BY <2>5
      <4>3. Len(x) <= a
        BY <2>4
      <4> QED
        <5>1. PICK lx \in Nat, ly \in Nat, lz \in Nat : lx = Len(x) /\ ly = Len(y) /\ lz = Len(bytes)
          BY <1>0, <2>5
        <5>2. 1 <= j /\ j <= ly /\ a + ly <= lz /\ lx <= a /\ j \in Nat
          BY <4>1, <4>2, <4>3, <5>1, Zenon
        <5>3. a - lx + j \in 1..(lz - lx) /\ lx + (a - lx + j) = a + j
          BY <5>2, Shifted
        <5> QED
          BY <5>1, <5>3, Zenon
    <3>2. rest[a - Len(x) + j] = bytes[Len(x) + (a - Len(x) + j)]
      BY <1>5, <3>1
    <3>3. bytes[a + j] = y[j]
      BY <2>3, <2>4
    <3> QED
      BY <2>4, <3>1, <3>2, <3>3
  <2> QED
    BY <2>2, <2>6, <2>7
<1> QED
  <2>1. LinedUp(rest, messages, k + 1, l)
    BY <1>8, <1>9, <1>10, <1>11 DEF LinedUp
  <2> QED
    BY <1>4, <2>1, Zenon
-----------------------------------------------------------------------------
(* What is delivered.                                                        *)

(* The receiver sees the length and the check code of a package, and its     *)
(* payload between them.                                                     *)
LEMMA LengthSeen ==
    ASSUME NEW to \in {"server", "client"}, NEW m \in Message(to), Sendable(m)
    PROVE  /\ Len(Payload(m)) + 4 \in Int32
           /\ Len(Payload(m)) + 4 > 0 /\ Len(Payload(m)) + 4 <= MaxPackage
           /\ Len(Package(m).data) = 4 + (Len(Payload(m)) + 4)
           /\ Package(m).data = BytesOf(4, Len(Payload(m)) + 4) \o (Payload(m) \o Code)
           /\ Payload(m) \in Seq(Byte) /\ Len(Payload(m)) >= 7
<1>1. Payload(m) \in Seq(Byte) /\ Len(Payload(m)) >= 7
  BY PayloadTyped
<1>2. Package(m).data = BytesOf(4, Len(Payload(m)) + 4) \o (Payload(m) \o Code)
  <2>1. Before >= 14
    BY SendableAssumption
  <2> QED
    BY <2>1, PackageIs DEF Lengthy
<1>3. PICK n \in Nat : n = Len(Payload(m))
  BY <1>1
<1>4. PICK len \in Seq(Byte) : len = BytesOf(4, n + 4) /\ Len(len) = 4
  BY BytesTyped
<1>5. PICK code \in Seq(Byte) : code = Code /\ Len(code) = 4
  BY NamesTyped
<1>6. PICK pay \in Seq(Byte) : pay = Payload(m)
  BY <1>1
<1>7. PICK x \in Seq(Byte) : x = pay \o code
  BY Joined
<1>8. Len(x) = n + 4
  <2>1. Len(x) = Len(pay) + Len(code)
    BY <1>7, Joined, Zenon
  <2> QED
    BY <1>3, <1>5, <1>6, <2>1, Zenon
<1>9. PICK y \in Seq(Byte) : y = len \o x
  BY Joined
<1>10. Len(y) = 4 + (n + 4)
  <2>1. Len(y) = Len(len) + Len(x)
    BY <1>9, Joined, Zenon
  <2> QED
    BY <1>4, <1>8, <2>1, Zenon
<1>11. Package(m).data = y
  BY <1>2, <1>3, <1>4, <1>5, <1>6, <1>7, <1>9, Zenon
<1>12. n + 4 <= MaxPackage
  <2>1. Len(y) - 4 <= MaxPackage
    <3>1. Len(Package(m).data) - 4 <= MaxPackage
      BY DEF Sendable
    <3> QED
      BY <1>11, <3>1, Zenon
  <2> QED
    BY <1>10, <2>1
<1>13. n + 4 \in Int32
  <2>1. MaxPackage <= 2147483647 /\ MaxPackage \in Nat
    BY SendableAssumption, FramingAssumption, SMT
  <2> QED
    BY <1>12, <2>1, SMT DEF Int32
<1>14. n + 4 > 0
  OBVIOUS
<1>15. Len(Package(m).data) = 4 + (n + 4)
  BY <1>10, <1>11, Zenon
<1> QED
  BY <1>1, <1>2, <1>3, <1>12, <1>13, <1>14, <1>15, Zenon

LEMMA AnnouncedSeen ==
    ASSUME NEW to \in {"server", "client"}, NEW m \in Message(to), Sendable(m),
           NEW b \in Memory, Len(b.data) >= 4,
           \A j \in 1..4 : b.data[j] = Package(m).data[j]
    PROVE  PeekFront(b, 4) = Len(Payload(m)) + 4
<1>1. PICK k \in Int : k = Len(Payload(m)) + 4 /\ IntOf(BytesOf(4, k)) = k
  BY LengthSeen, FourBytes DEF Int32
<1>2. PICK len \in Seq(Byte) : len = BytesOf(4, k) /\ Len(len) = 4
  BY BytesTyped
<1>3. PICK x \in Seq(Byte) : x = Payload(m) \o Code
  BY LengthSeen, NamesTyped, Joined
<1>4. Package(m).data = len \o x
  BY <1>1, <1>2, <1>3, LengthSeen, Zenon
<1>5. \A j \in 1..Len(len) : (len \o x)[j] = len[j]
  BY ConcatProperties
<1>6. 0 \in Nat /\ 4 \in Nat /\ 0 + 4 <= Len(b.data)
  BY MemoryIs
<1>7. PICK y \in Seq(Byte) : y = Bytes(b, 0, 4) /\ Len(y) = 4 /\ \A i \in 1..4 : y[i] = b.data[0 + i]
  BY <1>6, BytesThere
<1>8. \A i \in 1..Len(y) : y[i] = len[i]
  <2> SUFFICES ASSUME NEW i \in 1..4 PROVE y[i] = len[i]
    BY <1>7
  <2>1. 0 + i = i
    OBVIOUS
  <2>l. i \in 1..Len(len)
    BY <1>2, Zenon
  <2>2. y[i] = b.data[i]
    BY <1>7, <2>1
  <2>3. b.data[i] = Package(m).data[i]
    OBVIOUS
  <2>4. Package(m).data[i] = len[i]
    <3>1. Package(m).data[i] = (len \o x)[i]
      BY <1>4, Zenon
    <3>2. (len \o x)[i] = len[i]
      BY <1>5, <2>l, Zenon
    <3> QED
      BY <3>1, <3>2, Zenon
  <2> QED
    BY <2>2, <2>3, <2>4
<1>9. y = len
  BY <1>2, <1>7, <1>8, SeqEqual
<1> QED
  BY <1>1, <1>2, <1>7, <1>9, Zenon DEF PeekFront, PeekInt

LEMMA PayloadSeen ==
    ASSUME NEW to \in {"server", "client"}, NEW m \in Message(to), Sendable(m),
           NEW b \in Memory, NEW k \in Nat, k = Len(Payload(m)) + 4, 4 + k <= Len(b.data),
           \A j \in 1..(4 + k) : b.data[j] = Package(m).data[j]
    PROVE  /\ Get(b, k, 4) = Code
           /\ GetToBuffer(b, 4, k - 4) \in Memory
           /\ GetToBuffer(b, 4, k - 4).data = Payload(m)
<1>0. b.cur \in Nat /\ Len(b.data) \in Nat /\ Before \in Nat
  BY MemoryIs, BufferAssumption
<1>1. PICK pay \in Seq(Byte) : pay = Payload(m)
  BY LengthSeen
<1>2. PICK n \in Nat : n = Len(pay) /\ k = n + 4
  BY <1>1
<1>3. PICK len \in Seq(Byte) : len = BytesOf(4, k) /\ Len(len) = 4
  BY BytesTyped
<1>4. PICK code \in Seq(Byte) : code = Code /\ Len(code) = 4
  BY NamesTyped
<1>5. PICK x \in Seq(Byte) : x = pay \o code
  BY Joined
<1>6. /\ Len(x) = n + 4
      /\ \A i \in 1..(n + 4) : x[i] = IF i <= n THEN pay[i] ELSE code[i - n]
  <2>1. /\ Len(x) = Len(pay) + Len(code)
        /\ \A i \in 1..(Len(pay) + Len(code)) : x[i] = IF i <= Len(pay) THEN pay[i] ELSE code[i - Len(pay)]
    BY <1>5, ConcatProperties
  <2>2. Len(code) = 4
    BY <1>4
  <2>3. Len(pay) = n
    BY <1>2
  <2> QED
    BY <2>1, <2>2, <2>3, Zenon
<1>7. PICK y \in Seq(Byte) : y = len \o x
  BY Joined
<1>8. \A i \in 1..(4 + k) : y[i] = IF i <= 4 THEN len[i] ELSE x[i - 4]
  <2>1. \A i \in 1..(Len(len) + Len(x)) : y[i] = IF i <= Len(len) THEN len[i] ELSE x[i - Len(len)]
    BY <1>7, ConcatProperties
  <2>2. Len(len) = 4
    BY <1>3
  <2>3. Len(x) = k
    BY <1>2, <1>6
  <2> QED
    BY <2>1, <2>2, <2>3, Zenon
<1>9. Package(m).data = y
  <2>1. Package(m).data = BytesOf(4, Len(Payload(m)) + 4) \o (Payload(m) \o Code)
    BY LengthSeen
  <2> QED
    BY <1>1, <1>2, <1>3, <1>4, <1>5, <1>7, <2>1, Zenon
<1>10. \A i \in 1..n : b.data[4 + i] = pay[i]
  <2> SUFFICES ASSUME NEW i \in 1..n PROVE b.data[4 + i] = pay[i]
    OBVIOUS
  <2>1. 4 + i \in 1..(4 + k) /\ ~(4 + i <= 4) /\ 4 + i - 4 = i /\ i \in 1..(n + 4) /\ i <= n
    BY <1>2
  <2>2. b.data[4 + i] = y[4 + i]
    BY <1>9, <2>1, Zenon
  <2>3. y[4 + i] = x[4 + i - 4]
    BY <1>8, <2>1
  <2>4. x[i] = pay[i]
    BY <1>6, <2>1
  <2> QED
    BY <2>1, <2>2, <2>3, <2>4, Zenon
<1>11. \A i \in 1..4 : b.data[k + i] = code[i]
  <2> SUFFICES ASSUME NEW i \in 1..4 PROVE b.data[k + i] = code[i]
    OBVIOUS
  <2>1. /\ k + i \in 1..(4 + k) /\ ~(k + i <= 4 /\ 1 <= n) /\ k + i - 4 = n + i
        /\ n + i \in 1..(n + 4) /\ ~(n + i <= n) /\ n + i - n = i
        /\ ~(k + i <= 4)
    BY <1>2
  <2>2. b.data[k + i] = y[k + i]
    BY <1>9, <2>1, Zenon
  <2>3. y[k + i] = x[k + i - 4]
    BY <1>8, <2>1
  <2>4. x[n + i] = code[n + i - n]
    BY <1>6, <2>1
  <2> QED
    BY <2>1, <2>2, <2>3, <2>4, Zenon
<1>12. Get(b, k, 4) = Code
  <2>1. k + 4 <= Len(b.data)
    OBVIOUS
  <2>f. 4 \in Nat
    OBVIOUS
  <2>x. /\ Bytes(b, k, 4) \in Seq(Byte) /\ Len(Bytes(b, k, 4)) = 4
        /\ \A i \in 1..4 : Bytes(b, k, 4)[i] = b.data[k + i]
    BY <2>1, <2>f, BytesThere, Zenon
  <2>2. PICK z \in Seq(Byte) : /\ z = Bytes(b, k, 4) /\ Len(z) = 4
                               /\ \A i \in 1..4 : z[i] = b.data[k + i]
    BY <2>x, Zenon
  <2>3. \A i \in 1..Len(z) : z[i] = code[i]
    <3> SUFFICES ASSUME NEW i \in 1..4 PROVE z[i] = code[i]
      BY <2>2
    <3> QED
      BY <1>11, <2>2
  <2>4. Len(z) = Len(code)
    BY <1>4, <2>2
  <2>5. z = code
    BY <2>3, <2>4, SeqEqual
  <2>6. ~(k + 4 > b.cur + Len(b.data))
    BY <1>0, <2>1
  <2> QED
    BY <1>4, <2>2, <2>5, <2>6, Zenon DEF Get, End
<1>13. Bytes(b, 4, n) = pay
  <2>1. 4 + n <= Len(b.data) /\ 4 \in Nat
    BY <1>2
  <2>x. /\ Bytes(b, 4, n) \in Seq(Byte) /\ Len(Bytes(b, 4, n)) = n
        /\ \A i \in 1..n : Bytes(b, 4, n)[i] = b.data[4 + i]
    BY <2>1, BytesThere, Zenon
  <2>2. PICK z \in Seq(Byte) : /\ z = Bytes(b, 4, n) /\ Len(z) = n
                               /\ \A i \in 1..n : z[i] = b.data[4 + i]
    BY <2>x, Zenon
  <2>3. \A i \in 1..Len(z) : z[i] = pay[i]
    BY <1>10, <2>2
  <2>4. z = pay
    BY <1>2, <2>2, <2>3, SeqEqual
  <2> QED
    BY <2>2, <2>4
<1>14. GetToBuffer(b, 4, n) \in Memory /\ GetToBuffer(b, 4, n).data = pay
  <2>1. ~(4 + n > b.cur + Len(b.data))
    BY <1>0, <1>2
  <2>2. GetToBuffer(b, 4, n) = Write(NewWith(n, Before), pay, TRUE)
    BY <1>13, <2>1, Zenon DEF GetToBuffer, End
  <2>3. PICK f \in Memory : f = NewWith(n, Before)
    BY NewIs
  <2>4. f.data = <<>>
    BY <2>3, NewIs
  <2>5. Write(f, pay, TRUE) \in Memory /\ Write(f, pay, TRUE).data = f.data \o pay
    BY WriteIs
  <2>6. <<>> \o pay = pay
    BY ConcatEmptySeq
  <2> QED
    BY <2>2, <2>3, <2>4, <2>5, <2>6, Zenon
<1>15. k - 4 = n
  BY <1>2
<1> QED
  BY <1>1, <1>12, <1>14, <1>15, Zenon

LEMMA UnderWayIs ==
    ASSUME FrameInv
    PROVE  /\ UnderWay \in Seq(Byte)
           /\ Len(UnderWay) = Len(recvBuf.data) + Len(stream) + Len(sendBuf.data)
           /\ \A j \in 1..Len(recvBuf.data) : UnderWay[j] = recvBuf.data[j]
<1>0. recvBuf.data \in Seq(Byte) /\ stream \in Seq(Byte) /\ sendBuf.data \in Seq(Byte)
  BY MemoryIs DEF FrameInv, TypeOK, Roomy
<1>1. PICK a \in Seq(Byte), b \in Seq(Byte), c \in Seq(Byte) :
        a = recvBuf.data /\ b = stream /\ c = sendBuf.data
  BY <1>0
<1>2. PICK ab \in Seq(Byte) : ab = a \o b
  BY Joined
<1>3. Len(ab) = Len(a) + Len(b) /\ \A j \in 1..Len(a) : ab[j] = a[j]
  <2>1. Len(a) \in Nat /\ Len(b) \in Nat
    OBVIOUS
  <2> QED
    BY <1>2, <2>1, ConcatProperties
<1>4. PICK abc \in Seq(Byte) : abc = ab \o c
  BY Joined
<1>5. Len(abc) = Len(ab) + Len(c) /\ \A j \in 1..Len(ab) : abc[j] = ab[j]
  <2>1. Len(ab) \in Nat /\ Len(c) \in Nat
    OBVIOUS
  <2> QED
    BY <1>4, <2>1, ConcatProperties
<1>6. UnderWay = abc
  BY <1>1, <1>2, <1>4, Zenon DEF UnderWay
<1>7. \A j \in 1..Len(a) : abc[j] = a[j]
  <2>1. Len(a) \in Nat /\ Len(b) \in Nat
    OBVIOUS
  <2>2. \A j \in 1..Len(a) : j \in 1..Len(ab)
    BY <1>3, <2>1
  <2> QED
    BY <1>3, <1>5, <2>2
<1> QED
  BY <1>1, <1>3, <1>5, <1>6, <1>7, Zenon

(* With packages under way, the next to extract is the one after those       *)
(* delivered; what is received of it is there.                               *)
LEMMA NextPackage ==
    ASSUME FrameInv, InStep, traffic.damage.at = 0, Len(out) < next - 1,
           NEW m, m = Messages[Len(out) + 1]
    PROVE  /\ m \in Message(traffic.to) /\ Sendable(m) /\ traffic.to \in {"server", "client"}
           /\ Len(Package(m).data) <= Len(UnderWay)
           /\ \A j \in 1..Len(Package(m).data) :
                j <= Len(recvBuf.data) => recvBuf.data[j] = Package(m).data[j]
<1>0. /\ TypeOK /\ Len(Messages) \in Nat /\ Len(out) \in Nat /\ next \in Nat
      /\ Messages \in Seq(Message(traffic.to)) /\ traffic.to \in {"server", "client"}
  BY TrafficIs DEF FrameInv, TypeOK, InStep
<1>1. Len(out) + 1 \in 1..Len(Messages)
  BY <1>0 DEF TypeOK
<1>2. m \in Message(traffic.to)
  BY <1>0, <1>1, ElementOfSeq
<1>3. Sendable(m)
  <2>1. traffic \in Traffic
    BY <1>0 DEF TypeOK
  <2> QED
    BY <1>1, <2>1, SendableAssumption DEF Messages
<1>4. PICK x \in Seq(Byte) : x = Package(m).data
  BY <1>0, <1>2, PackageTyped, MemoryIs
<1>5. PICK bytes \in Seq(Byte) : bytes = UnderWay
  BY UnderWayIs
<1>6. LinedUp(bytes, Messages, Len(out), next - 1)
  BY <1>5 DEF InStep
<1>7. next - 1 \in Nat /\ x = Package(Messages[Len(out) + 1]).data
  BY <1>0, <1>4
<1>8. Len(x) <= Len(bytes) /\ \A j \in 1..Len(x) : bytes[j] = x[j]
  BY <1>0, <1>6, <1>7, LineBegins, SMTT(40)
<1>9. \A j \in 1..Len(x) : j <= Len(recvBuf.data) => recvBuf.data[j] = x[j]
  <2>1. Len(recvBuf.data) \in Nat /\ Len(x) \in Nat
    BY MemoryIs DEF FrameInv, Roomy
  <2>2. \A j \in 1..Len(recvBuf.data) : bytes[j] = recvBuf.data[j]
    BY <1>5, UnderWayIs
  <2> SUFFICES ASSUME NEW j \in 1..Len(x), j <= Len(recvBuf.data) PROVE recvBuf.data[j] = x[j]
    OBVIOUS
  <2>3. j \in 1..Len(recvBuf.data)
    BY <2>1
  <2> QED
    BY <1>8, <2>2, <2>3
<1> QED
  BY <1>0, <1>2, <1>3, <1>4, <1>5, <1>8, <1>9, Zenon

LEMMA NoPackage ==
    ASSUME FrameInv, InStep, traffic.damage.at = 0, ~(Len(out) < next - 1)
    PROVE  Len(recvBuf.data) = 0
<1>0. Len(out) \in Nat /\ next \in Nat /\ Len(out) < next
  BY DEF FrameInv, TypeOK, InStep
<1>1. next - 1 = Len(out)
  BY <1>0
<1>2. LinedUp(UnderWay, Messages, Len(out), Len(out))
  BY <1>1, Zenon DEF InStep
<1>3. Len(UnderWay) = 0
  BY <1>0, <1>2, UnderWayIs, LineEnds
<1>4. Len(recvBuf.data) \in Nat /\ Len(stream) \in Nat /\ Len(sendBuf.data) \in Nat
  BY MemoryIs DEF FrameInv, TypeOK, Roomy
<1>5. Len(UnderWay) = Len(recvBuf.data) + Len(stream) + Len(sendBuf.data)
  BY UnderWayIs
<1>6. PICK a \in Nat, b \in Nat, c \in Nat :
        a = Len(recvBuf.data) /\ b = Len(stream) /\ c = Len(sendBuf.data)
  BY <1>4
<1>7. a + b + c = 0
  BY <1>3, <1>5, <1>6, Zenon
<1>8. a = 0
  BY <1>7
<1> QED
  BY <1>6, <1>8, Zenon

LEMMA AnnouncedInStep ==
    ASSUME FrameInv, InStep, traffic.damage.at = 0, Len(recvBuf.data) >= 4
    PROVE  /\ Len(out) < next - 1
           /\ Announced = Len(Payload(Messages[Len(out) + 1])) + 4
           /\ Announced \in Nat /\ Announced > 0 /\ Announced <= MaxPackage
           /\ Len(Package(Messages[Len(out) + 1]).data) = 4 + Announced
<1>0. recvBuf \in Memory
  BY DEF FrameInv, Roomy
<1>1. Len(out) < next - 1
  BY NoPackage
<1>2. PICK m : m = Messages[Len(out) + 1]
  OBVIOUS
<1>3. /\ m \in Message(traffic.to) /\ Sendable(m) /\ traffic.to \in {"server", "client"}
      /\ \A j \in 1..Len(Package(m).data) :
           j <= Len(recvBuf.data) => recvBuf.data[j] = Package(m).data[j]
  BY <1>1, <1>2, NextPackage
<1>4. /\ Len(Payload(m)) + 4 > 0 /\ Len(Payload(m)) + 4 <= MaxPackage
      /\ Len(Package(m).data) = 4 + (Len(Payload(m)) + 4)
      /\ Payload(m) \in Seq(Byte)
  BY <1>3, LengthSeen
<1>5. PICK k \in Nat : k = Len(Payload(m)) + 4
  BY <1>4
<1>6. \A j \in 1..4 : recvBuf.data[j] = Package(m).data[j]
  <2>1. Len(recvBuf.data) \in Nat
    BY <1>0, MemoryIs
  <2>2. \A j \in 1..4 : j \in 1..(4 + k) /\ j <= Len(recvBuf.data)
    BY <2>1
  <2>3. Len(Package(m).data) = 4 + k
    BY <1>4, <1>5
  <2> QED
    BY <1>3, <2>2, <2>3
<1>7. Announced = k
  BY <1>0, <1>3, <1>5, <1>6, AnnouncedSeen DEF Announced
<1> QED
  BY <1>1, <1>2, <1>4, <1>5, <1>7

(* The packages of an undamaged conversation are sound.                      *)
LEMMA PackageInStep ==
    ASSUME FrameInv, InStep, traffic.damage.at = 0, ~Awaits,
           NEW m, m = Messages[Len(out) + 1]
    PROVE  /\ Sound
           /\ Len(out) < next - 1
           /\ Len(Package(m).data) = 4 + Announced /\ 4 + Announced \in 0..Len(recvBuf.data)
           /\ GetToBuffer(recvBuf, 4, Announced - 4) \in Memory
           /\ GetToBuffer(recvBuf, 4, Announced - 4).data = Payload(m)
<1>0. recvBuf \in Memory /\ Len(recvBuf.data) \in Nat
  BY MemoryIs DEF FrameInv, Roomy
<1>1. Len(recvBuf.data) >= 4
  BY <1>0 DEF Awaits, Size
<1>2. /\ Len(out) < next - 1 /\ Announced = Len(Payload(m)) + 4
      /\ Announced \in Nat /\ Announced > 0 /\ Announced <= MaxPackage
      /\ Len(Package(m).data) = 4 + Announced
  BY <1>1, AnnouncedInStep
<1>3. 4 + Announced <= Len(recvBuf.data)
  BY <1>0, <1>2 DEF Awaits, Size
<1>4. /\ m \in Message(traffic.to) /\ Sendable(m) /\ traffic.to \in {"server", "client"}
      /\ \A j \in 1..Len(Package(m).data) :
           j <= Len(recvBuf.data) => recvBuf.data[j] = Package(m).data[j]
  BY <1>2, NextPackage
<1>5. PICK k \in Nat : k = Announced
  BY <1>2
<1>6. \A j \in 1..(4 + k) : recvBuf.data[j] = Package(m).data[j]
  <2>1. \A j \in 1..(4 + k) : j <= Len(recvBuf.data)
    BY <1>0, <1>3, <1>5
  <2>2. Len(Package(m).data) = 4 + k
    BY <1>2, <1>5
  <2> QED
    BY <1>4, <2>1, <2>2
<1>7. /\ Get(recvBuf, k, 4) = Code
      /\ GetToBuffer(recvBuf, 4, k - 4) \in Memory
      /\ GetToBuffer(recvBuf, 4, k - 4).data = Payload(m)
  BY <1>0, <1>2, <1>3, <1>4, <1>5, <1>6, PayloadSeen
<1>8. 4 + Announced \in 0..Len(recvBuf.data)
  BY <1>0, <1>2, <1>3
<1> QED
  BY <1>2, <1>5, <1>7, <1>8, Zenon DEF Sound

(* What the receiver makes of a payload is the message.                      *)
LEMMA MessageSeen ==
    ASSUME NEW to \in {"server", "client"}, NEW m \in Message(to), Sendable(m),
           NEW b \in Memory, b.data = Payload(m)
    PROVE  /\ Size(b) # 0
           /\ (IF to = "server" THEN CheckRequest(b) ELSE ParseHrpc(b)) = m
<1>1. Size(b) # 0
  BY PayloadTyped DEF Size
<1>2. CASE to = "server"
  <2>1. m \in Message("server") /\ m.kind \in {"request", "oneway"}
    BY <1>2 DEF Message
  <2>2. m.object \in Seq(Byte) /\ m.func \in Seq(Byte)
    BY <2>1 DEF Message
  <2>3. /\ m.object = ObjectName /\ 2 <= Len(m.object) + 1 + Len(m.func)
        /\ Len(m.object) + 1 + Len(m.func) <= LongestName
    BY <2>1, Zenon DEF Sendable
  <2>4. ObjectName \in Seq(Byte \ {Dot}) /\ m.object \in Seq(Byte \ {Dot})
    BY <2>3, SendableAssumption
  <2>5. PICK name \in Seq(Byte) : name = Dest(m)
    BY <2>2, NamesTyped, ConcatProperties DEF Dest
  <2>6. Len(name) = Len(m.object) + 1 + Len(m.func)
    BY <2>1, <2>4, <2>5, NameSplits
  <2>7. Len(name) \in Short /\ Len(name) >= 2
    <3>1. Len(name) \in Nat
      OBVIOUS
    <3>2. Len(name) <= LongestName /\ 2 <= Len(name)
      BY <2>3, <2>6, Zenon
    <3> QED
      BY <3>1, <3>2, SMT DEF Short, LongestName
  <2>8. Len(Dest(m)) \in Short /\ Len(Dest(m)) >= 2
    BY <2>5, <2>7, Zenon
  <2>9. CheckRequest(b) = m
    BY <2>1, <2>3, <2>4, <2>8, RequestThere
  <2> QED
    BY <1>1, <1>2, <2>9, Zenon
<1>3. CASE to = "client"
  <2>1. m \in Message("client") /\ m.kind \in {"response", "heart"}
    BY <1>3 DEF Message
  <2>2. ParseHrpc(b) = m
    BY <2>1, ResponseThere, HeartThere
  <2> QED
    BY <1>1, <1>3, <2>2
<1> QED
  BY <1>2, <1>3

LEMMA PackagesTyped ==
    ASSUME TypeOK
    PROVE  \A i \in 1..Len(Messages) : Package(Messages[i]).data \in Seq(Byte)
<1> SUFFICES ASSUME NEW i \in 1..Len(Messages) PROVE Package(Messages[i]).data \in Seq(Byte)
  OBVIOUS
<1>1. Messages[i] \in Message(traffic.to) /\ traffic.to \in {"server", "client"}
  BY TrafficIs, ElementOfSeq
<1> QED
  BY <1>1, PackageTyped, MemoryIs

LEMMA InStepInit ==
    ASSUME Init
    PROVE  InStep
<1>1. /\ out = <<>> /\ next = 1 /\ stream = <<>> /\ sendBuf.data = <<>> /\ recvBuf.data = <<>>
  BY NewBufferIs DEF Init
<1>2. out \in Seq(Message(traffic.to)) /\ Len(out) = 0
  BY <1>1, EmptySeq
<1>3. UnderWay = <<>>
  BY <1>1 DEF UnderWay
<1>4. Len(UnderWay) = 0 /\ next - 1 = 0
  BY <1>1, <1>3
<1>5. LinedUp(UnderWay, Messages, 0, 0)
  <2>1. PICK p : p = [i \in 0..0 |-> 0]
    OBVIOUS
  <2>2. p \in [0..0 -> 0..Len(UnderWay)] /\ p[0] = 0 /\ p[0] = Len(UnderWay)
    BY <1>4, <2>1
  <2>3. \A i, j \in 0..0 : i <= j => p[i] <= p[j]
    BY <2>2
  <2>4. ~ \E i \in (0 + 1)..0 : TRUE
    OBVIOUS
  <2> QED
    BY <2>2, <2>3, <2>4 DEF LinedUp
<1>6. Awaits
  BY <1>1 DEF Awaits, Size
<1>7. LinedUp(UnderWay, Messages, Len(out), next - 1)
  BY <1>2, <1>4, <1>5, Zenon
<1> QED
  BY <1>1, <1>2, <1>6, <1>7 DEF InStep

(* Moving bytes from one stage to the next leaves those under way as they   *)
(* are.                                                                      *)
LEMMA SendKeeps ==
    ASSUME TypeOK, Roomy(sendBuf), Roomy(recvBuf), SendData
    PROVE  UnderWay' = UnderWay
<1>0. /\ sendBuf \in Memory /\ sendBuf.data \in Seq(Byte)
      /\ recvBuf.data \in Seq(Byte) /\ stream \in Seq(Byte)
  BY MemoryIs DEF Roomy, TypeOK
<1>1. PICK n \in 1..Size(sendBuf) :
        /\ stream' = stream \o SubSeq(sendBuf.data, 1, n)
        /\ sendBuf' = SkipBytes(sendBuf, n)
        /\ recvBuf' = recvBuf
  BY DEF SendData
<1>2. n \in 0..Len(sendBuf.data)
  BY <1>0, <1>1, MemoryIs DEF Size
<1>3. PICK first \in Seq(Byte), rest \in Seq(Byte) :
        first = SubSeq(sendBuf.data, 1, n) /\ rest = SubSeq(sendBuf.data, n + 1, Len(sendBuf.data))
  BY <1>0, <1>2, FirstIs, RestIs
<1>4. first \o rest = sendBuf.data
  BY <1>0, <1>2, <1>3, CutIs
<1>5. sendBuf'.data = rest
  BY <1>0, <1>1, <1>2, <1>3, SkipIs
<1>6. (recvBuf.data \o (stream \o first)) \o rest = (recvBuf.data \o stream) \o (first \o rest)
  <2>1. (recvBuf.data \o stream) \o first = recvBuf.data \o (stream \o first)
    BY <1>0, Rejoined, ZenonT(40)
  <2>2. PICK rs \in Seq(Byte) : rs = recvBuf.data \o stream
    BY <1>0, Joined
  <2>3. (rs \o first) \o rest = rs \o (first \o rest)
    BY Rejoined
  <2> QED
    BY <2>1, <2>2, <2>3, Zenon
<1>7. UnderWay' = (recvBuf.data \o (stream \o first)) \o rest
  BY <1>1, <1>3, <1>5, Zenon DEF UnderWay
<1> QED
  BY <1>4, <1>6, <1>7, Zenon DEF UnderWay

LEMMA RecvKeeps ==
    ASSUME TypeOK, Roomy(sendBuf), Roomy(recvBuf), RecvData
    PROVE  UnderWay' = UnderWay
<1>0. /\ recvBuf \in Memory /\ sendBuf.data \in Seq(Byte)
      /\ recvBuf.data \in Seq(Byte) /\ stream \in Seq(Byte)
  BY MemoryIs DEF Roomy, TypeOK
<1>1. PICK n \in 0..Len(stream) : n = IF Len(stream) < RecvLen THEN Len(stream) ELSE RecvLen
  BY <1>0, FramingAssumption
<1>2. /\ recvBuf' = Write(recvBuf, SubSeq(stream, 1, n), TRUE)
      /\ stream' = SubSeq(stream, n + 1, Len(stream))
      /\ sendBuf' = sendBuf
  BY <1>1 DEF RecvData
<1>3. PICK first \in Seq(Byte), rest \in Seq(Byte) :
        first = SubSeq(stream, 1, n) /\ rest = SubSeq(stream, n + 1, Len(stream))
  BY <1>0, <1>1, FirstIs, RestIs
<1>4. first \o rest = stream
  BY <1>0, <1>1, <1>3, CutIs
<1>5. recvBuf'.data = recvBuf.data \o first
  <2>1. recvBuf' = Write(recvBuf, first, TRUE)
    BY <1>2, <1>3, Zenon
  <2>2. Write(recvBuf, first, TRUE).data = recvBuf.data \o first
    BY <1>0, WriteIs
  <2> QED
    BY <2>1, <2>2, Zenon
<1>6. (recvBuf.data \o first) \o rest = recvBuf.data \o (first \o rest)
  BY <1>0, Rejoined, ZenonT(40)
<1>7. UnderWay' = ((recvBuf.data \o first) \o rest) \o sendBuf.data
  BY <1>2, <1>3, <1>5, Zenon DEF UnderWay
<1> QED
  BY <1>4, <1>6, <1>7, Zenon DEF UnderWay

LEMMA InStepNext ==
    ASSUME FrameInv, InStep, [Next]_vars
    PROVE  InStep'
<1>0. /\ TypeOK /\ Roomy(sendBuf) /\ Roomy(recvBuf) /\ sendBuf \in Memory /\ recvBuf \in Memory
      /\ recvBuf.data \in Seq(Byte) /\ sendBuf.data \in Seq(Byte) /\ stream \in Seq(Byte)
      /\ next \in 1..(Len(Messages) + 1) /\ Len(Messages) \in Nat /\ next \in Nat
  BY MemoryIs, TrafficIs DEF FrameInv, Roomy, TypeOK
<1>t. traffic' = traffic
  BY DEF Next, PushData, SendData, ReceiverStep, RecvData, ExtractPackage, ExtractError,
         ExtractEnd, vars
<1>m. Messages' = Messages
  BY <1>t DEF Messages
<1> SUFFICES ASSUME traffic.damage.at = 0
             PROVE  /\ out' \in Seq(Message(traffic.to))
                    /\ Len(out') < next'
                    /\ \A i \in 1..Len(out') : out'[i] = Messages[i]
                    /\ LinedUp(UnderWay', Messages, Len(out'), next' - 1)
                    /\ pc' = "wait" => Awaits'
  BY <1>t, <1>m DEF InStep
<1>i. /\ out \in Seq(Message(traffic.to)) /\ Len(out) < next /\ Len(out) \in Nat
      /\ \A i \in 1..Len(out) : out[i] = Messages[i]
      /\ LinedUp(UnderWay, Messages, Len(out), next - 1)
      /\ pc = "wait" => Awaits
  BY DEF InStep
<1>a. recvBuf' = recvBuf => Awaits' = Awaits
  BY DEF Awaits, Announced
<1>b. PICK r \in Seq(Byte), s \in Seq(Byte), d \in Seq(Byte) :
        r = recvBuf.data /\ s = stream /\ d = sendBuf.data
  BY <1>0
<1>c. PICK rs \in Seq(Byte) : rs = r \o s
  BY Joined
<1>u. PICK u \in Seq(Byte) : u = UnderWay /\ u = rs \o d
  <2>1. UnderWay = rs \o d
    BY <1>b, <1>c, Zenon DEF UnderWay
  <2> QED
    BY <2>1, Joined
<1>1. CASE PushData
  <2>1. next <= Len(Messages) /\ next' = next + 1 /\ UNCHANGED <<stream, recvBuf, pc, out>>
    BY <1>1 DEF PushData, Messages
  <2>2. next \in 1..Len(Messages)
    BY <1>0, <2>1
  <2>3. PICK x \in Seq(Byte) : x = Package(Messages[next]).data
    BY <1>0, <2>2, PackagesTyped
  <2>4. sendBuf' = Write(sendBuf, x, TRUE)
    <3>1. traffic.damage.at # next
      BY <1>0
    <3> QED
      BY <1>1, <2>3, <3>1 DEF PushData, SentBytes, Messages
  <2>5. sendBuf'.data = d \o x
    BY <1>0, <1>b, <2>4, WriteIs
  <2>6. UnderWay' = u \o x
    <3>1. (rs \o d) \o x = rs \o (d \o x)
      BY Rejoined, SMTT(40)
    <3>2. UnderWay' = rs \o (d \o x)
      BY <1>b, <1>c, <2>1, <2>5, Zenon DEF UnderWay
    <3> QED
      BY <1>u, <3>1, <3>2, Zenon
  <2>7. LinedUp(u \o x, Messages, Len(out), next' - 1)
    <3>1. PICK k \in Nat, l \in Nat : k = Len(out) /\ l = next - 1 /\ k <= l /\ l + 1 = next
      BY <1>0, <1>i
    <3>2. \A i \in (k + 1)..(l + 1) : Package(Messages[i]).data \in Seq(Byte)
      <4>1. \A i \in (k + 1)..(l + 1) : i \in 1..Len(Messages)
        BY <2>2, <3>1
      <4> QED
        BY <1>0, <4>1, PackagesTyped
    <3>3. LinedUp(u, Messages, k, l)
      BY <1>i, <1>u, <3>1, Zenon
    <3>4. x = Package(Messages[l + 1]).data
      BY <2>3, <3>1, Zenon
    <3>5. LinedUp(u \o x, Messages, k, l + 1)
      BY <3>1, <3>2, <3>3, <3>4, LineGrows
    <3>6. next' - 1 = l + 1
      BY <2>1, <3>1
    <3> QED
      BY <3>1, <3>5, <3>6, Zenon
  <2>8. LinedUp(UnderWay', Messages, Len(out'), next' - 1)
    BY <2>1, <2>6, <2>7, Zenon
  <2>9. Len(out') < next'
    BY <1>0, <1>i, <2>1
  <2> QED
    BY <1>i, <1>a, <2>1, <2>8, <2>9
<1>2. CASE SendData
  <2>1. UNCHANGED <<next, recvBuf, pc, out>>
    BY <1>2 DEF SendData
  <2>2. UnderWay' = UnderWay
    BY <1>0, <1>2, SendKeeps
  <2>3. LinedUp(UnderWay', Messages, Len(out'), next' - 1)
    BY <1>i, <2>1, <2>2, Zenon
  <2> QED
    BY <1>i, <1>a, <2>1, <2>3
<1>3. CASE RecvData
  <2>1. pc' \in {"recv", "extract"} /\ UNCHANGED <<next, out>>
    BY <1>3 DEF RecvData
  <2>2. UnderWay' = UnderWay
    BY <1>0, <1>3, RecvKeeps
  <2>3. LinedUp(UnderWay', Messages, Len(out'), next' - 1)
    BY <1>i, <2>1, <2>2, Zenon
  <2> QED
    BY <1>i, <2>1, <2>3
<1>4. CASE ExtractPackage
  <2>0. /\ ~Awaits /\ pc' = pc /\ pc = "extract" /\ next' = next
        /\ recvBuf' = SkipBytes(recvBuf, 4 + Announced)
        /\ UNCHANGED <<stream, sendBuf>>
    BY <1>4 DEF ExtractPackage
  <2>1. PICK m : m = Messages[Len(out) + 1]
    OBVIOUS
  <2>2. /\ Len(out) < next - 1
        /\ Len(Package(m).data) = 4 + Announced /\ 4 + Announced \in 0..Len(recvBuf.data)
        /\ GetToBuffer(recvBuf, 4, Announced - 4) \in Memory
        /\ GetToBuffer(recvBuf, 4, Announced - 4).data = Payload(m)
    BY <2>0, <2>1, PackageInStep
  <2>3. m \in Message(traffic.to) /\ Sendable(m) /\ traffic.to \in {"server", "client"}
    BY <2>1, <2>2, NextPackage
  <2>4. PICK msg \in Memory : /\ msg = GetToBuffer(recvBuf, 4, Announced - 4)
                              /\ msg.data = Payload(m)
    BY <2>2
  <2>5. /\ Size(msg) # 0
        /\ (IF traffic.to = "server" THEN CheckRequest(msg) ELSE ParseHrpc(msg)) = m
    BY <2>3, <2>4, MessageSeen
  <2>6. out' = Append(out, m)
    BY <1>4, <2>4, <2>5, Zenon DEF ExtractPackage
  <2>7. /\ out' \in Seq(Message(traffic.to)) /\ Len(out') = Len(out) + 1
        /\ \A i \in 1..Len(out) : out'[i] = out[i]
        /\ out'[Len(out) + 1] = m
    BY <1>i, <2>3, <2>6, AppendProperties
  <2>8. Len(out') < next'
    BY <1>0, <1>i, <2>0, <2>2, <2>7
  <2>9. \A i \in 1..Len(out') : out'[i] = Messages[i]
    <3> SUFFICES ASSUME NEW i \in 1..(Len(out) + 1) PROVE out'[i] = Messages[i]
      BY <2>7
    <3>1. i \in 1..Len(out) \/ i = Len(out) + 1
      BY <1>i
    <3> QED
      BY <1>i, <2>1, <2>7, <3>1
  <2>10. PICK x \in Seq(Byte) : x = Package(m).data /\ Len(x) = 4 + Announced
    BY <2>2, <2>3, PackageTyped, MemoryIs
  <2>11. Len(x) \in 0..Len(r) /\ Len(x) \in 0..Len(rs)
    <3>1. Len(x) \in 0..Len(r)
      BY <1>b, <2>2, <2>10, Zenon
    <3>2. Len(rs) = Len(r) + Len(s) /\ Len(r) \in Nat /\ Len(s) \in Nat
      BY <1>c, Joined
    <3> QED
      BY <3>1, <3>2
  <2>12. PICK rest \in Seq(Byte) : rest = SubSeq(r, Len(x) + 1, Len(r))
    BY <2>11, RestIs
  <2>13. recvBuf'.data = rest
    <3>1. recvBuf' = SkipBytes(recvBuf, Len(x))
      BY <2>0, <2>10, Zenon
    <3>2. Len(x) \in 0..Len(recvBuf.data)
      BY <1>b, <2>11, Zenon
    <3>3. SkipBytes(recvBuf, Len(x)).data = SubSeq(recvBuf.data, Len(x) + 1, Len(recvBuf.data))
      BY <1>0, <3>2, SkipIs
    <3> QED
      BY <1>b, <2>12, <3>1, <3>3, Zenon
  <2>14. UnderWay' = SubSeq(u, Len(x) + 1, Len(u))
    <3>1. SubSeq(r \o s, Len(x) + 1, Len(r \o s)) = SubSeq(r, Len(x) + 1, Len(r)) \o s
      BY <2>11, DropFront
    <3>2. SubSeq(rs \o d, Len(x) + 1, Len(rs \o d)) = SubSeq(rs, Len(x) + 1, Len(rs)) \o d
      BY <2>11, DropFront
    <3>3. UnderWay' = (rest \o s) \o d
      BY <1>b, <2>0, <2>13, Zenon DEF UnderWay
    <3> QED
      BY <1>c, <1>u, <2>12, <3>1, <3>2, <3>3, Zenon
  <2>15. LinedUp(SubSeq(u, Len(x) + 1, Len(u)), Messages, Len(out) + 1, next - 1)
    <3>1. PICK k \in Nat, l \in Nat : k = Len(out) /\ l = next - 1 /\ k < l /\ l + 1 = next
      BY <1>0, <1>i, <2>2
    <3>2. \A i \in (k + 1)..l : Package(Messages[i]).data \in Seq(Byte)
      <4>1. \A i \in (k + 1)..l : i \in 1..Len(Messages)
        BY <1>0, <3>1
      <4> QED
        BY <1>0, <4>1, PackagesTyped
    <3>3. LinedUp(u, Messages, k, l)
      BY <1>i, <1>u, <3>1, Zenon
    <3>4. x = Package(Messages[k + 1]).data
      BY <2>1, <2>10, <3>1, Zenon
    <3>5. LinedUp(SubSeq(u, Len(x) + 1, Len(u)), Messages, k + 1, l)
      BY <3>1, <3>2, <3>3, <3>4, LineMoves
    <3> QED
      BY <3>1, <3>5, Zenon
  <2>16. LinedUp(UnderWay', Messages, Len(out'), next' - 1)
    BY <2>0, <2>7, <2>14, <2>15, Zenon
  <2>17. pc' # "wait"
    BY <2>0
  <2> QED
    BY <2>7, <2>8, <2>9, <2>16, <2>17
<1>5. CASE ExtractError
  BY <1>5, PackageInStep DEF ExtractError
<1>6. CASE ExtractEnd
  <2>1. Awaits /\ UNCHANGED <<next, sendBuf, stream, recvBuf, out>>
    BY <1>6 DEF ExtractEnd
  <2>2. UnderWay' = UnderWay
    BY <2>1 DEF UnderWay
  <2>3. LinedUp(UnderWay', Messages, Len(out'), next' - 1)
    BY <1>i, <2>1, <2>2, Zenon
  <2> QED
    BY <1>i, <1>a, <2>1, <2>3
<1>7. CASE UNCHANGED vars
  <2>1. UNCHANGED <<next, sendBuf, stream, recvBuf, out, pc>>
    BY <1>7 DEF vars
  <2>2. UnderWay' = UnderWay
    BY <2>1 DEF UnderWay
  <2>3. LinedUp(UnderWay', Messages, Len(out'), next' - 1)
    BY <1>i, <2>1, <2>2, Zenon
  <2> QED
    BY <1>i, <1>a, <2>1, <2>3
<1> QED
  BY <1>1, <1>2, <1>3, <1>4, <1>5, <1>6, <1>7 DEF Next, ReceiverStep

(* Delivered always holds: however the stream is cut, the receiver makes of  *)
(* an undamaged conversation the messages that were sent, each of them once  *)
(* and in order, and when all has arrived none is missing                    *)
(* (ConnectionBase.cpp:120, HrpcProtocol.cpp, ProxyProtocol.cpp).            *)
THEOREM MessagesDelivered == Spec => []Delivered
<1>1. Init => FrameInv /\ InStep
  BY FrameInit, InStepInit
<1>2. FrameInv /\ InStep /\ [Next]_vars => (FrameInv /\ InStep)'
  BY FrameStep, InStepNext
<1>3. ASSUME FrameInv, InStep PROVE Delivered
  <2> SUFFICES ASSUME traffic.damage.at = 0
               PROVE  /\ Len(out) <= Len(Messages)
                      /\ \A i \in 1..Len(out) : out[i] = Messages[i]
                      /\ AllReceived => Len(out) = Len(Messages)
    BY DEF Delivered
  <2>1. /\ Len(out) < next /\ Len(out) \in Nat /\ next \in 1..(Len(Messages) + 1)
        /\ Len(Messages) \in Nat /\ \A i \in 1..Len(out) : out[i] = Messages[i]
        /\ pc = "wait" => Awaits
    BY <1>3, TrafficIs DEF FrameInv, TypeOK, InStep
  <2>2. Len(out) <= Len(Messages)
    BY <2>1
  <2>3. ASSUME AllReceived PROVE Len(out) = Len(Messages)
    <3>1. /\ next = Len(Messages) + 1 /\ Len(sendBuf.data) = 0 /\ Len(stream) = 0 /\ Awaits
      BY <2>1, <2>3 DEF AllReceived, Size
    <3>2. ASSUME Len(out) < next - 1 PROVE FALSE
      <4>1. PICK m : m = Messages[Len(out) + 1]
        OBVIOUS
      <4>2. /\ m \in Message(traffic.to) /\ Sendable(m) /\ traffic.to \in {"server", "client"}
            /\ Len(Package(m).data) <= Len(UnderWay)
        BY <1>3, <3>2, <4>1, NextPackage
      <4>3. /\ Len(Package(m).data) = 4 + (Len(Payload(m)) + 4)
            /\ Len(Payload(m)) >= 7 /\ Payload(m) \in Seq(Byte)
        BY <4>2, LengthSeen
      <4>4. PICK n \in Nat : n = Len(Payload(m))
        BY <4>3
      <4>5. PICK k \in Nat : k = Len(recvBuf.data)
        BY <1>3, MemoryIs DEF FrameInv, Roomy
      <4>6. Len(UnderWay) = k
        <5>1. Len(UnderWay) = Len(recvBuf.data) + Len(stream) + Len(sendBuf.data)
          BY <1>3, UnderWayIs
        <5>2. Len(UnderWay) = k + 0 + 0
          BY <3>1, <4>5, <5>1, Zenon
        <5> QED
          BY <5>2
      <4>7. 4 + (n + 4) <= k /\ n >= 7
        BY <4>2, <4>3, <4>4, <4>6, Zenon
      <4>8. Len(recvBuf.data) >= 4 /\ Size(recvBuf) > 4
        BY <4>5, <4>7 DEF Size
      <4>9. Announced = n + 4
        BY <1>3, <4>1, <4>4, <4>8, AnnouncedInStep
      <4>10. k < 4 + (n + 4)
        BY <3>1, <4>5, <4>8, <4>9, Zenon DEF Awaits, Size
      <4> QED
        BY <4>7, <4>10
    <3> QED
      BY <2>1, <3>1, <3>2
  <2> QED
    BY <2>1, <2>2, <2>3
<1> QED
  BY <1>1, <1>2, <1>3, PTL DEF Spec

-----------------------------------------------------------------------------
(* What is recovered: the line of all bytes of a conversation.               *)
LEMMA ConversationIs ==
    ASSUME NEW t \in Traffic
    PROVE  /\ Len(t.messages) \in Nat /\ t.to \in {"server", "client"}
           /\ \A i \in 1..Len(t.messages) : t.messages[i] \in Message(t.to)
           /\ t.damage.at \in Nat /\ t.damage.value \in Int
           /\ t.damage.kind = "code" => t.damage.value \in Byte
<1>1. t.messages \in Seq(Message(t.to)) /\ t.to \in {"server", "client"}
  BY FramingAssumption
<1>2. /\ t.damage.at \in Nat /\ t.damage.value \in Int
      /\ t.damage.kind = "code" => t.damage.value \in Byte
  BY FramingAssumption
<1>3. Len(t.messages) \in Nat /\ \A i \in 1..Len(t.messages) : t.messages[i] \in Message(t.to)
  BY <1>1, ElementOfSeq
<1> QED
  BY <1>1, <1>2, <1>3

(* What is sent of a package is bytes.                                       *)
LEMMA SentTyped ==
    ASSUME NEW t \in Traffic, NEW i \in 1..Len(t.messages)
    PROVE  SentBytes(t, i) \in Seq(Byte)
<1>1. t.messages[i] \in Message(t.to) /\ t.to \in {"server", "client"}
  BY ConversationIs
<1>2. PICK x \in Seq(Byte) : x = Package(t.messages[i]).data /\ Len(x) >= 4
  BY <1>1, PackageTyped, MemoryIs
<1>3. Damaged(x, t.damage) \in Seq(Byte)
  BY <1>2, ConversationIs, DamagedTyped
<1> QED
  BY <1>2, <1>3 DEF SentBytes

(* A set of numbers with an element has a smallest one.                      *)
LEMMA LessIs ==
    ASSUME NEW i \in Nat, NEW j \in Nat, ~(<<j, i>> \in OpToRel(<, Nat))
    PROVE  ~(j < i)
BY DEF OpToRel

LEMMA Smallest ==
    ASSUME NEW T, T \subseteq Nat, T # {}
    PROVE  \E i \in T : \A j \in T : i <= j
<1>1. PICK i \in T : \A j \in T : ~(j < i)
  <2>1. PICK i \in T : \A j \in T : ~(<<j, i>> \in OpToRel(<, Nat))
    BY WFMin, NatLessThanWellFounded, Zenon
  <2>2. \A j \in T : j \in Nat
    OBVIOUS
  <2>3. \A j \in T : ~(j < i)
    BY <2>1, <2>2, LessIs, Zenon
  <2> QED
    BY <2>3, Zenon
<1> QED
  BY <1>1

(* The line can be laid package by package.                                  *)
Lays(g, t, k) ==
    /\ g \in [0..k -> Seq(Byte)]
    /\ g[0] = <<>>
    /\ \A i \in 1..k : g[i] = g[i - 1] \o SentBytes(t, i)

LEMMA CanBeLaid ==
    ASSUME NEW t \in Traffic
    PROVE  \A k \in 0..Len(t.messages) : \E g : Lays(g, t, k)
<1>n. PICK n \in Nat : n = Len(t.messages)
  BY ConversationIs
<1> SUFFICES ASSUME NEW T, T = {k \in 0..n : ~ \E g : Lays(g, t, k)}, T # {}
             PROVE  FALSE
  <2>1. PICK T : T = {k \in 0..n : ~ \E g : Lays(g, t, k)}
    OBVIOUS
  <2> QED
    BY <1>n, <2>1
<1>1. PICK k \in T : \A j \in T : k <= j
  <2>1. T \subseteq Nat
    OBVIOUS
  <2> QED
    BY <2>1, Smallest
<1>2. k \in 0..n /\ ~ \E g : Lays(g, t, k)
  BY <1>1
<1>3. k # 0
  <2>1. PICK g : g = [i \in 0..0 |-> <<>>]
    OBVIOUS
  <2>2. <<>> \in Seq(Byte)
    BY EmptySeq
  <2>3. g \in [0..0 -> Seq(Byte)] /\ g[0] = <<>>
    BY <2>1, <2>2
  <2>4. ~ \E i \in 1..0 : TRUE
    OBVIOUS
  <2>5. Lays(g, t, 0)
    BY <2>3, <2>4 DEF Lays
  <2> QED
    BY <1>2, <2>5
<1>4. k - 1 \in 0..n /\ k - 1 \notin T
  BY <1>1, <1>2, <1>3
<1>5. PICK g : Lays(g, t, k - 1)
  BY <1>4
<1>6. /\ g \in [0..(k - 1) -> Seq(Byte)] /\ g[0] = <<>>
      /\ \A i \in 1..(k - 1) : g[i] = g[i - 1] \o SentBytes(t, i)
  BY <1>5 DEF Lays
<1>7. PICK x \in Seq(Byte) : x = g[k - 1] \o SentBytes(t, k)
  <2>1. k \in 1..Len(t.messages) /\ k - 1 \in 0..(k - 1)
    BY <1>n, <1>2, <1>3
  <2>2. g[k - 1] \in Seq(Byte) /\ SentBytes(t, k) \in Seq(Byte)
    BY <1>6, <2>1, SentTyped
  <2> QED
    BY <2>2, Joined
<1>8. PICK f : f = [i \in 0..k |-> IF i = k THEN x ELSE g[i]]
  OBVIOUS
<1>9. f \in [0..k -> Seq(Byte)]
  <2>1. \A i \in 0..k : i # k => i \in 0..(k - 1)
    BY <1>2, <1>3
  <2> QED
    BY <1>6, <1>8, <2>1
<1>10. f[0] = <<>>
  <2>1. 0 \in 0..k /\ 0 # k
    BY <1>2, <1>3
  <2> QED
    BY <1>6, <1>8, <2>1
<1>11. ASSUME NEW i \in 1..k PROVE f[i] = f[i - 1] \o SentBytes(t, i)
  <2>1. i \in 0..k /\ i - 1 \in 0..k /\ i - 1 # k
    BY <1>2
  <2>2. f[i - 1] = g[i - 1]
    BY <1>8, <2>1
  <2>3. CASE i = k
    BY <1>7, <1>8, <2>1, <2>2, <2>3
  <2>4. CASE i # k
    <3>1. i \in 1..(k - 1)
      BY <1>2, <2>4
    <3> QED
      BY <1>6, <1>8, <2>1, <2>2, <2>4, <3>1
  <2> QED
    BY <2>3, <2>4
<1>12. Lays(f, t, k)
  BY <1>9, <1>10, <1>11 DEF Lays
<1> QED
  BY <1>2, <1>12

LEMMA LaidIs ==
    ASSUME NEW t \in Traffic
    PROVE  Lays(Laid(t), t, Len(t.messages))
<1>n. PICK n \in Nat : n = Len(t.messages)
  BY ConversationIs
<1>1. PICK g : Lays(g, t, n)
  BY <1>n, CanBeLaid
<1>2. g = [i \in 0..n |-> IF i = 0 THEN <<>> ELSE g[i - 1] \o SentBytes(t, i)]
  <2>1. PICK f : f = [i \in 0..n |-> IF i = 0 THEN <<>> ELSE g[i - 1] \o SentBytes(t, i)]
    OBVIOUS
  <2>2. \A i \in 0..n : g[i] = f[i]
    <3> SUFFICES ASSUME NEW i \in 0..n PROVE g[i] = f[i]
      OBVIOUS
    <3>1. CASE i = 0
      BY <1>1, <2>1, <3>1 DEF Lays
    <3>2. CASE i # 0
      <4>1. i \in 1..n
        BY <3>2
      <4> QED
        BY <1>1, <2>1, <3>2, <4>1 DEF Lays
    <3> QED
      BY <3>1, <3>2
  <2>3. g \in [0..n -> Seq(Byte)]
    BY <1>1 DEF Lays
  <2>4. g = f
    BY <2>1, <2>2, <2>3
  <2> QED
    BY <2>1, <2>4, Zenon
<1>3. PICK f : f = Laid(t) /\ f = [i \in 0..n |-> IF i = 0 THEN <<>> ELSE f[i - 1] \o SentBytes(t, i)]
  BY <1>n, <1>2, Zenon DEF Laid
<1>4. /\ \A i \in 1..n : f[i] = f[i - 1] \o SentBytes(t, i)
      /\ f[0] = <<>>
  <2>1. \A i \in 0..n : f[i] = IF i = 0 THEN <<>> ELSE f[i - 1] \o SentBytes(t, i)
    BY <1>3, Zenon
  <2>2. \A i \in 1..n : i \in 0..n /\ i # 0
    OBVIOUS
  <2>3. 0 \in 0..n
    OBVIOUS
  <2> QED
    BY <2>1, <2>2, <2>3, Zenon
<1>5. \A i \in 0..n : f[i] \in Seq(Byte)
  <2> SUFFICES ASSUME NEW T, T = {k \in 0..n : f[k] \notin Seq(Byte)}, T # {}
               PROVE  FALSE
    <3>1. PICK T : T = {k \in 0..n : f[k] \notin Seq(Byte)}
      OBVIOUS
    <3> QED
      BY <3>1
  <2>1. PICK k \in T : \A j \in T : k <= j
    <3>1. T \subseteq Nat
      OBVIOUS
    <3> QED
      BY <3>1, Smallest
  <2>2. k \in 0..n /\ f[k] \notin Seq(Byte)
    BY <2>1
  <2>3. k # 0
    BY <1>4, <2>2, EmptySeq
  <2>4. k \in 1..n /\ k - 1 \in 0..n /\ k - 1 \notin T
    BY <2>1, <2>2, <2>3
  <2>5. f[k - 1] \in Seq(Byte) /\ SentBytes(t, k) \in Seq(Byte)
    BY <1>n, <2>4, SentTyped
  <2>6. f[k - 1] \o SentBytes(t, k) \in Seq(Byte)
    BY <2>5, Joined
  <2> QED
    BY <1>4, <2>2, <2>4, <2>6
<1>6. f \in [0..n -> Seq(Byte)]
  BY <1>3, <1>5, Zenon
<1>7. Lays(f, t, n)
  BY <1>4, <1>6 DEF Lays
<1> QED
  BY <1>n, <1>3, <1>7, Zenon

(* What is sent of a package is as long as the package, and ends in the      *)
(* check code unless that is what was damaged.                               *)
LEMMA PackageEnds ==
    ASSUME NEW to \in {"server", "client"}, NEW m \in Message(to), Sendable(m)
    PROVE  \E x \in Seq(Byte) : /\ x = Package(m).data /\ Len(x) >= 15
                                /\ \A j \in 1..4 : x[Len(x) - 4 + j] = Code[j]
<1>1. PICK pay \in Seq(Byte) : pay = Payload(m) /\ Len(pay) >= 7
  BY LengthSeen
<1>2. PICK n \in Nat : n = Len(pay) /\ n >= 7
  BY <1>1
<1>3. PICK len \in Seq(Byte) : len = BytesOf(4, n + 4) /\ Len(len) = 4
  BY BytesTyped
<1>4. PICK code \in Seq(Byte) : code = Code /\ Len(code) = 4
  BY NamesTyped
<1>5. PICK y \in Seq(Byte) : y = pay \o code
  BY Joined
<1>6. /\ Len(y) = n + 4
      /\ \A i \in 1..(n + 4) : y[i] = IF i <= n THEN pay[i] ELSE code[i - n]
  <2>1. /\ Len(y) = Len(pay) + Len(code)
        /\ \A i \in 1..(Len(pay) + Len(code)) : y[i] = IF i <= Len(pay) THEN pay[i] ELSE code[i - Len(pay)]
    BY <1>5, ConcatProperties
  <2>2. Len(pay) = n /\ Len(code) = 4
    BY <1>2, <1>4
  <2> QED
    BY <2>1, <2>2, Zenon
<1>7. PICK x \in Seq(Byte) : x = len \o y
  BY Joined
<1>8. /\ Len(x) = 4 + (n + 4)
      /\ \A i \in 1..(4 + (n + 4)) : x[i] = IF i <= 4 THEN len[i] ELSE y[i - 4]
  <2>1. /\ Len(x) = Len(len) + Len(y)
        /\ \A i \in 1..(Len(len) + Len(y)) : x[i] = IF i <= Len(len) THEN len[i] ELSE y[i - Len(len)]
    BY <1>7, ConcatProperties
  <2>2. Len(len) = 4
    BY <1>3
  <2>3. Len(y) = n + 4
    BY <1>6
  <2> QED
    BY <2>1, <2>2, <2>3, Zenon
<1>9. x = Package(m).data
  <2>1. Package(m).data = BytesOf(4, Len(Payload(m)) + 4) \o (Payload(m) \o Code)
    BY LengthSeen
  <2> QED
    BY <1>1, <1>2, <1>3, <1>4, <1>5, <1>7, <2>1, Zenon
<1>10. \A j \in 1..4 : x[Len(x) - 4 + j] = code[j]
  <2> SUFFICES ASSUME NEW j \in 1..4 PROVE x[Len(x) - 4 + j] = code[j]
    OBVIOUS
  <2>1. PICK i \in Nat : i = Len(x) - 4 + j
    BY <1>2, <1>8
  <2>2. /\ i \in 1..(4 + (n + 4)) /\ ~(i <= 4) /\ i - 4 \in 1..(n + 4)
        /\ ~(i - 4 <= n) /\ i - 4 - n = j
    BY <1>2, <1>8, <2>1
  <2>3. x[i] = y[i - 4]
    BY <1>8, <2>2
  <2>4. y[i - 4] = code[i - 4 - n]
    BY <1>6, <2>2
  <2> QED
    BY <2>1, <2>2, <2>3, <2>4, Zenon
<1>11. Len(x) >= 15
  BY <1>2, <1>8
<1> QED
  BY <1>4, <1>9, <1>10, <1>11, Zenon

(* The last four of a row, and what lies behind a first part.                *)
LEMMA LastFour ==
    ASSUME NEW n \in Nat, n >= 15, NEW j \in 1..4
    PROVE  /\ n - 4 + j \in 1..n /\ ~(n - 4 + j <= 4)
           /\ n - 4 + j - 4 \in 1..(n - 4) /\ 4 + (n - 4 + j - 4) = n - 4 + j
OBVIOUS

LEMMA Behind ==
    ASSUME NEW a \in Nat, NEW b \in Nat, NEW j \in 1..b
    PROVE  a + j \in 1..(a + b) /\ ~(a + j <= a) /\ a + j - a = j
OBVIOUS

LEMMA HarmIs ==
    ASSUME NEW x \in Seq(Byte), Len(x) >= 15, NEW damage, damage.value \in Int,
           damage.kind = "code" => damage.value \in Byte
    PROVE  /\ Len(Damaged(x, damage)) = Len(x)
           /\ damage.kind # "code" =>
                \A j \in 1..4 : Damaged(x, damage)[Len(x) - 4 + j] = x[Len(x) - 4 + j]
<1>0. PICK n \in Nat : n = Len(x) /\ n >= 15
  OBVIOUS
<1>1. CASE damage.kind = "length"
  <2>1. PICK l \in Seq(Byte) : l = BytesOf(4, damage.value) /\ Len(l) = 4
    BY BytesTyped
  <2>2. PICK r \in Seq(Byte) : r = SubSeq(x, 4 + 1, n) /\ Len(r) = n - 4
                               /\ \A i \in 1..(n - 4) : r[i] = x[4 + i]
    <3>1. 4 \in 0..Len(x)
      BY <1>0
    <3>2. /\ SubSeq(x, 4 + 1, Len(x)) \in Seq(Byte) /\ Len(SubSeq(x, 4 + 1, Len(x))) = Len(x) - 4
          /\ \A i \in 1..(Len(x) - 4) : SubSeq(x, 4 + 1, Len(x))[i] = x[4 + i]
      BY <3>1, RestIs
    <3> QED
      BY <1>0, <3>2, Zenon
  <2>3. PICK d \in Seq(Byte) : d = l \o r
    BY Joined
  <2>4. /\ Len(d) = Len(l) + Len(r)
        /\ \A i \in 1..(Len(l) + Len(r)) : d[i] = IF i <= Len(l) THEN l[i] ELSE r[i - Len(l)]
    BY <2>3, ConcatProperties
  <2>5. /\ Len(d) = n
        /\ \A i \in 1..n : d[i] = IF i <= 4 THEN l[i] ELSE r[i - 4]
    <3>1. n = 4 + (n - 4)
      BY <1>0
    <3>2. Len(l) + Len(r) = n
      BY <2>1, <2>2, <3>1, Zenon
    <3> QED
      BY <2>1, <2>4, <3>2, Zenon
  <2>6. Damaged(x, damage) = d
    <3>1. Damaged(x, damage) = BytesOf(4, damage.value) \o SubSeq(x, 5, Len(x))
      BY <1>1 DEF Damaged
    <3>2. 4 + 1 = 5
      OBVIOUS
    <3> QED
      BY <1>0, <2>1, <2>2, <2>3, <3>1, <3>2, Zenon
  <2>7. \A j \in 1..4 : d[n - 4 + j] = x[n - 4 + j]
    <3> SUFFICES ASSUME NEW j \in 1..4 PROVE d[n - 4 + j] = x[n - 4 + j]
      OBVIOUS
    <3>1. PICK i : i = n - 4 + j
      OBVIOUS
    <3>a. /\ n - 4 + j \in 1..n /\ ~(n - 4 + j <= 4)
          /\ n - 4 + j - 4 \in 1..(n - 4) /\ 4 + (n - 4 + j - 4) = n - 4 + j
      BY <1>0, LastFour
    <3>2. i \in 1..n /\ ~(i <= 4) /\ i - 4 \in 1..(n - 4) /\ 4 + (i - 4) = i
      BY <3>1, <3>a
    <3>3. d[i] = r[i - 4] /\ r[i - 4] = x[4 + (i - 4)]
      BY <2>2, <2>5, <3>2, Zenon
    <3> QED
      BY <3>1, <3>2, <3>3, Zenon
  <2> QED
    BY <1>0, <2>5, <2>6, <2>7, Zenon
<1>2. CASE damage.kind = "code"
  <2>1. Damaged(x, damage) = [x EXCEPT ![Len(x)] = damage.value]
    BY <1>2 DEF Damaged
  <2>2. Len([x EXCEPT ![Len(x)] = damage.value]) = Len(x)
    BY <1>0, <1>2, ExceptSeq
  <2> QED
    BY <1>2, <2>1, <2>2, Zenon
<1>3. CASE damage.kind \notin {"length", "code"}
  <2>1. Damaged(x, damage) = x
    BY <1>3 DEF Damaged
  <2> QED
    BY <2>1
<1> QED
  BY <1>1, <1>2, <1>3

LEMMA SentIs ==
    ASSUME NEW t \in Traffic, NEW i \in 1..Len(t.messages), Sendable(t.messages[i])
    PROVE  /\ Len(SentBytes(t, i)) >= 15
           /\ Len(SentBytes(t, i)) = Len(Package(t.messages[i]).data)
           /\ i # t.damage.at => SentBytes(t, i) = Package(t.messages[i]).data
           /\ ~(i = t.damage.at /\ t.damage.kind = "code") =>
                \A j \in 1..4 : SentBytes(t, i)[Len(SentBytes(t, i)) - 4 + j] = Code[j]
<1>1. t.messages[i] \in Message(t.to) /\ t.to \in {"server", "client"}
  BY ConversationIs
<1>2. PICK x \in Seq(Byte) : /\ x = Package(t.messages[i]).data /\ Len(x) >= 15
                             /\ \A j \in 1..4 : x[Len(x) - 4 + j] = Code[j]
  BY <1>1, PackageEnds
<1>3. CASE i # t.damage.at
  BY <1>2, <1>3 DEF SentBytes
<1>4. CASE i = t.damage.at
  <2>1. SentBytes(t, i) = Damaged(x, t.damage)
    BY <1>2, <1>4 DEF SentBytes
  <2>2. t.damage.value \in Int /\ (t.damage.kind = "code" => t.damage.value \in Byte)
    BY ConversationIs
  <2>3. /\ Len(Damaged(x, t.damage)) = Len(x)
        /\ t.damage.kind # "code" =>
             \A j \in 1..4 : Damaged(x, t.damage)[Len(x) - 4 + j] = x[Len(x) - 4 + j]
    BY <1>2, <2>2, HarmIs
  <2>4. PICK y : y = SentBytes(t, i) /\ y = Damaged(x, t.damage)
    BY <2>1
  <2>5. Len(y) = Len(x) /\ Len(y) >= 15
    BY <1>2, <2>3, <2>4, Zenon
  <2>6. t.damage.kind # "code" => \A j \in 1..4 : y[Len(y) - 4 + j] = Code[j]
    BY <1>2, <2>3, <2>4, <2>5, Zenon
  <2> QED
    BY <1>2, <1>4, <2>4, <2>5, <2>6, Zenon
<1> QED
  BY <1>3, <1>4

(* Where the packages are in the line.                                       *)
LEMMA EndsAre ==
    ASSUME NEW t \in Traffic
    PROVE  /\ \A i \in 0..Len(t.messages) : Ends(t, i) \in Nat
           /\ Ends(t, 0) = 0
           /\ Ends(t, Len(t.messages)) = Len(Line(t))
           /\ Line(t) \in Seq(Byte)
           /\ \A i \in 1..Len(t.messages) :
                /\ Ends(t, i) = Ends(t, i - 1) + Len(SentBytes(t, i))
                /\ \A j \in 1..Len(SentBytes(t, i)) :
                     Laid(t)[i][Ends(t, i - 1) + j] = SentBytes(t, i)[j]
                /\ \A j \in 1..Ends(t, i - 1) : Laid(t)[i][j] = Laid(t)[i - 1][j]
<1>n. PICK n \in Nat : n = Len(t.messages)
  BY ConversationIs
<1>1. /\ Laid(t) \in [0..n -> Seq(Byte)] /\ Laid(t)[0] = <<>>
      /\ \A i \in 1..n : Laid(t)[i] = Laid(t)[i - 1] \o SentBytes(t, i)
  BY <1>n, LaidIs DEF Lays
<1>2. \A i \in 0..n : Laid(t)[i] \in Seq(Byte) /\ Len(Laid(t)[i]) \in Nat
  BY <1>1
<1>3. 0 \in 0..n /\ n \in 0..n
  OBVIOUS
<1>4. \A i \in 0..n : Ends(t, i) \in Nat
  BY <1>2 DEF Ends
<1>5. Ends(t, 0) = 0 /\ Ends(t, n) = Len(Line(t)) /\ Line(t) \in Seq(Byte)
  BY <1>n, <1>1, <1>2, <1>3 DEF Ends, Line
<1>6. ASSUME NEW i \in 1..n
      PROVE  /\ Ends(t, i) = Ends(t, i - 1) + Len(SentBytes(t, i))
             /\ \A j \in 1..Len(SentBytes(t, i)) :
                  Laid(t)[i][Ends(t, i - 1) + j] = SentBytes(t, i)[j]
             /\ \A j \in 1..Ends(t, i - 1) : Laid(t)[i][j] = Laid(t)[i - 1][j]
  <2>1. i - 1 \in 0..n /\ i \in 0..n
    OBVIOUS
  <2>2. PICK a \in Seq(Byte), b \in Seq(Byte) : a = Laid(t)[i - 1] /\ b = SentBytes(t, i)
    BY <1>n, <1>2, <2>1, SentTyped
  <2>3. PICK c \in Seq(Byte) : c = a \o b
    BY Joined
  <2>4. c = Laid(t)[i]
    BY <1>1, <2>2, <2>3, Zenon
  <2>5. /\ Len(c) = Len(a) + Len(b) /\ Len(a) \in Nat /\ Len(b) \in Nat
        /\ \A j \in 1..(Len(a) + Len(b)) : c[j] = IF j <= Len(a) THEN a[j] ELSE b[j - Len(a)]
    BY <2>3, ConcatProperties
  <2>6. \A j \in 1..Len(b) : c[Len(a) + j] = b[j]
    <3> SUFFICES ASSUME NEW j \in 1..Len(b) PROVE c[Len(a) + j] = b[j]
      OBVIOUS
    <3>1. /\ Len(a) + j \in 1..(Len(a) + Len(b)) /\ ~(Len(a) + j <= Len(a))
          /\ Len(a) + j - Len(a) = j
      BY <2>5, Behind, Zenon
    <3>2. PICK k : k = Len(a) + j
      OBVIOUS
    <3>3. k \in 1..(Len(a) + Len(b)) /\ ~(k <= Len(a)) /\ k - Len(a) = j
      BY <3>1, <3>2
    <3>4. c[k] = b[k - Len(a)]
      BY <2>5, <3>3, Zenon
    <3> QED
      BY <3>2, <3>3, <3>4, Zenon
  <2>7. \A j \in 1..Len(a) : c[j] = a[j]
    <3> SUFFICES ASSUME NEW j \in 1..Len(a) PROVE c[j] = a[j]
      OBVIOUS
    <3>1. j \in 1..(Len(a) + Len(b)) /\ j <= Len(a)
      BY <2>5
    <3> QED
      BY <2>5, <3>1, Zenon
  <2> QED
    BY <2>2, <2>4, <2>5, <2>6, <2>7, Zenon DEF Ends
<1> QED
  BY <1>n, <1>4, <1>5, <1>6, Zenon

LEMMA LaidStays ==
    ASSUME NEW t \in Traffic, NEW i \in 0..Len(t.messages)
    PROVE  \A k \in i..Len(t.messages) :
             /\ Ends(t, i) <= Ends(t, k)
             /\ \A j \in 1..Ends(t, i) : Laid(t)[k][j] = Laid(t)[i][j]
<1>n. PICK n \in Nat : n = Len(t.messages)
  BY ConversationIs
<1>e. /\ \A k \in 0..n : Ends(t, k) \in Nat
      /\ \A k \in 1..n :
           /\ Ends(t, k) = Ends(t, k - 1) + Len(SentBytes(t, k))
           /\ \A j \in 1..Ends(t, k - 1) : Laid(t)[k][j] = Laid(t)[k - 1][j]
  BY <1>n, EndsAre
<1> DEFINE Stays(k) == /\ Ends(t, i) <= Ends(t, k)
                       /\ \A j \in 1..Ends(t, i) : Laid(t)[k][j] = Laid(t)[i][j]
<1> SUFFICES ASSUME NEW T, T = {k \in i..n : ~Stays(k)}, T # {}
             PROVE  FALSE
  <2>1. PICK T : T = {k \in i..n : ~Stays(k)}
    OBVIOUS
  <2> QED
    BY <1>n, <2>1
<1>1. PICK k \in T : \A j \in T : k <= j
  <2>1. T \subseteq Nat
    OBVIOUS
  <2> QED
    BY <2>1, Smallest
<1>2. k \in i..n /\ ~Stays(k)
  BY <1>1
<1>3. k # i
  <2>1. i \in 0..n
    BY <1>n
  <2>2. Stays(i)
    BY <1>e, <2>1
  <2> QED
    BY <1>2, <2>2
<1>4. k \in 1..n /\ k - 1 \in i..n /\ k - 1 \notin T /\ k - 1 \in 0..n
  BY <1>1, <1>2, <1>3
<1>5. Stays(k - 1)
  BY <1>4
<1>6. SentBytes(t, k) \in Seq(Byte)
  BY <1>n, <1>4, SentTyped
<1>7. Ends(t, i) <= Ends(t, k) /\ Ends(t, k - 1) \in Nat /\ Ends(t, i) \in Nat
  <2>1. PICK l \in Nat : l = Len(SentBytes(t, k))
    BY <1>6
  <2>2. Ends(t, k) = Ends(t, k - 1) + l
    BY <1>e, <1>4, <2>1
  <2>3. Ends(t, k - 1) \in Nat /\ Ends(t, i) \in Nat
    BY <1>e, <1>n, <1>4
  <2> QED
    BY <1>5, <2>2, <2>3
<1>8. \A j \in 1..Ends(t, i) : j \in 1..Ends(t, k - 1)
  BY <1>5, <1>7
<1>9. \A j \in 1..Ends(t, i) : Laid(t)[k][j] = Laid(t)[i][j]
  BY <1>e, <1>4, <1>5, <1>8
<1> QED
  BY <1>2, <1>7, <1>9

(* A position in the line is between the packages or in one of them; what is *)
(* there, when the line is unambiguous.                                      *)
LEMMA LineIs ==
    ASSUME NEW t \in Traffic, Unambiguous(t)
    PROVE  /\ Line(t) \in Seq(Byte) /\ Len(t.messages) \in Nat
           /\ \A i \in 0..Len(t.messages) : Ends(t, i) \in Nat
           /\ Ends(t, Len(t.messages)) = Len(Line(t))
           /\ \A i, k \in 0..Len(t.messages) : i <= k => Ends(t, i) <= Ends(t, k)
           /\ \A i, k \in 0..Len(t.messages) : i < k => Ends(t, i) + 15 <= Ends(t, k)
           /\ \A i \in 1..Len(t.messages) :
                /\ Ends(t, i) = Ends(t, i - 1) + Len(SentBytes(t, i))
                /\ Ends(t, i) = Ends(t, i - 1) + Len(Package(t.messages[i]).data)
                /\ \A j \in 1..Len(SentBytes(t, i)) :
                     Line(t)[Ends(t, i - 1) + j] = SentBytes(t, i)[j]
                /\ i # t.damage.at => SentBytes(t, i) = Package(t.messages[i]).data
                /\ ~(i = t.damage.at /\ t.damage.kind = "code") => CodeAt(Line(t), Ends(t, i) - 4)
<1>n. PICK n \in Nat : n = Len(t.messages)
  BY ConversationIs
<1>1. /\ \A i \in 0..n : Ends(t, i) \in Nat
      /\ Ends(t, n) = Len(Line(t)) /\ Line(t) \in Seq(Byte)
      /\ \A i \in 1..n :
           /\ Ends(t, i) = Ends(t, i - 1) + Len(SentBytes(t, i))
           /\ \A j \in 1..Len(SentBytes(t, i)) :
                Laid(t)[i][Ends(t, i - 1) + j] = SentBytes(t, i)[j]
  BY <1>n, EndsAre
<1>2. \A i, k \in 0..n : i <= k =>
        Ends(t, i) <= Ends(t, k) /\ \A j \in 1..Ends(t, i) : Laid(t)[k][j] = Laid(t)[i][j]
  <2> SUFFICES ASSUME NEW i \in 0..n, NEW k \in 0..n, i <= k
               PROVE  /\ Ends(t, i) <= Ends(t, k)
                      /\ \A j \in 1..Ends(t, i) : Laid(t)[k][j] = Laid(t)[i][j]
    OBVIOUS
  <2>1. k \in i..n
    OBVIOUS
  <2> QED
    BY <1>n, <2>1, LaidStays
<1>3. \A i \in 1..n : Sendable(t.messages[i])
  BY <1>n DEF Unambiguous
<1>4. ASSUME NEW i \in 1..n
      PROVE  /\ Len(SentBytes(t, i)) \in Nat /\ Len(SentBytes(t, i)) >= 15
             /\ Len(SentBytes(t, i)) = Len(Package(t.messages[i]).data)
             /\ i # t.damage.at => SentBytes(t, i) = Package(t.messages[i]).data
             /\ ~(i = t.damage.at /\ t.damage.kind = "code") =>
                  \A j \in 1..4 : SentBytes(t, i)[Len(SentBytes(t, i)) - 4 + j] = Code[j]
  <2>1. i \in 1..Len(t.messages) /\ Sendable(t.messages[i])
    BY <1>n, <1>3
  <2>2. SentBytes(t, i) \in Seq(Byte)
    BY <2>1, SentTyped
  <2> QED
    BY <2>1, <2>2, SentIs
<1>5. ASSUME NEW i \in 1..n
      PROVE  /\ Ends(t, i - 1) \in Nat /\ Ends(t, i - 1) + 15 <= Ends(t, i)
             /\ \A j \in 1..Len(SentBytes(t, i)) :
                  Line(t)[Ends(t, i - 1) + j] = SentBytes(t, i)[j]
  <2>1. i - 1 \in 0..n /\ i \in 0..n /\ n \in 0..n /\ i <= n
    OBVIOUS
  <2>2. PICK s \in Nat : s = Len(SentBytes(t, i)) /\ s >= 15
    BY <1>4
  <2>3. PICK e \in Nat : e = Ends(t, i - 1)
    BY <1>1, <2>1
  <2>4. Ends(t, i) = e + s
    BY <1>1, <2>2, <2>3
  <2>5. ASSUME NEW j \in 1..s PROVE Line(t)[e + j] = SentBytes(t, i)[j]
    <3>1. e + j \in 1..Ends(t, i)
      BY <2>4
    <3>2. Laid(t)[n][e + j] = Laid(t)[i][e + j]
      BY <1>2, <2>1, <3>1
    <3>3. Laid(t)[i][e + j] = SentBytes(t, i)[j]
      BY <1>1, <2>2, <2>3
    <3> QED
      BY <1>n, <3>2, <3>3, Zenon DEF Line
  <2> QED
    BY <2>2, <2>3, <2>4, <2>5
<1>6. \A i, k \in 0..n : i < k => Ends(t, i) + 15 <= Ends(t, k)
  <2> SUFFICES ASSUME NEW i \in 0..n, NEW k \in 0..n, i < k
               PROVE  Ends(t, i) + 15 <= Ends(t, k)
    OBVIOUS
  <2>1. k \in 1..n /\ k - 1 \in 0..n /\ i <= k - 1
    OBVIOUS
  <2>2. /\ Ends(t, k - 1) + 15 <= Ends(t, k)
        /\ Ends(t, i) <= Ends(t, k - 1)
    BY <1>2, <1>5, <2>1
  <2>3. Ends(t, k - 1) \in Nat /\ Ends(t, i) \in Nat /\ Ends(t, k) \in Nat
    BY <1>1, <2>1
  <2> QED
    BY <2>2, <2>3
<1>7. ASSUME NEW i \in 1..n, ~(i = t.damage.at /\ t.damage.kind = "code")
      PROVE  CodeAt(Line(t), Ends(t, i) - 4)
  <2>1. PICK s \in Nat : s = Len(SentBytes(t, i)) /\ s >= 15
    BY <1>4
  <2>2. PICK e \in Nat : e = Ends(t, i - 1)
    BY <1>5
  <2>3. Ends(t, i) = e + s
    BY <1>1, <2>1, <2>2
  <2>4. ASSUME NEW j \in 1..4 PROVE Line(t)[Ends(t, i) - 4 + j] = Code[j]
    <3>1. PICK a : a = s - 4 + j
      OBVIOUS
    <3>2. a \in 1..s /\ e + a = e + s - 4 + j
      BY <2>1, <3>1
    <3>3. Line(t)[e + a] = SentBytes(t, i)[a]
      BY <1>5, <2>1, <2>2, <3>2
    <3>4. SentBytes(t, i)[a] = Code[j]
      BY <1>4, <1>7, <2>1, <3>1
    <3> QED
      BY <2>3, <3>2, <3>3, <3>4
  <2> QED
    BY <2>4 DEF CodeAt
<1>8. \A i, k \in 0..n : i <= k => Ends(t, i) <= Ends(t, k)
  BY <1>2
<1>9. \A i \in 1..n :
        /\ Ends(t, i) = Ends(t, i - 1) + Len(SentBytes(t, i))
        /\ Ends(t, i) = Ends(t, i - 1) + Len(Package(t.messages[i]).data)
  BY <1>1, <1>4
<1> QED
  BY <1>n, <1>1, <1>4, <1>5, <1>6, <1>7, <1>8, <1>9, Zenon

(* find returns the first place of the check code, and processError goes on  *)
(* behind it.                                                                *)
LEMMA FindFirst ==
    ASSUME NEW b \in Memory
    PROVE  \/ /\ Find(b, Code) \in 0..(Len(b.data) - 4) /\ CodeAt(b.data, Find(b, Code))
              /\ \A x \in 0..(Len(b.data) - 4) : CodeAt(b.data, x) => Find(b, Code) <= x
           \/ /\ Find(b, Code) = Len(b.data)
              /\ \A x \in 0..(Len(b.data) - 4) : ~CodeAt(b.data, x)
<1>0. /\ b.data \in Seq(Byte) /\ Len(b.data) \in Nat /\ Size(b) = Len(b.data)
      /\ Code \in Seq(Byte) /\ Len(Code) = 4
  BY MemoryIs, NamesTyped DEF Size
<1>1. ASSUME NEW x \in 0..(Len(b.data) - 4)
      PROVE  SubSeq(b.data, x + 1, x + 4) = Code <=> CodeAt(b.data, x)
  <2>1. PICK m \in Int, k \in Int : m = x + 1 /\ k = x + 4
    BY <1>0
  <2>2. \A i \in m..k : b.data[i] \in Byte
    <3>1. \A i \in m..k : i \in 1..Len(b.data)
      BY <1>0, <2>1
    <3> QED
      BY <1>0, <3>1, ElementOfSeq
  <2>3. /\ SubSeq(b.data, m, k) \in Seq(Byte)
        /\ Len(SubSeq(b.data, m, k)) = IF m <= k THEN k - m + 1 ELSE 0
        /\ \A i \in 1..(k - m + 1) : SubSeq(b.data, m, k)[i] = b.data[m + i - 1]
    BY <2>2, SubSeqProperties
  <2>4. m <= k /\ k - m + 1 = 4 /\ \A i \in 1..4 : m + i - 1 = x + i
    BY <1>0, <2>1
  <2>5. PICK s \in Seq(Byte) : /\ s = SubSeq(b.data, m, k) /\ Len(s) = 4
                               /\ \A i \in 1..4 : s[i] = b.data[m + i - 1]
    BY <2>3, <2>4
  <2>6. \A i \in 1..4 : s[i] = b.data[x + i]
    BY <2>4, <2>5
  <2>7. ASSUME CodeAt(b.data, x) PROVE s = Code
    <3>1. \A i \in 1..4 : s[i] = Code[i]
      BY <2>6, <2>7 DEF CodeAt
    <3> QED
      BY <1>0, <2>5, <3>1, SeqEqual
  <2>8. ASSUME s = Code PROVE CodeAt(b.data, x)
    BY <2>6, <2>8 DEF CodeAt
  <2> QED
    BY <2>1, <2>5, <2>7, <2>8
<1>2. PICK at : at = {i \in 0..(Size(b) - Len(Code)) :
                        SubSeq(b.data, i + 1, i + Len(Code)) = Code}
  OBVIOUS
<1>3. \A x : x \in at <=> x \in 0..(Len(b.data) - 4) /\ CodeAt(b.data, x)
  BY <1>0, <1>1, <1>2
<1>4. CASE at = {}
  <2>1. Find(b, Code) = Len(b.data)
    BY <1>0, <1>2, <1>4 DEF Find
  <2> QED
    BY <1>3, <1>4, <2>1
<1>5. CASE at # {}
  <2>1. at \subseteq Nat
    BY <1>0, <1>3
  <2>2. \E i \in at : \A j \in at : i <= j
    BY <1>5, <2>1, Smallest
  <2>3. Find(b, Code) \in at /\ \A j \in at : Find(b, Code) <= j
    BY <1>2, <1>5, <2>2, Zenon DEF Find
  <2> QED
    BY <1>3, <2>3, Zenon
<1> QED
  BY <1>4, <1>5

LEMMA ErrorGoes ==
    ASSUME NEW b, Roomy(b), Len(b.data) > 0
    PROVE  \E m \in 1..Len(b.data) :
             /\ ProcessError(b).data = SubSeq(b.data, m + 1, Len(b.data))
             /\ \/ /\ m >= 4 /\ CodeAt(b.data, m - 4)
                   /\ \A x \in 0..(Len(b.data) - 4) : CodeAt(b.data, x) => m - 4 <= x
                \/ /\ m = Len(b.data)
                   /\ \A x \in 0..(Len(b.data) - 4) : ~CodeAt(b.data, x)
<1>0. /\ b \in Memory /\ b.data \in Seq(Byte) /\ Len(b.data) \in Nat /\ Size(b) = Len(b.data)
      /\ Len(Code) = 4
  BY MemoryIs, NamesTyped DEF Roomy, Size
<1>1. PICK dest : dest = Find(b, Code)
  OBVIOUS
<1>2. CASE /\ dest \in 0..(Len(b.data) - 4) /\ CodeAt(b.data, dest)
           /\ \A x \in 0..(Len(b.data) - 4) : CodeAt(b.data, x) => dest <= x
  <2>1. PICK m \in 1..Len(b.data) : m = dest + 4 /\ m >= 4 /\ m - 4 = dest
    BY <1>0, <1>2
  <2>2. dest # Size(b) /\ m > 0 /\ m <= Size(b) /\ m \in 0..Len(b.data)
    BY <1>0, <1>2, <2>1
  <2>3. ProcessError(b) = SkipBytes(b, m)
    BY <1>0, <1>1, <2>1, <2>2 DEF ProcessError, SkipTo
  <2>4. SkipBytes(b, m).data = SubSeq(b.data, m + 1, Len(b.data))
    BY <1>0, <2>2, SkipIs
  <2> QED
    BY <1>2, <2>1, <2>3, <2>4, Zenon
<1>3. CASE /\ dest = Len(b.data)
           /\ \A x \in 0..(Len(b.data) - 4) : ~CodeAt(b.data, x)
  <2>1. ProcessError(b) = Clear(b)
    BY <1>0, <1>1, <1>3 DEF ProcessError
  <2>2. Clear(b).data = <<>>
    BY <1>0, ClearIs
  <2>3. PICK m \in 1..Len(b.data) : m = Len(b.data)
    BY <1>0
  <2>4. SubSeq(b.data, m + 1, Len(b.data)) = <<>>
    <3>1. m \in 0..Len(b.data)
      OBVIOUS
    <3>2. PICK s \in Seq(Byte) : s = SubSeq(b.data, m + 1, Len(b.data)) /\ Len(s) = Len(b.data) - m
      BY <1>0, <3>1, RestIs
    <3>3. Len(s) = 0
      BY <1>0, <2>3, <3>2
    <3>4. s = <<>>
      BY <3>3, EmptySeq
    <3> QED
      BY <3>2, <3>4, Zenon
  <2> QED
    BY <1>3, <2>1, <2>2, <2>3, <2>4, Zenon
<1> QED
  BY <1>0, <1>1, <1>2, <1>3, FindFirst, Zenon

(* What is received of the line has its check codes where the line has them. *)
LEMMA CodeSeen ==
    ASSUME NEW line, NEW d \in Seq(Byte), NEW F \in Nat,
           \A j \in 1..Len(d) : d[j] = line[F + j],
           NEW x \in 0..(Len(d) - 4)
    PROVE  CodeAt(d, x) <=> CodeAt(line, F + x)
<1>1. ASSUME NEW i \in 1..4 PROVE d[x + i] = line[F + x + i]
  <2>1. x + i \in 1..Len(d) /\ F + (x + i) = F + x + i
    OBVIOUS
  <2>2. d[x + i] = line[F + (x + i)]
    BY <2>1
  <2> QED
    BY <2>1, <2>2
<1> QED
  BY <1>1 DEF CodeAt

LandsAt(t, l, d, F, g, ahead, m) ==
    \/ F + m = Ends(t, g)
    \/ m = Len(d) /\ F + m < Ends(t, g)
    \/ ~ahead /\ g < l /\ F + m = Ends(t, g + 1)
    \/ ~ahead /\ g < l /\ m = Len(d) /\ Ends(t, g) < F + m /\ F + m < Ends(t, g + 1)

(* Where processError goes on, from package g or a place inside it: behind   *)
(* g when its check code is ahead, else behind the next package; or where    *)
(* its bytes end, before that.                                               *)
LEMMA Lands ==
    ASSUME NEW t \in Traffic, Unambiguous(t), NEW l \in 0..Len(t.messages),
           NEW d \in Seq(Byte), NEW F \in Nat, F + Len(d) <= Ends(t, l),
           \A j \in 1..Len(d) : d[j] = Line(t)[F + j],
           NEW g \in 1..l, t.damage.at <= g, Ends(t, g - 1) <= F, F < Ends(t, g),
           NEW ahead \in BOOLEAN,
           ahead <=> F + 4 <= Ends(t, g) /\ ~(g = t.damage.at /\ t.damage.kind = "code"),
           NEW m \in 1..Len(d),
           \/ /\ m >= 4 /\ CodeAt(d, m - 4)
              /\ \A x \in 0..(Len(d) - 4) : CodeAt(d, x) => m - 4 <= x
           \/ /\ m = Len(d)
              /\ \A x \in 0..(Len(d) - 4) : ~CodeAt(d, x)
    PROVE  LandsAt(t, l, d, F, g, ahead, m)
<1> USE DEF LandsAt
<1>n. PICK n \in Nat : n = Len(t.messages)
  BY ConversationIs
<1>l. l \in 0..n /\ g \in 1..n /\ Len(d) \in Nat /\ m \in Nat /\ l <= n /\ g <= l /\ g - 1 \in 0..n
      /\ t.damage.at \in Nat /\ g \in 0..n
  BY <1>n, ConversationIs
<1>e. /\ \A i \in 0..n : Ends(t, i) \in Nat
      /\ \A i, k \in 0..n : i <= k => Ends(t, i) <= Ends(t, k)
      /\ \A i, k \in 0..n : i < k => Ends(t, i) + 15 <= Ends(t, k)
      /\ \A i \in 1..n :
           ~(i = t.damage.at /\ t.damage.kind = "code") => CodeAt(Line(t), Ends(t, i) - 4)
  BY <1>n, LineIs
(* A check code that is received whole is seen.                              *)
<1>s. ASSUME NEW h \in 1..n, ~(h = t.damage.at /\ t.damage.kind = "code"),
             F + 4 <= Ends(t, h), Ends(t, h) <= F + Len(d)
      PROVE  /\ Ends(t, h) - 4 - F \in 0..(Len(d) - 4)
             /\ CodeAt(d, Ends(t, h) - 4 - F)
  <2>1. PICK e \in Nat : e = Ends(t, h)
    BY <1>e
  <2>e. F + 4 <= e /\ e <= F + Len(d)
    BY <1>s, <2>1, Zenon
  <2>2. PICK x \in 0..(Len(d) - 4) : x = e - 4 - F /\ F + x = e - 4
    <3>1. e - 4 - F \in 0..(Len(d) - 4) /\ F + (e - 4 - F) = e - 4
      BY <1>l, <2>e
    <3> QED
      BY <3>1, Zenon
  <2>3. CodeAt(d, x) <=> CodeAt(Line(t), F + x)
    BY CodeSeen
  <2>4. CodeAt(Line(t), e - 4)
    BY <1>e, <1>s, <2>1
  <2> QED
    BY <2>1, <2>2, <2>3, <2>4
<1>g. ASSUME g < l
      PROVE  /\ g + 1 \in 1..n /\ g + 1 # t.damage.at /\ g + 1 <= l
             /\ Ends(t, g) + 15 <= Ends(t, g + 1) /\ Ends(t, g + 1) \in Nat
             /\ F + 4 <= Ends(t, g + 1)
  <2>1. /\ g + 1 \in 1..n /\ g + 1 # t.damage.at /\ g + 1 <= l /\ g + 1 \in 0..n
        /\ g < g + 1
    BY <1>g, <1>l
  <2>2. Ends(t, g) + 15 <= Ends(t, g + 1) /\ Ends(t, g + 1) \in Nat /\ Ends(t, g) \in Nat
    BY <1>e, <1>l, <2>1
  <2> QED
    BY <2>1, <2>2
<1>1. CASE /\ m >= 4 /\ CodeAt(d, m - 4)
           /\ \A x \in 0..(Len(d) - 4) : CodeAt(d, x) => m - 4 <= x
  <2>1. PICK x \in 0..(Len(d) - 4) : x = m - 4 /\ F + x = F + m - 4
    BY <1>1, <1>l
  <2>2. CodeAt(Line(t), F + x)
    <3>1. CodeAt(d, x)
      BY <1>1, <2>1, Zenon
    <3>2. CodeAt(d, x) <=> CodeAt(Line(t), F + x)
      BY CodeSeen
    <3> QED
      BY <3>1, <3>2
  <2>3. PICK h \in 1..n : F + m = Ends(t, h)
    <3>1. Ends(t, l) <= Len(Line(t)) /\ Len(Line(t)) \in Nat /\ Ends(t, l) \in Nat
      <4>1. Ends(t, n) = Len(Line(t)) /\ n \in 0..n /\ l <= n
        BY <1>n, <1>l, LineIs
      <4> QED
        BY <1>e, <1>l, <4>1
    <3>2. F + x \in 0..(Len(Line(t)) - 4)
      BY <3>1, <1>l, <2>1, SMTT(40)
    <3>3. \E i \in 1..n : F + x + 4 = Ends(t, i)
      BY <1>n, <2>2, <3>2 DEF Unambiguous
    <3> QED
      BY <1>l, <2>1, <3>3
  <2>4. h \in 0..n
    OBVIOUS
  <2>5. g <= h
    <3>1. ASSUME h < g PROVE FALSE
      <4>1. h <= g - 1
        BY <1>l, <3>1
      <4>2. Ends(t, h) <= Ends(t, g - 1) /\ Ends(t, h) \in Nat /\ Ends(t, g - 1) \in Nat
        BY <1>e, <1>l, <2>4, <4>1
      <4> QED
        BY <1>l, <2>3, <4>2
    <3> QED
      BY <1>l, <3>1
  <2>6. h <= l
    <3>1. ASSUME l < h PROVE FALSE
      <4>1. Ends(t, l) + 15 <= Ends(t, h) /\ Ends(t, h) \in Nat /\ Ends(t, l) \in Nat
        BY <1>e, <1>l, <2>4, <3>1
      <4> QED
        BY <1>l, <2>3, <4>1
    <3> QED
      BY <1>l, <3>1
  (* No check code in between has been passed.                               *)
  <2>7. ASSUME NEW k \in 1..n, ~(k = t.damage.at /\ t.damage.kind = "code"),
               F + 4 <= Ends(t, k), k < h
        PROVE  FALSE
    <3>1. k \in 0..n
      OBVIOUS
    <3>2. Ends(t, k) + 15 <= Ends(t, h) /\ Ends(t, h) \in Nat /\ Ends(t, k) \in Nat
      BY <1>e, <2>4, <2>7, <3>1
    <3>3. Ends(t, k) <= F + Len(d)
      BY <1>l, <2>3, <3>2
    <3>4. /\ Ends(t, k) - 4 - F \in 0..(Len(d) - 4)
          /\ CodeAt(d, Ends(t, k) - 4 - F)
      BY <1>s, <2>7, <3>3
    <3>5. m - 4 <= Ends(t, k) - 4 - F
      BY <1>1, <3>4
    <3> QED
      BY <1>l, <2>3, <3>2, <3>5, SMTT(40)
  <2>8. CASE h = g
    BY <2>3, <2>8
  <2>9. CASE h # g
    <3>1. g < h /\ g < l
      BY <1>l, <2>5, <2>6, <2>9
    <3>2. ~ahead
      BY <1>l, <2>7, <3>1
    <3>3. h = g + 1
      <4>1. ASSUME g + 1 < h PROVE FALSE
        BY <1>g, <2>7, <3>1, <4>1
      <4> QED
        BY <1>l, <3>1, <4>1
    <3> QED
      BY <2>3, <3>1, <3>2, <3>3
  <2> QED
    BY <2>8, <2>9
<1>2. CASE /\ m = Len(d)
           /\ \A x \in 0..(Len(d) - 4) : ~CodeAt(d, x)
  <2>1. ASSUME NEW k \in 1..n, ~(k = t.damage.at /\ t.damage.kind = "code"),
               F + 4 <= Ends(t, k)
        PROVE  F + m < Ends(t, k)
    <3>1. ASSUME Ends(t, k) <= F + m PROVE FALSE
      BY <1>2, <1>s, <2>1, <3>1
    <3>2. Ends(t, k) \in Nat
      BY <1>e
    <3> QED
      BY <1>l, <3>1, <3>2
  <2>2. CASE ahead
    <3>1. F + m < Ends(t, g)
      BY <1>l, <2>1, <2>2
    <3> QED
      BY <1>2, <3>1
  <2>3. CASE ~ahead
    <3>1. Ends(t, g) \in Nat
      BY <1>e, <1>l
    <3>2. CASE F + m <= Ends(t, g)
      <4>1. F + m = Ends(t, g) \/ F + m < Ends(t, g)
        <5>1. PICK e \in Nat : e = Ends(t, g)
          BY <3>1
        <5>2. PICK f \in Nat : f = F + m
          BY <1>l
        <5>3. f <= e
          BY <3>2, <5>1, <5>2, Zenon
        <5>4. f = e \/ f < e
          BY <5>3
        <5> QED
          BY <5>1, <5>2, <5>4, Zenon
      <4> QED
        BY <1>2, <4>1, Zenon
    <3>3. CASE ~(F + m <= Ends(t, g))
      <4>1. g < l
        <5>1. F + m <= Ends(t, l)
          BY <1>2
        <5> QED
          BY <1>l, <3>3, <5>1
      <4>2. F + m < Ends(t, g + 1)
        BY <1>g, <2>1, <4>1
      <4> QED
        BY <1>2, <1>l, <2>3, <3>1, <3>3, <4>1, <4>2
    <3> QED
      BY <3>2, <3>3
  <2> QED
    BY <2>2, <2>3
<1> QED
  BY <1>1, <1>2

(* A package whose bytes are in front of the receiver is sound.              *)
LEMMA PackageSeen ==
    ASSUME FrameInv, ~Awaits, NEW to \in {"server", "client"}, NEW m \in Message(to), Sendable(m),
           \A j \in 1..Len(Package(m).data) :
             j <= Len(recvBuf.data) => recvBuf.data[j] = Package(m).data[j]
    PROVE  /\ Sound
           /\ Len(Package(m).data) = 4 + Announced /\ 4 + Announced \in 1..Len(recvBuf.data)
           /\ GetToBuffer(recvBuf, 4, Announced - 4) \in Memory
           /\ GetToBuffer(recvBuf, 4, Announced - 4).data = Payload(m)
<1>0. recvBuf \in Memory /\ Len(recvBuf.data) \in Nat
  BY MemoryIs DEF FrameInv, Roomy
<1>1. Len(recvBuf.data) >= 4
  BY <1>0 DEF Awaits, Size
<1>2. /\ Len(Payload(m)) + 4 > 0 /\ Len(Payload(m)) + 4 <= MaxPackage
      /\ Len(Package(m).data) = 4 + (Len(Payload(m)) + 4)
      /\ Payload(m) \in Seq(Byte)
  BY LengthSeen
<1>3. PICK k \in Nat : k = Len(Payload(m)) + 4
  BY <1>2
<1>4. \A j \in 1..4 : recvBuf.data[j] = Package(m).data[j]
  <2>1. \A j \in 1..4 : j \in 1..(4 + k) /\ j <= Len(recvBuf.data)
    BY <1>0, <1>1
  <2>2. Len(Package(m).data) = 4 + k
    BY <1>2, <1>3
  <2> QED
    BY <2>1, <2>2
<1>5. Announced = k
  BY <1>0, <1>1, <1>3, <1>4, AnnouncedSeen DEF Announced
<1>6. k > 0 /\ k <= MaxPackage
  BY <1>2, <1>3
<1>7. 4 + k <= Len(recvBuf.data)
  BY <1>0, <1>5, <1>6 DEF Awaits, Size
<1>8. \A j \in 1..(4 + k) : recvBuf.data[j] = Package(m).data[j]
  <2>1. \A j \in 1..(4 + k) : j <= Len(recvBuf.data)
    BY <1>0, <1>7
  <2>2. Len(Package(m).data) = 4 + k
    BY <1>2, <1>3
  <2> QED
    BY <2>1, <2>2
<1>9. /\ Get(recvBuf, k, 4) = Code
      /\ GetToBuffer(recvBuf, 4, k - 4) \in Memory
      /\ GetToBuffer(recvBuf, 4, k - 4).data = Payload(m)
  BY <1>0, <1>3, <1>7, <1>8, PayloadSeen
<1>10. 4 + Announced \in 1..Len(recvBuf.data)
  BY <1>0, <1>5, <1>7
<1>11. Len(Package(m).data) = 4 + Announced
  BY <1>2, <1>3, <1>5
<1> QED
  BY <1>5, <1>6, <1>9, <1>10, <1>11, Zenon DEF Sound

(* What the invariant says of the positions.                                 *)
LEMMA TrackIs ==
    ASSUME FrameInv, OnTrack, traffic.damage.at > 0
    PROVE  /\ traffic \in Traffic /\ Unambiguous(traffic)
           /\ next \in Nat /\ next - 1 \in 0..Len(Messages) /\ Len(Messages) \in Nat
           /\ recvBuf \in Memory /\ recvBuf.data \in Seq(Byte) /\ cuts \in Nat
           /\ Len(recvBuf.data) \in Nat /\ Len(stream) \in Nat /\ Len(sendBuf.data) \in Nat
           /\ Front \in Nat /\ Edge = Front + Len(recvBuf.data) /\ Brink = Edge + Len(stream)
           /\ Ends(traffic, next - 1) = Brink + Len(sendBuf.data)
           /\ Edge \in Nat /\ Brink \in Nat /\ Ends(traffic, next - 1) \in Nat
           /\ Front + Len(UnderWay) = Ends(traffic, next - 1)
           /\ \A j \in 1..Len(recvBuf.data) : recvBuf.data[j] = Line(traffic)[Front + j]
<1>1. traffic \in Traffic /\ Unambiguous(traffic)
  BY DamageAssumption DEF FrameInv, TypeOK
<1>2. next \in Nat /\ next - 1 \in 0..Len(Messages) /\ Len(Messages) \in Nat /\ cuts \in Nat
  BY <1>1, TrafficIs DEF FrameInv, TypeOK
<1>3. /\ recvBuf \in Memory /\ recvBuf.data \in Seq(Byte) /\ Len(recvBuf.data) \in Nat
      /\ Len(stream) \in Nat /\ Len(sendBuf.data) \in Nat
  BY MemoryIs DEF FrameInv, TypeOK, Roomy
<1>4. Ends(traffic, next - 1) \in Nat
  BY <1>1, <1>2, EndsAre DEF Messages
<1>5. /\ Len(UnderWay) = Len(recvBuf.data) + Len(stream) + Len(sendBuf.data)
      /\ \A j \in 1..Len(recvBuf.data) : UnderWay[j] = recvBuf.data[j]
  BY UnderWayIs
<1>6. 0 <= Front /\ \A j \in 1..Len(UnderWay) : UnderWay[j] = Line(traffic)[Front + j]
  BY DEF OnTrack
<1>7. PICK r \in Nat, s \in Nat, d \in Nat, e \in Nat :
        r = Len(recvBuf.data) /\ s = Len(stream) /\ d = Len(sendBuf.data)
        /\ e = Ends(traffic, next - 1)
  BY <1>3, <1>4
<1>8. Len(UnderWay) = r + s + d
  BY <1>5, <1>7
<1>9. Front = e - (r + s + d)
  BY <1>7, <1>8 DEF Front
<1>10. PICK f \in Nat : f = Front /\ e = f + r + s + d
  BY <1>6, <1>9
<1>11. Edge = f + r /\ Brink = f + r + s
  BY <1>7, <1>10 DEF Edge, Brink, Size
<1>12. \A j \in 1..Len(recvBuf.data) : recvBuf.data[j] = Line(traffic)[Front + j]
  <2>1. \A j \in 1..r : j \in 1..(r + s + d)
    OBVIOUS
  <2> QED
    BY <1>5, <1>6, <1>7, <1>8, <2>1
<1>13. /\ Front \in Nat /\ Edge = Front + Len(recvBuf.data) /\ Brink = Edge + Len(stream)
       /\ Edge \in Nat /\ Brink \in Nat
       /\ Ends(traffic, next - 1) = Brink + Len(sendBuf.data)
       /\ Front + Len(UnderWay) = Ends(traffic, next - 1)
  <2>1. f + r \in Nat /\ f + r + s \in Nat /\ f + (r + s + d) = e /\ f + r + s + d = e
    BY <1>10
  <2> QED
    BY <1>7, <1>8, <1>10, <1>11, <2>1, Zenon
<1> QED
  BY <1>1, <1>2, <1>3, <1>4, <1>12, <1>13

(* The positions by numbers of their own.                                    *)
Placed(f, e, b, r, s, z) ==
    /\ f = Front /\ e = Edge /\ b = Brink
    /\ r = Len(recvBuf.data) /\ s = Len(stream) /\ z = Len(sendBuf.data)
    /\ e = f + r /\ b = e + s /\ Ends(traffic, next - 1) = b + z

LEMMA Positions ==
    ASSUME FrameInv, OnTrack, traffic.damage.at > 0
    PROVE  \E f, e, b, r, s, z \in Nat : Placed(f, e, b, r, s, z)
<1>1. /\ Front \in Nat /\ Edge \in Nat /\ Brink \in Nat
      /\ Len(recvBuf.data) \in Nat /\ Len(stream) \in Nat /\ Len(sendBuf.data) \in Nat
      /\ Edge = Front + Len(recvBuf.data) /\ Brink = Edge + Len(stream)
      /\ Ends(traffic, next - 1) = Brink + Len(sendBuf.data)
  BY TrackIs
<1>2. PICK f \in Nat : f = Front
  BY <1>1
<1>3. PICK e \in Nat : e = Edge
  BY <1>1
<1>4. PICK b \in Nat : b = Brink
  BY <1>1
<1>5. PICK r \in Nat : r = Len(recvBuf.data)
  BY <1>1
<1>6. PICK s \in Nat : s = Len(stream)
  BY <1>1
<1>7. PICK z \in Nat : z = Len(sendBuf.data)
  BY <1>1
<1>8. e = f + r /\ b = e + s /\ Ends(traffic, next - 1) = b + z
  BY <1>1, <1>2, <1>3, <1>4, <1>5, <1>6, <1>7, Zenon
<1>9. Placed(f, e, b, r, s, z)
  BY <1>2, <1>3, <1>4, <1>5, <1>6, <1>7, <1>8, Zenon DEF Placed
<1> QED
  BY <1>9, Zenon

(* A package that was not damaged, in front of the receiver.                 *)
LEMMA WholeInFront ==
    ASSUME FrameInv, OnTrack, traffic.damage.at > 0, NEW i \in 1..(next - 1),
           i # traffic.damage.at, Front = Ends(traffic, i - 1)
    PROVE  /\ Messages[i] \in Message(traffic.to) /\ Sendable(Messages[i])
           /\ traffic.to \in {"server", "client"}
           /\ Ends(traffic, i) = Front + Len(Package(Messages[i]).data)
           /\ \A j \in 1..Len(Package(Messages[i]).data) :
                j <= Len(recvBuf.data) => recvBuf.data[j] = Package(Messages[i]).data[j]
<1>1. traffic \in Traffic /\ Unambiguous(traffic) /\ i \in 1..Len(traffic.messages)
  <2>1. traffic \in Traffic /\ Unambiguous(traffic)
    BY TrackIs
  <2>2. next - 1 \in 0..Len(Messages) /\ Len(Messages) \in Nat
    BY TrackIs
  <2>3. i \in 1..Len(Messages)
    BY <2>2
  <2> QED
    BY <2>1, <2>3 DEF Messages
<1>2. /\ Messages[i] \in Message(traffic.to) /\ Sendable(Messages[i])
      /\ traffic.to \in {"server", "client"}
  BY <1>1, ConversationIs DEF Unambiguous, Messages
<1>3. PICK x \in Seq(Byte) : x = Package(Messages[i]).data
  BY <1>2, PackageTyped, MemoryIs
<1>4. /\ SentBytes(traffic, i) = x
      /\ Ends(traffic, i) = Ends(traffic, i - 1) + Len(x)
      /\ \A j \in 1..Len(x) : Line(traffic)[Ends(traffic, i - 1) + j] = x[j]
  <2>1. /\ SentBytes(traffic, i) = Package(traffic.messages[i]).data
        /\ Ends(traffic, i) = Ends(traffic, i - 1) + Len(SentBytes(traffic, i))
        /\ \A j \in 1..Len(SentBytes(traffic, i)) :
             Line(traffic)[Ends(traffic, i - 1) + j] = SentBytes(traffic, i)[j]
    BY <1>1, LineIs
  <2> QED
    BY <1>3, <2>1, Zenon DEF Messages
<1>5. ASSUME NEW j \in 1..Len(x), j <= Len(recvBuf.data)
      PROVE  recvBuf.data[j] = x[j]
  <2>1. Len(recvBuf.data) \in Nat
    BY TrackIs
  <2>2. j \in 1..Len(recvBuf.data)
    BY <1>5, <2>1
  <2>3. recvBuf.data[j] = Line(traffic)[Front + j]
    BY <2>2, TrackIs
  <2> QED
    BY <1>4, <2>3
<1> QED
  BY <1>2, <1>3, <1>4, <1>5, Zenon

(* Four bytes that are there are read as they are.                           *)
LEMMA FourThere ==
    ASSUME NEW b \in Memory, NEW pos \in Nat, pos + 4 <= Len(b.data)
    PROVE  \E y \in Seq(Byte) : /\ y = Bytes(b, pos, 4) /\ Len(y) = 4
                                /\ \A i \in 1..4 : y[i] = b.data[pos + i]
<1>f. 4 \in Nat
  OBVIOUS
<1>1. /\ Bytes(b, pos, 4) \in Seq(Byte) /\ Len(Bytes(b, pos, 4)) = 4
      /\ \A i \in 1..4 : Bytes(b, pos, 4)[i] = b.data[pos + i]
  BY <1>f, BytesThere, Zenon
<1> QED
  BY <1>1, Zenon

(* What the receiver takes for a package is one.                             *)
LEMMA OnlyPackages ==
    ASSUME FrameInv, OnTrack, traffic.damage.at > 0, ~Awaits, Sound
    PROVE  \E i \in 1..(next - 1) : i # traffic.damage.at /\ Front = Ends(traffic, i - 1)
<1>1. /\ traffic \in Traffic /\ Unambiguous(traffic) /\ Front \in Nat
      /\ recvBuf \in Memory /\ recvBuf.data \in Seq(Byte) /\ Len(recvBuf.data) \in Nat
      /\ \A j \in 1..Len(recvBuf.data) : recvBuf.data[j] = Line(traffic)[Front + j]
  BY TrackIs
<1>n. PICK n \in Nat : n = Len(traffic.messages)
  BY <1>1, ConversationIs
<1>2. PICK line \in Seq(Byte) : line = Line(traffic)
  BY <1>1, LineIs
<1>p. PICK f \in Nat, e \in Nat, b \in Nat, r \in Nat, s \in Nat, c \in Nat :
        Placed(f, e, b, r, s, c)
  BY Positions, Zenon
<1>3. /\ f = Front /\ r = Len(recvBuf.data) /\ s = Len(stream) /\ c = Len(sendBuf.data)
      /\ Ends(traffic, next - 1) = f + r + s + c
  BY <1>p DEF Placed
<1>4. f + r <= Len(line) /\ next - 1 \in 0..n
  <2>1. next - 1 \in 0..n /\ n \in 0..n /\ next - 1 <= n
    BY <1>n, TrackIs DEF Messages
  <2>2. Ends(traffic, next - 1) <= Ends(traffic, n) /\ Ends(traffic, n) = Len(line)
    <3>1. /\ \A i, k \in 0..n : i <= k => Ends(traffic, i) <= Ends(traffic, k)
          /\ Ends(traffic, n) = Len(line)
      BY <1>n, <1>1, <1>2, LineIs, Zenon
    <3> QED
      BY <2>1, <3>1
  <2>3. f + r + s + c <= Len(line)
    BY <1>3, <2>2, Zenon
  <2>4. Len(line) \in Nat
    OBVIOUS
  <2> QED
    BY <2>1, <2>3, <2>4
<1>5. r > 4 /\ Announced > 0 /\ Announced <= MaxPackage /\ Get(recvBuf, Announced, 4) = Code
  <2>1. Size(recvBuf) > 4
    BY DEF Awaits
  <2> QED
    BY <1>3, <2>1 DEF Sound, Size
<1>6. PICK k \in Nat : k = Announced /\ k > 0 /\ 4 + k <= r
  <2>1. Announced \in Int
    <3>1. Len(recvBuf.data) >= 4
      BY <1>3, <1>5
    <3> QED
      BY <1>1, <3>1, AnnouncedIs
  <2>2. ~(r < 4 + Announced)
    BY <1>3, <1>5 DEF Awaits, Size
  <2> QED
    BY <1>5, <2>1, <2>2
<1>7. \A j \in 1..r : recvBuf.data[j] = line[f + j]
  BY <1>1, <1>2, <1>3
<1>8. IntOf(SubSeq(line, f + 1, f + 4)) = k
  <2>1. PICK a \in Int, d \in Int : a = f + 1 /\ d = f + 4
    OBVIOUS
  <2>2. \A i \in a..d : line[i] \in Byte
    <3>1. \A i \in a..d : i \in 1..Len(line)
      BY <1>4, <1>5, <2>1
    <3> QED
      BY <3>1, ElementOfSeq
  <2>3. /\ SubSeq(line, a, d) \in Seq(Byte)
        /\ Len(SubSeq(line, a, d)) = IF a <= d THEN d - a + 1 ELSE 0
        /\ \A i \in 1..(d - a + 1) : SubSeq(line, a, d)[i] = line[a + i - 1]
    BY <2>2, SubSeqProperties
  <2>4. a <= d /\ d - a + 1 = 4 /\ \A i \in 1..4 : a + i - 1 = f + i
    BY <2>1
  <2>5. PICK x \in Seq(Byte) : /\ x = SubSeq(line, a, d) /\ Len(x) = 4
                               /\ \A i \in 1..4 : x[i] = line[a + i - 1]
    BY <2>3, <2>4
  <2>6. 0 \in Nat /\ 4 \in Nat /\ 0 + 4 <= Len(recvBuf.data)
    BY <1>3, <1>5
  <2>7. PICK y \in Seq(Byte) : /\ y = Bytes(recvBuf, 0, 4) /\ Len(y) = 4
                               /\ \A i \in 1..4 : y[i] = recvBuf.data[0 + i]
    BY <1>1, <2>6, FourThere, Zenon
  <2>8. \A i \in 1..4 : x[i] = y[i]
    <3> SUFFICES ASSUME NEW i \in 1..4 PROVE x[i] = y[i]
      OBVIOUS
    <3>1. 0 + i = i /\ i \in 1..r
      BY <1>5
    <3>2. y[i] = line[f + i]
      BY <1>7, <2>7, <3>1
    <3> QED
      BY <2>4, <2>5, <3>2
  <2>9. x = y
    BY <2>5, <2>7, <2>8, SeqEqual
  <2> QED
    BY <1>6, <2>1, <2>5, <2>7, <2>9, Zenon DEF Announced, PeekFront, PeekInt
<1>9. CodeAt(line, f + k)
  <2>1. k + 4 <= Len(recvBuf.data) /\ 4 \in Nat
    BY <1>3, <1>6
  <2>2. PICK y \in Seq(Byte) : /\ y = Bytes(recvBuf, k, 4) /\ Len(y) = 4
                               /\ \A i \in 1..4 : y[i] = recvBuf.data[k + i]
    BY <1>1, <2>1, FourThere, Zenon
  <2>3. Get(recvBuf, k, 4) = Bytes(recvBuf, k, 4)
    <3>1. recvBuf.cur \in Nat
      BY <1>1, MemoryIs
    <3>2. ~(k + 4 > recvBuf.cur + Len(recvBuf.data))
      BY <1>1, <2>1, <3>1
    <3> QED
      BY <3>2, Zenon DEF Get, End
  <2>4. ASSUME NEW i \in 1..4 PROVE line[f + k + i] = Code[i]
    <3>1. k + i \in 1..r /\ f + (k + i) = f + k + i
      BY <1>6
    <3>2. recvBuf.data[k + i] = line[f + (k + i)]
      BY <1>7, <3>1
    <3>3. recvBuf.data[k + i] = Code[i]
      BY <1>5, <1>6, <2>2, <2>3, Zenon
    <3> QED
      BY <3>1, <3>2, <3>3, Zenon
  <2> QED
    BY <2>4 DEF CodeAt
<1>10. ReadsAsPackage(line, f)
  <2>1. f + 4 + k <= Len(line)
    BY <1>4, <1>6
  <2> QED
    BY <1>5, <1>6, <1>8, <1>9, <2>1, Zenon DEF ReadsAsPackage
<1>11. PICK i \in 1..n : f = Ends(traffic, i - 1) /\ i # traffic.damage.at
  <2>1. f \in 0..(Len(line) - 4)
    BY <1>4, <1>5
  <2>2. \A x \in 0..(Len(line) - 4) : ReadsAsPackage(line, x) =>
          \E i \in 1..n : x = Ends(traffic, i - 1) /\ i # traffic.damage.at
    BY <1>n, <1>1, <1>2, Zenon DEF Unambiguous
  <2> QED
    BY <1>10, <2>1, <2>2
<1>12. i <= next - 1
  <2>1. ASSUME next - 1 <= i - 1 PROVE FALSE
    <3>1. i - 1 \in 0..n
      OBVIOUS
    <3>2. Ends(traffic, next - 1) <= Ends(traffic, i - 1)
      BY <1>n, <1>1, <1>4, <2>1, <3>1, LineIs
    <3>3. f + r + s + c <= f
      BY <1>3, <1>11, <3>2
    <3> QED
      BY <1>5, <3>3
  <2>2. next \in Nat
    BY TrackIs
  <2> QED
    BY <2>1, <2>2
<1>13. i \in 1..(next - 1)
  BY <1>12, <1>4
<1> QED
  BY <1>3, <1>11, <1>13, Zenon

(* Positions between packages and inside one.                                *)
LEMMA TornIs ==
    ASSUME NEW t \in Traffic, Unambiguous(t), NEW x
    PROVE  /\ Torn(t, x) \in {0, 1}
           /\ \A i \in 0..Len(t.messages) : x = Ends(t, i) => Torn(t, x) = 0
           /\ \A g \in 1..Len(t.messages) :
                x \in Nat /\ Ends(t, g - 1) < x /\ x < Ends(t, g) => Torn(t, x) = 1
<1>n. PICK n \in Nat : n = Len(t.messages)
  BY ConversationIs
<1>e. /\ \A i \in 0..n : Ends(t, i) \in Nat
      /\ \A i, k \in 0..n : i <= k => Ends(t, i) <= Ends(t, k)
  BY <1>n, LineIs
<1>1. Torn(t, x) \in {0, 1}
  BY DEF Torn
<1>2. \A i \in 0..n : x = Ends(t, i) => Torn(t, x) = 0
  BY <1>n DEF Torn
<1>3. ASSUME NEW g \in 1..n, x \in Nat, Ends(t, g - 1) < x, x < Ends(t, g), NEW i \in 0..n
      PROVE  x # Ends(t, i)
  <2>1. g - 1 \in 0..n /\ g \in 0..n
    OBVIOUS
  <2>2. Ends(t, g - 1) \in Nat /\ Ends(t, g) \in Nat /\ Ends(t, i) \in Nat
    BY <1>e, <2>1
  <2>3. CASE i <= g - 1
    <3>1. Ends(t, i) <= Ends(t, g - 1)
      BY <1>e, <2>1, <2>3
    <3> QED
      BY <1>3, <2>2, <3>1
  <2>4. CASE ~(i <= g - 1)
    <3>1. g <= i
      BY <2>4
    <3>2. Ends(t, g) <= Ends(t, i)
      BY <1>e, <2>1, <3>1
    <3> QED
      BY <1>3, <2>2, <3>2
  <2> QED
    BY <2>3, <2>4
<1>4. ASSUME NEW g \in 1..n, x \in Nat, Ends(t, g - 1) < x, x < Ends(t, g)
      PROVE  Torn(t, x) = 1
  <2>1. ~ \E i \in 0..n : x = Ends(t, i)
    BY <1>3, <1>4
  <2> QED
    BY <1>n, <2>1 DEF Torn
<1> QED
  BY <1>n, <1>1, <1>2, <1>4

(* The two terms of the debt.                                                *)
LEMMA DebtIs ==
    ASSUME FrameInv, OnTrack, traffic.damage.at > 0
    PROVE  \E a, b \in {0, 1} :
             /\ Debt = a + b
             /\ a = (IF pc # "recv" /\ Front < Edge THEN Torn(traffic, Edge) ELSE 0)
             /\ b = (IF Front < Brink /\ (pc = "recv" \/ Edge < Brink)
                     THEN Torn(traffic, Brink) ELSE 0)
<1>1. traffic \in Traffic /\ Unambiguous(traffic)
  BY TrackIs
<1>2. Torn(traffic, Edge) \in {0, 1} /\ Torn(traffic, Brink) \in {0, 1}
  BY <1>1, TornIs
<1>3. PICK a \in {0, 1} : a = IF pc # "recv" /\ Front < Edge THEN Torn(traffic, Edge) ELSE 0
  BY <1>2
<1>4. PICK b \in {0, 1} : b = IF Front < Brink /\ (pc = "recv" \/ Edge < Brink)
                              THEN Torn(traffic, Brink) ELSE 0
  BY <1>2
<1>5. Debt = a + b
  BY <1>3, <1>4, Zenon DEF Debt
<1> QED
  BY <1>3, <1>4, <1>5, Zenon

(* A debt that grows with the partial sends stays within them.               *)
LEMMA Slack ==
    ASSUME NEW g \in Int, NEW at \in Int, NEW h \in Int, NEW d \in Int, NEW dd \in Int,
           NEW c \in Int, NEW cc \in Int, dd + c <= d + cc, g + d <= at + c + h
    PROVE  g + dd <= at + cc + h
OBVIOUS

(* The invariant is kept where the receiver stays in its place, if the debt  *)
(* grows with the partial sends only.                                        *)
LEMMA PlaceKept ==
    ASSUME FrameInv, OnTrack, UNCHANGED <<traffic, next, out, UnderWay>>,
           cuts' \in Nat, cuts <= cuts',
           traffic.damage.at > 0 => Debt' \in Int /\ Debt' + cuts <= Debt + cuts'
    PROVE  OnTrack'
<1> SUFFICES ASSUME traffic.damage.at > 0
             PROVE  OnTrack'
  BY DEF OnTrack
<1>1. PICK k \in Nat : k = next - 1
  BY TrackIs
<1>2. PICK f \in Nat : f = Front
  BY TrackIs
<1>3. Front' = f
  BY <1>2 DEF Front
<1>4. PICK c \in Nat, cc \in Nat : c = cuts /\ cc = cuts' /\ c <= cc
  BY TrackIs
<1>5. PICK d \in Int, dd \in Int : d = Debt /\ dd = Debt' /\ dd + c <= d + cc
  <2>1. Debt \in Int
    BY DebtIs
  <2>2. Debt' + cuts <= Debt + cuts' /\ Debt' \in Int
    OBVIOUS
  <2> QED
    BY <1>4, <2>1, <2>2
<1>6. PICK at \in Nat : at = traffic.damage.at
  BY TrafficIs DEF FrameInv
<1>7. /\ out \in Seq(Message(traffic.to)) /\ 0 <= f
      /\ \A j \in 1..Len(UnderWay) : UnderWay[j] = Line(traffic)[f + j]
      /\ \A i \in 1..k : Ends(traffic, i) <= f =>
           \/ i \in at..(at + 1 + c)
           \/ \E j \in 1..Len(out) : out[j] = Messages[i]
      /\ d <= c
      /\ \/ \E i \in 0..k : f = Ends(traffic, i)
         \/ \E g \in at..k :
              /\ Ends(traffic, g - 1) < f /\ f < Ends(traffic, g)
              /\ g + d <= at + c + CodeAhead(traffic, f, g)
  BY <1>1, <1>2, <1>4, <1>5, <1>6 DEF OnTrack
<1>8. \A i \in 1..k : i \in at..(at + 1 + c) => i \in at..(at + 1 + cc)
  BY <1>4
<1>9. dd <= cc
  BY <1>5, <1>7
<1>10. ASSUME NEW g \in at..k, g + d <= at + c + CodeAhead(traffic, f, g)
       PROVE  g + dd <= at + cc + CodeAhead(traffic, f, g)
  <2>1. PICK h \in Nat : h = CodeAhead(traffic, f, g)
    BY DEF CodeAhead
  <2>2. g + d <= at + c + h
    BY <1>10, <2>1, Zenon
  <2>3. dd + c <= d + cc
    BY <1>5, Zenon
  <2>i. g \in Int
    OBVIOUS
  <2>4. g + dd <= at + cc + h
    BY <2>2, <2>3, <2>i, Slack
  <2> QED
    BY <2>1, <2>4, Zenon
<1>11. \A i \in 1..k : Ends(traffic, i) <= f =>
         \/ i \in at..(at + 1 + cc)
         \/ \E j \in 1..Len(out) : out[j] = Messages[i]
  BY <1>7, <1>8
<1>12. \/ \E i \in 0..k : f = Ends(traffic, i)
       \/ \E g \in at..k :
            /\ Ends(traffic, g - 1) < f /\ f < Ends(traffic, g)
            /\ g + dd <= at + cc + CodeAhead(traffic, f, g)
  BY <1>7, <1>10, Zenon
<1>13. /\ traffic' = traffic /\ next' = next /\ out' = out /\ UnderWay' = UnderWay
       /\ Messages' = Messages
  BY DEF Messages
<1> QED
  BY <1>1, <1>3, <1>4, <1>5, <1>6, <1>7, <1>9, <1>11, <1>12, <1>13, Zenon DEF OnTrack

(* At first nothing is under way.                                            *)
LEMMA TrackInit ==
    ASSUME Init
    PROVE  OnTrack
<1>1. /\ out = <<>> /\ next = 1 /\ stream = <<>> /\ sendBuf.data = <<>> /\ recvBuf.data = <<>>
      /\ cuts = 0 /\ traffic \in Traffic
  BY NewBufferIs DEF Init
<1>2. out \in Seq(Message(traffic.to)) /\ Len(out) = 0
  BY <1>1, EmptySeq
<1>3. UnderWay = <<>>
  BY <1>1 DEF UnderWay
<1>4. Len(UnderWay) = 0 /\ next - 1 = 0
  BY <1>1, <1>3
<1>5. Ends(traffic, 0) = 0
  BY <1>1, EndsAre
<1>6. Front = 0
  BY <1>4, <1>5 DEF Front
<1>7. Edge = 0 /\ Brink = 0
  BY <1>1, <1>6 DEF Edge, Brink, Size
<1>8. Debt = 0
  BY <1>6, <1>7 DEF Debt
<1>9. ~ (\E j \in 1..0 : TRUE) /\ 0 \in 0..0
  OBVIOUS
<1> QED
  BY <1>1, <1>2, <1>4, <1>5, <1>6, <1>8, <1>9 DEF OnTrack

(* Bytes are sent, all of them or some: a partial send pays for its place.    *)
LEMMA TrackSend ==
    ASSUME FrameInv, OnTrack, SendData
    PROVE  OnTrack'
<1>0. TypeOK /\ Roomy(sendBuf) /\ Roomy(recvBuf) /\ sendBuf \in Memory
  BY DEF FrameInv, Roomy
<1>1. PICK n \in 1..Size(sendBuf) :
        /\ cuts' = IF n < Size(sendBuf) THEN cuts + 1 ELSE cuts
        /\ stream' = stream \o SubSeq(sendBuf.data, 1, n)
        /\ UNCHANGED <<traffic, next, recvBuf, pc, out>>
  BY DEF SendData
<1>2. UnderWay' = UnderWay
  BY <1>0, SendKeeps
<1>3. cuts \in Nat /\ cuts' \in Nat /\ cuts <= cuts'
  <2>1. cuts \in Nat
    BY <1>0, TrafficIs DEF TypeOK
  <2> QED
    BY <1>1, <2>1
<1>4. ASSUME traffic.damage.at > 0
      PROVE  Debt' \in Int /\ Debt' + cuts <= Debt + cuts'
  <2>p. PICK f \in Nat, e \in Nat, b \in Nat, r \in Nat, w \in Nat, s \in Nat :
          Placed(f, e, b, r, w, s)
    BY <1>4, Positions, Zenon
  <2>1. /\ f = Front /\ e = Edge /\ b = Brink /\ s = Len(sendBuf.data)
        /\ Ends(traffic, next - 1) = b + s
    BY <2>p, Zenon DEF Placed
  <2>2. n \in 1..s /\ n \in 0..Len(sendBuf.data)
    BY <2>1 DEF Size
  <2>3. Len(stream') = Len(stream) + n /\ Len(stream) \in Nat
    <3>1. PICK x \in Seq(Byte) : x = SubSeq(sendBuf.data, 1, n) /\ Len(x) = n
      BY <1>0, <2>2, MemoryIs, FirstIs
    <3>2. stream \in Seq(Byte)
      BY <1>0 DEF TypeOK
    <3>3. Len(stream \o x) = Len(stream) + Len(x) /\ Len(stream) \in Nat
      BY <3>2, Joined
    <3> QED
      BY <1>1, <3>1, <3>3, Zenon
  <2>4. Front' = f /\ Edge' = e
    <3>1. Front' = Front
      BY <1>1, <1>2 DEF Front
    <3> QED
      BY <1>1, <2>1, <3>1 DEF Edge, Size
  <2>5. Brink' = b + n
    <3>1. Brink' = Edge' + Len(stream') /\ Brink = Edge + Len(stream)
      BY DEF Brink
    <3>2. Brink' = e + (Len(stream) + n) /\ b = e + Len(stream)
      BY <2>1, <2>3, <2>4, <3>1
    <3> QED
      BY <2>3, <3>2
  <2>6. PICK x \in {0, 1}, y \in {0, 1} :
          /\ Debt = x + y
          /\ x = (IF pc # "recv" /\ f < e THEN Torn(traffic, e) ELSE 0)
    BY <1>4, <2>1, DebtIs
  <2>7. Torn(traffic, b + n) \in {0, 1}
    BY <1>4, TrackIs, TornIs
  <2>8. PICK z \in {0, 1} :
          z = (IF f < b + n /\ (pc = "recv" \/ e < b + n) THEN Torn(traffic, b + n) ELSE 0)
    BY <2>7
  <2>9. Debt' = x + z
    BY <1>1, <2>4, <2>5, <2>6, <2>8, Zenon DEF Debt
  <2>10. CASE n < Size(sendBuf)
    <3>1. cuts' = cuts + 1
      BY <1>1, <2>10
    <3> QED
      BY <1>3, <2>6, <2>9, <3>1
  <2>11. CASE ~(n < Size(sendBuf))
    <3>1. cuts' = cuts
      BY <1>1, <2>11
    <3>2. b + n = Ends(traffic, next - 1)
      BY <2>1, <2>2, <2>11 DEF Size
    <3>3. Torn(traffic, b + n) = 0
      <4>1. /\ traffic \in Traffic /\ Unambiguous(traffic)
            /\ next - 1 \in 0..Len(traffic.messages)
        BY <1>4, TrackIs DEF Messages
      <4> QED
        BY <3>2, <4>1, TornIs
    <3>4. z = 0
      BY <2>8, <3>3
    <3> QED
      BY <1>3, <2>6, <2>9, <3>1, <3>4
  <2> QED
    BY <2>10, <2>11
<1> QED
  BY <1>1, <1>2, <1>3, <1>4, PlaceKept

(* Bytes are received: the place they end at is now that of the receiver.     *)
LEMMA TrackRecv ==
    ASSUME FrameInv, OnTrack, RecvData
    PROVE  OnTrack'
<1>0. TypeOK /\ Roomy(sendBuf) /\ Roomy(recvBuf) /\ recvBuf \in Memory /\ stream \in Seq(Byte)
  BY DEF FrameInv, Roomy, TypeOK
<1>1. PICK n \in 0..Len(stream) : n = IF Len(stream) < RecvLen THEN Len(stream) ELSE RecvLen
  BY <1>0, FramingAssumption
<1>2. /\ recvBuf' = Write(recvBuf, SubSeq(stream, 1, n), TRUE)
      /\ stream' = SubSeq(stream, n + 1, Len(stream))
      /\ pc' = IF n = RecvLen THEN "recv" ELSE "extract"
      /\ pc = "recv" \/ stream # <<>>
      /\ UNCHANGED <<traffic, next, cuts, sendBuf, out>>
  BY <1>1 DEF RecvData
<1>3. UnderWay' = UnderWay
  BY <1>0, RecvKeeps
<1>4. cuts \in Nat /\ cuts' = cuts
  BY <1>0, <1>2, TrafficIs DEF TypeOK
<1>5. ASSUME traffic.damage.at > 0
      PROVE  Debt' \in Int /\ Debt' + cuts <= Debt + cuts'
  <2>p. PICK f \in Nat, e \in Nat, b \in Nat, r \in Nat, s \in Nat, z \in Nat :
          Placed(f, e, b, r, s, z)
    BY <1>5, Positions, Zenon
  <2>1. /\ f = Front /\ e = Edge /\ b = Brink /\ r = Len(recvBuf.data) /\ s = Len(stream)
        /\ e = f + r /\ b = e + s
    BY <2>p, Zenon DEF Placed
  <2>2. Len(recvBuf'.data) = r + n /\ Len(stream') = s - n
    <3>1. PICK x \in Seq(Byte) : x = SubSeq(stream, 1, n) /\ Len(x) = n
      BY <1>0, FirstIs
    <3>2. recvBuf'.data = recvBuf.data \o x
      <4>1. recvBuf' = Write(recvBuf, x, TRUE)
        BY <1>2, <3>1, Zenon
      <4>2. Write(recvBuf, x, TRUE).data = recvBuf.data \o x
        BY <1>0, WriteIs
      <4> QED
        BY <4>1, <4>2, Zenon
    <3>3. Len(recvBuf.data \o x) = Len(recvBuf.data) + Len(x)
      BY <1>0, MemoryIs, Joined
    <3>4. Len(stream') = Len(stream) - n
      BY <1>0, <1>2, RestIs
    <3> QED
      BY <2>1, <3>1, <3>2, <3>3, <3>4, Zenon
  <2>3. Front' = f
    BY <1>2, <1>3, <2>1 DEF Front
  <2>n. n \in Nat /\ n <= s
    BY <2>1
  <2>4. Edge' = e + n
    <3>1. Edge' = f + (r + n)
      BY <2>2, <2>3 DEF Edge, Size
    <3> QED
      BY <2>1, <2>n, <3>1
  <2>5. Brink' = b
    <3>1. Brink' = e + n + (s - n)
      BY <2>2, <2>4 DEF Brink
    <3> QED
      BY <2>1, <2>n, <3>1
  <2>6. Debt' = IF f < b THEN Torn(traffic, b) ELSE 0
    <3>1. CASE n = RecvLen
      <4>1. pc' = "recv"
        BY <1>2, <3>1
      <4>2. Debt' = 0 + IF f < b THEN Torn(traffic, b) ELSE 0
        BY <1>2, <2>3, <2>5, <4>1 DEF Debt
      <4>3. Torn(traffic, b) \in {0, 1}
        BY <1>5, TrackIs, TornIs
      <4> QED
        BY <4>2, <4>3
    <3>2. CASE n # RecvLen
      <4>1. pc' # "recv"
        BY <1>2, <3>2
      <4>2. n = s
        BY <1>1, <2>1, <3>2
      <4>3. e + n = b
        BY <2>1, <4>2
      <4>4. Edge' = b /\ Brink' = b /\ ~(b < b) /\ pc' # "recv" /\ Front' = f
        BY <2>3, <2>4, <2>5, <4>1, <4>3
      <4>5. Debt' = (IF f < b THEN Torn(traffic, b) ELSE 0) + 0
        BY <1>2, <4>4 DEF Debt
      <4>6. Torn(traffic, b) \in {0, 1}
        BY <1>5, TrackIs, TornIs
      <4> QED
        BY <4>5, <4>6
    <3> QED
      BY <3>1, <3>2
  <2>7. PICK x \in {0, 1}, y \in {0, 1} :
          /\ Debt = x + y
          /\ y = (IF f < b /\ (pc = "recv" \/ e < b) THEN Torn(traffic, b) ELSE 0)
    BY <1>5, <2>1, DebtIs
  <2>8. pc = "recv" \/ e < b
    <3>1. ASSUME stream # <<>> PROVE e < b
      <4>1. s # 0
        BY <1>0, <2>1, <3>1, EmptySeq
      <4> QED
        BY <2>1, <4>1
    <3> QED
      BY <1>2, <3>1
  <2>9. Debt' = y
    <3>1. Debt' = IF f < b THEN Torn(traffic, b) ELSE 0
      BY <2>6
    <3>2. y = IF f < b THEN Torn(traffic, b) ELSE 0
      BY <2>7, <2>8, Zenon
    <3> QED
      BY <3>1, <3>2, Zenon
  <2>10. PICK c \in Nat : c = cuts /\ c = cuts'
    BY <1>4
  <2>11. y \in Int /\ y + c <= (x + y) + c
    OBVIOUS
  <2> QED
    BY <2>7, <2>9, <2>10, <2>11, Zenon
<1> QED
  BY <1>2, <1>3, <1>4, <1>5, PlaceKept

(* The receiver has got through what it has.                                 *)
LEMMA TrackEnd ==
    ASSUME FrameInv, OnTrack, ExtractEnd \/ UNCHANGED vars
    PROVE  OnTrack'
<1>1. /\ UNCHANGED <<traffic, next, cuts, sendBuf, stream, recvBuf, out>>
      /\ pc' = pc \/ (pc # "recv" /\ pc' # "recv")
  BY DEF ExtractEnd, vars
<1>2. UnderWay' = UnderWay
  BY <1>1 DEF UnderWay
<1>3. cuts \in Nat
  BY TrafficIs DEF FrameInv, TypeOK
<1>4. ASSUME traffic.damage.at > 0
      PROVE  Debt' \in Int /\ Debt' + cuts <= Debt + cuts'
  <2>1. Debt \in Int
    BY <1>4, DebtIs
  <2>2. Front' = Front
    BY <1>1, <1>2 DEF Front
  <2>3. Edge' = Edge /\ Brink' = Brink
    BY <1>1, <2>2 DEF Edge, Brink, Size
  <2>4. Debt' = Debt
    BY <1>1, <2>2, <2>3, Zenon DEF Debt
  <2> QED
    BY <1>1, <1>3, <2>1, <2>4
<1> QED
  BY <1>1, <1>2, <1>3, <1>4, PlaceKept

(* Another package is sent: it lies behind the others.                       *)
LEMMA TrackPush ==
    ASSUME FrameInv, OnTrack, PushData
    PROVE  OnTrack'
<1>t. /\ traffic' = traffic /\ next <= Len(Messages) /\ next' = next + 1
      /\ sendBuf' = Write(sendBuf, SentBytes(traffic, next), TRUE)
      /\ UNCHANGED <<cuts, stream, recvBuf, pc, out>>
  BY DEF PushData, Messages
<1> SUFFICES ASSUME traffic.damage.at > 0
             PROVE  OnTrack'
  BY <1>t DEF OnTrack
<1>0. /\ sendBuf \in Memory /\ recvBuf.data \in Seq(Byte) /\ sendBuf.data \in Seq(Byte)
      /\ stream \in Seq(Byte) /\ traffic \in Traffic /\ Unambiguous(traffic)
  BY MemoryIs, TrackIs DEF FrameInv, Roomy, TypeOK
<1>n. PICK n \in Nat : n = Len(traffic.messages)
  BY <1>0, ConversationIs
<1>1. PICK l \in Nat : l = next - 1 /\ l + 1 = next /\ l \in 0..n /\ l + 1 \in 1..n
  <2>1. next \in Nat /\ next - 1 \in 0..n
    BY <1>n, TrackIs DEF Messages
  <2>2. next <= n
    BY <1>t, <1>n DEF Messages
  <2> QED
    BY <2>1, <2>2
<1>b. PICK r \in Seq(Byte), s \in Seq(Byte), d \in Seq(Byte) :
        r = recvBuf.data /\ s = stream /\ d = sendBuf.data
  BY <1>0
<1>c. PICK rs \in Seq(Byte) : rs = r \o s
  BY Joined
<1>u. PICK u \in Seq(Byte) : u = UnderWay /\ u = rs \o d
  <2>1. UnderWay = rs \o d
    BY <1>b, <1>c, Zenon DEF UnderWay
  <2> QED
    BY <2>1, Joined
<1>2. PICK x \in Seq(Byte) : x = SentBytes(traffic, l + 1)
  BY <1>0, <1>n, <1>1, SentTyped
<1>3. UnderWay' = u \o x
  <2>1. Write(sendBuf, x, TRUE).data = sendBuf.data \o x
    BY <1>0, WriteIs
  <2>2. sendBuf' = Write(sendBuf, x, TRUE)
    BY <1>t, <1>1, <1>2, Zenon
  <2>3. sendBuf'.data = d \o x
    BY <1>b, <2>1, <2>2, Zenon
  <2>4. (rs \o d) \o x = rs \o (d \o x)
    BY Rejoined, SMTT(40)
  <2>5. UnderWay' = rs \o (d \o x)
    BY <1>t, <1>b, <1>c, <2>3, Zenon DEF UnderWay
  <2> QED
    BY <1>u, <2>4, <2>5, Zenon
<1>4. /\ Len(u \o x) = Len(u) + Len(x) /\ Len(u) \in Nat /\ Len(x) \in Nat
      /\ \A j \in 1..(Len(u) + Len(x)) : (u \o x)[j] = IF j <= Len(u) THEN u[j] ELSE x[j - Len(u)]
  BY ConcatProperties
<1>e. PICK e \in Nat : e = Ends(traffic, l)
  BY <1>0, <1>n, <1>1, LineIs
<1>5. Ends(traffic, l + 1) = e + Len(x) /\ \A j \in 1..Len(x) : Line(traffic)[e + j] = x[j]
  <2>1. l + 1 \in 1..n /\ (l + 1) - 1 = l
    BY <1>1
  <2>2. \A i \in 1..n :
          /\ Ends(traffic, i) = Ends(traffic, i - 1) + Len(SentBytes(traffic, i))
          /\ \A j \in 1..Len(SentBytes(traffic, i)) :
               Line(traffic)[Ends(traffic, i - 1) + j] = SentBytes(traffic, i)[j]
    BY <1>0, <1>n, LineIs, Zenon
  <2>3. /\ Ends(traffic, l + 1) = Ends(traffic, l) + Len(SentBytes(traffic, l + 1))
        /\ \A j \in 1..Len(SentBytes(traffic, l + 1)) :
             Line(traffic)[Ends(traffic, l) + j] = SentBytes(traffic, l + 1)[j]
    BY <2>1, <2>2, Zenon
  <2> QED
    BY <1>2, <1>e, <2>3, Zenon
<1>6. PICK f \in Nat : f = Front /\ e = f + Len(u)
  <2>1. Front \in Nat /\ Front + Len(UnderWay) = Ends(traffic, next - 1)
    BY TrackIs
  <2> QED
    BY <1>1, <1>u, <1>e, <2>1, Zenon
<1>7. next' - 1 = l + 1
  <2>1. next' = (l + 1) + 1
    BY <1>t, <1>1, Zenon
  <2> QED
    BY <2>1
<1>8. Front' = f
  <2>1. Front' = Ends(traffic', next' - 1) - Len(UnderWay')
    BY DEF Front
  <2>2. Front' = Ends(traffic, l + 1) - Len(u \o x)
    BY <1>t, <1>3, <1>7, <2>1, Zenon
  <2>3. Front' = (e + Len(x)) - (Len(u) + Len(x))
    BY <1>4, <1>5, <2>2, Zenon
  <2> QED
    BY <1>4, <1>6, <2>3
<1>9. ASSUME NEW j \in 1..Len(u \o x) PROVE (u \o x)[j] = Line(traffic)[f + j]
  <2>1. CASE j <= Len(u)
    <3>1. j \in 1..Len(u)
      BY <1>4, <2>1
    <3>2. \A k \in 1..Len(UnderWay) : UnderWay[k] = Line(traffic)[Front + k]
      BY DEF OnTrack
    <3>3. u[j] = Line(traffic)[f + j]
      BY <1>u, <1>6, <3>1, <3>2, Zenon
    <3>4. (u \o x)[j] = u[j]
      BY <1>4, <2>1
    <3> QED
      BY <3>3, <3>4, Zenon
  <2>2. CASE ~(j <= Len(u))
    <3>1. PICK i : i = j - Len(u)
      OBVIOUS
    <3>2. i \in 1..Len(x) /\ e + i = f + j
      BY <1>4, <1>6, <2>2, <3>1
    <3>3. (u \o x)[j] = x[i]
      BY <1>4, <2>2, <3>1
    <3>4. Line(traffic)[e + i] = x[i]
      BY <1>5, <3>2
    <3> QED
      BY <3>2, <3>3, <3>4, Zenon
  <2> QED
    BY <2>1, <2>2
<1>10. Debt' = Debt
  <2>1. Front' = Front
    BY <1>6, <1>8, Zenon
  <2>2. Edge' = Edge /\ Brink' = Brink
    <3>1. Edge' = Edge
      BY <1>t, <2>1, Zenon DEF Edge, Size
    <3> QED
      BY <1>t, <3>1, Zenon DEF Brink
  <2> QED
    BY <1>t, <2>1, <2>2, Zenon DEF Debt
<1>11. PICK at \in Nat, c \in Nat : at = traffic.damage.at /\ c = cuts
  BY <1>0, ConversationIs, TrackIs
<1>12. /\ out \in Seq(Message(traffic.to)) /\ 0 <= f
       /\ \A i \in 1..l : Ends(traffic, i) <= f =>
            \/ i \in at..(at + 1 + c)
            \/ \E j \in 1..Len(out) : out[j] = Messages[i]
       /\ Debt <= c
       /\ \/ \E k \in 0..l : f = Ends(traffic, k)
          \/ \E g \in at..l :
               /\ Ends(traffic, g - 1) < f /\ f < Ends(traffic, g)
               /\ g + Debt <= at + c + CodeAhead(traffic, f, g)
  BY <1>1, <1>6, <1>11, Zenon DEF OnTrack
<1>13. ASSUME NEW i \in 1..(l + 1), Ends(traffic, i) <= f
       PROVE  \/ i \in at..(at + 1 + c)
              \/ \E j \in 1..Len(out) : out[j] = Messages[i]
  <2>1. l + 1 > l /\ l \in 0..n /\ l + 1 \in 0..n
    BY <1>1
  <2>2. Ends(traffic, l) + 15 <= Ends(traffic, l + 1)
    BY <1>0, <1>n, <2>1, LineIs
  <2>3. e + 15 <= Ends(traffic, l + 1) /\ f <= e
    BY <1>e, <1>4, <1>6, <2>2
  <2>4. Ends(traffic, l + 1) \in Nat
    BY <1>0, <1>n, <2>1, LineIs
  <2>5. i # l + 1
    <3> SUFFICES ASSUME i = l + 1 PROVE FALSE
      OBVIOUS
    <3>1. Ends(traffic, l + 1) <= f
      BY <1>13, Zenon
    <3> QED
      BY <2>3, <2>4, <3>1
  <2>6. i \in 1..l
    BY <2>5
  <2> QED
    BY <1>12, <1>13, <2>6
<1>14. \/ \E k \in 0..(l + 1) : f = Ends(traffic, k)
       \/ \E g \in at..(l + 1) :
            /\ Ends(traffic, g - 1) < f /\ f < Ends(traffic, g)
            /\ g + Debt <= at + c + CodeAhead(traffic, f, g)
  <2>1. \A k \in 0..l : k \in 0..(l + 1)
    OBVIOUS
  <2>2. \A k \in at..l : k \in at..(l + 1)
    OBVIOUS
  <2> QED
    BY <1>12, <2>1, <2>2, Zenon
<1>15. /\ traffic' = traffic /\ out' = out /\ cuts' = cuts /\ Messages' = Messages
  BY <1>t DEF Messages
<1> QED
  BY <1>3, <1>7, <1>8, <1>9, <1>10, <1>11, <1>12, <1>13, <1>14, <1>15, Zenon DEF OnTrack

(* What the receiver drops of its bytes brings it on by as much.             *)
LEMMA Dropped ==
    ASSUME FrameInv, OnTrack, traffic.damage.at > 0, NEW m \in 0..Len(recvBuf.data),
           recvBuf'.data = SubSeq(recvBuf.data, m + 1, Len(recvBuf.data)),
           UNCHANGED <<traffic, next, stream, sendBuf>>
    PROVE  /\ Front' = Front + m /\ Edge' = Edge /\ Brink' = Brink
           /\ \A j \in 1..Len(UnderWay') : UnderWay'[j] = Line(traffic)[Front + m + j]
<1>0. /\ recvBuf.data \in Seq(Byte) /\ sendBuf.data \in Seq(Byte) /\ stream \in Seq(Byte)
  BY MemoryIs, TrackIs DEF FrameInv, Roomy, TypeOK
<1>b. PICK r \in Seq(Byte), s \in Seq(Byte), d \in Seq(Byte) :
        r = recvBuf.data /\ s = stream /\ d = sendBuf.data
  BY <1>0
<1>c. PICK rs \in Seq(Byte) : rs = r \o s
  BY Joined
<1>u. PICK u \in Seq(Byte) : u = UnderWay /\ u = rs \o d
  <2>1. UnderWay = rs \o d
    BY <1>b, <1>c, Zenon DEF UnderWay
  <2> QED
    BY <2>1, Joined
<1>1. PICK f \in Nat, a \in Nat, e \in Nat, z \in Nat :
        /\ f = Front /\ a = Len(r) /\ e = Ends(traffic, next - 1) /\ f + Len(u) = e
        /\ Edge = f + a /\ z = Len(stream) /\ Brink = f + a + z
  <2>1. /\ Front \in Nat /\ Len(recvBuf.data) \in Nat /\ Ends(traffic, next - 1) \in Nat
        /\ Len(stream) \in Nat
        /\ Edge = Front + Len(recvBuf.data) /\ Brink = Edge + Len(stream)
        /\ Front + Len(UnderWay) = Ends(traffic, next - 1)
    BY TrackIs
  <2> QED
    BY <1>b, <1>u, <2>1, Zenon
<1>2. m \in 0..Len(r) /\ m \in 0..Len(rs) /\ m \in 0..Len(u) /\ m \in Nat
      /\ Len(u) \in Nat
  <2>1. m \in 0..Len(r)
    BY <1>b
  <2>2. Len(rs) = Len(r) + Len(s) /\ Len(r) \in Nat /\ Len(s) \in Nat
    BY <1>c, Joined
  <2>3. Len(u) = Len(rs) + Len(d) /\ Len(d) \in Nat
    BY <1>u, Joined
  <2> QED
    BY <2>1, <2>2, <2>3
<1>3. PICK rest \in Seq(Byte) : rest = SubSeq(r, m + 1, Len(r)) /\ Len(rest) = Len(r) - m
  BY <1>2, RestIs
<1>4. recvBuf'.data = rest
  BY <1>b, <1>3, Zenon
<1>5. PICK v \in Seq(Byte) : /\ v = SubSeq(u, m + 1, Len(u)) /\ Len(v) = Len(u) - m
                             /\ \A j \in 1..(Len(u) - m) : v[j] = u[m + j]
  <2>1. /\ SubSeq(u, m + 1, Len(u)) \in Seq(Byte)
        /\ Len(SubSeq(u, m + 1, Len(u))) = Len(u) - m
        /\ \A j \in 1..(Len(u) - m) : SubSeq(u, m + 1, Len(u))[j] = u[m + j]
    BY <1>2, RestIs, Zenon
  <2> QED
    BY <2>1, Zenon
<1>6. UnderWay' = v
  <2>1. SubSeq(r \o s, m + 1, Len(r \o s)) = SubSeq(r, m + 1, Len(r)) \o s
    BY <1>2, DropFront
  <2>2. SubSeq(rs \o d, m + 1, Len(rs \o d)) = SubSeq(rs, m + 1, Len(rs)) \o d
    BY <1>2, DropFront
  <2>3. UnderWay' = (rest \o s) \o d
    BY <1>b, <1>4, Zenon DEF UnderWay
  <2> QED
    BY <1>c, <1>u, <1>3, <1>5, <2>1, <2>2, <2>3, Zenon
<1>7. Front' = f + m
  <2>1. Front' = e - Len(v)
    BY <1>1, <1>6, Zenon DEF Front
  <2>2. Len(v) = Len(u) - m
    BY <1>5
  <2> QED
    BY <1>1, <1>2, <2>1, <2>2
<1>8. Edge' = f + a
  <2>1. Edge' = Front' + Len(rest)
    BY <1>4, Zenon DEF Edge, Size
  <2>2. Edge' = (f + m) + (a - m)
    BY <1>1, <1>3, <1>7, <2>1, Zenon
  <2> QED
    BY <1>1, <1>2, <2>2
<1>9. Brink' = f + a + z
  BY <1>1, <1>8, Zenon DEF Brink
<1>10. ASSUME NEW j \in 1..Len(v) PROVE v[j] = Line(traffic)[f + m + j]
  <2>1. m + j \in 1..Len(u) /\ f + (m + j) = f + m + j /\ j \in 1..(Len(u) - m)
    BY <1>2, <1>5
  <2>2. \A k \in 1..Len(UnderWay) : UnderWay[k] = Line(traffic)[Front + k]
    BY DEF OnTrack
  <2>3. u[m + j] = Line(traffic)[f + (m + j)]
    BY <1>u, <1>1, <2>1, <2>2, Zenon
  <2>4. v[j] = u[m + j]
    BY <1>5, <2>1
  <2> QED
    BY <2>1, <2>3, <2>4, Zenon
<1> QED
  BY <1>1, <1>6, <1>7, <1>8, <1>9, <1>10, Zenon

(* Packages lie in the line in their order.                                  *)
LEMMA Ordered ==
    ASSUME NEW t \in Traffic, Unambiguous(t), NEW n, n = Len(t.messages)
    PROVE  /\ \A i, k \in 0..n : Ends(t, i) <= Ends(t, k) => i <= k
           /\ \A i, k \in 0..n : Ends(t, i) < Ends(t, k) => i < k
           /\ \A i, k \in 0..n : i <= k => Ends(t, i) <= Ends(t, k)
           /\ \A i \in 0..n : Ends(t, i) \in Nat
<1>1. /\ n \in Nat /\ \A i \in 0..n : Ends(t, i) \in Nat
      /\ \A i, k \in 0..n : i <= k => Ends(t, i) <= Ends(t, k)
      /\ \A i, k \in 0..n : i < k => Ends(t, i) + 15 <= Ends(t, k)
  BY LineIs
<1>2. ASSUME NEW i \in 0..n, NEW k \in 0..n, Ends(t, i) <= Ends(t, k)
      PROVE  i <= k
  <2>1. ASSUME k < i PROVE FALSE
    <3>1. Ends(t, k) + 15 <= Ends(t, i) /\ Ends(t, i) \in Nat /\ Ends(t, k) \in Nat
      BY <1>1, <2>1
    <3> QED
      BY <1>2, <3>1
  <2> QED
    BY <1>1, <2>1
<1>3. ASSUME NEW i \in 0..n, NEW k \in 0..n, Ends(t, i) < Ends(t, k)
      PROVE  i < k
  <2>1. ASSUME k <= i PROVE FALSE
    <3>1. Ends(t, k) <= Ends(t, i) /\ Ends(t, i) \in Nat /\ Ends(t, k) \in Nat
      BY <1>1, <2>1
    <3> QED
      BY <1>3, <3>1
  <2> QED
    BY <1>1, <2>1
<1> QED
  BY <1>1, <1>2, <1>3

(* A package is taken in its place.                                          *)
LEMMA TrackPackage ==
    ASSUME FrameInv, OnTrack, ExtractPackage
    PROVE  OnTrack'
<1>t. /\ ~Awaits /\ Sound /\ pc' = pc /\ pc # "recv"
      /\ recvBuf' = SkipBytes(recvBuf, 4 + Announced)
      /\ UNCHANGED <<traffic, next, cuts, sendBuf, stream>>
  BY DEF ExtractPackage
<1> SUFFICES ASSUME traffic.damage.at > 0
             PROVE  OnTrack'
  BY <1>t DEF OnTrack
<1>0. recvBuf \in Memory /\ traffic \in Traffic /\ Unambiguous(traffic)
  BY TrackIs
<1>n. PICK n \in Nat : n = Len(traffic.messages)
  BY <1>0, ConversationIs
<1>1. PICK l \in 0..n : l = next - 1
  BY <1>n, TrackIs DEF Messages
<1>2. PICK i \in 1..l : i # traffic.damage.at /\ Front = Ends(traffic, i - 1)
  <2>1. \E i \in 1..(next - 1) : i # traffic.damage.at /\ Front = Ends(traffic, i - 1)
    BY <1>t, OnlyPackages
  <2> QED
    BY <1>1, <2>1, Zenon
<1>3. i \in 1..(next - 1) /\ i \in 0..n /\ i - 1 \in 0..n
  BY <1>1
<1>m. PICK x : x = Messages[i]
  OBVIOUS
<1>4. /\ x \in Message(traffic.to) /\ Sendable(x) /\ traffic.to \in {"server", "client"}
      /\ Ends(traffic, i) = Front + Len(Package(x).data)
      /\ \A j \in 1..Len(Package(x).data) :
           j <= Len(recvBuf.data) => recvBuf.data[j] = Package(x).data[j]
  <2>1. /\ Messages[i] \in Message(traffic.to) /\ Sendable(Messages[i])
        /\ traffic.to \in {"server", "client"}
        /\ Ends(traffic, i) = Front + Len(Package(Messages[i]).data)
        /\ \A j \in 1..Len(Package(Messages[i]).data) :
             j <= Len(recvBuf.data) => recvBuf.data[j] = Package(Messages[i]).data[j]
    BY <1>2, <1>3, WholeInFront
  <2> QED
    BY <1>m, <2>1, Zenon
<1>5. /\ Len(Package(x).data) = 4 + Announced /\ 4 + Announced \in 1..Len(recvBuf.data)
      /\ GetToBuffer(recvBuf, 4, Announced - 4) \in Memory
      /\ GetToBuffer(recvBuf, 4, Announced - 4).data = Payload(x)
  BY <1>t, <1>4, PackageSeen
<1>6. PICK msg \in Memory : /\ msg = GetToBuffer(recvBuf, 4, Announced - 4)
                            /\ msg.data = Payload(x)
  BY <1>5
<1>7. /\ Size(msg) # 0
      /\ (IF traffic.to = "server" THEN CheckRequest(msg) ELSE ParseHrpc(msg)) = x
  BY <1>4, <1>6, MessageSeen
<1>8. out' = Append(out, x)
  BY <1>6, <1>7, Zenon DEF ExtractPackage
<1>o. out \in Seq(Message(traffic.to))
  BY DEF OnTrack
<1>9. /\ out' \in Seq(Message(traffic.to)) /\ Len(out') = Len(out) + 1 /\ Len(out) \in Nat
      /\ \A j \in 1..Len(out) : out'[j] = out[j]
      /\ out'[Len(out) + 1] = x
  BY <1>o, <1>4, <1>8, AppendProperties
<1>10. PICK m \in Nat : m = 4 + Announced /\ m \in 0..Len(recvBuf.data)
                        /\ m = Len(Package(x).data)
  BY <1>5
<1>11. recvBuf'.data = SubSeq(recvBuf.data, m + 1, Len(recvBuf.data))
  <2>1. SkipBytes(recvBuf, m).data = SubSeq(recvBuf.data, m + 1, Len(recvBuf.data))
    BY <1>0, <1>10, SkipIs
  <2> QED
    BY <1>t, <1>10, <2>1, Zenon
<1>12. PICK f \in Nat, e \in Nat, b \in Nat :
         /\ f = Front /\ e = Edge /\ b = Brink
  BY TrackIs
<1>13. /\ Front' = f + m /\ Edge' = e /\ Brink' = b
       /\ \A j \in 1..Len(UnderWay') : UnderWay'[j] = Line(traffic)[f + m + j]
  <2>1. /\ Front' = Front + m /\ Edge' = Edge /\ Brink' = Brink
        /\ \A j \in 1..Len(UnderWay') : UnderWay'[j] = Line(traffic)[Front + m + j]
    BY <1>t, <1>10, <1>11, Dropped
  <2> QED
    BY <1>12, <2>1, Zenon
<1>14. Ends(traffic, i) = f + m /\ Ends(traffic, i - 1) = f
  BY <1>2, <1>4, <1>10, <1>12, Zenon
<1>15. PICK at \in Nat, c \in Nat : at = traffic.damage.at /\ c = cuts
  BY <1>0, ConversationIs, TrackIs
<1>16. PICK y \in Int : y = Debt' /\ y <= c
  <2>1. PICK p \in {0, 1}, q \in {0, 1} :
          /\ Debt = p + q
          /\ p = (IF pc # "recv" /\ f < e THEN Torn(traffic, e) ELSE 0)
          /\ q = (IF f < b /\ (pc = "recv" \/ e < b) THEN Torn(traffic, b) ELSE 0)
    BY <1>12, DebtIs
  <2>2. Torn(traffic, e) \in {0, 1} /\ Torn(traffic, b) \in {0, 1}
    BY <1>0, TornIs
  <2>3. PICK pp \in {0, 1}, qq \in {0, 1} :
          /\ pp = (IF pc # "recv" /\ f + m < e THEN Torn(traffic, e) ELSE 0)
          /\ qq = (IF f + m < b /\ (pc = "recv" \/ e < b) THEN Torn(traffic, b) ELSE 0)
    BY <2>2
  <2>4. Debt' = pp + qq
    BY <1>t, <1>13, <2>3, Zenon DEF Debt
  <2>5. f + m < e => f < e
    OBVIOUS
  <2>6. f + m < b => f < b
    OBVIOUS
  <2>7. pp <= p
    <3>1. CASE pc # "recv" /\ f + m < e
      BY <2>1, <2>3, <2>5, <3>1
    <3>2. CASE ~(pc # "recv" /\ f + m < e)
      BY <2>3, <3>2
    <3> QED
      BY <3>1, <3>2
  <2>8. qq <= q
    <3>1. CASE f + m < b /\ (pc = "recv" \/ e < b)
      BY <2>1, <2>3, <2>6, <3>1
    <3>2. CASE ~(f + m < b /\ (pc = "recv" \/ e < b))
      BY <2>3, <3>2
    <3> QED
      BY <3>1, <3>2
  <2>9. Debt <= c
    BY <1>15, Zenon DEF OnTrack
  <2>10. pp + qq <= p + q /\ p + q <= c /\ p + q \in Int /\ pp + qq \in Int
    <3>1. p + q <= c
      BY <2>1, <2>9, Zenon
    <3> QED
      BY <2>7, <2>8, <3>1
  <2>11. pp + qq <= c
    BY <2>10
  <2> QED
    BY <2>4, <2>10, <2>11, Zenon
<1>17. \A k \in 1..l : Ends(traffic, k) <= f =>
         \/ k \in at..(at + 1 + c)
         \/ \E j \in 1..Len(out) : out[j] = Messages[k]
  BY <1>1, <1>12, <1>15, Zenon DEF OnTrack
<1>18. ASSUME NEW k \in 1..l, Ends(traffic, k) <= f + m
       PROVE  \/ k \in at..(at + 1 + c)
              \/ \E j \in 1..Len(out') : out'[j] = Messages[k]
  <2>1. k \in 0..n
    BY <1>1
  <2>2. k <= i
    <3>1. \A a, z \in 0..n : Ends(traffic, a) <= Ends(traffic, z) => a <= z
      BY <1>0, <1>n, Ordered, Zenon
    <3> QED
      BY <1>3, <1>14, <1>18, <2>1, <3>1, Zenon
  <2>3. CASE k = i
    <3>1. Len(out) + 1 \in 1..Len(out')
      BY <1>9
    <3> QED
      BY <1>m, <1>9, <2>3, <3>1, Zenon
  <2>4. CASE k # i
    <3>1. k <= i - 1
      BY <2>2, <2>4
    <3>2. Ends(traffic, k) <= f
      <4>1. \A a, z \in 0..n : a <= z => Ends(traffic, a) <= Ends(traffic, z)
        BY <1>0, <1>n, Ordered, Zenon
      <4> QED
        BY <1>3, <1>14, <2>1, <3>1, <4>1, Zenon
    <3>3. \A j \in 1..Len(out) : j \in 1..Len(out')
      BY <1>9
    <3> QED
      BY <1>9, <1>17, <3>2, <3>3, Zenon
  <2> QED
    BY <2>3, <2>4
<1>19. i \in 0..l /\ 0 <= f + m
  BY <1>3
<1>20. /\ traffic' = traffic /\ cuts' = c /\ Messages' = Messages /\ next' - 1 = l
  BY <1>t, <1>1, <1>15 DEF Messages
<1> QED
  BY <1>9, <1>13, <1>14, <1>15, <1>16, <1>18, <1>19, <1>20, Zenon DEF OnTrack

(* Where an error is found: in the damaged package, or in one the receiver   *)
(* has fallen into.                                                          *)
LEMMA ErrorAt ==
    ASSUME FrameInv, OnTrack, traffic.damage.at > 0, ~Awaits, ~Sound
    PROVE  \E g \in traffic.damage.at..(next - 1) :
             /\ Ends(traffic, g - 1) <= Front /\ Front < Ends(traffic, g)
             /\ g + Debt <= traffic.damage.at + cuts + CodeAhead(traffic, Front, g)
<1>0. traffic \in Traffic /\ Unambiguous(traffic)
  BY TrackIs
<1>n. PICK n \in Nat : n = Len(traffic.messages)
  BY <1>0, ConversationIs
<1>1. PICK l \in 0..n : l = next - 1
  BY <1>n, TrackIs DEF Messages
<1>2. PICK at \in Nat, c \in Nat, d \in Int : at = traffic.damage.at /\ c = cuts /\ d = Debt
  <2>1. traffic.damage.at \in Nat /\ cuts \in Nat
    BY <1>0, ConversationIs, TrackIs
  <2>2. PICK a \in {0, 1}, b \in {0, 1} : Debt = a + b
    BY DebtIs, Zenon
  <2>3. a + b \in Int
    OBVIOUS
  <2> QED
    BY <2>1, <2>2, <2>3, Zenon
<1>p. PICK f \in Nat, e \in Nat, b \in Nat, r \in Nat, s \in Nat, z \in Nat :
        Placed(f, e, b, r, s, z)
  BY Positions, Zenon
<1>3. f = Front /\ r = Len(recvBuf.data) /\ r > 4 /\ Ends(traffic, l) = f + r + s + z
  <2>1. /\ f = Front /\ r = Len(recvBuf.data)
        /\ Ends(traffic, next - 1) = f + r + s + z
    BY <1>p DEF Placed
  <2>2. Size(recvBuf) > 4
    BY DEF Awaits
  <2>3. r > 4
    BY <2>1, <2>2, Zenon DEF Size
  <2>4. Ends(traffic, l) = f + r + s + z
    BY <1>1, <2>1, Zenon
  <2> QED
    BY <2>1, <2>3, <2>4, Zenon
<1>4. /\ d <= c
      /\ \/ \E k \in 0..l : f = Ends(traffic, k)
         \/ \E g \in at..l :
              /\ Ends(traffic, g - 1) < f /\ f < Ends(traffic, g)
              /\ g + d <= at + c + CodeAhead(traffic, f, g)
  BY <1>1, <1>2, <1>3, Zenon DEF OnTrack
<1>5. CASE \E k \in 0..l : f = Ends(traffic, k)
  <2>1. PICK k \in 0..l : f = Ends(traffic, k)
    BY <1>5
  <2>2. k \in 0..n /\ l \in 0..n
    BY <1>1
  <2>3. k # l
    BY <1>3, <2>1
  <2>4. PICK g \in 1..l : g = k + 1 /\ g - 1 = k /\ k < g /\ g \in 0..n
    BY <2>2, <2>3
  <2>5. f < Ends(traffic, g)
    <3>1. \A i, j \in 0..n : i < j => Ends(traffic, i) + 15 <= Ends(traffic, j)
      BY <1>0, <1>n, LineIs
    <3>2. f + 15 <= Ends(traffic, g)
      BY <2>1, <2>2, <2>4, <3>1, Zenon
    <3>3. Ends(traffic, g) \in Nat
      BY <1>0, <1>n, <2>4, LineIs
    <3> QED
      BY <3>2, <3>3
  <2>6. g = at
    <3> SUFFICES ASSUME g # at PROVE FALSE
      OBVIOUS
    <3>1. g \in 1..(next - 1) /\ g # traffic.damage.at /\ Front = Ends(traffic, g - 1)
      BY <1>1, <1>2, <1>3, <2>1, <2>4, Zenon
    <3>2. /\ Messages[g] \in Message(traffic.to) /\ Sendable(Messages[g])
          /\ traffic.to \in {"server", "client"}
          /\ \A j \in 1..Len(Package(Messages[g]).data) :
               j <= Len(recvBuf.data) => recvBuf.data[j] = Package(Messages[g]).data[j]
      BY <3>1, WholeInFront
    <3>3. Sound
      BY <3>2, PackageSeen
    <3> QED
      BY <3>3
  <2>7. CodeAhead(traffic, f, g) \in {0, 1}
    BY DEF CodeAhead
  <2>8. g + d <= at + c + CodeAhead(traffic, f, g)
    <3>1. PICK h \in Nat : h = CodeAhead(traffic, f, g)
      BY <2>7
    <3>2. d <= c
      BY <1>4
    <3>3. g + d <= at + c + h
      BY <2>6, <3>2
    <3> QED
      BY <3>1, <3>3, Zenon
  <2>9. g \in at..l /\ f <= f
    BY <2>6
  <2>10. Ends(traffic, g - 1) <= f
    BY <2>1, <2>4, <2>9, Zenon
  <2> QED
    BY <1>1, <1>2, <1>3, <2>5, <2>8, <2>9, <2>10, Zenon
<1>6. CASE \E g \in at..l :
              /\ Ends(traffic, g - 1) < f /\ f < Ends(traffic, g)
              /\ g + d <= at + c + CodeAhead(traffic, f, g)
  <2>1. PICK g \in at..l :
          /\ Ends(traffic, g - 1) < f /\ f < Ends(traffic, g)
          /\ g + d <= at + c + CodeAhead(traffic, f, g)
    BY <1>6
  <2>2. g - 1 \in 0..n
    <3>1. at > 0
      BY <1>2
    <3> QED
      BY <1>1, <3>1
  <2>3. Ends(traffic, g - 1) \in Nat
    BY <1>0, <1>n, <2>2, LineIs
  <2>4. Ends(traffic, g - 1) <= f
    BY <2>1, <2>3
  <2> QED
    BY <1>1, <1>2, <1>3, <2>1, <2>4, Zenon
<1> QED
  BY <1>4, <1>5, <1>6

(* The arithmetic of an error: the package it is found in, and the next when *)
(* its check code is no longer ahead, are within what may be lost; a place   *)
(* inside a package is paid for.                                             *)
LEMMA Within ==
    ASSUME NEW g \in Int, NEW at \in Int, NEW c \in Int, NEW d \in Int, NEW h \in {0, 1},
           0 <= d, at <= g, g + d <= at + c + h
    PROVE  /\ g \in at..(at + 1 + c)
           /\ h = 0 => g + 1 \in at..(at + 1 + c)
           /\ g + (d - 1) <= at + c
           /\ h = 0 => g + 1 + (d - 1) <= at + c
OBVIOUS

(* processError goes on in, or behind, a package that may be lost.           *)
LEMMA TrackError ==
    ASSUME FrameInv, OnTrack, ExtractError
    PROVE  OnTrack'
<1>t. /\ ~Awaits /\ ~Sound /\ pc' = pc /\ pc # "recv"
      /\ recvBuf' = ProcessError(recvBuf)
      /\ UNCHANGED <<traffic, next, cuts, sendBuf, stream, out>>
  BY DEF ExtractError
<1> SUFFICES ASSUME traffic.damage.at > 0
             PROVE  OnTrack'
  BY <1>t DEF OnTrack
<1>0. /\ recvBuf \in Memory /\ recvBuf.data \in Seq(Byte)
      /\ traffic \in Traffic /\ Unambiguous(traffic) /\ Roomy(recvBuf)
  BY TrackIs DEF FrameInv
<1>n. PICK n \in Nat : n = Len(traffic.messages)
  BY <1>0, ConversationIs
<1>1. PICK l \in 0..n : l = next - 1
  BY <1>n, TrackIs DEF Messages
<1>2. PICK at \in Nat, c \in Nat : at = traffic.damage.at /\ c = cuts /\ at > 0
  BY <1>0, ConversationIs, TrackIs
<1>p. PICK f \in Nat, e \in Nat, b \in Nat, r \in Nat, s \in Nat, z \in Nat :
        Placed(f, e, b, r, s, z)
  BY Positions, Zenon
<1>3. /\ f = Front /\ e = Edge /\ b = Brink /\ r = Len(recvBuf.data) /\ e = f + r /\ r > 0
      /\ e <= b /\ e <= Ends(traffic, l)
  <2>1. /\ f = Front /\ e = Edge /\ b = Brink /\ r = Len(recvBuf.data) /\ e = f + r
        /\ b = e + s /\ Ends(traffic, next - 1) = b + z
    BY <1>p, Zenon DEF Placed
  <2>2. Size(recvBuf) > 4
    BY <1>t DEF Awaits
  <2>3. r > 4
    BY <2>1, <2>2, Zenon DEF Size
  <2>4. r > 0 /\ e <= b /\ e <= b + z
    BY <2>1, <2>3
  <2> QED
    BY <1>1, <2>1, <2>4, Zenon
<1>4. PICK p \in {0, 1}, q \in {0, 1} :
        /\ Debt = p + q
        /\ p = Torn(traffic, e)
        /\ q = (IF e < b THEN Torn(traffic, b) ELSE 0)
  <2>1. PICK p \in {0, 1}, q \in {0, 1} :
          /\ Debt = p + q
          /\ p = (IF pc # "recv" /\ f < e THEN Torn(traffic, e) ELSE 0)
          /\ q = (IF f < b /\ (pc = "recv" \/ e < b) THEN Torn(traffic, b) ELSE 0)
    BY <1>3, DebtIs
  <2>2. f < e /\ f < b
    BY <1>3
  <2> QED
    BY <1>t, <2>1, <2>2, Zenon
<1>5. p + q <= c
  BY <1>2, <1>4, Zenon DEF OnTrack
<1>6. PICK g \in at..l :
        /\ Ends(traffic, g - 1) <= f /\ f < Ends(traffic, g)
        /\ g + (p + q) <= at + c + CodeAhead(traffic, f, g)
  <2>1. \E g \in traffic.damage.at..(next - 1) :
          /\ Ends(traffic, g - 1) <= Front /\ Front < Ends(traffic, g)
          /\ g + Debt <= traffic.damage.at + cuts + CodeAhead(traffic, Front, g)
    BY <1>t, ErrorAt
  <2> QED
    BY <1>1, <1>2, <1>3, <1>4, <2>1, Zenon
<1>g. g \in 1..l /\ g - 1 \in 0..n /\ g \in 0..n /\ g \in 1..n
  BY <1>1, <1>2
<1>7. PICK h \in {0, 1} : h = CodeAhead(traffic, f, g)
  BY DEF CodeAhead
<1>8. /\ g \in at..(at + 1 + c)
      /\ h = 0 => g + 1 \in at..(at + 1 + c)
      /\ g + (p + q - 1) <= at + c
      /\ h = 0 => g + 1 + (p + q - 1) <= at + c
  <2>1. g + (p + q) <= at + c + h
    BY <1>6, <1>7, Zenon
  <2>2. 0 <= p + q /\ at <= g /\ g \in Int /\ p + q \in Int
    OBVIOUS
  <2> QED
    BY <2>1, <2>2, Within
<1>9. PICK m \in 1..r :
        /\ ProcessError(recvBuf).data = SubSeq(recvBuf.data, m + 1, Len(recvBuf.data))
        /\ \/ /\ m >= 4 /\ CodeAt(recvBuf.data, m - 4)
              /\ \A x \in 0..(r - 4) : CodeAt(recvBuf.data, x) => m - 4 <= x
           \/ /\ m = r
              /\ \A x \in 0..(r - 4) : ~CodeAt(recvBuf.data, x)
  <2>1. Len(recvBuf.data) > 0
    BY <1>3
  <2> QED
    BY <1>0, <1>3, <2>1, ErrorGoes
<1>10. /\ Front' = f + m /\ Edge' = e /\ Brink' = b
       /\ \A j \in 1..Len(UnderWay') : UnderWay'[j] = Line(traffic)[f + m + j]
  <2>1. m \in 0..Len(recvBuf.data)
    BY <1>3
  <2>2. recvBuf'.data = SubSeq(recvBuf.data, m + 1, Len(recvBuf.data))
    BY <1>t, <1>9, Zenon
  <2>3. /\ Front' = Front + m /\ Edge' = Edge /\ Brink' = Brink
        /\ \A j \in 1..Len(UnderWay') : UnderWay'[j] = Line(traffic)[Front + m + j]
    BY <1>t, <2>1, <2>2, Dropped
  <2> QED
    BY <1>3, <2>3, Zenon
<1>11. PICK x \in Nat : x = f + m /\ x <= e
  BY <1>3
(* Where it goes on.                                                         *)
<1>12. \/ x = Ends(traffic, g)
       \/ x = e /\ x < Ends(traffic, g)
       \/ h = 0 /\ g < l /\ x = Ends(traffic, g + 1)
       \/ h = 0 /\ g < l /\ x = e /\ Ends(traffic, g) < x /\ x < Ends(traffic, g + 1)
  <2>1. PICK ahead \in BOOLEAN :
          ahead <=> f + 4 <= Ends(traffic, g)
                    /\ ~(g = traffic.damage.at /\ traffic.damage.kind = "code")
    OBVIOUS
  <2>2. \A j \in 1..Len(recvBuf.data) : recvBuf.data[j] = Line(traffic)[f + j]
    BY <1>3, TrackIs
  <2>3. PICK d \in Seq(Byte) : d = recvBuf.data /\ Len(d) = r
    BY <1>0, <1>3
  <2>4. /\ f + Len(d) <= Ends(traffic, l)
        /\ \A j \in 1..Len(d) : d[j] = Line(traffic)[f + j]
        /\ l \in 0..Len(traffic.messages) /\ traffic.damage.at <= g
        /\ m \in 1..Len(d)
    <3>1. f + r <= Ends(traffic, l) /\ at <= g
      BY <1>3
    <3> QED
      BY <1>n, <1>2, <2>2, <2>3, <3>1, Zenon
  <2>5. \/ /\ m >= 4 /\ CodeAt(d, m - 4)
           /\ \A y \in 0..(Len(d) - 4) : CodeAt(d, y) => m - 4 <= y
        \/ /\ m = Len(d)
           /\ \A y \in 0..(Len(d) - 4) : ~CodeAt(d, y)
    BY <1>9, <2>3, Zenon
  <2>6. \/ f + m = Ends(traffic, g)
        \/ m = Len(d) /\ f + m < Ends(traffic, g)
        \/ ~ahead /\ g < l /\ f + m = Ends(traffic, g + 1)
        \/ ~ahead /\ g < l /\ m = Len(d) /\ Ends(traffic, g) < f + m
           /\ f + m < Ends(traffic, g + 1)
    <3>1. LandsAt(traffic, l, d, f, g, ahead, m)
      BY <1>0, <1>g, <1>6, <2>1, <2>4, <2>5, Lands, Zenon
    <3> QED
      BY <3>1, Zenon DEF LandsAt
  <2>7. ~ahead => h = 0
    BY <1>7, <2>1 DEF CodeAhead
  <2>8. m = Len(d) => x = e
    BY <1>3, <1>11, <2>3
  <2> QED
    BY <1>11, <2>6, <2>7, <2>8, Zenon
<1>13. PICK pp \in {0, 1}, qq \in {0, 1} :
         /\ Debt' = pp + qq
         /\ pp = (IF pc # "recv" /\ x < e THEN Torn(traffic, e) ELSE 0)
         /\ qq = (IF x < b /\ (pc = "recv" \/ e < b) THEN Torn(traffic, b) ELSE 0)
  <2>1. Torn(traffic, e) \in {0, 1} /\ Torn(traffic, b) \in {0, 1}
    BY <1>0, TornIs
  <2>2. PICK pp \in {0, 1}, qq \in {0, 1} :
          /\ pp = (IF pc # "recv" /\ x < e THEN Torn(traffic, e) ELSE 0)
          /\ qq = (IF x < b /\ (pc = "recv" \/ e < b) THEN Torn(traffic, b) ELSE 0)
    BY <2>1
  <2>3. Debt' = pp + qq
    BY <1>t, <1>10, <1>11, <2>2, Zenon DEF Debt
  <2> QED
    BY <2>2, <2>3, Zenon
<1>14. pp <= p /\ qq <= q
  <2>1. pp = 0 \/ pp = p
    BY <1>4, <1>13, Zenon
  <2>2. qq = 0 \/ qq = q
    BY <1>t, <1>4, <1>13, Zenon
  <2> QED
    BY <2>1, <2>2
<1>15. PICK y \in Int : y = Debt' /\ y <= c
  <2>1. pp + qq \in Int /\ pp + qq <= c
    BY <1>5, <1>14
  <2> QED
    BY <1>13, <2>1, Zenon
<1>16. ASSUME x = e, Torn(traffic, e) = 1 PROVE y <= p + q - 1
  <2>1. p = 1
    BY <1>4, <1>16
  <2>2. pp = 0
    BY <1>13, <1>16
  <2>3. pp + qq <= p + q - 1
    BY <1>14, <2>1, <2>2
  <2> QED
    BY <1>13, <1>15, <2>3, Zenon
<1>o. /\ \A i, k \in 0..n : Ends(traffic, i) <= Ends(traffic, k) => i <= k
      /\ \A i, k \in 0..n : Ends(traffic, i) < Ends(traffic, k) => i < k
      /\ \A i, k \in 0..n : i <= k => Ends(traffic, i) <= Ends(traffic, k)
      /\ \A i \in 0..n : Ends(traffic, i) \in Nat
  BY <1>0, <1>n, Ordered, Zenon
<1>17. /\ out \in Seq(Message(traffic.to))
       /\ \A k \in 1..l : Ends(traffic, k) <= f =>
            \/ k \in at..(at + 1 + c)
            \/ \E j \in 1..Len(out) : out[j] = Messages[k]
  BY <1>1, <1>2, <1>3, Zenon DEF OnTrack
(* Packages before g were passed before.                                     *)
<1>18. ASSUME NEW k \in 1..l, k < g
       PROVE  \/ k \in at..(at + 1 + c)
              \/ \E j \in 1..Len(out) : out[j] = Messages[k]
  <2>1. k <= g - 1 /\ k \in 0..n
    BY <1>1, <1>18
  <2>2. PICK a \in Nat, v \in Nat : a = Ends(traffic, k) /\ v = Ends(traffic, g - 1)
    BY <1>g, <1>o, <2>1
  <2>3. a <= v
    BY <1>g, <1>o, <2>1, <2>2, Zenon
  <2>4. v <= f
    BY <1>6, <2>2, Zenon
  <2>5. a <= f
    BY <2>3, <2>4
  <2> QED
    BY <1>17, <2>2, <2>5, Zenon
<1>20. /\ \A k \in 1..l : Ends(traffic, k) <= x =>
            \/ k \in at..(at + 1 + c)
            \/ \E j \in 1..Len(out) : out[j] = Messages[k]
       /\ \/ \E k \in 0..l : x = Ends(traffic, k)
          \/ \E i \in at..l :
               /\ Ends(traffic, i - 1) < x /\ x < Ends(traffic, i)
               /\ i + y <= at + c + CodeAhead(traffic, x, i)
  <2>0. \A i : CodeAhead(traffic, x, i) \in {0, 1}
    BY DEF CodeAhead
  <2>l. l \in 0..n /\ \A k \in 1..l : k \in 0..n
    BY <1>1
  <2>1. CASE x = Ends(traffic, g)
    <3>1. ASSUME NEW k \in 1..l, Ends(traffic, k) <= x
          PROVE  \/ k \in at..(at + 1 + c)
                 \/ \E j \in 1..Len(out) : out[j] = Messages[k]
      <4>1. k <= g
        BY <1>g, <1>o, <2>l, <2>1, <3>1, Zenon
      <4>2. k = g \/ k < g
        BY <4>1
      <4> QED
        BY <1>8, <1>18, <4>2, Zenon
    <3>2. g \in 0..l
      BY <1>g
    <3> QED
      BY <2>1, <3>1, <3>2, Zenon
  <2>2. CASE x = e /\ x < Ends(traffic, g)
    <3>1. ASSUME NEW k \in 1..l, Ends(traffic, k) <= x
          PROVE  \/ k \in at..(at + 1 + c)
                 \/ \E j \in 1..Len(out) : out[j] = Messages[k]
      <4>1. Ends(traffic, k) < Ends(traffic, g)
        <5>1. Ends(traffic, k) \in Nat /\ Ends(traffic, g) \in Nat
          BY <1>g, <1>o, <2>l
        <5> QED
          BY <2>2, <3>1, <5>1
      <4>2. k < g
        BY <1>g, <1>o, <2>l, <4>1, Zenon
      <4> QED
        BY <1>18, <4>2, Zenon
    <3>2. Ends(traffic, g - 1) < x
      <4>1. Ends(traffic, g - 1) \in Nat
        BY <1>g, <1>o
      <4> QED
        BY <1>6, <1>11, <4>1
    <3>3. Torn(traffic, e) = 1
      <4>1. /\ g \in 1..Len(traffic.messages) /\ e \in Nat
            /\ Ends(traffic, g - 1) < e /\ e < Ends(traffic, g)
        BY <1>n, <1>g, <2>2, <3>2, Zenon
      <4> QED
        BY <1>0, <4>1, TornIs
    <3>4. y <= p + q - 1
      BY <1>16, <2>2, <3>3
    <3>5. g + y <= at + c + CodeAhead(traffic, x, g)
      <4>1. PICK hh \in {0, 1} : hh = CodeAhead(traffic, x, g)
        BY <2>0
      <4>2. g + y <= at + c + hh
        BY <1>8, <3>4
      <4> QED
        BY <4>1, <4>2, Zenon
    <3> QED
      BY <2>2, <3>1, <3>2, <3>5, Zenon
  <2>g. ASSUME g < l
        PROVE  g + 1 \in 0..l /\ g + 1 \in at..l /\ g + 1 \in 0..n /\ (g + 1) - 1 = g
               /\ g + 1 \in 1..n
    BY <1>1, <1>g, <2>g
  <2>3. CASE h = 0 /\ g < l /\ x = Ends(traffic, g + 1)
    <3>1. ASSUME NEW k \in 1..l, Ends(traffic, k) <= x
          PROVE  \/ k \in at..(at + 1 + c)
                 \/ \E j \in 1..Len(out) : out[j] = Messages[k]
      <4>1. k <= g + 1
        BY <1>o, <2>l, <2>g, <2>3, <3>1, Zenon
      <4>2. k = g + 1 \/ k = g \/ k < g
        BY <4>1
      <4> QED
        BY <1>8, <1>18, <2>3, <4>2, Zenon
    <3> QED
      BY <2>g, <2>3, <3>1, Zenon
  <2>4. CASE /\ h = 0 /\ g < l /\ x = e
             /\ Ends(traffic, g) < x /\ x < Ends(traffic, g + 1)
    <3>1. ASSUME NEW k \in 1..l, Ends(traffic, k) <= x
          PROVE  \/ k \in at..(at + 1 + c)
                 \/ \E j \in 1..Len(out) : out[j] = Messages[k]
      <4>1. Ends(traffic, k) < Ends(traffic, g + 1)
        <5>1. Ends(traffic, k) \in Nat /\ Ends(traffic, g + 1) \in Nat
          BY <1>o, <2>l, <2>g, <2>4
        <5> QED
          BY <2>4, <3>1, <5>1
      <4>2. k < g + 1
        BY <1>o, <2>l, <2>g, <2>4, <4>1, Zenon
      <4>3. k = g \/ k < g
        BY <4>2
      <4> QED
        BY <1>8, <1>18, <4>3, Zenon
    <3>2. Torn(traffic, e) = 1
      <4>1. /\ g + 1 \in 1..Len(traffic.messages) /\ e \in Nat
            /\ Ends(traffic, (g + 1) - 1) < e /\ e < Ends(traffic, g + 1)
        BY <1>n, <2>g, <2>4, Zenon
      <4> QED
        BY <1>0, <4>1, TornIs
    <3>3. y <= p + q - 1
      BY <1>16, <2>4, <3>2
    <3>4. PICK i \in at..l : i = g + 1 /\ i - 1 = g
      BY <2>g, <2>4
    <3>5. i + y <= at + c + CodeAhead(traffic, x, i)
      <4>1. PICK hh \in {0, 1} : hh = CodeAhead(traffic, x, i)
        BY <2>0
      <4>2. i + y <= at + c + hh
        BY <1>8, <2>4, <3>3, <3>4
      <4> QED
        BY <4>1, <4>2, Zenon
    <3>6. Ends(traffic, i - 1) < x /\ x < Ends(traffic, i)
      BY <2>4, <3>4, Zenon
    <3> QED
      BY <3>1, <3>5, <3>6, Zenon
  <2> QED
    BY <1>12, <2>1, <2>2, <2>3, <2>4, Zenon
<1>21. 0 <= x
  OBVIOUS
<1>22. /\ traffic' = traffic /\ cuts' = c /\ Messages' = Messages /\ next' - 1 = l /\ out' = out
  BY <1>t, <1>1, <1>2 DEF Messages
<1> QED
  BY <1>2, <1>10, <1>11, <1>15, <1>17, <1>20, <1>21, <1>22, Zenon DEF OnTrack

(* Every step keeps the receiver on its track.                               *)
LEMMA TrackNext ==
    ASSUME FrameInv, OnTrack, [Next]_vars
    PROVE  OnTrack'
BY TrackPush, TrackSend, TrackRecv, TrackPackage, TrackError, TrackEnd, Zenon
   DEF Next, ReceiverStep

(* Recovers always holds: a package damaged on the way costs itself, at most *)
(* the one behind it and one more for every partial send, and every other    *)
(* message arrives, unless the receiver still waits for bytes that a damaged *)
(* length announces (processError and findErrorStop, ConnectionBase.cpp:205).*)
THEOREM DamageIsOvercome == Spec => []Recovers
<1>1. Init => FrameInv /\ OnTrack
  BY FrameInit, TrackInit
<1>2. FrameInv /\ OnTrack /\ [Next]_vars => (FrameInv /\ OnTrack)'
  BY FrameStep, TrackNext
<1>3. FrameInv /\ OnTrack => Recovers
  <2> SUFFICES ASSUME FrameInv, OnTrack, traffic.damage.at > 0, AllReceived,
                      recvBuf.data = <<>>, NEW i \in Sent,
                      i \notin traffic.damage.at..(traffic.damage.at + 1 + cuts)
               PROVE  \E j \in 1..Len(out) : out[j] = Messages[i]
    BY Zenon DEF Recovers
  <2>0. traffic \in Traffic /\ Unambiguous(traffic)
    BY TrackIs
  <2>n. PICK n \in Nat : n = Len(traffic.messages)
    BY <2>0, ConversationIs
  <2>1. next - 1 = n
    <3>1. next \in Nat /\ next - 1 \in 0..n
      BY <2>n, TrackIs DEF Messages
    <3>2. next > n
      BY <2>n DEF AllReceived, Messages
    <3> QED
      BY <3>1, <3>2
  <2>2. Ends(traffic, n) = Front /\ Front \in Nat
    <3>p. PICK f \in Nat, e \in Nat, b \in Nat, r \in Nat, s \in Nat, z \in Nat :
            Placed(f, e, b, r, s, z)
      BY Positions, Zenon
    <3>1. /\ f = Front /\ e = Edge /\ b = Brink /\ r = Len(recvBuf.data) /\ e = f + r
          /\ s = Len(stream) /\ z = Len(sendBuf.data)
          /\ b = e + s /\ Ends(traffic, next - 1) = b + z
      BY <3>p, Zenon DEF Placed
    <3>2. r = 0 /\ s = 0
      BY <3>1 DEF AllReceived
    <3>3. z = 0
      BY <3>1 DEF AllReceived, Size
    <3>4. b + z = f
      BY <3>1, <3>2, <3>3
    <3> QED
      BY <2>1, <3>1, <3>4, Zenon
  <2>3. i \in 1..n /\ i \in 0..n /\ n \in 0..n /\ i <= n
    <3>1. i \in 1..n
      BY <2>n DEF Sent, Messages
    <3> QED
      BY <3>1
  <2>4. Ends(traffic, i) <= Front
    <3>1. \A a, z \in 0..n : a <= z => Ends(traffic, a) <= Ends(traffic, z)
      BY <2>0, <2>n, Ordered, Zenon
    <3> QED
      BY <2>2, <2>3, <3>1, Zenon
  <2>5. i \in 1..(next - 1)
    BY <2>1, <2>3, Zenon
  <2> QED
    BY <2>4, <2>5, Zenon DEF OnTrack
<1> QED
  BY <1>1, <1>2, <1>3, PTL DEF Spec
==============================================================================
