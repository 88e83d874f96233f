---------------------------- MODULE Timer_proofs ----------------------------
(* Theorems about Timer.  The uses of the timer are those of StopsAlone: a   *)
(* task is stopped by the owner, and what is stopped is deleted before the   *)
(* next call.  Without it, run timer_early refutes NotBeforeItsTime.         *)
EXTENDS Timer, UidGenerator_proofs, SequenceTheorems

-----------------------------------------------------------------------------
(* Lists of tasks.                                                           *)

LEMMA SubSeqIs ==
    ASSUME NEW S, NEW q \in Seq(S), NEW m \in 1..(Len(q) + 1), NEW n \in 0..Len(q),
           m <= n + 1
    PROVE  /\ SubSeq(q, m, n) \in Seq(S)
           /\ Len(SubSeq(q, m, n)) = n - m + 1
           /\ \A i \in 1..(n - m + 1) : SubSeq(q, m, n)[i] = q[m + i - 1]
<1>1. Len(q) \in Nat /\ \A i \in 1..Len(q) : q[i] \in S
  OBVIOUS
<1>2. m \in Int /\ n \in Int /\ \A i \in m..n : q[i] \in S
  BY <1>1
<1>3. /\ SubSeq(q, m, n) \in Seq(S)
      /\ Len(SubSeq(q, m, n)) = IF m <= n THEN n - m + 1 ELSE 0
      /\ \A i \in 1..(n - m + 1) : SubSeq(q, m, n)[i] = q[m + i - 1]
  BY <1>2, SubSeqProperties
<1>4. (IF m <= n THEN n - m + 1 ELSE 0) = n - m + 1
  BY <1>1
<1> QED
  BY <1>3, <1>4

LEMMA ConcatIs ==
    ASSUME NEW S, NEW a \in Seq(S), NEW b \in Seq(S), NEW r, r = a \o b
    PROVE  /\ r \in Seq(S)
           /\ Len(r) = Len(a) + Len(b)
           /\ \A i \in 1..Len(a) : r[i] = a[i]
           /\ \A i \in (Len(a) + 1)..(Len(a) + Len(b)) : r[i] = b[i - Len(a)]
<1>1. /\ r \in Seq(S)
      /\ Len(r) = Len(a) + Len(b)
      /\ \A i \in 1..(Len(a) + Len(b)) :
            r[i] = IF i <= Len(a) THEN a[i] ELSE b[i - Len(a)]
  BY ConcatProperties
<1>2. Len(a) \in Nat /\ Len(b) \in Nat
  OBVIOUS
<1>3. \A i \in 1..Len(a) : r[i] = a[i]
  BY <1>1, <1>2
<1>4. \A i \in (Len(a) + 1)..(Len(a) + Len(b)) : r[i] = b[i - Len(a)]
  BY <1>1, <1>2
<1> QED
  BY <1>1, <1>3, <1>4

(* The first p elements and the others.                                      *)
LEMMA SplitIs ==
    ASSUME NEW S, NEW q \in Seq(S), NEW p \in 0..Len(q)
    PROVE  /\ SubSeq(q, 1, p) \in Seq(S)
           /\ Len(SubSeq(q, 1, p)) = p
           /\ \A i \in 1..p : SubSeq(q, 1, p)[i] = q[i]
           /\ SubSeq(q, p + 1, Len(q)) \in Seq(S)
           /\ Len(SubSeq(q, p + 1, Len(q))) = Len(q) - p
           /\ \A i \in 1..(Len(q) - p) : SubSeq(q, p + 1, Len(q))[i] = q[p + i]
<1>0. Len(q) \in Nat
  OBVIOUS
<1>r. /\ 1 \in 1..(Len(q) + 1) /\ p \in 0..Len(q) /\ 1 <= p + 1 /\ p - 1 + 1 = p
      /\ p + 1 \in 1..(Len(q) + 1) /\ Len(q) \in 0..Len(q) /\ p + 1 <= Len(q) + 1
      /\ Len(q) - (p + 1) + 1 = Len(q) - p
  BY <1>0
<1>1. PICK a \in Seq(S) : a = SubSeq(q, 1, p)
  BY <1>r, SubSeqIs
<1>2. PICK b \in Seq(S) : b = SubSeq(q, p + 1, Len(q))
  BY <1>r, SubSeqIs
<1>3. Len(a) = p /\ \A i \in 1..p : a[i] = q[i]
  <2>1. Len(a) = p - 1 + 1 /\ \A i \in 1..(p - 1 + 1) : a[i] = q[1 + i - 1]
    BY <1>r, <1>1, SubSeqIs
  <2> QED
    BY <2>1, <1>r
<1>4. Len(b) = Len(q) - p /\ \A i \in 1..(Len(q) - p) : b[i] = q[p + i]
  <2>1. /\ Len(b) = Len(q) - (p + 1) + 1
        /\ \A i \in 1..(Len(q) - (p + 1) + 1) : b[i] = q[p + 1 + i - 1]
    BY <1>r, <1>2, SubSeqIs
  <2>2. \A i \in 1..(Len(q) - p) : p + 1 + i - 1 = p + i
    BY <1>0
  <2> QED
    BY <2>1, <2>2, <1>r
<1> QED
  BY <1>1, <1>2, <1>3, <1>4

(* insert puts one element between the first p and the others.               *)
IsInserted(r, q, x, p) ==
    /\ Len(r) = Len(q) + 1
    /\ \A i \in 1..p : r[i] = q[i]
    /\ r[p + 1] = x
    /\ \A i \in (p + 2)..(Len(q) + 1) : r[i] = q[i - 1]

LEMMA InsertedIs ==
    ASSUME NEW S, NEW q \in Seq(S), NEW x \in S, NEW p \in 0..Len(q),
           NEW r, r = Inserted(q, x, p)
    PROVE  r \in Seq(S) /\ IsInserted(r, q, x, p)
<1>0. Len(q) \in Nat
  OBVIOUS
<1>r. /\ 1 \in 1..(Len(q) + 1) /\ p \in 0..Len(q) /\ 1 <= p + 1 /\ p - 1 + 1 = p
      /\ p + 1 \in 1..(Len(q) + 1) /\ Len(q) \in 0..Len(q) /\ p + 1 <= Len(q) + 1
      /\ Len(q) - (p + 1) + 1 = Len(q) - p
  BY <1>0
<1>1. PICK a \in Seq(S) : a = SubSeq(q, 1, p)
  BY <1>r, SubSeqIs
<1>2. PICK b \in Seq(S) : b = SubSeq(q, p + 1, Len(q))
  BY <1>r, SubSeqIs
<1>3. Len(a) = p /\ \A i \in 1..p : a[i] = q[i]
  <2>1. Len(a) = p - 1 + 1 /\ \A i \in 1..(p - 1 + 1) : a[i] = q[1 + i - 1]
    BY <1>r, <1>1, SubSeqIs
  <2> QED
    BY <2>1, <1>r
<1>4. Len(b) = Len(q) - p /\ \A i \in 1..(Len(q) - p) : b[i] = q[p + i]
  <2>1. /\ Len(b) = Len(q) - (p + 1) + 1
        /\ \A i \in 1..(Len(q) - (p + 1) + 1) : b[i] = q[p + 1 + i - 1]
    BY <1>r, <1>2, SubSeqIs
  <2>2. \A i \in 1..(Len(q) - p) : p + 1 + i - 1 = p + i
    BY <1>0
  <2> QED
    BY <2>1, <2>2, <1>r
<1>5. PICK ax \in Seq(S) : ax = Append(a, x)
  BY AppendProperties
<1>6. Len(ax) = p + 1 /\ ax[p + 1] = x /\ \A i \in 1..p : ax[i] = a[i]
  BY <1>0, <1>3, <1>5
<1>7. r = ax \o b
  BY <1>1, <1>2, <1>5, AppendIsConcat, Zenon DEF Inserted
<1>9. /\ r \in Seq(S)
      /\ Len(r) = Len(ax) + Len(b)
      /\ \A i \in 1..Len(ax) : r[i] = ax[i]
      /\ \A i \in (Len(ax) + 1)..(Len(ax) + Len(b)) : r[i] = b[i - Len(ax)]
  BY <1>7, ConcatIs
<1>10. Len(r) = Len(q) + 1
  <2>1. Len(r) = (p + 1) + (Len(q) - p)
    BY <1>9, <1>6, <1>4, Zenon
  <2> QED
    BY <2>1, <1>0
<1>11. \A i \in 1..p : r[i] = q[i]
  <2>1. TAKE i \in 1..p
  <2>2. i \in 1..Len(ax)
    BY <1>0, <1>6
  <2>3. r[i] = ax[i] /\ ax[i] = a[i] /\ a[i] = q[i]
    BY <2>2, <1>9, <1>6, <1>3, Zenon
  <2> QED
    BY <2>3
<1>12. r[p + 1] = x
  BY <1>0, <1>9, <1>6
<1>13. \A i \in (p + 2)..(Len(q) + 1) : r[i] = q[i - 1]
  <2>1. TAKE i \in (p + 2)..(Len(q) + 1)
  <2>2. r[i] = b[i - (p + 1)]
    BY <1>0, <1>9, <1>6, <1>4
  <2>3. i - (p + 1) \in 1..(Len(q) - p) /\ p + (i - (p + 1)) = i - 1
    BY <1>0
  <2> QED
    BY <2>2, <2>3, <1>4
<1> QED
  BY <1>9, <1>10, <1>11, <1>12, <1>13 DEF IsInserted

(* erase takes one element out.                                              *)
LEMMA WithoutIs ==
    ASSUME NEW S, NEW q \in Seq(S), NEW k \in 1..Len(q)
    PROVE  /\ Without(q, k) \in Seq(S)
           /\ Len(Without(q, k)) = Len(q) - 1
           /\ \A i \in 1..(k - 1) : Without(q, k)[i] = q[i]
           /\ \A i \in k..(Len(q) - 1) : Without(q, k)[i] = q[i + 1]
<1>0. Len(q) \in Nat
  OBVIOUS
<1>r. k - 1 \in 0..Len(q) /\ k \in 0..Len(q)
  BY <1>0
<1>1. PICK a \in Seq(S) : a = SubSeq(q, 1, k - 1)
  BY <1>r, SplitIs
<1>2. PICK b \in Seq(S) : b = SubSeq(q, k + 1, Len(q))
  BY <1>r, SplitIs
<1>3. Len(a) = k - 1 /\ \A i \in 1..(k - 1) : a[i] = q[i]
  BY <1>r, <1>1, SplitIs
<1>4. Len(b) = Len(q) - k /\ \A i \in 1..(Len(q) - k) : b[i] = q[k + i]
  BY <1>r, <1>2, SplitIs
<1>5. Without(q, k) = a \o b
  BY <1>1, <1>2 DEF Without
<1>6. PICK r : r = a \o b
  OBVIOUS
<1>7. /\ r \in Seq(S)
      /\ Len(r) = Len(a) + Len(b)
      /\ \A i \in 1..Len(a) : r[i] = a[i]
      /\ \A i \in (Len(a) + 1)..(Len(a) + Len(b)) : r[i] = b[i - Len(a)]
  BY <1>6, ConcatIs
<1>8. Len(r) = Len(q) - 1
  BY <1>0, <1>7, <1>3, <1>4
<1>9. \A i \in 1..(k - 1) : r[i] = q[i]
  BY <1>0, <1>7, <1>3
<1>10. \A i \in k..(Len(q) - 1) : r[i] = q[i + 1]
  <2>1. TAKE i \in k..(Len(q) - 1)
  <2>2. r[i] = b[i - Len(a)] /\ Len(a) = k - 1
    <3>1. i \in (Len(a) + 1)..(Len(a) + Len(b))
      BY <1>0, <1>3, <1>4
    <3> QED
      BY <3>1, <1>7, <1>3
  <2>3. i - (k - 1) \in 1..(Len(q) - k)
    BY <1>0
  <2>4. b[i - (k - 1)] = q[k + (i - (k - 1))]
    BY <2>3, <1>4
  <2>5. k + (i - (k - 1)) = i + 1
    BY <1>0
  <2> QED
    BY <2>2, <2>4, <2>5
<1> QED
  BY <1>5, <1>6, <1>7, <1>8, <1>9, <1>10

(* What insertion does to the elements.                                      *)
LEMMA InsertedElements ==
    ASSUME NEW S, NEW q \in Seq(S), NEW x \in S, NEW p \in 0..Len(q)
    PROVE  /\ Elements(Inserted(q, x, p)) = Elements(q) \cup {x}
           /\ Distinct(q) /\ x \notin Elements(q) => Distinct(Inserted(q, x, p))
<1>0. Len(q) \in Nat
  OBVIOUS
<1>1. PICK r : r = Inserted(q, x, p)
  OBVIOUS
<1>i. r \in Seq(S) /\ IsInserted(r, q, x, p)
  BY <1>1, InsertedIs
<1>2. /\ r \in Seq(S)
      /\ Len(r) = Len(q) + 1
      /\ \A i \in 1..p : r[i] = q[i]
      /\ r[p + 1] = x
      /\ \A i \in (p + 2)..(Len(q) + 1) : r[i] = q[i - 1]
  BY <1>i DEF IsInserted
<1>3. Elements(r) = Elements(q) \cup {x}
  <2>1. ASSUME NEW y \in Elements(r) PROVE y \in Elements(q) \cup {x}
    <3>1. PICK i \in 1..Len(r) : y = r[i]
      BY <2>1 DEF Elements
    <3>2. CASE i \in 1..p
      BY <3>1, <3>2, <1>0, <1>2 DEF Elements
    <3>3. CASE i = p + 1
      BY <3>1, <3>3, <1>2
    <3>4. CASE i \in (p + 2)..(Len(q) + 1)
      <4>1. i - 1 \in 1..Len(q) /\ y = q[i - 1]
        BY <3>1, <3>4, <1>0, <1>2
      <4> QED
        BY <4>1 DEF Elements
    <3> QED
      BY <3>2, <3>3, <3>4, <1>0, <1>2
  <2>2. ASSUME NEW y \in Elements(q) PROVE y \in Elements(r)
    <3>1. PICK i \in 1..Len(q) : y = q[i]
      BY <2>2 DEF Elements
    <3>2. CASE i \in 1..p
      BY <3>1, <3>2, <1>0, <1>2 DEF Elements
    <3>3. CASE i > p
      <4>1. i + 1 \in (p + 2)..(Len(q) + 1) /\ (i + 1) - 1 = i
        BY <3>1, <3>3, <1>0
      <4>2. r[i + 1] = q[(i + 1) - 1] /\ i + 1 \in 1..Len(r)
        BY <4>1, <1>0, <1>2
      <4> QED
        BY <4>1, <4>2, <3>1 DEF Elements
    <3> QED
      BY <3>2, <3>3, <1>0
  <2>3. x \in Elements(r)
    <3>1. p + 1 \in 1..Len(r)
      BY <1>0, <1>2
    <3> QED
      BY <3>1, <1>2 DEF Elements
  <2> QED
    BY <2>1, <2>2, <2>3
<1>4. ASSUME Distinct(q), x \notin Elements(q) PROVE Distinct(r)
  <2>1. \A i \in 1..Len(q) : q[i] # x
    BY <1>4 DEF Elements
  <2>2. \A i, j \in 1..Len(q) : q[i] = q[j] => i = j
    BY <1>4 DEF Distinct
  <2>3. \A i \in 1..Len(r) : i = p + 1
              \/ \E k \in 1..Len(q) : r[i] = q[k] /\ i = IF k <= p THEN k ELSE k + 1
    <3>1. TAKE i \in 1..Len(r)
    <3>2. CASE i \in 1..p
      BY <3>2, <1>0, <1>2
    <3>3. CASE i \in (p + 2)..(Len(q) + 1)
      <4>1. i - 1 \in 1..Len(q) /\ r[i] = q[i - 1] /\ ~(i - 1 <= p)
        BY <3>3, <1>0, <1>2
      <4>2. i = (i - 1) + 1
        BY <3>1
      <4> QED
        BY <4>1, <4>2
    <3>4. i \in 1..p \/ i = p + 1 \/ i \in (p + 2)..(Len(q) + 1)
      BY <1>0, <1>2
    <3> QED
      BY <3>2, <3>3, <3>4
  <2>4. ASSUME NEW i \in 1..Len(r), NEW j \in 1..Len(r), r[i] = r[j]
        PROVE  i = j
    <3>1. CASE i = p + 1
      BY <3>1, <2>4, <2>3, <2>1, <1>2
    <3>2. CASE j = p + 1
      BY <3>2, <2>4, <2>3, <2>1, <1>2
    <3>3. CASE i # p + 1 /\ j # p + 1
      <4>1. PICK k \in 1..Len(q) : r[i] = q[k] /\ i = IF k <= p THEN k ELSE k + 1
        BY <3>3, <2>3
      <4>2. PICK l \in 1..Len(q) : r[j] = q[l] /\ j = IF l <= p THEN l ELSE l + 1
        BY <3>3, <2>3
      <4>3. k = l
        BY <4>1, <4>2, <2>2, <2>4
      <4> QED
        BY <4>1, <4>2, <4>3
    <3> QED
      BY <3>1, <3>2, <3>3
  <2> QED
    BY <2>4 DEF Distinct
<1> QED
  BY <1>1, <1>3, <1>4

(* What erasing does to the elements.                                        *)
LEMMA WithoutElements ==
    ASSUME NEW S, NEW q \in Seq(S), NEW k \in 1..Len(q), Distinct(q)
    PROVE  /\ Elements(Without(q, k)) = Elements(q) \ {q[k]}
           /\ Distinct(Without(q, k))
<1>0. Len(q) \in Nat
  OBVIOUS
<1>1. PICK r \in Seq(S) : r = Without(q, k)
  BY WithoutIs
<1>2. /\ Len(r) = Len(q) - 1
      /\ \A i \in 1..(k - 1) : r[i] = q[i]
      /\ \A i \in k..(Len(q) - 1) : r[i] = q[i + 1]
  BY <1>1, WithoutIs
<1>3. \A i, j \in 1..Len(q) : q[i] = q[j] => i = j
  BY DEF Distinct
<1>4. \A i \in 1..Len(r) : \E j \in 1..Len(q) :
          j # k /\ r[i] = q[j] /\ i = IF j < k THEN j ELSE j - 1
  <2>1. TAKE i \in 1..Len(r)
  <2>2. CASE i < k
    <3>1. i \in 1..(k - 1) /\ i \in 1..Len(q)
      BY <2>2, <1>0, <1>2
    <3> QED
      BY <3>1, <2>2, <1>2
  <2>3. CASE i >= k
    <3>1. i \in k..(Len(q) - 1) /\ i + 1 \in 1..Len(q) /\ i + 1 # k
          /\ ~(i + 1 < k) /\ i = (i + 1) - 1
      BY <2>3, <1>0, <1>2
    <3> QED
      BY <3>1, <1>2
  <2> QED
    BY <2>2, <2>3, <1>0
<1>5. \A j \in 1..Len(q) : j # k => \E i \in 1..Len(r) : r[i] = q[j]
  <2>1. TAKE j \in 1..Len(q)
  <2>2. CASE j < k
    <3>1. j \in 1..(k - 1) /\ j \in 1..Len(r)
      BY <2>2, <1>0, <1>2
    <3> QED
      BY <3>1, <1>2
  <2>3. CASE j > k
    <3>1. j - 1 \in k..(Len(q) - 1) /\ j - 1 \in 1..Len(r) /\ (j - 1) + 1 = j
      BY <2>3, <1>0, <1>2
    <3> QED
      BY <3>1, <1>2
  <2> QED
    BY <2>2, <2>3, <1>0
<1>6. Elements(r) = Elements(q) \ {q[k]}
  <2>1. ASSUME NEW y \in Elements(r) PROVE y \in Elements(q) \ {q[k]}
    <3>1. PICK i \in 1..Len(r) : y = r[i]
      BY <2>1 DEF Elements
    <3>2. PICK j \in 1..Len(q) : j # k /\ r[i] = q[j]
      BY <1>4
    <3>3. q[j] # q[k]
      BY <3>2, <1>3
    <3> QED
      BY <3>1, <3>2, <3>3 DEF Elements
  <2>2. ASSUME NEW y \in Elements(q) \ {q[k]} PROVE y \in Elements(r)
    <3>1. PICK j \in 1..Len(q) : y = q[j]
      BY <2>2 DEF Elements
    <3>2. j # k
      BY <3>1, <2>2
    <3>3. PICK i \in 1..Len(r) : r[i] = q[j]
      BY <3>2, <1>5
    <3> QED
      BY <3>1, <3>3 DEF Elements
  <2> QED
    BY <2>1, <2>2
<1>7. Distinct(r)
  <2>1. ASSUME NEW i \in 1..Len(r), NEW j \in 1..Len(r), r[i] = r[j]
        PROVE  i = j
    <3>1. PICK a \in 1..Len(q) :
              a # k /\ r[i] = q[a] /\ i = IF a < k THEN a ELSE a - 1
      BY <1>4
    <3>2. PICK b \in 1..Len(q) :
              b # k /\ r[j] = q[b] /\ j = IF b < k THEN b ELSE b - 1
      BY <1>4
    <3>3. a = b
      BY <3>1, <3>2, <1>3, <2>1
    <3> QED
      BY <3>1, <3>2, <3>3
  <2> QED
    BY <2>1 DEF Distinct
<1> QED
  BY <1>1, <1>6, <1>7

(* What dividing a list does to the elements.                                *)
LEMMA SplitElements ==
    ASSUME NEW S, NEW q \in Seq(S), NEW p \in 0..Len(q), Distinct(q)
    PROVE  /\ Elements(SubSeq(q, 1, p)) \cup Elements(SubSeq(q, p + 1, Len(q)))
                = Elements(q)
           /\ Elements(SubSeq(q, 1, p)) \cap Elements(SubSeq(q, p + 1, Len(q)))
                = {}
           /\ Distinct(SubSeq(q, 1, p))
           /\ Distinct(SubSeq(q, p + 1, Len(q)))
<1>0. Len(q) \in Nat
  OBVIOUS
<1>1. PICK a \in Seq(S) : a = SubSeq(q, 1, p)
  BY SplitIs
<1>2. PICK b \in Seq(S) : b = SubSeq(q, p + 1, Len(q))
  BY SplitIs
<1>3. Len(a) = p /\ \A i \in 1..p : a[i] = q[i]
  BY <1>1, SplitIs
<1>4. Len(b) = Len(q) - p /\ \A i \in 1..(Len(q) - p) : b[i] = q[p + i]
  BY <1>2, SplitIs
<1>5. \A i, j \in 1..Len(q) : q[i] = q[j] => i = j
  BY DEF Distinct
<1>6. ASSUME NEW y \in Elements(a)
      PROVE  \E i \in 1..p : y = q[i] /\ i \in 1..Len(q)
  <2>1. PICK i \in 1..Len(a) : y = a[i]
    BY <1>6 DEF Elements
  <2> QED
    BY <2>1, <1>0, <1>3
<1>7. ASSUME NEW y \in Elements(b)
      PROVE  \E i \in (p + 1)..Len(q) : y = q[i] /\ i \in 1..Len(q)
  <2>1. PICK i \in 1..Len(b) : y = b[i]
    BY <1>7 DEF Elements
  <2>2. y = q[p + i] /\ p + i \in (p + 1)..Len(q) /\ p + i \in 1..Len(q)
    BY <2>1, <1>0, <1>4
  <2> QED
    BY <2>2
<1>8. ASSUME NEW y \in Elements(q) PROVE y \in Elements(a) \cup Elements(b)
  <2>1. PICK i \in 1..Len(q) : y = q[i]
    BY <1>8 DEF Elements
  <2>2. CASE i <= p
    <3>1. i \in 1..Len(a) /\ y = a[i]
      BY <2>1, <2>2, <1>0, <1>3
    <3> QED
      BY <3>1 DEF Elements
  <2>3. CASE i > p
    <3>1. i - p \in 1..Len(b) /\ p + (i - p) = i
      BY <2>3, <1>0, <1>4
    <3>2. y = b[i - p]
      BY <3>1, <2>1, <1>4
    <3> QED
      BY <3>1, <3>2 DEF Elements
  <2> QED
    BY <2>2, <2>3, <1>0
<1>9. Elements(a) \cup Elements(b) = Elements(q)
  BY <1>6, <1>7, <1>8 DEF Elements
<1>10. Elements(a) \cap Elements(b) = {}
  <2>1. SUFFICES ASSUME NEW y \in Elements(a), y \in Elements(b) PROVE FALSE
    OBVIOUS
  <2>2. PICK i \in 1..p : y = q[i] /\ i \in 1..Len(q)
    BY <1>6
  <2>3. PICK j \in (p + 1)..Len(q) : y = q[j] /\ j \in 1..Len(q)
    BY <2>1, <1>7
  <2>4. i = j
    BY <2>2, <2>3, <1>5
  <2> QED
    BY <2>4, <1>0
<1>11. Distinct(a)
  <2>1. ASSUME NEW i \in 1..Len(a), NEW j \in 1..Len(a), a[i] = a[j]
        PROVE  i = j
    <3>1. q[i] = q[j] /\ i \in 1..Len(q) /\ j \in 1..Len(q)
      BY <2>1, <1>0, <1>3
    <3> QED
      BY <3>1, <1>5
  <2> QED
    BY <2>1 DEF Distinct
<1>12. Distinct(b)
  <2>1. ASSUME NEW i \in 1..Len(b), NEW j \in 1..Len(b), b[i] = b[j]
        PROVE  i = j
    <3>1. q[p + i] = q[p + j] /\ p + i \in 1..Len(q) /\ p + j \in 1..Len(q)
      BY <2>1, <1>0, <1>4
    <3>2. p + i = p + j
      BY <3>1, <1>5
    <3> QED
      BY <3>2, <1>0
  <2> QED
    BY <2>1 DEF Distinct
<1> QED
  BY <1>1, <1>2, <1>9, <1>10, <1>11, <1>12

(* What taking the first element and adding a last one do.                   *)
LEMMA TailElements ==
    ASSUME NEW S, NEW q \in Seq(S), q # <<>>, Distinct(q)
    PROVE  /\ Tail(q) \in Seq(S) /\ Head(q) \in S
           /\ Head(q) \in Elements(q)
           /\ Elements(Tail(q)) = Elements(q) \ {Head(q)}
           /\ Distinct(Tail(q))
<1>0. Len(q) \in Nat /\ Len(q) >= 1 /\ 1 \in 1..Len(q)
  OBVIOUS
<1>1. Head(q) = q[1] /\ Head(q) \in S
  BY <1>0
<1>2. PICK r \in Seq(S) : r = Tail(q)
  BY HeadTailProperties
<1>3. Len(r) = Len(q) - 1 /\ \A i \in 1..(Len(q) - 1) : r[i] = q[i + 1]
  BY <1>0, <1>2
<1>4. PICK w \in Seq(S) : w = Without(q, 1)
  BY <1>0, WithoutIs
<1>5. Len(w) = Len(q) - 1 /\ \A i \in 1..(Len(q) - 1) : w[i] = q[i + 1]
  BY <1>0, <1>4, WithoutIs
<1>6. r = w
  BY <1>3, <1>5, SeqEqual
<1>7. Elements(w) = Elements(q) \ {q[1]} /\ Distinct(w)
  BY <1>0, <1>4, WithoutElements
<1>8. q[1] \in Elements(q)
  BY <1>0 DEF Elements
<1> QED
  BY <1>1, <1>2, <1>6, <1>7, <1>8

LEMMA AppendElements ==
    ASSUME NEW S, NEW q \in Seq(S), NEW x \in S
    PROVE  /\ Append(q, x) \in Seq(S)
           /\ Elements(Append(q, x)) = Elements(q) \cup {x}
           /\ Distinct(q) /\ x \notin Elements(q) => Distinct(Append(q, x))
<1>0. Len(q) \in Nat /\ Len(q) \in 0..Len(q)
  OBVIOUS
<1>1. PICK r \in Seq(S) : r = Append(q, x)
  BY AppendProperties
<1>2. Len(r) = Len(q) + 1 /\ r[Len(q) + 1] = x /\ \A i \in 1..Len(q) : r[i] = q[i]
  BY <1>0, <1>1
<1>3. PICK w : w = Inserted(q, x, Len(q))
  OBVIOUS
<1>i. w \in Seq(S) /\ IsInserted(w, q, x, Len(q))
  BY <1>0, <1>3, InsertedIs
<1>4. /\ w \in Seq(S)
      /\ Len(w) = Len(q) + 1
      /\ \A i \in 1..Len(q) : w[i] = q[i]
      /\ w[Len(q) + 1] = x
  BY <1>i DEF IsInserted
<1>5. r = w
  <2>1. \A i \in 1..Len(r) : r[i] = w[i]
    <3>1. TAKE i \in 1..Len(r)
    <3>2. i \in 1..Len(q) \/ i = Len(q) + 1
      BY <1>0, <1>2
    <3> QED
      BY <3>2, <1>2, <1>4
  <2> QED
    BY <2>1, <1>2, <1>4, SeqEqual
<1> QED
  BY <1>0, <1>1, <1>3, <1>5, InsertedElements

(* What joining two lists does to the elements.                              *)
LEMMA ConcatElements ==
    ASSUME NEW S, NEW a \in Seq(S), NEW b \in Seq(S), NEW r, r = a \o b,
           Distinct(a), Distinct(b), Elements(a) \cap Elements(b) = {}
    PROVE  /\ r \in Seq(S)
           /\ Elements(r) = Elements(a) \cup Elements(b)
           /\ Distinct(r)
<1>0. Len(a) \in Nat /\ Len(b) \in Nat
  OBVIOUS
<1>1. /\ r \in Seq(S)
      /\ Len(r) = Len(a) + Len(b)
      /\ \A i \in 1..Len(a) : r[i] = a[i]
      /\ \A i \in (Len(a) + 1)..(Len(a) + Len(b)) : r[i] = b[i - Len(a)]
  BY ConcatIs
<1>9. \A y1 \in Elements(r) : y1 \in Elements(a) \cup Elements(b)
  <2>1. TAKE y1 \in Elements(r)
  <2>2. PICK i \in 1..Len(r) : y1 = r[i]
    BY DEF Elements
  <2>3. CASE i \in 1..Len(a)
    BY <2>2, <2>3, <1>1 DEF Elements
  <2>4. CASE i \in (Len(a) + 1)..(Len(a) + Len(b))
    <3>1. i - Len(a) \in 1..Len(b) /\ y1 = b[i - Len(a)]
      BY <2>2, <2>4, <1>0, <1>1
    <3> QED
      BY <3>1 DEF Elements
  <2> QED
    BY <2>3, <2>4, <1>0, <1>1
<1>10. \A i \in 1..Len(b) : Len(a) + i \in 1..Len(r) /\ r[Len(a) + i] = b[i]
  <2>1. TAKE i \in 1..Len(b)
  <2>2. Len(a) + i \in (Len(a) + 1)..(Len(a) + Len(b)) /\ (Len(a) + i) - Len(a) = i
    BY <1>0
  <2>3. r[Len(a) + i] = b[(Len(a) + i) - Len(a)]
    BY <2>2, <1>1
  <2> QED
    BY <2>2, <2>3, <1>0, <1>1
<1>11. \A y1 \in Elements(a) \cup Elements(b) : y1 \in Elements(r)
  <2>1. TAKE y1 \in Elements(a) \cup Elements(b)
  <2>2. CASE y1 \in Elements(a)
    <3>1. PICK i \in 1..Len(a) : y1 = a[i]
      BY <2>2 DEF Elements
    <3>2. i \in 1..Len(r) /\ y1 = r[i]
      BY <3>1, <1>0, <1>1
    <3> QED
      BY <3>2 DEF Elements
  <2>3. CASE y1 \in Elements(b)
    <3>1. PICK i \in 1..Len(b) : y1 = b[i]
      BY <2>3 DEF Elements
    <3> QED
      BY <3>1, <1>10 DEF Elements
  <2> QED
    BY <2>2, <2>3
<1>12. \A i \in 1..Len(r) : i \in 1..Len(a)
            \/ \E k \in 1..Len(b) : i = Len(a) + k
  <2>1. TAKE i \in 1..Len(r)
  <2>2. CASE i > Len(a)
    <3>1. i - Len(a) \in 1..Len(b) /\ i = Len(a) + (i - Len(a))
      BY <2>2, <1>0, <1>1
    <3> QED
      BY <3>1
  <2> QED
    BY <2>2, <1>0
<1>13. ASSUME NEW i \in 1..Len(r), NEW j \in 1..Len(r), r[i] = r[j]
       PROVE  i = j
  <2>1. \A k \in 1..Len(a), l \in 1..Len(b) : a[k] # b[l]
    BY DEF Elements
  <2>2. CASE i \in 1..Len(a) /\ j \in 1..Len(a)
    BY <2>2, <1>1, <1>13 DEF Distinct
  <2>3. CASE i \in 1..Len(a) /\ \E k \in 1..Len(b) : j = Len(a) + k
    BY <2>1, <2>3, <1>1, <1>10, <1>13
  <2>4. CASE j \in 1..Len(a) /\ \E k \in 1..Len(b) : i = Len(a) + k
    BY <2>1, <2>4, <1>1, <1>10, <1>13
  <2>5. CASE /\ \E k \in 1..Len(b) : i = Len(a) + k
             /\ \E k \in 1..Len(b) : j = Len(a) + k
    <3>1. PICK k \in 1..Len(b) : i = Len(a) + k
      BY <2>5
    <3>2. PICK l \in 1..Len(b) : j = Len(a) + l
      BY <2>5
    <3>3. b[k] = b[l]
      BY <3>1, <3>2, <1>10, <1>13
    <3>4. k = l
      BY <3>3 DEF Distinct
    <3> QED
      BY <3>1, <3>2, <3>4
  <2> QED
    BY <2>2, <2>3, <2>4, <2>5, <1>12
<1> QED
  BY <1>1, <1>9, <1>11, <1>13 DEF Distinct

-----------------------------------------------------------------------------
(* The steps of the timer, by what they do to its state.                     *)
OrderlyUse == \A u \in Usage : StopsAlone(u)

AddForm(t, x, f) ==
    /\ pc[t] = "idle" /\ CanPop(uids)
    /\ usage.sweep => Unmarked(queue)
    /\ x \notin alive
    /\ ~f.terminate /\ f.id = Popped(uids)
    /\ Calls(t) # {} /\ (f.once => "once" \in Calls(t))
    /\ task' = [task EXCEPT ![x] = f]
    /\ alive' = alive \cup {x}
    /\ arg' = [arg EXCEPT ![t] = x]
    /\ uids' = AfterPop(uids)
    /\ pc' = [pc EXCEPT ![t] = "insert"]
    /\ UNCHANGED <<now, usage, queue, tasks, base, eq, newTask>>

InsertForm(t, p) ==
    /\ pc[t] = "insert"
    /\ p \in UpperBound(queue, task[arg[t]])
    /\ queue' = Inserted(queue, arg[t], p)
    /\ pc' = [pc EXCEPT ![t] = "map"]
    /\ UNCHANGED <<now, usage, task, alive, tasks, uids, arg, base, eq, newTask>>

StopForm(k) ==
    LET x == queue[k] IN
    /\ pc[Owner] = "stop" /\ arg[Owner] = x
    /\ queue' = Inserted(Without(queue, k), x, 0)
    /\ task' = [task EXCEPT ![x].terminate = TRUE]
    /\ arg' = [arg EXCEPT ![Owner] = NoTask]
    /\ pc' = [pc EXCEPT ![Owner] = "idle"]
    /\ UNCHANGED <<now, usage, alive, tasks, uids, base, eq, newTask>>

TakeForm(p) ==
    /\ pc[Owner] = "idle" /\ p > 0
    /\ p \in LowerBound(queue, [start |-> now, terminate |-> FALSE])
    /\ base' = now
    /\ eq' = SubSeq(queue, 1, p)
    /\ queue' = SubSeq(queue, p + 1, Len(queue))
    /\ newTask' = <<>>
    /\ pc' = [pc EXCEPT ![Owner] = "run"]
    /\ UNCHANGED <<now, usage, task, alive, tasks, uids, arg>>

DeleteForm(x) ==
    /\ pc[Owner] = "run" /\ eq # <<>> /\ x = Head(eq)
    /\ task[x].terminate \/ task[x].once
    /\ tasks' = {entry \in tasks : entry[1] # task[x].id}
    /\ uids' = AfterPush(uids, task[x].id)
    /\ alive' = alive \ {x}
    /\ task' = [task EXCEPT ![x] = Blank]
    /\ eq' = Tail(eq)
    /\ UNCHANGED <<now, usage, queue, pc, arg, base, newTask>>

RepeatForm(x) ==
    /\ pc[Owner] = "run" /\ eq # <<>> /\ x = Head(eq)
    /\ ~task[x].terminate
    /\ task' = [task EXCEPT ![x].start = now + Period]
    /\ newTask' = Append(newTask, x)
    /\ eq' = Tail(eq)
    /\ UNCHANGED <<now, usage, alive, queue, tasks, uids, pc, arg, base>>

ReinsertForm(x, p) ==
    /\ pc[Owner] = "run" /\ eq = <<>> /\ newTask # <<>> /\ x = Head(newTask)
    /\ p \in UpperBound(queue, task[x])
    /\ queue' = Inserted(queue, x, p)
    /\ newTask' = Tail(newTask)
    /\ UNCHANGED <<now, usage, task, alive, tasks, uids, pc, arg, base, eq>>

(* Where a search may end is a place of the list.                            *)
LEMMA BoundsAreIn ==
    ASSUME NEW q, NEW f
    PROVE  UpperBound(q, f) \subseteq 0..Len(q) /\ LowerBound(q, f) \subseteq 0..Len(q)
BY DEF UpperBound, LowerBound

(* A search for a task in a sorted list of unmarked tasks finds one with its *)
(* id: the range of what compares equal to it reaches over its place.        *)
LEMMA SearchFinds ==
    ASSUME TypeOK,
           NEW k \in 1..Len(queue),
           \A i \in 1..Len(queue) : ~task[queue[i]].terminate,
           \A i, j \in 1..Len(queue) :
                i < j => task[queue[i]].start <= task[queue[j]].start,
           NEW f \in Found(queue[k])
    PROVE  f \in 1..Len(queue) /\ task[queue[f]].id = task[queue[k]].id
<1> DEFINE x == queue[k]
<1>0. Len(queue) \in Nat /\ queue \in Seq(Task)
  BY DEF TypeOK
<1>1. \A i \in 1..Len(queue) : queue[i] \in Task /\ task[queue[i]] \in Fields
  <2>1. \A i \in 1..Len(queue) : queue[i] \in Task
    BY <1>0
  <2>2. \A y \in Task : task[y] \in Fields
    BY DEF TypeOK
  <2> QED
    BY <2>1, <2>2
<1>2. \A i \in 1..Len(queue) : task[queue[i]].start \in Nat
  BY <1>1 DEF Fields
<1>3. PICK lo \in LowerBound(queue, task[x]), hi \in UpperBound(queue, task[x]) :
        IF f = 0
        THEN \A j \in (lo + 1)..hi : task[queue[j]].id # task[x].id
        ELSE /\ f \in (lo + 1)..hi
             /\ task[queue[f]].id = task[x].id
             /\ \A j \in (lo + 1)..(f - 1) : task[queue[j]].id # task[x].id
  BY DEF Found
<1>4. lo \in 0..Len(queue) /\ hi \in 0..Len(queue) /\ f \in 0..Len(queue)
  BY BoundsAreIn DEF Found
<1>5. lo < k
  <2>1. SUFFICES ASSUME lo >= k PROVE FALSE
    BY <1>0, <1>4
  <2>2. lo \in 1..Len(queue) /\ lo > 0
    BY <2>1, <1>0, <1>4
  <2>3. Less(task[queue[lo]], task[x])
    BY <2>2 DEF LowerBound
  <2>4. task[queue[lo]].start < task[x].start
    BY <2>2, <2>3 DEF Less
  <2>5. lo = k \/ k < lo
    BY <2>1, <1>0, <1>4
  <2>6. task[x].start <= task[queue[lo]].start
    BY <2>2, <2>5, <1>2
  <2> QED
    BY <2>2, <2>4, <2>6, <1>2
<1>6. k <= hi
  <2>1. SUFFICES ASSUME hi < k PROVE FALSE
    BY <1>0, <1>4
  <2>2. hi < Len(queue) /\ hi + 1 \in 1..Len(queue)
    BY <2>1, <1>0, <1>4
  <2>3. Less(task[x], task[queue[hi + 1]])
    BY <2>2 DEF UpperBound
  <2>4. task[x].start < task[queue[hi + 1]].start
    BY <2>2, <2>3 DEF Less
  <2>5. hi + 1 = k \/ hi + 1 < k
    BY <2>1, <1>0, <1>4
  <2>6. task[queue[hi + 1]].start <= task[x].start
    BY <2>2, <2>5, <1>2
  <2> QED
    BY <2>2, <2>4, <2>6, <1>2
<1>7. k \in (lo + 1)..hi
  BY <1>0, <1>4, <1>5, <1>6
<1>8. f # 0
  BY <1>3, <1>7
<1> QED
  BY <1>0, <1>3, <1>4, <1>8

(* While no call can be stopping but the owner's, its use is orderly.        *)
LEMMA UseIsOrderly ==
    ASSUME OrderlyUse, TypeOK
    PROVE  MayStop => usage.others = {} /\ usage.sweep
BY DEF OrderlyUse, TypeOK, StopsAlone, MayStop

(* stopTask takes its task from its place and puts it, marked, in front.     *)
LEMMA StopIsFound ==
    ASSUME TimerInv, OrderlyUse, NEW t \in Thread, StopInQueue(t)
    PROVE  \E k \in 1..Len(queue) : StopForm(k)
<1> DEFINE x == arg[Owner]
<1>0. TypeOK /\ CallsSound /\ QueueSound /\ PlacesSound /\ IdsConserved
  BY DEF TimerInv
<1>1. t = Owner /\ pc[Owner] = "stop"
  BY <1>0 DEF CallsSound, StopInQueue
<1>2. x \in Elements(queue)
  BY <1>0, <1>1 DEF CallsSound
<1>3. PICK k \in 1..Len(queue) : x = queue[k]
  BY <1>2 DEF Elements
<1>4. Len(queue) \in Nat /\ queue \in Seq(Task)
  BY <1>0 DEF TypeOK
<1>5. \A i \in 1..Len(queue) : ~task[queue[i]].terminate
  BY <1>0, <1>1 DEF QueueSound
<1>6. \A i, j \in 1..Len(queue) :
          i < j => task[queue[i]].start <= task[queue[j]].start
  BY <1>0, <1>5 DEF QueueSound
<1>7. PICK i \in Found(x) :
        LET rest == IF i = 0 THEN queue ELSE Without(queue, i)
            marked == [task[x] EXCEPT !.terminate = TRUE]
        IN  \E p \in UpperBound(rest, marked) :
              /\ queue' = Inserted(rest, x, p)
              /\ task' = [task EXCEPT ![x] = marked]
  BY <1>1 DEF StopInQueue
<1>8. i \in 1..Len(queue) /\ task[queue[i]].id = task[x].id
  BY <1>0, <1>3, <1>5, <1>6, <1>7, SearchFinds
<1>9. queue[i] \in alive /\ x \in alive
  <2>1. Elements(queue) \subseteq alive
    BY <1>0 DEF PlacesSound
  <2>2. queue[i] \in Elements(queue)
    BY <1>8 DEF Elements
  <2> QED
    BY <2>1, <2>2, <1>2
<1>10. queue[i] = x
  BY <1>0, <1>8, <1>9 DEF IdsConserved
<1> DEFINE rest == Without(queue, i)
           marked == [task[x] EXCEPT !.terminate = TRUE]
<1>11. PICK p \in UpperBound(rest, marked) :
              /\ queue' = Inserted(rest, x, p)
              /\ task' = [task EXCEPT ![x] = marked]
  <2>1. i # 0
    BY <1>4, <1>8
  <2> QED
    BY <2>1, <1>7
<1>12. x \in Task /\ task[x] \in Fields /\ task \in [Task -> Fields]
  BY <1>0, <1>9 DEF TypeOK
<1>13. marked.terminate = TRUE /\ marked \in Fields
  BY <1>12 DEF Fields
<1>14. p = 0
  <2>1. SUFFICES ASSUME p # 0 PROVE FALSE
    OBVIOUS
  <2>2. PICK r \in Seq(Task) : r = rest
    BY <1>4, <1>8, WithoutIs
  <2>3. /\ Len(r) = Len(queue) - 1
        /\ \A j \in 1..(i - 1) : r[j] = queue[j]
        /\ \A j \in i..(Len(queue) - 1) : r[j] = queue[j + 1]
    BY <2>2, <1>4, <1>8, WithoutIs
  <2>4. p \in 0..Len(r) /\ (p > 0 => ~Less(marked, task[r[p]]))
    BY <2>2, BoundsAreIn DEF UpperBound
  <2>5. p \in 1..Len(r) /\ p > 0
    BY <2>1, <2>3, <2>4, <1>4
  <2>6. ~task[r[p]].terminate
    <3>1. CASE p < i
      <4>1. p \in 1..(i - 1) /\ p \in 1..Len(queue)
        BY <3>1, <2>3, <2>5, <1>4, <1>8
      <4> QED
        BY <4>1, <2>3, <1>5
    <3>2. CASE p >= i
      <4>1. p \in i..(Len(queue) - 1) /\ p + 1 \in 1..Len(queue)
        BY <3>2, <2>3, <2>5, <1>4, <1>8
      <4> QED
        BY <4>1, <2>3, <1>5
    <3> QED
      BY <3>1, <3>2, <2>3, <2>5, <1>4, <1>8
  <2>7. Less(marked, task[r[p]])
    BY <2>6, <1>13 DEF Less
  <2> QED
    BY <2>4, <2>5, <2>7
<1>15. task' = [task EXCEPT ![x].terminate = TRUE]
  BY <1>11, <1>12
<1>16. StopForm(i)
  <2>1. queue' = Inserted(Without(queue, i), queue[i], 0)
    BY <1>10, <1>11, <1>14
  <2>2. task' = [task EXCEPT ![queue[i]].terminate = TRUE]
    BY <1>10, <1>15
  <2>3. /\ arg' = [arg EXCEPT ![Owner] = NoTask]
        /\ pc' = [pc EXCEPT ![Owner] = "idle"]
        /\ UNCHANGED <<now, usage, alive, tasks, uids, base, eq, newTask>>
    BY <1>1 DEF StopInQueue, Goto, processVars
  <2> QED
    BY <2>1, <2>2, <2>3, <1>1, <1>10 DEF StopForm
<1> QED
  BY <1>8, <1>16

(* A new task is unmarked, not expired before it is added, and has a free id.*)
LEMMA AddIsForm ==
    ASSUME TimerInv, NEW t \in Thread, Add(t)
    PROVE  \E x \in Task, f \in Fields : AddForm(t, x, f)
<1>0. TypeOK /\ IdsConserved
  BY DEF TimerInv
<1>1. PICK x \in Task \ alive, once \in BOOLEAN, after \in Delay :
         /\ (IF once THEN "once" ELSE "repeat") \in Calls(t)
         /\ task' = [task EXCEPT ![x] = [start |-> now + after, once |-> once,
                                         terminate |-> FALSE, id |-> Popped(uids)]]
         /\ alive' = alive \cup {x}
         /\ arg' = [arg EXCEPT ![t] = x]
  BY DEF Add
<1> DEFINE f == [start |-> now + after, once |-> once,
                 terminate |-> FALSE, id |-> Popped(uids)]
<1>2. Popped(uids) \in Id
  BY <1>0, PopHolds DEF TypeOK, IdsConserved, Add
<1>3. now + after \in Nat
  BY <1>0, TimerAssumption DEF TypeOK
<1>4. f \in Fields /\ ~f.terminate /\ f.id = Popped(uids) /\ f.once = once
  BY <1>2, <1>3 DEF Fields
<1>5. AddForm(t, x, f)
  <2>1. Calls(t) # {} /\ (f.once => "once" \in Calls(t))
    BY <1>1, <1>4
  <2>2. task' = [task EXCEPT ![x] = f]
    BY <1>1
  <2>3. /\ pc[t] = "idle" /\ CanPop(uids)
        /\ usage.sweep => Unmarked(queue)
        /\ uids' = AfterPop(uids)
        /\ pc' = [pc EXCEPT ![t] = "insert"]
        /\ UNCHANGED <<now, usage, queue, tasks, base, eq, newTask>>
    BY DEF Add, Goto, processVars
  <2> HIDE DEF f
  <2> QED
    BY <2>1, <2>2, <2>3, <1>1, <1>4 DEF AddForm
<1> QED
  BY <1>4, <1>5

TimerStep ==
    \/ \E t \in Thread : \E x \in Task, f \in Fields : AddForm(t, x, f)
    \/ \E t \in Thread : \E p \in 0..Len(queue) : InsertForm(t, p)
    \/ \E t \in Thread : AddToMap(t)
    \/ \E t \in Thread : Stop(t)
    \/ \E k \in 1..Len(queue) : StopForm(k)
    \/ \E p \in 0..Len(queue) : TakeForm(p)
    \/ \E x \in Task : DeleteForm(x)
    \/ \E x \in Task : RepeatForm(x)
    \/ \E x \in Task : \E p \in 0..Len(queue) : ReinsertForm(x, p)
    \/ ProcessEnd
    \/ Tick
    \/ UNCHANGED vars

(* Every step of the timer has one of these forms.                           *)
LEMMA StepIsForm ==
    ASSUME TimerInv, OrderlyUse, [Next]_vars
    PROVE  TimerStep
<1>0. TypeOK
  BY DEF TimerInv
<1>1. ASSUME NEW t \in Thread, Add(t) PROVE TimerStep
  BY <1>1, AddIsForm DEF TimerStep
<1>2. ASSUME NEW t \in Thread, AddToQueue(t) PROVE TimerStep
  <2>1. PICK p \in UpperBound(queue, task[arg[t]]) :
            queue' = Inserted(queue, arg[t], p)
    BY <1>2 DEF AddToQueue
  <2>2. InsertForm(t, p)
    BY <1>2, <2>1 DEF AddToQueue, InsertForm, Goto, processVars
  <2>3. p \in 0..Len(queue)
    BY BoundsAreIn
  <2> QED
    BY <2>2, <2>3 DEF TimerStep
<1>3. ASSUME NEW t \in Thread, StopInQueue(t) PROVE TimerStep
  BY <1>3, StopIsFound DEF TimerStep
<1>4. ASSUME Process PROVE TimerStep
  <2>1. PICK p \in LowerBound(queue, [start |-> now, terminate |-> FALSE]) :
         /\ p > 0
         /\ eq' = SubSeq(queue, 1, p)
         /\ queue' = SubSeq(queue, p + 1, Len(queue))
    BY <1>4 DEF Process, TakeExpired
  <2>2. TakeForm(p)
    BY <1>4, <2>1 DEF Process, TakeForm, Goto
  <2>3. p \in 0..Len(queue)
    BY BoundsAreIn
  <2> QED
    BY <2>2, <2>3 DEF TimerStep
<1>5. ASSUME eq # <<>> PROVE Head(eq) \in Task
  BY <1>0, <1>5 DEF TypeOK
<1>6. ASSUME newTask # <<>> PROVE Head(newTask) \in Task
  BY <1>0, <1>6 DEF TypeOK
<1>7. ASSUME DropTerminated \/ RunOnce PROVE TimerStep
  <2>1. DeleteForm(Head(eq))
    BY <1>7 DEF DropTerminated, RunOnce, DeleteTask, DeleteForm
  <2>2. Head(eq) \in Task
    BY <1>5, <1>7 DEF DropTerminated, RunOnce
  <2> QED
    BY <2>1, <2>2 DEF TimerStep
<1>8. ASSUME RunRepeat PROVE TimerStep
  <2>1. RepeatForm(Head(eq))
    BY <1>8 DEF RunRepeat, RepeatForm
  <2>2. Head(eq) \in Task
    BY <1>5, <1>8 DEF RunRepeat
  <2> QED
    BY <2>1, <2>2 DEF TimerStep
<1>9. ASSUME Reinsert PROVE TimerStep
  <2>1. PICK p \in UpperBound(queue, task[Head(newTask)]) :
            queue' = Inserted(queue, Head(newTask), p)
    BY <1>9 DEF Reinsert
  <2>2. ReinsertForm(Head(newTask), p)
    BY <1>9, <2>1 DEF Reinsert, ReinsertForm
  <2>3. Head(newTask) \in Task /\ p \in 0..Len(queue)
    BY <1>6, <1>9, BoundsAreIn DEF Reinsert
  <2> QED
    BY <2>2, <2>3 DEF TimerStep
<1>10. ASSUME NEW t \in Thread, AddToMap(t) \/ Stop(t) PROVE TimerStep
  BY <1>10 DEF TimerStep
<1>11. ASSUME ProcessEnd \/ Tick \/ UNCHANGED vars PROVE TimerStep
  BY <1>11 DEF TimerStep
<1> QED
  BY <1>1, <1>2, <1>3, <1>4, <1>7, <1>8, <1>9, <1>10, <1>11
     DEF Next, ProcessStep, CallStep

(* What calls may be made does not change.                                   *)
LEMMA UsageStays ==
    ASSUME TimerStep
    PROVE  usage' = usage
BY DEF TimerStep, AddForm, InsertForm, AddToMap, Stop, StopForm, TakeForm,
       DeleteForm, RepeatForm, ReinsertForm, ProcessEnd, Tick, vars

-----------------------------------------------------------------------------
(* Types.                                                                    *)

LEMMA BlankIsTyped == Blank \in Fields
BY TimerAssumption DEF Blank, Fields, Id

LEMMA TypeStep ==
    ASSUME TimerInv, TimerStep
    PROVE  TypeOK'
<1>0. TypeOK /\ CallsSound /\ IdsConserved
  BY DEF TimerInv
<1>t. /\ now \in Nat /\ base \in Nat
      /\ usage \in Usage
      /\ task \in [Task -> Fields]
      /\ alive \in SUBSET Task
      /\ queue \in Seq(Task) /\ eq \in Seq(Task) /\ newTask \in Seq(Task)
      /\ tasks \in SUBSET (Id \X Task)
      /\ uids \in Seq(Id)
      /\ pc \in [Thread -> {"idle", "insert", "map", "stop", "run"}]
      /\ arg \in [Thread -> Task \cup {NoTask}]
  BY <1>0 DEF TypeOK
<1>o. Owner \in Thread
  BY DEF Thread
<1>1. ASSUME NEW t \in Thread, NEW x \in Task, NEW f \in Fields, AddForm(t, x, f)
      PROVE  TypeOK'
  <2>1. AfterPop(uids) \in Seq(Id)
    BY <1>0, <1>1, <1>t, PopHolds DEF IdsConserved, AddForm
  <2> QED
    BY <1>1, <1>t, <2>1 DEF AddForm, TypeOK
<1>2. ASSUME NEW t \in Thread, NEW p \in 0..Len(queue), InsertForm(t, p)
      PROVE  TypeOK'
  <2>1. arg[t] \in Task
    BY <1>0, <1>2 DEF InsertForm, CallsSound
  <2>2. Inserted(queue, arg[t], p) \in Seq(Task)
    BY <1>t, <2>1, InsertedIs
  <2> QED
    BY <1>2, <1>t, <2>2 DEF InsertForm, TypeOK
<1>3. ASSUME NEW t \in Thread, AddToMap(t) PROVE TypeOK'
  <2>1. arg[t] \in Task
    BY <1>0, <1>3 DEF AddToMap, CallsSound
  <2>2. task[arg[t]].id \in Id
    <3>1. task[arg[t]] \in Fields
      BY <1>t, <2>1
    <3> QED
      BY <3>1 DEF Fields
  <2>3. tasks' \in SUBSET (Id \X Task)
    <3>1. tasks' = tasks \/ tasks' = tasks \cup {<<task[arg[t]].id, arg[t]>>}
      BY <1>3 DEF AddToMap
    <3>2. <<task[arg[t]].id, arg[t]>> \in Id \X Task
      BY <2>1, <2>2
    <3> QED
      BY <3>1, <3>2, <1>t
  <2> QED
    BY <1>3, <1>t, <2>3 DEF AddToMap, TypeOK, Goto, processVars
<1>4. ASSUME NEW t \in Thread, Stop(t) PROVE TypeOK'
  <2>1. PICK entry \in tasks : arg' = [arg EXCEPT ![t] = entry[2]]
    BY <1>4 DEF Stop
  <2>2. entry[2] \in Task
    BY <1>t
  <2> QED
    BY <1>4, <1>t, <2>1, <2>2 DEF Stop, TypeOK, Goto, processVars, timerVars
<1>5. ASSUME NEW k \in 1..Len(queue), StopForm(k) PROVE TypeOK'
  <2>1. PICK x \in Task : x = queue[k]
    BY <1>t
  <2>2. PICK r \in Seq(Task) : r = Without(queue, k)
    BY <1>t, WithoutIs
  <2>3. Len(r) \in Nat /\ 0 \in 0..Len(r)
    OBVIOUS
  <2>4. Inserted(r, x, 0) \in Seq(Task)
    BY <2>3, InsertedIs
  <2>5. queue' \in Seq(Task)
    BY <1>5, <2>1, <2>2, <2>4 DEF StopForm
  <2>6. task' \in [Task -> Fields]
    <3>1. task' = [task EXCEPT ![x] = [task[x] EXCEPT !.terminate = TRUE]]
      BY <1>5, <2>1 DEF StopForm
    <3>2. [task[x] EXCEPT !.terminate = TRUE] \in Fields
      BY <1>t DEF Fields
    <3> QED
      BY <3>1, <3>2, <1>t
  <2> QED
    BY <1>5, <1>t, <1>o, <2>5, <2>6 DEF StopForm, TypeOK
<1>6. ASSUME NEW p \in 0..Len(queue), TakeForm(p) PROVE TypeOK'
  <2>1. SubSeq(queue, 1, p) \in Seq(Task)
        /\ SubSeq(queue, p + 1, Len(queue)) \in Seq(Task)
    BY <1>t, SplitIs
  <2>2. <<>> \in Seq(Task)
    OBVIOUS
  <2> QED
    BY <1>6, <1>t, <1>o, <2>1, <2>2 DEF TakeForm, TypeOK
<1>7. ASSUME NEW x \in Task, DeleteForm(x) PROVE TypeOK'
  <2>1. task[x].id \in Id
    BY <1>t DEF Fields
  <2>2. AfterPush(uids, task[x].id) \in Seq(Id)
    BY <1>t, <2>1, AppendProperties DEF AfterPush
  <2>3. Tail(eq) \in Seq(Task)
    BY <1>7, <1>t, HeadTailProperties DEF DeleteForm
  <2> QED
    BY <1>7, <1>t, <2>2, <2>3, BlankIsTyped DEF DeleteForm, TypeOK
<1>8. ASSUME NEW x \in Task, RepeatForm(x) PROVE TypeOK'
  <2>1. task' = [task EXCEPT ![x] = [task[x] EXCEPT !.start = now + Period]]
    BY <1>8 DEF RepeatForm
  <2>2. [task[x] EXCEPT !.start = now + Period] \in Fields
    <3>1. now + Period \in Nat
      BY <1>t, TimerAssumption
    <3>2. task[x] \in Fields
      BY <1>t
    <3> QED
      BY <3>1, <3>2 DEF Fields
  <2>3. task' \in [Task -> Fields]
    BY <2>1, <2>2, <1>t
  <2>4. Tail(eq) \in Seq(Task) /\ Append(newTask, x) \in Seq(Task)
    BY <1>8, <1>t, HeadTailProperties, AppendProperties DEF RepeatForm
  <2> QED
    BY <1>8, <1>t, <2>3, <2>4 DEF RepeatForm, TypeOK
<1>9. ASSUME NEW x \in Task, NEW p \in 0..Len(queue), ReinsertForm(x, p)
      PROVE  TypeOK'
  <2>1. Inserted(queue, x, p) \in Seq(Task)
    BY <1>t, InsertedIs
  <2>2. Tail(newTask) \in Seq(Task)
    BY <1>9, <1>t, HeadTailProperties DEF ReinsertForm
  <2> QED
    BY <1>9, <1>t, <2>1, <2>2 DEF ReinsertForm, TypeOK
<1>10. ASSUME ProcessEnd PROVE TypeOK'
  BY <1>10, <1>t, <1>o DEF ProcessEnd, TypeOK, Goto, timerVars
<1>11. ASSUME Tick PROVE TypeOK'
  BY <1>11, <1>t DEF Tick, TypeOK, timerVars, processVars
<1>12. ASSUME UNCHANGED vars PROVE TypeOK'
  BY <1>12, <1>0 DEF vars, TypeOK, timerVars, processVars
<1> QED
  BY <1>1, <1>2, <1>3, <1>4, <1>5, <1>6, <1>7, <1>8, <1>9, <1>10, <1>11, <1>12
     DEF TimerStep

-----------------------------------------------------------------------------
(* Where tasks are.                                                          *)

(* The lists hold existing tasks that nobody is about to insert.             *)
LEMMA ListedTasks ==
    ASSUME TypeOK, PlacesSound, NEW x,
           x \in Elements(queue) \cup Elements(eq) \cup Elements(newTask)
    PROVE  x \in alive /\ x \in Task /\ \A t \in Pending : arg[t] # x
BY DEF PlacesSound, TypeOK

LEMMA HeadListed ==
    ASSUME TypeOK, NEW q \in Seq(Task), q # <<>>
    PROVE  Head(q) \in Elements(q)
<1>1. Len(q) \in Nat /\ 1 \in 1..Len(q) /\ Head(q) = q[1]
  OBVIOUS
<1> QED
  BY <1>1 DEF Elements

LEMMA CallsStep ==
    ASSUME TimerInv, OrderlyUse, TimerStep
    PROVE  CallsSound'
<1>0. TypeOK /\ CallsSound /\ QueueSound /\ PlacesSound
  BY DEF TimerInv
<1>t. /\ task \in [Task -> Fields]
      /\ queue \in Seq(Task) /\ eq \in Seq(Task) /\ newTask \in Seq(Task)
      /\ tasks \in SUBSET (Id \X Task)
      /\ pc \in [Thread -> {"idle", "insert", "map", "stop", "run"}]
      /\ arg \in [Thread -> Task \cup {NoTask}]
  BY <1>0 DEF TypeOK
<1>o. Owner \in Thread
  BY DEF Thread
<1>u. usage' = usage
  BY UsageStays
<1>m. MayStop => usage.others = {} /\ usage.sweep
  BY <1>0, UseIsOrderly
<1>1. ASSUME NEW t \in Thread, NEW x \in Task, NEW f \in Fields, AddForm(t, x, f)
      PROVE  CallsSound'
  <2>1. usage.others # {} \/ t = Owner
    BY <1>1 DEF AddForm, Calls
  <2>2. \A s \in Pending : s # t /\ arg[s] # x
    BY <1>0, <1>1 DEF AddForm, CallsSound, Pending
  <2>3. \A s \in Thread : s # t => pc'[s] = pc[s] /\ arg'[s] = arg[s]
    BY <1>1, <1>t DEF AddForm
  <2>4. pc'[t] = "insert" /\ arg'[t] = x
    BY <1>1, <1>t DEF AddForm
  <2>5. \A y \in Task : y # x => task'[y] = task[y]
    BY <1>1, <1>t DEF AddForm
  <2>6. task'[x] = f /\ ~f.terminate /\ x \notin alive /\ alive' = alive \cup {x}
    BY <1>1, <1>t DEF AddForm
  <2>7. \A s \in Thread :
        /\ pc'[s] \in {"insert", "map", "stop"} => arg'[s] \in Task
        /\ pc'[s] \in {"run", "stop"} => s = Owner
        /\ pc'[s] = "insert" => arg'[s] \in alive' /\ ~task'[arg'[s]].terminate
        /\ pc'[s] # "idle" /\ s # Owner => usage'.others # {}
    BY <1>0, <1>u, <2>1, <2>3, <2>4, <2>5, <2>6 DEF CallsSound
  <2>8. Pending' = Pending \cup {t}
    BY <2>3, <2>4 DEF Pending
  <2>9. \A s, u \in Pending' : arg'[s] = arg'[u] => s = u
    BY <1>0, <2>2, <2>3, <2>4, <2>8 DEF CallsSound, Pending
  <2>10. pc'[Owner] # "run" => eq' = <<>> /\ newTask' = <<>>
    BY <1>0, <1>1, <1>o, <2>3 DEF CallsSound, AddForm
  <2>11. pc'[Owner] = "stop" => MayStop' /\ arg'[Owner] \in Elements(queue)'
    BY <1>0, <1>1, <1>o, <1>u, <2>3, <2>4
       DEF CallsSound, AddForm, MayStop, Elements
  <2> QED
    BY <2>7, <2>9, <2>10, <2>11 DEF CallsSound
<1>2. ASSUME NEW t \in Thread, NEW p \in 0..Len(queue), InsertForm(t, p)
      PROVE  CallsSound'
  <2>1. arg[t] \in Task
    BY <1>0, <1>2 DEF CallsSound, InsertForm
  <2>2. Elements(queue') = Elements(queue) \cup {arg[t]}
    <3>1. Elements(Inserted(queue, arg[t], p)) = Elements(queue) \cup {arg[t]}
      BY <1>t, <2>1, InsertedElements
    <3> QED
      BY <3>1, <1>2 DEF InsertForm
  <2>3. \A s \in Thread : s # t => pc'[s] = pc[s]
    BY <1>2, <1>t DEF InsertForm
  <2>4. pc'[t] = "map" /\ pc[t] = "insert"
    BY <1>2, <1>t DEF InsertForm
  <2>5. Pending' \subseteq Pending
    BY <2>3, <2>4 DEF Pending
  <2>6. UNCHANGED <<usage, task, alive, arg, eq, newTask>>
    BY <1>2 DEF InsertForm
  <2>7. MayStop' = MayStop
    BY <2>6 DEF MayStop
  <2>8. pc'[Owner] = "stop" => MayStop' /\ arg'[Owner] \in Elements(queue')
    BY <1>0, <1>o, <2>2, <2>3, <2>4, <2>6, <2>7 DEF CallsSound
  <2>9. pc'[Owner] # "run" => eq' = <<>> /\ newTask' = <<>>
    BY <1>0, <1>o, <2>3, <2>4, <2>6 DEF CallsSound
  <2>10. \A s \in Thread :
        /\ pc'[s] \in {"insert", "map", "stop"} => arg'[s] \in Task
        /\ pc'[s] \in {"run", "stop"} => s = Owner
        /\ pc'[s] = "insert" => arg'[s] \in alive' /\ ~task'[arg'[s]].terminate
        /\ pc'[s] # "idle" /\ s # Owner => usage'.others # {}
    BY <1>0, <2>3, <2>4, <2>6 DEF CallsSound
  <2> QED
    BY <1>0, <2>5, <2>6, <2>8, <2>9, <2>10 DEF CallsSound, Elements
<1>3. ASSUME NEW t \in Thread, AddToMap(t) PROVE CallsSound'
  <2>1. \A s \in Thread : s # t => pc'[s] = pc[s] /\ arg'[s] = arg[s]
    BY <1>3, <1>t DEF AddToMap, Goto
  <2>2. pc'[t] = "idle" /\ pc[t] = "map"
    BY <1>3, <1>t DEF AddToMap, Goto
  <2>3. UNCHANGED <<usage, task, alive, queue, eq, newTask>>
    BY <1>3 DEF AddToMap, processVars
  <2>4. Pending' = Pending
    BY <2>1, <2>2 DEF Pending
  <2>5. MayStop' = MayStop /\ Elements(queue)' = Elements(queue)
    BY <2>3 DEF MayStop, Elements
  <2>6. \A s \in Thread :
        /\ pc'[s] \in {"insert", "map", "stop"} => arg'[s] \in Task
        /\ pc'[s] \in {"run", "stop"} => s = Owner
        /\ pc'[s] = "insert" => arg'[s] \in alive' /\ ~task'[arg'[s]].terminate
        /\ pc'[s] # "idle" /\ s # Owner => usage'.others # {}
    BY <1>0, <2>1, <2>2, <2>3 DEF CallsSound
  <2>7. \A s, u \in Pending' : arg'[s] = arg'[u] => s = u
    BY <1>0, <2>1, <2>2, <2>4 DEF CallsSound, Pending
  <2>8. pc'[Owner] # "run" => eq' = <<>> /\ newTask' = <<>>
    BY <1>0, <1>o, <2>1, <2>2, <2>3 DEF CallsSound
  <2>9. pc'[Owner] = "stop" => MayStop' /\ arg'[Owner] \in Elements(queue)'
    BY <1>0, <1>o, <2>1, <2>2, <2>5 DEF CallsSound
  <2> QED
    BY <2>6, <2>7, <2>8, <2>9 DEF CallsSound
<1>4. ASSUME NEW t \in Thread, Stop(t) PROVE CallsSound'
  <2>0. PICK entry \in tasks : arg' = [arg EXCEPT ![t] = entry[2]]
    BY <1>4 DEF Stop
  <2>1. \A s \in Thread : s # t => pc'[s] = pc[s] /\ arg'[s] = arg[s]
    BY <1>4, <1>t, <2>0 DEF Stop, Goto
  <2>2. pc'[t] = "stop" /\ pc[t] = "idle" /\ arg'[t] = entry[2] /\ entry[2] \in Task
    BY <1>4, <1>t, <2>0 DEF Stop, Goto
  <2>3. UNCHANGED <<usage, task, alive, queue, eq, newTask>>
    BY <1>4 DEF Stop, processVars, timerVars
  <2>4. MayStop /\ usage.others = {}
    BY <1>4, <1>m DEF Stop, Calls, MayStop
  <2>5. t = Owner
    BY <1>4, <2>4 DEF Stop, Calls
  <2>6. entry[2] \in Elements(queue)
    <3>1. \A s \in Thread : s # Owner => pc[s] = "idle"
      BY <1>0, <2>4 DEF CallsSound
    <3>2. Entering = {} /\ Pending = {}
      BY <3>1, <2>2, <2>5 DEF Entering, Pending
    <3>3. "once" \notin usage.others
      BY <2>4
    <3>4. tasks = {<<task[x].id, x>> : x \in alive \ {arg[s] : s \in Entering}}
      BY <3>3 DEF TimerInv, MapSound
    <3>5. entry[2] \in alive
      BY <3>4
    <3>6. eq = <<>> /\ newTask = <<>>
      BY <1>0, <2>2, <2>5 DEF CallsSound
    <3>7. Elements(eq) = {} /\ Elements(newTask) = {}
      BY <3>6 DEF Elements
    <3>8. Elements(queue) = alive
      BY <1>0, <3>2, <3>7 DEF PlacesSound
    <3> QED
      BY <3>5, <3>8
  <2>7. Pending' = Pending
    BY <2>1, <2>2 DEF Pending
  <2>8. MayStop' = MayStop /\ Elements(queue)' = Elements(queue)
    BY <2>3 DEF MayStop, Elements
  <2>9. \A s \in Thread :
        /\ pc'[s] \in {"insert", "map", "stop"} => arg'[s] \in Task
        /\ pc'[s] \in {"run", "stop"} => s = Owner
        /\ pc'[s] = "insert" => arg'[s] \in alive' /\ ~task'[arg'[s]].terminate
        /\ pc'[s] # "idle" /\ s # Owner => usage'.others # {}
    BY <1>0, <2>1, <2>2, <2>3, <2>5 DEF CallsSound
  <2>10. \A s, u \in Pending' : arg'[s] = arg'[u] => s = u
    BY <1>0, <2>1, <2>2, <2>7 DEF CallsSound, Pending
  <2>11. pc'[Owner] # "run" => eq' = <<>> /\ newTask' = <<>>
    BY <1>0, <2>2, <2>3, <2>5 DEF CallsSound
  <2>12. MayStop' /\ arg'[Owner] \in Elements(queue)'
    BY <2>2, <2>4, <2>5, <2>6, <2>8
  <2> QED
    BY <2>9, <2>10, <2>11, <2>12 DEF CallsSound
<1>5. ASSUME NEW k \in 1..Len(queue), StopForm(k) PROVE CallsSound'
  <2>1. PICK x \in Task : x = queue[k]
    BY <1>t
  <2>2. x \in Elements(queue)
    BY <2>1 DEF Elements
  <2>3. \A s \in Pending : arg[s] # x
    BY <1>0, <2>2, ListedTasks
  <2>4. \A s \in Thread : s # Owner => pc'[s] = pc[s] /\ arg'[s] = arg[s]
    BY <1>5, <1>t, <1>o DEF StopForm
  <2>5. pc'[Owner] = "idle" /\ pc[Owner] = "stop"
    BY <1>5, <1>t, <1>o DEF StopForm
  <2>6. UNCHANGED <<usage, alive, eq, newTask>>
    BY <1>5 DEF StopForm
  <2>7. \A y \in Task : y # x => task'[y] = task[y]
    BY <1>5, <1>t, <2>1 DEF StopForm
  <2>8. Pending' = Pending /\ Owner \notin Pending
    BY <2>4, <2>5 DEF Pending
  <2>9. \A s \in Thread :
        /\ pc'[s] \in {"insert", "map", "stop"} => arg'[s] \in Task
        /\ pc'[s] \in {"run", "stop"} => s = Owner
        /\ pc'[s] # "idle" /\ s # Owner => usage'.others # {}
    BY <1>0, <2>4, <2>5, <2>6 DEF CallsSound
  <2>10. \A s \in Thread :
        pc'[s] = "insert" => arg'[s] \in alive' /\ ~task'[arg'[s]].terminate
    <3>1. SUFFICES ASSUME NEW s \in Thread, pc'[s] = "insert"
                   PROVE  arg'[s] \in alive' /\ ~task'[arg'[s]].terminate
      OBVIOUS
    <3>2. s # Owner /\ pc[s] = "insert" /\ arg'[s] = arg[s]
      BY <3>1, <2>4, <2>5
    <3>3. arg[s] # x
      BY <3>2, <2>3 DEF Pending
    <3>4. arg[s] \in alive /\ arg[s] \in Task /\ ~task[arg[s]].terminate
      BY <1>0, <3>2 DEF CallsSound
    <3> QED
      BY <3>2, <3>3, <3>4, <2>6, <2>7
  <2>11. \A s, u \in Pending' : arg'[s] = arg'[u] => s = u
    BY <1>0, <2>4, <2>8 DEF CallsSound, Pending
  <2>12. eq' = <<>> /\ newTask' = <<>>
    BY <1>0, <2>5, <2>6 DEF CallsSound
  <2> QED
    BY <2>5, <2>9, <2>10, <2>11, <2>12 DEF CallsSound
<1>6. ASSUME NEW p \in 0..Len(queue), TakeForm(p) PROVE CallsSound'
  <2>1. \A s \in Thread : s # Owner => pc'[s] = pc[s]
    BY <1>6, <1>t, <1>o DEF TakeForm
  <2>2. pc'[Owner] = "run" /\ pc[Owner] = "idle"
    BY <1>6, <1>t, <1>o DEF TakeForm
  <2>3. UNCHANGED <<usage, task, alive, arg>>
    BY <1>6 DEF TakeForm
  <2>4. Pending' = Pending
    BY <2>1, <2>2 DEF Pending
  <2>5. \A s \in Thread :
        /\ pc'[s] \in {"insert", "map", "stop"} => arg'[s] \in Task
        /\ pc'[s] \in {"run", "stop"} => s = Owner
        /\ pc'[s] = "insert" => arg'[s] \in alive' /\ ~task'[arg'[s]].terminate
        /\ pc'[s] # "idle" /\ s # Owner => usage'.others # {}
    BY <1>0, <2>1, <2>2, <2>3 DEF CallsSound
  <2> QED
    BY <1>0, <2>2, <2>3, <2>4, <2>5 DEF CallsSound
<1>7. ASSUME NEW x \in Task, DeleteForm(x) PROVE CallsSound'
  <2>1. x \in Elements(eq)
    BY <1>0, <1>7, <1>t, HeadListed DEF DeleteForm
  <2>2. \A s \in Pending : arg[s] # x
    BY <1>0, <2>1, ListedTasks
  <2>3. \A y \in Task : y # x => task'[y] = task[y]
    BY <1>7, <1>t DEF DeleteForm
  <2>4. UNCHANGED <<usage, pc, arg, queue>> /\ alive' = alive \ {x}
        /\ pc[Owner] = "run"
    BY <1>7 DEF DeleteForm
  <2>5. Pending' = Pending
    BY <2>4 DEF Pending
  <2>6. \A s \in Thread :
        /\ pc'[s] \in {"insert", "map", "stop"} => arg'[s] \in Task
        /\ pc'[s] \in {"run", "stop"} => s = Owner
        /\ pc'[s] # "idle" /\ s # Owner => usage'.others # {}
    BY <1>0, <2>4 DEF CallsSound
  <2>7. \A s \in Thread :
        pc'[s] = "insert" => arg'[s] \in alive' /\ ~task'[arg'[s]].terminate
    BY <1>0, <2>2, <2>3, <2>4 DEF CallsSound, Pending
  <2> QED
    BY <1>0, <2>4, <2>5, <2>6, <2>7 DEF CallsSound
<1>8. ASSUME NEW x \in Task, RepeatForm(x) PROVE CallsSound'
  <2>1. UNCHANGED <<usage, pc, arg, alive>> /\ pc[Owner] = "run"
    BY <1>8 DEF RepeatForm
  <2>2. \A y \in Task : task'[y].terminate = task[y].terminate
    BY <1>8, <1>t DEF RepeatForm, Fields
  <2>3. Pending' = Pending
    BY <2>1 DEF Pending
  <2>4. \A s \in Thread :
        /\ pc'[s] \in {"insert", "map", "stop"} => arg'[s] \in Task
        /\ pc'[s] \in {"run", "stop"} => s = Owner
        /\ pc'[s] = "insert" => arg'[s] \in alive' /\ ~task'[arg'[s]].terminate
        /\ pc'[s] # "idle" /\ s # Owner => usage'.others # {}
    BY <1>0, <2>1, <2>2 DEF CallsSound
  <2> QED
    BY <1>0, <2>1, <2>3, <2>4 DEF CallsSound
<1>9. ASSUME NEW x \in Task, NEW p \in 0..Len(queue), ReinsertForm(x, p)
      PROVE  CallsSound'
  <2>1. UNCHANGED <<usage, pc, arg, alive, task>> /\ pc[Owner] = "run"
    BY <1>9 DEF ReinsertForm
  <2>2. Pending' = Pending
    BY <2>1 DEF Pending
  <2> QED
    BY <1>0, <2>1, <2>2 DEF CallsSound
<1>10. ASSUME ProcessEnd PROVE CallsSound'
  <2>1. \A s \in Thread : s # Owner => pc'[s] = pc[s]
    BY <1>10, <1>t, <1>o DEF ProcessEnd, Goto
  <2>2. pc'[Owner] = "idle" /\ pc[Owner] = "run"
    BY <1>10, <1>t, <1>o DEF ProcessEnd, Goto
  <2>3. UNCHANGED <<usage, task, alive, arg>> /\ eq' = <<>> /\ newTask' = <<>>
    BY <1>10 DEF ProcessEnd, timerVars
  <2>4. Pending' = Pending
    BY <2>1, <2>2 DEF Pending
  <2>5. \A s \in Thread :
        /\ pc'[s] \in {"insert", "map", "stop"} => arg'[s] \in Task
        /\ pc'[s] \in {"run", "stop"} => s = Owner
        /\ pc'[s] = "insert" => arg'[s] \in alive' /\ ~task'[arg'[s]].terminate
        /\ pc'[s] # "idle" /\ s # Owner => usage'.others # {}
    BY <1>0, <2>1, <2>2, <2>3 DEF CallsSound
  <2> QED
    BY <1>0, <2>2, <2>3, <2>4, <2>5 DEF CallsSound
<1>11. ASSUME UNCHANGED <<usage, timerVars, pc, arg, eq, newTask>>
       PROVE  CallsSound'
  BY <1>11, <1>0 DEF CallsSound, timerVars, Pending, MayStop, Elements
<1> QED
  BY <1>1, <1>2, <1>3, <1>4, <1>5, <1>6, <1>7, <1>8, <1>9, <1>10, <1>11
     DEF TimerStep, Tick, vars, processVars

-----------------------------------------------------------------------------
(* The order of the queue.                                                   *)
Clean(f, q) == \A i \in 1..Len(q) : ~f[q[i]].terminate
Sorted(f, q) == \A i, j \in 1..Len(q) : i < j => f[q[i]].start <= f[q[j]].start

(* A list that is sorted stays so when a task is put where a search for it   *)
(* ends.                                                                     *)
LEMMA InsertSorted ==
    ASSUME NEW f \in [Task -> Fields], NEW q \in Seq(Task), NEW x \in Task,
           NEW p \in 0..Len(q), Clean(f, q), Sorted(f, q), ~f[x].terminate,
           p > 0 => ~Less(f[x], f[q[p]]),
           p < Len(q) => Less(f[x], f[q[p + 1]])
    PROVE  Clean(f, Inserted(q, x, p)) /\ Sorted(f, Inserted(q, x, p))
<1>0. Len(q) \in Nat
  OBVIOUS
<1>1. PICK r : r = Inserted(q, x, p)
  OBVIOUS
<1>i. r \in Seq(Task) /\ IsInserted(r, q, x, p)
  BY <1>1, InsertedIs
<1>2. /\ Len(r) = Len(q) + 1
      /\ \A i \in 1..p : r[i] = q[i]
      /\ r[p + 1] = x
      /\ \A i \in (p + 2)..(Len(q) + 1) : r[i] = q[i - 1]
  BY <1>i DEF IsInserted
<1>3. \A i \in 1..Len(q) : f[q[i]].start \in Nat /\ ~f[q[i]].terminate
  <2>1. \A i \in 1..Len(q) : q[i] \in Task
    OBVIOUS
  <2>2. \A y \in Task : f[y].start \in Nat
    BY DEF Fields
  <2> QED
    BY <2>1, <2>2 DEF Clean
<1>4. f[x].start \in Nat
  BY DEF Fields
<1>5. \A i \in 1..p : f[q[i]].start <= f[x].start
  <2>1. TAKE i \in 1..p
  <2>2. p > 0 /\ p \in 1..Len(q) /\ i \in 1..Len(q) /\ (i = p \/ i < p)
    BY <1>0
  <2>3. ~Less(f[x], f[q[p]])
    BY <2>2
  <2>4. ~(f[x].start < f[q[p]].start)
    BY <2>3 DEF Less
  <2>5. f[q[i]].start <= f[q[p]].start
    BY <2>2, <1>3 DEF Sorted
  <2> QED
    BY <2>2, <2>4, <2>5, <1>3, <1>4
<1>6. \A i \in (p + 1)..Len(q) : f[x].start <= f[q[i]].start
  <2>1. TAKE i \in (p + 1)..Len(q)
  <2>2. p < Len(q) /\ p + 1 \in 1..Len(q) /\ i \in 1..Len(q) /\ (i = p + 1 \/ p + 1 < i)
    BY <1>0
  <2>3. Less(f[x], f[q[p + 1]])
    BY <2>2
  <2>4. f[x].start < f[q[p + 1]].start
    BY <2>3 DEF Less
  <2>5. f[q[p + 1]].start <= f[q[i]].start
    BY <2>2, <1>3 DEF Sorted
  <2> QED
    BY <2>2, <2>4, <2>5, <1>3, <1>4
<1>7. \A i \in 1..Len(r) : i \in 1..p \/ i = p + 1 \/ i \in (p + 2)..(Len(q) + 1)
  BY <1>0, <1>2
<1>8. \A i \in (p + 2)..(Len(q) + 1) : i - 1 \in 1..Len(q) /\ i - 1 \in (p + 1)..Len(q)
  BY <1>0
<1>9. \A i \in 1..p : i \in 1..Len(q)
  BY <1>0
<1>10. Clean(f, r)
  BY <1>2, <1>3, <1>7, <1>8, <1>9 DEF Clean
<1>11. ASSUME NEW i \in 1..Len(r), NEW j \in 1..Len(r), i < j
       PROVE  f[r[i]].start <= f[r[j]].start
  <2>1. CASE i \in 1..p /\ j \in 1..p
    <3>1. r[i] = q[i] /\ r[j] = q[j] /\ i \in 1..Len(q) /\ j \in 1..Len(q)
      BY <2>1, <1>2, <1>9
    <3> QED
      BY <3>1, <1>11 DEF Sorted
  <2>2. CASE i \in 1..p /\ j = p + 1
    BY <2>2, <1>2, <1>5
  <2>3. CASE i \in 1..p /\ j \in (p + 2)..(Len(q) + 1)
    <3>1. r[i] = q[i] /\ r[j] = q[j - 1] /\ i \in 1..Len(q) /\ j - 1 \in 1..Len(q)
      BY <2>3, <1>2, <1>8, <1>9
    <3>2. i < j - 1
      BY <2>3, <1>0
    <3> QED
      BY <3>1, <3>2 DEF Sorted
  <2>4. CASE i = p + 1 /\ j \in (p + 2)..(Len(q) + 1)
    <3>1. r[i] = x /\ r[j] = q[j - 1] /\ j - 1 \in (p + 1)..Len(q)
      BY <2>4, <1>2, <1>8
    <3> QED
      BY <3>1, <1>6
  <2>5. CASE i \in (p + 2)..(Len(q) + 1) /\ j \in (p + 2)..(Len(q) + 1)
    <3>1. r[i] = q[i - 1] /\ r[j] = q[j - 1]
          /\ i - 1 \in 1..Len(q) /\ j - 1 \in 1..Len(q) /\ i - 1 < j - 1
      BY <2>5, <1>2, <1>8, <1>11
    <3> QED
      BY <3>1 DEF Sorted
  <2> QED
    BY <2>1, <2>2, <2>3, <2>4, <2>5, <1>7, <1>11, <1>0
<1>12. Sorted(f, r)
  BY <1>11 DEF Sorted
<1> QED
  BY <1>1, <1>10, <1>12

(* Order and marks are those of the tasks in the list.                       *)
LEMMA SameOrder ==
    ASSUME NEW f, NEW g, NEW q,
           \A y \in Elements(q) : f[y] = g[y],
           Clean(f, q), Sorted(f, q)
    PROVE  Clean(g, q) /\ Sorted(g, q)
<1>1. \A i \in 1..Len(q) : f[q[i]] = g[q[i]]
  BY DEF Elements
<1>2. Clean(g, q)
  BY <1>1 DEF Clean
<1>3. Sorted(g, q)
  BY <1>1 DEF Sorted
<1> QED
  BY <1>2, <1>3

(* Unless a stopped task is in front of the queue, which nobody but process  *)
(* meets, the queue is sorted and unmarked.                                  *)
LEMMA QueueIsClean ==
    ASSUME TypeOK, QueueSound, PlacesSound,
           \/ pc[Owner] # "idle"
           \/ ~MayStop
           \/ Unmarked(queue)
    PROVE  Clean(task, queue) /\ Sorted(task, queue)
<1>1. Clean(task, queue)
  <2>1. CASE pc[Owner] # "idle"
    BY <2>1 DEF QueueSound, Clean
  <2>2. CASE ~MayStop
    <3>1. \A i \in 1..Len(queue) : queue[i] \in alive
      BY ListedTasks DEF Elements
    <3> QED
      BY <2>2, <3>1 DEF QueueSound, Clean
  <2>3. CASE Unmarked(queue)
    BY <2>3 DEF Unmarked, Clean
  <2> QED
    BY <2>1, <2>2, <2>3
<1>2. Sorted(task, queue)
  BY <1>1 DEF QueueSound, Sorted, Clean
<1> QED
  BY <1>1, <1>2

(* A step that leaves the queue unmarked and sorted.                         *)
LEMMA CleanIsSound ==
    ASSUME (\A x \in alive : task[x].terminate => MayStop)',
           (\A x \in Elements(newTask) : ~task[x].terminate)',
           Clean(task', queue'), Sorted(task', queue')
    PROVE  QueueSound'
BY DEF QueueSound, Clean, Sorted

LEMMA QueueStep ==
    ASSUME TimerInv, OrderlyUse, TimerStep
    PROVE  QueueSound'
<1>0. TypeOK /\ CallsSound /\ QueueSound /\ PlacesSound
  BY DEF TimerInv
<1>t. /\ task \in [Task -> Fields]
      /\ alive \in SUBSET Task
      /\ queue \in Seq(Task) /\ eq \in Seq(Task) /\ newTask \in Seq(Task)
      /\ pc \in [Thread -> {"idle", "insert", "map", "stop", "run"}]
      /\ arg \in [Thread -> Task \cup {NoTask}]
  BY <1>0 DEF TypeOK
<1>o. Owner \in Thread
  BY DEF Thread
<1>u. usage' = usage /\ MayStop' = MayStop
  BY UsageStays DEF MayStop
<1>m. MayStop => usage.others = {} /\ usage.sweep
  BY <1>0, UseIsOrderly
<1>q. \A y \in Elements(queue) : y \in Task /\ y \in alive
  BY <1>0, ListedTasks
<1>n. \A y \in Elements(newTask) : y \in Task /\ y \in alive
  BY <1>0, ListedTasks
<1>a. /\ \A y \in alive : task[y].terminate => MayStop
      /\ \A y \in Elements(newTask) : ~task[y].terminate
  BY <1>0 DEF QueueSound
<1>1. ASSUME NEW t \in Thread, NEW x \in Task, NEW f \in Fields, AddForm(t, x, f)
      PROVE  QueueSound'
  <2>1. Clean(task, queue) /\ Sorted(task, queue)
    BY <1>0, <1>1, <1>m, QueueIsClean DEF AddForm
  <2>2. /\ task'[x] = f /\ ~f.terminate /\ x \notin alive
        /\ \A y \in Task : y # x => task'[y] = task[y]
        /\ alive' = alive \cup {x} /\ UNCHANGED <<queue, newTask>>
    BY <1>1, <1>t DEF AddForm
  <2>3. \A y \in Elements(queue) : task[y] = task'[y]
    BY <2>2, <1>q
  <2>4. Clean(task', queue) /\ Sorted(task', queue)
    BY <2>1, <2>3, SameOrder
  <2>5. \A y \in alive' : task'[y].terminate => MayStop'
    BY <2>2, <1>a, <1>t, <1>u
  <2>6. \A y \in Elements(newTask') : ~task'[y].terminate
    BY <2>2, <1>a, <1>n
  <2> QED
    BY <2>2, <2>4, <2>5, <2>6, CleanIsSound DEF Elements
<1>2. ASSUME NEW t \in Thread, NEW p \in 0..Len(queue), InsertForm(t, p)
      PROVE  QueueSound'
  <2>1. pc[Owner] # "idle" \/ ~MayStop
    BY <1>0, <1>2, <1>m DEF InsertForm, CallsSound
  <2>2. Clean(task, queue) /\ Sorted(task, queue)
    BY <1>0, <2>1, QueueIsClean
  <2>3. arg[t] \in Task /\ ~task[arg[t]].terminate
    BY <1>0, <1>2 DEF InsertForm, CallsSound
  <2>4. PICK x \in Task : x = arg[t]
    BY <2>3
  <2>5. /\ p > 0 => ~Less(task[x], task[queue[p]])
        /\ p < Len(queue) => Less(task[x], task[queue[p + 1]])
    BY <1>2, <2>4 DEF InsertForm, UpperBound
  <2>6. Clean(task, Inserted(queue, x, p)) /\ Sorted(task, Inserted(queue, x, p))
    BY <1>t, <2>2, <2>3, <2>4, <2>5, InsertSorted
  <2>7. UNCHANGED <<task, alive, newTask>> /\ queue' = Inserted(queue, x, p)
    BY <1>2, <2>4 DEF InsertForm
  <2> QED
    BY <1>a, <1>u, <2>6, <2>7, CleanIsSound DEF Elements
<1>3. ASSUME NEW t \in Thread, AddToMap(t) PROVE QueueSound'
  <2>1. UNCHANGED <<task, alive, queue, newTask>>
    BY <1>3 DEF AddToMap, processVars
  <2>2. pc'[Owner] = pc[Owner] \/ pc'[Owner] = "idle"
    BY <1>3, <1>t, <1>o DEF AddToMap, Goto
  <2> QED
    BY <1>0, <1>u, <2>1, <2>2 DEF QueueSound, Elements
<1>4. ASSUME NEW t \in Thread, Stop(t) PROVE QueueSound'
  <2>1. UNCHANGED <<task, alive, queue, newTask>>
    BY <1>4 DEF Stop, timerVars, processVars
  <2>2. MayStop
    BY <1>4 DEF Stop, Calls, MayStop
  <2>3. Unmarked(queue)
    BY <1>4, <1>m, <2>2 DEF Stop
  <2>4. Clean(task, queue) /\ Sorted(task, queue)
    BY <1>0, <2>3, QueueIsClean
  <2> QED
    BY <1>a, <1>u, <2>1, <2>4, CleanIsSound DEF Elements
<1>5. ASSUME NEW k \in 1..Len(queue), StopForm(k) PROVE QueueSound'
  <2>1. PICK x \in Task : x = queue[k]
    BY <1>t
  <2>2. PICK w \in Seq(Task) : w = Without(queue, k)
    BY <1>t, WithoutIs
  <2>l. Len(queue) \in Nat /\ Len(w) \in Nat
    BY <1>t
  <2>3. /\ Len(w) = Len(queue) - 1
        /\ \A i \in 1..(k - 1) : w[i] = queue[i]
        /\ \A i \in k..(Len(queue) - 1) : w[i] = queue[i + 1]
    BY <1>t, <2>2, WithoutIs
  <2>4. PICK r : r = Inserted(w, x, 0)
    OBVIOUS
  <2>i. r \in Seq(Task) /\ IsInserted(r, w, x, 0)
    <3>1. 0 \in 0..Len(w)
      BY <2>l
    <3> QED
      BY <3>1, <2>4, InsertedIs
  <2>5. /\ Len(r) = Len(w) + 1
        /\ \A i \in 2..(Len(w) + 1) : r[i] = w[i - 1]
        /\ r[1] = x
    BY <2>i DEF IsInserted
  <2>6. /\ queue' = r /\ UNCHANGED <<alive, newTask>> /\ pc'[Owner] = "idle"
        /\ \A y \in Task : y # x => task'[y] = task[y]
        /\ task'[x].start = task[x].start /\ task'[x].terminate = TRUE
    BY <1>5, <1>t, <1>o, <2>1, <2>2, <2>4 DEF StopForm, Fields
  <2>7. Clean(task, queue) /\ Sorted(task, queue) /\ MayStop
    BY <1>0, <1>5, QueueIsClean DEF StopForm, CallsSound
  <2>8. \A i \in 2..Len(r) : \E m \in 1..Len(queue) :
            m # k /\ r[i] = queue[m] /\ m = IF i - 1 < k THEN i - 1 ELSE i
    <3>1. TAKE i \in 2..Len(r)
    <3>2. i \in 2..(Len(w) + 1) /\ r[i] = w[i - 1]
      BY <2>5, <2>l
    <3>3. CASE i - 1 < k
      <4>1. i - 1 \in 1..(k - 1) /\ i - 1 \in 1..Len(queue) /\ i - 1 # k
        BY <3>2, <3>3, <2>3, <2>l
      <4>2. r[i] = queue[i - 1]
        BY <3>2, <4>1, <2>3
      <4> QED
        BY <3>3, <4>1, <4>2
    <3>4. CASE ~(i - 1 < k)
      <4>1. i - 1 \in k..(Len(queue) - 1) /\ i \in 1..Len(queue) /\ i # k
            /\ (i - 1) + 1 = i
        BY <3>2, <3>4, <2>3, <2>l
      <4>2. r[i] = queue[i]
        BY <3>2, <4>1, <2>3
      <4> QED
        BY <3>4, <4>1, <4>2
    <3> QED
      BY <3>3, <3>4
  <2>9. \A m \in 1..Len(queue) : m # k => queue[m] \in Task /\ queue[m] # x
    <3>1. \A m \in 1..Len(queue) : queue[m] \in Task
      BY <1>t
    <3>2. Distinct(queue)
      BY <1>0 DEF PlacesSound
    <3> QED
      BY <3>1, <3>2, <2>1 DEF Distinct
  <2>10. \A i \in 2..Len(r) : task'[r[i]] = task[r[i]] /\ ~task'[r[i]].terminate
    <3>1. TAKE i \in 2..Len(r)
    <3>2. PICK m \in 1..Len(queue) : m # k /\ r[i] = queue[m]
      BY <2>8
    <3>3. task'[r[i]] = task[r[i]]
      BY <3>2, <2>6, <2>9
    <3>4. ~task[r[i]].terminate
      BY <3>2, <2>7 DEF Clean
    <3> QED
      BY <3>3, <3>4
  <2>11. \A i \in 1..Len(r) : task'[r[i]].terminate => i = 1 /\ pc'[Owner] = "idle"
    <3>1. TAKE i \in 1..Len(r)
    <3>2. i = 1 \/ i \in 2..Len(r)
      BY <2>l, <2>5
    <3> QED
      BY <3>2, <2>6, <2>10
  <2>12. ASSUME NEW i \in 1..Len(r), NEW j \in 1..Len(r), i < j,
                ~task'[r[i]].terminate
         PROVE  task'[r[i]].start <= task'[r[j]].start
    <3>1. i # 1
      BY <2>12, <2>5, <2>6
    <3>2. i \in 2..Len(r) /\ j \in 2..Len(r)
      BY <3>1, <2>12, <2>l, <2>5
    <3>3. PICK m \in 1..Len(queue) :
              r[i] = queue[m] /\ m = IF i - 1 < k THEN i - 1 ELSE i
      BY <3>2, <2>8
    <3>4. PICK n \in 1..Len(queue) :
              r[j] = queue[n] /\ n = IF j - 1 < k THEN j - 1 ELSE j
      BY <3>2, <2>8
    <3>5. m < n
      BY <3>3, <3>4, <2>12, <2>l
    <3>6. task[queue[m]].start <= task[queue[n]].start
      BY <3>5, <2>7 DEF Sorted
    <3> QED
      BY <3>2, <3>3, <3>4, <3>6, <2>10
  <2>13. \A y \in alive' : task'[y].terminate => MayStop'
    BY <1>u, <2>7
  <2>14. \A y \in Elements(newTask') : ~task'[y].terminate
    <3>1. x \in Elements(queue)
      BY <2>1 DEF Elements
    <3>2. \A y \in Elements(newTask) : y # x
      BY <1>0, <3>1 DEF PlacesSound
    <3> QED
      BY <3>2, <1>a, <1>n, <2>6
  <2>15. \A i, j \in 1..Len(r) : i < j /\ ~task'[r[i]].terminate =>
             task'[r[i]].start <= task'[r[j]].start
    BY <2>12
  <2> QED
    BY <2>6, <2>11, <2>13, <2>14, <2>15 DEF QueueSound, Elements
<1>6. ASSUME NEW p \in 0..Len(queue), TakeForm(p) PROVE QueueSound'
  <2>1. PICK b \in Seq(Task) : b = SubSeq(queue, p + 1, Len(queue))
    BY <1>t, SplitIs
  <2>2. Len(b) = Len(queue) - p /\ \A i \in 1..(Len(queue) - p) : b[i] = queue[p + i]
    BY <1>t, <2>1, SplitIs
  <2>3. p > 0 /\ Len(queue) \in Nat
    BY <1>6, <1>t DEF TakeForm
  <2>4. \A i \in 1..Len(b) : p + i \in 1..Len(queue) /\ p + i # 1 /\ b[i] = queue[p + i]
    BY <2>2, <2>3
  <2>5. Clean(task, b)
    BY <1>0, <2>4 DEF Clean, QueueSound
  <2>6. Sorted(task, b)
    <3>1. SUFFICES ASSUME NEW i \in 1..Len(b), NEW j \in 1..Len(b), i < j
                   PROVE  task[b[i]].start <= task[b[j]].start
      BY DEF Sorted
    <3>2. p + i \in 1..Len(queue) /\ p + j \in 1..Len(queue) /\ p + i < p + j
          /\ b[i] = queue[p + i] /\ b[j] = queue[p + j] /\ ~task[queue[p + i]].terminate
      <4>1. ~task[b[i]].terminate
        BY <2>5 DEF Clean
      <4> QED
        BY <4>1, <3>1, <2>3, <2>4
    <3> QED
      BY <1>0, <3>2 DEF QueueSound
  <2>7. UNCHANGED <<task, alive>> /\ queue' = b /\ newTask' = <<>>
    BY <1>6, <2>1 DEF TakeForm
  <2>8. Elements(newTask') = {}
    BY <2>7 DEF Elements
  <2> QED
    BY <1>a, <1>u, <2>5, <2>6, <2>7, <2>8, CleanIsSound DEF Elements
<1>7. ASSUME NEW x \in Task, DeleteForm(x) PROVE QueueSound'
  <2>1. x \in Elements(eq)
    BY <1>0, <1>7, <1>t, HeadListed DEF DeleteForm
  <2>2. x \notin Elements(queue) /\ x \notin Elements(newTask)
    BY <1>0, <2>1 DEF PlacesSound
  <2>3. /\ \A y \in Task : y # x => task'[y] = task[y]
        /\ alive' = alive \ {x} /\ UNCHANGED <<queue, newTask>>
        /\ pc[Owner] = "run"
    BY <1>7, <1>t DEF DeleteForm
  <2>4. Clean(task, queue) /\ Sorted(task, queue)
    BY <1>0, <2>3, QueueIsClean
  <2>5. \A y \in Elements(queue) : task[y] = task'[y]
    BY <2>2, <2>3, <1>q
  <2>6. Clean(task', queue) /\ Sorted(task', queue)
    BY <2>4, <2>5, SameOrder
  <2>7. \A y \in alive' : task'[y].terminate => MayStop'
    BY <2>3, <1>a, <1>t, <1>u
  <2>8. \A y \in Elements(newTask') : ~task'[y].terminate
    BY <2>2, <2>3, <1>a, <1>n
  <2> QED
    BY <2>3, <2>6, <2>7, <2>8, CleanIsSound DEF Elements
<1>8. ASSUME NEW x \in Task, RepeatForm(x) PROVE QueueSound'
  <2>1. x \in Elements(eq)
    BY <1>0, <1>8, <1>t, HeadListed DEF RepeatForm
  <2>2. x \notin Elements(queue)
    BY <1>0, <2>1 DEF PlacesSound
  <2>3. /\ \A y \in Task : y # x => task'[y] = task[y]
        /\ ~task[x].terminate /\ task'[x].terminate = task[x].terminate
        /\ UNCHANGED <<alive, queue>> /\ newTask' = Append(newTask, x)
        /\ pc[Owner] = "run"
    BY <1>8, <1>t DEF RepeatForm, Fields
  <2>4. Clean(task, queue) /\ Sorted(task, queue)
    BY <1>0, <2>3, QueueIsClean
  <2>5. \A y \in Elements(queue) : task[y] = task'[y]
    BY <2>2, <2>3, <1>q
  <2>6. Clean(task', queue) /\ Sorted(task', queue)
    BY <2>4, <2>5, SameOrder
  <2>7. \A y \in alive' : task'[y].terminate => MayStop'
    BY <2>3, <1>a, <1>t, <1>u
  <2>8. Elements(newTask') = Elements(newTask) \cup {x}
    BY <2>3, <1>t, AppendElements
  <2>9. \A y \in Elements(newTask') : ~task'[y].terminate
    BY <2>3, <2>8, <1>a, <1>n
  <2> QED
    BY <2>3, <2>6, <2>7, <2>9, CleanIsSound DEF Elements
<1>9. ASSUME NEW x \in Task, NEW p \in 0..Len(queue), ReinsertForm(x, p)
      PROVE  QueueSound'
  <2>1. x \in Elements(newTask)
    BY <1>0, <1>9, <1>t, HeadListed DEF ReinsertForm
  <2>2. Clean(task, queue) /\ Sorted(task, queue)
    BY <1>0, <1>9, QueueIsClean DEF ReinsertForm
  <2>3. /\ p > 0 => ~Less(task[x], task[queue[p]])
        /\ p < Len(queue) => Less(task[x], task[queue[p + 1]])
    BY <1>9 DEF ReinsertForm, UpperBound
  <2>4. Clean(task, Inserted(queue, x, p)) /\ Sorted(task, Inserted(queue, x, p))
    BY <1>a, <1>t, <2>1, <2>2, <2>3, InsertSorted
  <2>5. UNCHANGED <<task, alive>> /\ queue' = Inserted(queue, x, p)
        /\ newTask' = Tail(newTask) /\ newTask # <<>>
    BY <1>9 DEF ReinsertForm
  <2>6. Elements(Tail(newTask)) \subseteq Elements(newTask)
    <3>1. Distinct(newTask)
      BY <1>0 DEF PlacesSound
    <3> QED
      BY <3>1, <2>5, <1>t, TailElements
  <2>7. \A y \in Elements(newTask') : ~task'[y].terminate
    BY <2>5, <2>6, <1>a
  <2> QED
    BY <1>a, <1>u, <2>4, <2>5, <2>7, CleanIsSound DEF Elements
<1>10. ASSUME ProcessEnd PROVE QueueSound'
  <2>1. UNCHANGED <<task, alive, queue, newTask>> /\ pc[Owner] = "run"
    BY <1>10 DEF ProcessEnd, timerVars
  <2>2. Clean(task, queue) /\ Sorted(task, queue)
    BY <1>0, <2>1, QueueIsClean
  <2> QED
    BY <1>a, <1>u, <2>1, <2>2, CleanIsSound DEF Elements
<1>11. ASSUME UNCHANGED <<usage, timerVars, pc, arg, eq, newTask>>
       PROVE  QueueSound'
  BY <1>11, <1>0 DEF QueueSound, timerVars, MayStop, Elements
<1> QED
  BY <1>1, <1>2, <1>3, <1>4, <1>5, <1>6, <1>7, <1>8, <1>9, <1>10, <1>11
     DEF TimerStep, Tick, vars, processVars

-----------------------------------------------------------------------------
(* Every task object is in one place.                                        *)

(* PlacesSound of the next state, from what the step does to the elements of *)
(* each list and to who is about to insert.                                  *)
LEMMA PlacesStep ==
    ASSUME TimerInv, OrderlyUse, TimerStep
    PROVE  PlacesSound'
<1>0. TypeOK /\ CallsSound /\ PlacesSound
  BY DEF TimerInv
<1>t. /\ task \in [Task -> Fields]
      /\ alive \in SUBSET Task
      /\ queue \in Seq(Task) /\ eq \in Seq(Task) /\ newTask \in Seq(Task)
      /\ pc \in [Thread -> {"idle", "insert", "map", "stop", "run"}]
      /\ arg \in [Thread -> Task \cup {NoTask}]
  BY <1>0 DEF TypeOK
<1>o. Owner \in Thread
  BY DEF Thread
<1> DEFINE Q == Elements(queue)
           E == Elements(eq)
           N == Elements(newTask)
           P == {arg[t] : t \in Pending}
<1>p. /\ Distinct(queue) /\ Distinct(eq) /\ Distinct(newTask)
      /\ Q \cap E = {} /\ Q \cap N = {} /\ E \cap N = {}
      /\ Q \cup E \cup N = alive \ P
  BY <1>0 DEF PlacesSound
<1>e. Elements(<<>>) = {} /\ Distinct(<<>>)
  BY DEF Elements, Distinct
<1>1. ASSUME NEW t \in Thread, NEW x \in Task, NEW f \in Fields, AddForm(t, x, f)
      PROVE  PlacesSound'
  <2>1. \A s \in Thread : s # t => pc'[s] = pc[s] /\ arg'[s] = arg[s]
    BY <1>1, <1>t DEF AddForm
  <2>2. pc'[t] = "insert" /\ arg'[t] = x /\ pc[t] = "idle"
    BY <1>1, <1>t DEF AddForm
  <2>3. Pending' = Pending \cup {t} /\ t \notin Pending
    BY <2>1, <2>2 DEF Pending
  <2>4. {arg'[s] : s \in Pending'} = P \cup {x}
    BY <2>1, <2>2, <2>3 DEF Pending
  <2>5. UNCHANGED <<queue, eq, newTask>> /\ alive' = alive \cup {x} /\ x \notin alive
    BY <1>1 DEF AddForm
  <2>6. Q \cup E \cup N = alive' \ {arg'[s] : s \in Pending'}
    BY <1>p, <2>4, <2>5
  <2> QED
    BY <1>p, <2>5, <2>6 DEF PlacesSound
<1>2. ASSUME NEW t \in Thread, NEW p \in 0..Len(queue), InsertForm(t, p)
      PROVE  PlacesSound'
  <2>1. t \in Pending /\ arg[t] \in Task /\ arg[t] \in alive
    BY <1>0, <1>2 DEF InsertForm, CallsSound, Pending
  <2>2. PICK x \in Task : x = arg[t]
    BY <2>1
  <2>3. x \notin Q \cup E \cup N
    BY <1>p, <2>1, <2>2
  <2>4. \A s \in Thread : s # t => pc'[s] = pc[s]
    BY <1>2, <1>t DEF InsertForm
  <2>5. pc'[t] = "map"
    BY <1>2, <1>t DEF InsertForm
  <2>6. Pending' = Pending \ {t}
    BY <2>4, <2>5 DEF Pending
  <2>7. \A s \in Pending : arg[s] = x => s = t
    BY <1>0, <2>1, <2>2 DEF CallsSound
  <2>8. UNCHANGED <<arg, alive, eq, newTask>> /\ queue' = Inserted(queue, x, p)
    BY <1>2, <2>2 DEF InsertForm
  <2>9. {arg'[s] : s \in Pending'} = P \ {x}
    BY <2>6, <2>7, <2>8, <2>1, <2>2
  <2>10. PICK r : r = Inserted(queue, x, p)
    OBVIOUS
  <2>11. Elements(r) = Q \cup {x} /\ Distinct(r)
    BY <1>p, <1>t, <2>3, <2>10, InsertedElements
  <2>12. Elements(r) \cup E \cup N = alive \ (P \ {x})
    BY <1>p, <2>11, <2>1, <2>2
  <2>13. Elements(r) \cap E = {} /\ Elements(r) \cap N = {}
    BY <1>p, <2>3, <2>11
  <2> QED
    BY <1>p, <2>8, <2>9, <2>10, <2>11, <2>12, <2>13 DEF PlacesSound
<1>3. ASSUME NEW t \in Thread, AddToMap(t) PROVE PlacesSound'
  <2>1. \A s \in Thread : s # t => pc'[s] = pc[s] /\ arg'[s] = arg[s]
    BY <1>3, <1>t DEF AddToMap, Goto
  <2>2. pc'[t] = "idle" /\ pc[t] = "map"
    BY <1>3, <1>t DEF AddToMap, Goto
  <2>3. Pending' = Pending /\ {arg'[s] : s \in Pending'} = P
    BY <2>1, <2>2 DEF Pending
  <2>4. UNCHANGED <<alive, queue, eq, newTask>>
    BY <1>3 DEF AddToMap, processVars
  <2> QED
    BY <1>p, <2>3, <2>4 DEF PlacesSound
<1>4. ASSUME NEW t \in Thread, Stop(t) PROVE PlacesSound'
  <2>0. PICK entry \in tasks : arg' = [arg EXCEPT ![t] = entry[2]]
    BY <1>4 DEF Stop
  <2>1. \A s \in Thread : s # t => pc'[s] = pc[s] /\ arg'[s] = arg[s]
    BY <1>4, <1>t, <2>0 DEF Stop, Goto
  <2>2. pc'[t] = "stop" /\ pc[t] = "idle"
    BY <1>4, <1>t DEF Stop, Goto
  <2>3. Pending' = Pending /\ {arg'[s] : s \in Pending'} = P
    BY <2>1, <2>2 DEF Pending
  <2>4. UNCHANGED <<alive, queue, eq, newTask>>
    BY <1>4 DEF Stop, processVars, timerVars
  <2> QED
    BY <1>p, <2>3, <2>4 DEF PlacesSound
<1>5. ASSUME NEW k \in 1..Len(queue), StopForm(k) PROVE PlacesSound'
  <2>1. PICK x \in Task : x = queue[k]
    BY <1>t
  <2>2. PICK w \in Seq(Task) : w = Without(queue, k)
    BY <1>t, WithoutIs
  <2>3. Elements(w) = Q \ {x} /\ Distinct(w) /\ x \in Q
    <3>1. Elements(w) = Q \ {x} /\ Distinct(w)
      BY <1>p, <1>t, <2>1, <2>2, WithoutElements
    <3>2. x \in Q
      BY <2>1 DEF Elements
    <3> QED
      BY <3>1, <3>2
  <2>4. PICK r : r = Inserted(w, x, 0)
    OBVIOUS
  <2>5. Elements(r) = Q /\ Distinct(r)
    <3>1. 0 \in 0..Len(w)
      OBVIOUS
    <3>2. Elements(r) = Elements(w) \cup {x} /\ Distinct(r)
      BY <3>1, <2>3, <2>4, InsertedElements
    <3> QED
      BY <3>2, <2>3
  <2>6. \A s \in Thread : s # Owner => pc'[s] = pc[s] /\ arg'[s] = arg[s]
    BY <1>5, <1>t DEF StopForm
  <2>7. pc'[Owner] = "idle" /\ pc[Owner] = "stop"
    BY <1>5, <1>t, <1>o DEF StopForm
  <2>8. Pending' = Pending /\ {arg'[s] : s \in Pending'} = P
    BY <2>6, <2>7 DEF Pending
  <2>9. UNCHANGED <<alive, eq, newTask>> /\ queue' = r
    BY <1>5, <2>1, <2>2, <2>4 DEF StopForm
  <2> QED
    BY <1>p, <2>5, <2>8, <2>9 DEF PlacesSound
<1>6. ASSUME NEW p \in 0..Len(queue), TakeForm(p) PROVE PlacesSound'
  <2>1. PICK a : a = SubSeq(queue, 1, p)
    OBVIOUS
  <2>2. PICK b : b = SubSeq(queue, p + 1, Len(queue))
    OBVIOUS
  <2>3. Elements(a) \cup Elements(b) = Q /\ Elements(a) \cap Elements(b) = {}
        /\ Distinct(a) /\ Distinct(b)
    BY <1>p, <1>t, <2>1, <2>2, SplitElements
  <2>4. \A s \in Thread : s # Owner => pc'[s] = pc[s]
    BY <1>6, <1>t DEF TakeForm
  <2>5. pc'[Owner] = "run" /\ pc[Owner] = "idle"
    BY <1>6, <1>t, <1>o DEF TakeForm
  <2>6. UNCHANGED <<alive, arg>> /\ queue' = b /\ eq' = a /\ newTask' = <<>>
    BY <1>6, <2>1, <2>2 DEF TakeForm
  <2>7. Pending' = Pending /\ {arg'[s] : s \in Pending'} = P
    BY <2>4, <2>5, <2>6 DEF Pending
  <2>8. E = {} /\ N = {}
    BY <1>0, <1>e, <2>5 DEF CallsSound
  <2>9. Elements(b) \cup Elements(a) \cup {} = alive \ P
    BY <1>p, <2>3, <2>8
  <2> QED
    BY <1>e, <2>3, <2>6, <2>7, <2>9 DEF PlacesSound
<1>7. ASSUME NEW x \in Task, DeleteForm(x) PROVE PlacesSound'
  <2>1. eq # <<>> /\ x = Head(eq) /\ alive' = alive \ {x} /\ eq' = Tail(eq)
        /\ UNCHANGED <<queue, newTask, pc, arg>>
    BY <1>7 DEF DeleteForm
  <2>2. PICK e \in Seq(Task) : e = Tail(eq)
    BY <1>t, <2>1, HeadTailProperties
  <2>3. Elements(e) = E \ {x} /\ Distinct(e) /\ x \in E
    BY <1>p, <1>t, <2>1, <2>2, TailElements
  <2>4. Pending' = Pending /\ {arg'[s] : s \in Pending'} = P
    BY <2>1 DEF Pending
  <2>5. Q \cup Elements(e) \cup N = alive' \ P
    BY <1>p, <2>1, <2>3
  <2>6. Q \cap Elements(e) = {} /\ Elements(e) \cap N = {}
    BY <1>p, <2>3
  <2> QED
    BY <1>p, <2>1, <2>2, <2>3, <2>4, <2>5, <2>6 DEF PlacesSound
<1>8. ASSUME NEW x \in Task, RepeatForm(x) PROVE PlacesSound'
  <2>1. eq # <<>> /\ x = Head(eq) /\ eq' = Tail(eq) /\ newTask' = Append(newTask, x)
        /\ UNCHANGED <<alive, queue, pc, arg>>
    BY <1>8 DEF RepeatForm
  <2>2. PICK e \in Seq(Task) : e = Tail(eq)
    BY <1>t, <2>1, HeadTailProperties
  <2>3. Elements(e) = E \ {x} /\ Distinct(e) /\ x \in E
    BY <1>p, <1>t, <2>1, <2>2, TailElements
  <2>4. PICK n \in Seq(Task) : n = Append(newTask, x)
    BY <1>t, AppendProperties
  <2>5. Elements(n) = N \cup {x} /\ Distinct(n)
    BY <1>p, <1>t, <2>3, <2>4, AppendElements
  <2>6. Pending' = Pending /\ {arg'[s] : s \in Pending'} = P
    BY <2>1 DEF Pending
  <2>7. Q \cup Elements(e) \cup Elements(n) = alive \ P
    BY <1>p, <2>3, <2>5
  <2>8. Q \cap Elements(e) = {} /\ Q \cap Elements(n) = {}
        /\ Elements(e) \cap Elements(n) = {}
    BY <1>p, <2>3, <2>5
  <2> QED
    BY <1>p, <2>1, <2>2, <2>3, <2>4, <2>5, <2>6, <2>7, <2>8 DEF PlacesSound
<1>9. ASSUME NEW x \in Task, NEW p \in 0..Len(queue), ReinsertForm(x, p)
      PROVE  PlacesSound'
  <2>1. newTask # <<>> /\ x = Head(newTask) /\ newTask' = Tail(newTask)
        /\ queue' = Inserted(queue, x, p)
        /\ UNCHANGED <<alive, eq, pc, arg>>
    BY <1>9 DEF ReinsertForm
  <2>2. PICK n \in Seq(Task) : n = Tail(newTask)
    BY <1>t, <2>1, HeadTailProperties
  <2>3. Elements(n) = N \ {x} /\ Distinct(n) /\ x \in N
    BY <1>p, <1>t, <2>1, <2>2, TailElements
  <2>4. x \notin Q
    BY <1>p, <2>3
  <2>5. PICK r : r = Inserted(queue, x, p)
    OBVIOUS
  <2>6. Elements(r) = Q \cup {x} /\ Distinct(r)
    BY <1>p, <1>t, <2>4, <2>5, InsertedElements
  <2>7. Pending' = Pending /\ {arg'[s] : s \in Pending'} = P
    BY <2>1 DEF Pending
  <2>8. Elements(r) \cup E \cup Elements(n) = alive \ P
    BY <1>p, <2>3, <2>6
  <2>9. Elements(r) \cap E = {} /\ Elements(r) \cap Elements(n) = {}
        /\ E \cap Elements(n) = {}
    BY <1>p, <2>3, <2>6
  <2> QED
    BY <1>p, <2>1, <2>2, <2>3, <2>5, <2>6, <2>7, <2>8, <2>9 DEF PlacesSound
<1>10. ASSUME ProcessEnd PROVE PlacesSound'
  <2>1. \A s \in Thread : s # Owner => pc'[s] = pc[s]
    BY <1>10, <1>t, <1>o DEF ProcessEnd, Goto
  <2>2. pc'[Owner] = "idle" /\ pc[Owner] = "run"
    BY <1>10, <1>t, <1>o DEF ProcessEnd, Goto
  <2>3. UNCHANGED <<alive, arg, queue, eq, newTask>>
    BY <1>10 DEF ProcessEnd, timerVars
  <2>4. Pending' = Pending /\ {arg'[s] : s \in Pending'} = P
    BY <2>1, <2>2, <2>3 DEF Pending
  <2> QED
    BY <1>p, <2>3, <2>4 DEF PlacesSound
<1>11. ASSUME UNCHANGED <<usage, timerVars, pc, arg, eq, newTask>>
       PROVE  PlacesSound'
  BY <1>11, <1>0 DEF PlacesSound, timerVars, Pending
<1> QED
  BY <1>1, <1>2, <1>3, <1>4, <1>5, <1>6, <1>7, <1>8, <1>9, <1>10, <1>11
     DEF TimerStep, Tick, vars, processVars

-----------------------------------------------------------------------------
(* Ids: a step gives one to a new task, takes one from a deleted one, or     *)
(* leaves them all alone.                                                    *)
LEMMA IdsStay ==
    ASSUME TypeOK, IdsConserved, alive' = alive, uids' = uids,
           \A y \in alive : task'[y].id = task[y].id
    PROVE  IdsConserved'
<1>1. {task'[y].id : y \in alive'} = {task[y].id : y \in alive}
  OBVIOUS
<1>2. Holds(uids', Id \ {task'[y].id : y \in alive'})
  BY <1>1 DEF IdsConserved
<1>3. \A x, y \in alive' : task'[x].id = task'[y].id => x = y
  BY DEF IdsConserved
<1> QED
  BY <1>2, <1>3 DEF IdsConserved

LEMMA IdsStep ==
    ASSUME TimerInv, OrderlyUse, TimerStep
    PROVE  IdsConserved'
<1>0. TypeOK /\ CallsSound /\ PlacesSound /\ IdsConserved
  BY DEF TimerInv
<1>t. /\ task \in [Task -> Fields]
      /\ alive \in SUBSET Task
      /\ queue \in Seq(Task) /\ eq \in Seq(Task)
      /\ uids \in Seq(Id)
  BY <1>0 DEF TypeOK
<1> DEFINE Taken == {task[y].id : y \in alive}
<1>i. /\ \A x, y \in alive : task[x].id = task[y].id => x = y
      /\ Holds(uids, Id \ Taken)
  BY <1>0 DEF IdsConserved
<1>1. ASSUME NEW t \in Thread, NEW x \in Task, NEW f \in Fields, AddForm(t, x, f)
      PROVE  IdsConserved'
  <2>1. /\ task'[x] = f /\ f.id = Popped(uids) /\ x \notin alive
        /\ \A y \in Task : y # x => task'[y] = task[y]
        /\ alive' = alive \cup {x} /\ uids' = AfterPop(uids) /\ CanPop(uids)
    BY <1>1, <1>t DEF AddForm
  <2>2. /\ Popped(uids) \in Id \ Taken
        /\ Holds(AfterPop(uids), (Id \ Taken) \ {Popped(uids)})
    BY <1>i, <1>t, <2>1, PopHolds
  <2>3. \A y \in alive : task'[y].id = task[y].id
    BY <1>t, <2>1
  <2>4. {task'[y].id : y \in alive'} = Taken \cup {Popped(uids)}
    BY <2>1, <2>3
  <2>5. Id \ {task'[y].id : y \in alive'} = (Id \ Taken) \ {Popped(uids)}
    BY <2>4
  <2>6. Holds(uids', Id \ {task'[y].id : y \in alive'})
    BY <2>1, <2>2, <2>5
  <2>7. \A y, z \in alive' : task'[y].id = task'[z].id => y = z
    <3>1. \A y \in alive : task'[y].id # task'[x].id
      BY <2>1, <2>2, <2>3
    <3> QED
      BY <3>1, <2>1, <2>3, <1>i
  <2> QED
    BY <2>6, <2>7 DEF IdsConserved
<1>7. ASSUME NEW x \in Task, DeleteForm(x) PROVE IdsConserved'
  <2>1. x \in Elements(eq)
    BY <1>0, <1>7, <1>t, HeadListed DEF DeleteForm
  <2>2. x \in alive
    BY <1>0, <2>1, ListedTasks
  <2>3. /\ \A y \in Task : y # x => task'[y] = task[y]
        /\ alive' = alive \ {x} /\ uids' = AfterPush(uids, task[x].id)
    BY <1>7, <1>t DEF DeleteForm
  <2>4. PICK i \in Id : i = task[x].id
    BY <1>t DEF Fields
  <2>5. i \in Taken
    BY <2>2, <2>4
  <2>6. Holds(AfterPush(uids, i), (Id \ Taken) \cup {i})
    BY <1>i, <1>t, <2>5, PushHolds
  <2>7. \A y \in alive' : task'[y].id = task[y].id /\ task[y].id # i
    BY <1>i, <1>t, <2>2, <2>3, <2>4
  <2>8. {task'[y].id : y \in alive'} = Taken \ {i}
    BY <2>3, <2>4, <2>7
  <2>9. Id \ {task'[y].id : y \in alive'} = (Id \ Taken) \cup {i}
    BY <2>5, <2>8
  <2>10. Holds(uids', Id \ {task'[y].id : y \in alive'})
    BY <2>3, <2>4, <2>6, <2>9
  <2>11. \A y, z \in alive' : task'[y].id = task'[z].id => y = z
    BY <2>3, <2>7, <1>i
  <2> QED
    BY <2>10, <2>11 DEF IdsConserved
<1>5. ASSUME NEW k \in 1..Len(queue), StopForm(k) PROVE IdsConserved'
  <2>1. queue[k] \in Task
    BY <1>t
  <2>2. \A y \in Task : task'[y].id = task[y].id
    BY <1>5, <1>t, <2>1 DEF StopForm, Fields
  <2>3. alive' = alive /\ uids' = uids
    BY <1>5 DEF StopForm
  <2> QED
    BY <1>0, <1>t, <2>2, <2>3, IdsStay
<1>8. ASSUME NEW x \in Task, RepeatForm(x) PROVE IdsConserved'
  <2>1. \A y \in Task : task'[y].id = task[y].id
    BY <1>8, <1>t DEF RepeatForm, Fields
  <2>2. alive' = alive /\ uids' = uids
    BY <1>8 DEF RepeatForm
  <2> QED
    BY <1>0, <1>t, <2>1, <2>2, IdsStay
<1>2. ASSUME UNCHANGED <<task, alive, uids>> PROVE IdsConserved'
  BY <1>2, <1>0, IdsStay
<1> QED
  BY <1>1, <1>2, <1>5, <1>7, <1>8
     DEF TimerStep, InsertForm, AddToMap, Stop, TakeForm, ReinsertForm,
         ProcessEnd, Tick, vars, timerVars, processVars

-----------------------------------------------------------------------------
(* The tasks process has taken had expired.                                  *)

(* The places before the one a search for a time ends at.                    *)
LEMMA TakenHaveExpired ==
    ASSUME TypeOK, QueueSound, NEW p \in 0..Len(queue), TakeForm(p),
           NEW i \in 1..p
    PROVE  task[queue[i]].terminate \/ task[queue[i]].start < now
<1>0. queue \in Seq(Task) /\ Len(queue) \in Nat /\ task \in [Task -> Fields]
      /\ now \in Nat
  BY DEF TypeOK
<1>1. i \in 1..Len(queue) /\ p \in 1..Len(queue) /\ (i = p \/ i < p)
  BY <1>0
<1>2. queue[i] \in Task /\ queue[p] \in Task
  BY <1>0, <1>1
<1>3. task[queue[i]].start \in Nat /\ task[queue[p]].start \in Nat
  BY <1>0, <1>2 DEF Fields
<1>4. Less(task[queue[p]], [start |-> now, terminate |-> FALSE])
  BY DEF TakeForm, LowerBound
<1>5. task[queue[p]].start < now \/ task[queue[p]].terminate
  BY <1>4 DEF Less
<1>6. CASE i = p
  BY <1>5, <1>6
<1>7. CASE i < p
  <2>1. ~task[queue[p]].terminate
    BY <1>1, <1>7 DEF QueueSound
  <2>2. task[queue[i]].terminate \/ task[queue[i]].start <= task[queue[p]].start
    BY <1>1, <1>7 DEF QueueSound
  <2> QED
    BY <1>0, <1>3, <1>5, <2>1, <2>2
<1> QED
  BY <1>1, <1>6, <1>7

(* The places behind it.                                                     *)
LEMMA LeftAreNotLate ==
    ASSUME TypeOK, QueueSound, NEW p \in 0..Len(queue), TakeForm(p),
           NEW i \in (p + 1)..Len(queue)
    PROVE  task[queue[i]].start >= now
<1>0. queue \in Seq(Task) /\ Len(queue) \in Nat /\ task \in [Task -> Fields]
      /\ now \in Nat /\ p > 0
  BY DEF TypeOK, TakeForm
<1>1. i \in 1..Len(queue) /\ p + 1 \in 1..Len(queue) /\ (i = p + 1 \/ p + 1 < i)
      /\ p < Len(queue) /\ p + 1 # 1
  BY <1>0
<1>2. queue[i] \in Task /\ queue[p + 1] \in Task
  BY <1>0, <1>1
<1>3. task[queue[i]].start \in Nat /\ task[queue[p + 1]].start \in Nat
  BY <1>0, <1>2 DEF Fields
<1>4. ~Less(task[queue[p + 1]], [start |-> now, terminate |-> FALSE])
  BY <1>1 DEF TakeForm, LowerBound
<1>5. ~(task[queue[p + 1]].start < now)
  BY <1>4 DEF Less
<1>6. ~task[queue[p + 1]].terminate
  BY <1>1 DEF QueueSound
<1>7. task[queue[p + 1]].start <= task[queue[i]].start
  BY <1>1, <1>3, <1>6 DEF QueueSound
<1> QED
  BY <1>0, <1>3, <1>5, <1>7

LEMMA TimeStep ==
    ASSUME TimerInv, OrderlyUse, TimerStep
    PROVE  NotBeforeItsTime'
<1>0. TypeOK /\ CallsSound /\ QueueSound /\ PlacesSound /\ NotBeforeItsTime
  BY DEF TimerInv
<1>t. /\ task \in [Task -> Fields]
      /\ queue \in Seq(Task) /\ eq \in Seq(Task)
      /\ pc \in [Thread -> {"idle", "insert", "map", "stop", "run"}]
  BY <1>0 DEF TypeOK
<1>o. Owner \in Thread
  BY DEF Thread
<1>e. \A y \in Elements(eq) : y \in Task /\ y \in alive
  BY <1>0, ListedTasks
<1>1. ASSUME NEW t \in Thread, NEW x \in Task, NEW f \in Fields, AddForm(t, x, f)
      PROVE  NotBeforeItsTime'
  <2>1. /\ \A y \in Task : y # x => task'[y] = task[y]
        /\ x \notin alive /\ UNCHANGED <<eq, base>>
        /\ pc'[Owner] = "run" => pc[Owner] = "run"
    BY <1>1, <1>t, <1>o DEF AddForm
  <2> QED
    BY <1>0, <1>e, <2>1 DEF NotBeforeItsTime, Elements
<1>5. ASSUME NEW k \in 1..Len(queue), StopForm(k) PROVE NotBeforeItsTime'
  <2>1. pc'[Owner] = "idle"
    BY <1>5, <1>t, <1>o DEF StopForm
  <2> QED
    BY <2>1 DEF NotBeforeItsTime
<1>6. ASSUME NEW p \in 0..Len(queue), TakeForm(p) PROVE NotBeforeItsTime'
  <2>1. PICK a \in Seq(Task) : a = SubSeq(queue, 1, p)
    BY <1>t, SplitIs
  <2>2. Len(a) = p /\ \A i \in 1..p : a[i] = queue[i]
    BY <1>t, <2>1, SplitIs
  <2>3. UNCHANGED task /\ base' = now /\ eq' = a
    BY <1>6, <2>1 DEF TakeForm
  <2>4. \A i \in 1..Len(a) : task[a[i]].terminate \/ task[a[i]].start < now
    BY <1>0, <1>6, <2>2, TakenHaveExpired
  <2>5. \A y \in Elements(a) : task[y].terminate \/ task[y].start < now
    BY <2>4 DEF Elements
  <2> QED
    BY <2>3, <2>5 DEF NotBeforeItsTime, Elements
<1>7. ASSUME NEW x \in Task, DeleteForm(x) \/ RepeatForm(x)
      PROVE  NotBeforeItsTime'
  <2>1. /\ eq # <<>> /\ x = Head(eq) /\ eq' = Tail(eq)
        /\ pc[Owner] = "run" /\ UNCHANGED base
        /\ \A y \in Task : y # x => task'[y] = task[y]
    BY <1>7, <1>t DEF DeleteForm, RepeatForm
  <2>2. Elements(Tail(eq)) = Elements(eq) \ {x}
    BY <1>0, <1>t, <2>1, TailElements DEF PlacesSound
  <2>3. Elements(eq)' = Elements(eq) \ {x}
    BY <2>1, <2>2 DEF Elements
  <2> QED
    BY <1>0, <1>e, <2>1, <2>3 DEF NotBeforeItsTime
<1>2. ASSUME UNCHANGED <<task, eq, base>>, pc'[Owner] = "run" => pc[Owner] = "run"
      PROVE  NotBeforeItsTime'
  BY <1>2, <1>0 DEF NotBeforeItsTime, Elements
<1>3. ASSUME NEW t \in Thread, NEW p \in 0..Len(queue), InsertForm(t, p)
      PROVE  NotBeforeItsTime'
  <2>1. UNCHANGED <<task, eq, base>> /\ (pc'[Owner] = "run" => pc[Owner] = "run")
    BY <1>3, <1>t, <1>o DEF InsertForm
  <2> QED
    BY <2>1, <1>2
<1>4. ASSUME NEW t \in Thread, AddToMap(t) \/ Stop(t) PROVE NotBeforeItsTime'
  <2>1. UNCHANGED <<task, eq, base>> /\ (pc'[Owner] = "run" => pc[Owner] = "run")
    BY <1>4, <1>t, <1>o DEF AddToMap, Stop, Goto, timerVars, processVars
  <2> QED
    BY <2>1, <1>2
<1>9. ASSUME NEW x \in Task, NEW p \in 0..Len(queue), ReinsertForm(x, p)
      PROVE  NotBeforeItsTime'
  BY <1>9, <1>2 DEF ReinsertForm
<1>10. ASSUME ProcessEnd PROVE NotBeforeItsTime'
  <2>1. pc'[Owner] = "idle"
    BY <1>10, <1>t, <1>o DEF ProcessEnd, Goto
  <2> QED
    BY <2>1 DEF NotBeforeItsTime
<1>11. ASSUME Tick \/ UNCHANGED vars PROVE NotBeforeItsTime'
  BY <1>11, <1>2 DEF Tick, vars, timerVars, processVars
<1> QED
  BY <1>1, <1>3, <1>4, <1>5, <1>6, <1>7, <1>9, <1>10, <1>11 DEF TimerStep

-----------------------------------------------------------------------------
(* The map.                                                                  *)
MapOf(f, S) == {<<f[x].id, x>> : x \in S}

LEMMA SameMap ==
    ASSUME NEW f, NEW g, NEW S, \A x \in S : f[x].id = g[x].id
    PROVE  MapOf(f, S) = MapOf(g, S)
BY DEF MapOf

MapExact ==
    /\ \A t \in Entering : arg[t] \in alive /\ (t # Owner => ~task[arg[t]].once)
    /\ \A s, t \in Entering : arg[s] = arg[t] => s = t
    /\ tasks = MapOf(task, alive \ {arg[t] : t \in Entering})

LEMMA MapSoundIs == MapSound <=> ("once" \notin usage.others => MapExact)
BY DEF MapSound, MapExact, MapOf

LEMMA MapStep ==
    ASSUME TimerInv, OrderlyUse, TimerStep
    PROVE  MapSound'
<1>0. TypeOK /\ CallsSound /\ QueueSound /\ PlacesSound /\ IdsConserved
  BY DEF TimerInv
<1>t. /\ task \in [Task -> Fields]
      /\ alive \in SUBSET Task
      /\ queue \in Seq(Task) /\ eq \in Seq(Task) /\ newTask \in Seq(Task)
      /\ tasks \in SUBSET (Id \X Task)
      /\ pc \in [Thread -> {"idle", "insert", "map", "stop", "run"}]
      /\ arg \in [Thread -> Task \cup {NoTask}]
  BY <1>0 DEF TypeOK
<1>o. Owner \in Thread
  BY DEF Thread
<1>u. usage' = usage
  BY UsageStays
<1>m. MayStop => usage.others = {} /\ usage.sweep
  BY <1>0, UseIsOrderly
<1>s. SUFFICES ASSUME "once" \notin usage.others PROVE MapExact'
  BY <1>u DEF MapSound, MapExact, MapOf
<1>x. MapExact
  BY <1>s, MapSoundIs DEF TimerInv
<1> DEFINE In == {arg[t] : t \in Entering}
<1>y. /\ \A t \in Entering : arg[t] \in alive /\ (t # Owner => ~task[arg[t]].once)
      /\ \A s, t \in Entering : arg[s] = arg[t] => s = t
      /\ tasks = MapOf(task, alive \ In)
  BY <1>x DEF MapExact
<1>1. ASSUME NEW t \in Thread, NEW x \in Task, NEW f \in Fields, AddForm(t, x, f)
      PROVE  MapExact'
  <2>1. \A s \in Thread : s # t => pc'[s] = pc[s] /\ arg'[s] = arg[s]
    BY <1>1, <1>t DEF AddForm
  <2>2. pc'[t] = "insert" /\ arg'[t] = x /\ pc[t] = "idle"
    BY <1>1, <1>t DEF AddForm
  <2>3. Entering' = Entering \cup {t} /\ t \notin Entering
    BY <2>1, <2>2 DEF Entering
  <2>4. \A s \in Entering : arg'[s] = arg[s] /\ arg[s] # x /\ s \in Thread
    BY <1>1, <1>y, <2>1, <2>3 DEF AddForm, Entering
  <2>5. {arg'[s] : s \in Entering'} = In \cup {x}
    BY <2>2, <2>3, <2>4
  <2>6. /\ task'[x] = f /\ x \notin alive /\ tasks' = tasks
        /\ \A y \in Task : y # x => task'[y] = task[y]
        /\ alive' = alive \cup {x}
        /\ f.once => "once" \in Calls(t)
    BY <1>1, <1>t DEF AddForm
  <2>7. alive' \ (In \cup {x}) = alive \ In
    BY <2>6
  <2>8. \A y \in alive \ In : task[y].id = task'[y].id
    BY <2>6, <1>t
  <2>9. tasks' = MapOf(task', alive' \ {arg'[s] : s \in Entering'})
    <3>1. MapOf(task, alive \ In) = MapOf(task', alive \ In)
      BY <2>8, SameMap
    <3>2. alive' \ {arg'[s] : s \in Entering'} = alive \ In
      BY <2>5, <2>7
    <3>3. tasks' = MapOf(task, alive \ In)
      BY <1>y, <2>6
    <3> QED
      BY <3>1, <3>2, <3>3
  <2>10. t # Owner => ~f.once
    BY <1>s, <2>6 DEF Calls
  <2>11. \A s \in Entering' : arg'[s] \in alive' /\ (s # Owner => ~task'[arg'[s]].once)
    <3>1. SUFFICES ASSUME NEW s \in Entering'
                   PROVE  arg'[s] \in alive' /\ (s # Owner => ~task'[arg'[s]].once)
      OBVIOUS
    <3>2. CASE s = t
      BY <3>2, <2>2, <2>6, <2>10
    <3>3. CASE s \in Entering
      <4>1. arg'[s] = arg[s] /\ arg[s] # x /\ arg[s] \in alive /\ arg[s] \in Task
        BY <3>3, <2>4, <1>y, <1>t
      <4>2. task'[arg[s]] = task[arg[s]]
        BY <4>1, <2>6
      <4> QED
        BY <3>3, <4>1, <4>2, <2>6, <1>y
    <3> QED
      BY <3>2, <3>3, <2>3
  <2>12. \A s, u \in Entering' : arg'[s] = arg'[u] => s = u
    BY <1>y, <2>2, <2>3, <2>4
  <2> QED
    BY <2>9, <2>11, <2>12 DEF MapExact
<1>2. ASSUME NEW t \in Thread, NEW p \in 0..Len(queue), InsertForm(t, p)
      PROVE  MapExact'
  <2>1. \A s \in Thread : s # t => pc'[s] = pc[s]
    BY <1>2, <1>t DEF InsertForm
  <2>2. pc'[t] = "map" /\ pc[t] = "insert"
    BY <1>2, <1>t DEF InsertForm
  <2>3. Entering' = Entering
    BY <2>1, <2>2 DEF Entering
  <2>4. UNCHANGED <<task, alive, tasks, arg>>
    BY <1>2 DEF InsertForm
  <2> QED
    BY <1>x, <2>3, <2>4 DEF MapExact, MapOf
<1>3. ASSUME NEW t \in Thread, AddToMap(t) PROVE MapExact'
  <2>1. \A s \in Thread : s # t => pc'[s] = pc[s] /\ arg'[s] = arg[s]
    BY <1>3, <1>t DEF AddToMap, Goto
  <2>2. pc'[t] = "idle" /\ pc[t] = "map"
    BY <1>3, <1>t DEF AddToMap, Goto
  <2>3. t \in Entering /\ Entering' = Entering \ {t}
    BY <2>1, <2>2 DEF Entering
  <2>4. PICK x \in alive : x = arg[t]
    BY <1>y, <2>3
  <2>5. \A s \in Entering' : arg'[s] = arg[s] /\ arg[s] # x
    BY <1>y, <2>1, <2>3, <2>4 DEF Entering
  <2>6. {arg'[s] : s \in Entering'} = In \ {x}
    BY <2>3, <2>4, <2>5
  <2>7. UNCHANGED <<task, alive>>
    BY <1>3 DEF AddToMap
  <2>8. x \in In /\ alive \ (In \ {x}) = (alive \ In) \cup {x}
    BY <2>3, <2>4
  <2>9. ~ \E y \in Task : <<task[x].id, y>> \in tasks
    <3>1. SUFFICES ASSUME NEW y \in Task, <<task[x].id, y>> \in tasks PROVE FALSE
      OBVIOUS
    <3>2. y \in alive \ In /\ task[x].id = task[y].id
      BY <1>y, <3>1 DEF MapOf
    <3>3. y = x
      BY <1>0, <3>2 DEF IdsConserved
    <3> QED
      BY <2>8, <3>2, <3>3
  <2>10. tasks' = tasks \cup {<<task[x].id, x>>}
    BY <1>3, <2>4, <2>9 DEF AddToMap
  <2>11. MapOf(task, (alive \ In) \cup {x}) = MapOf(task, alive \ In) \cup {<<task[x].id, x>>}
    BY DEF MapOf
  <2>12. tasks' = MapOf(task', alive' \ {arg'[s] : s \in Entering'})
    BY <1>y, <2>6, <2>7, <2>8, <2>10, <2>11
  <2>13. \A s \in Entering' : arg'[s] \in alive' /\ (s # Owner => ~task'[arg'[s]].once)
    BY <1>y, <2>3, <2>5, <2>7
  <2>14. \A s, u \in Entering' : arg'[s] = arg'[u] => s = u
    BY <1>y, <2>3, <2>5
  <2> QED
    BY <2>12, <2>13, <2>14 DEF MapExact
<1>4. ASSUME NEW t \in Thread, Stop(t) PROVE MapExact'
  <2>0. PICK entry \in tasks : arg' = [arg EXCEPT ![t] = entry[2]]
    BY <1>4 DEF Stop
  <2>1. \A s \in Thread : s # t => pc'[s] = pc[s] /\ arg'[s] = arg[s]
    BY <1>4, <1>t, <2>0 DEF Stop, Goto
  <2>2. pc'[t] = "stop" /\ pc[t] = "idle"
    BY <1>4, <1>t DEF Stop, Goto
  <2>3. Entering' = Entering /\ t \notin Entering
    BY <2>1, <2>2 DEF Entering
  <2>4. \A s \in Entering' : arg'[s] = arg[s]
    BY <2>1, <2>3 DEF Entering
  <2>5. {arg'[s] : s \in Entering'} = In
    BY <2>3, <2>4
  <2>6. UNCHANGED <<task, alive, tasks>>
    BY <1>4 DEF Stop, timerVars
  <2>7. tasks' = MapOf(task', alive' \ {arg'[s] : s \in Entering'})
    BY <1>y, <2>5, <2>6
  <2> QED
    BY <1>y, <2>3, <2>4, <2>6, <2>7 DEF MapExact
<1>5. ASSUME NEW k \in 1..Len(queue), StopForm(k) PROVE MapExact'
  <2>1. queue[k] \in Task
    BY <1>t
  <2>2. \A y \in Task : task'[y].id = task[y].id /\ task'[y].once = task[y].once
    BY <1>5, <1>t, <2>1 DEF StopForm, Fields
  <2>3. \A s \in Thread : s # Owner => pc'[s] = pc[s] /\ arg'[s] = arg[s]
    BY <1>5, <1>t DEF StopForm
  <2>4. pc'[Owner] = "idle" /\ pc[Owner] = "stop"
    BY <1>5, <1>t, <1>o DEF StopForm
  <2>5. Entering' = Entering /\ Owner \notin Entering
    BY <2>3, <2>4 DEF Entering
  <2>6. \A s \in Entering' : arg'[s] = arg[s]
    BY <2>3, <2>5 DEF Entering
  <2>7. {arg'[s] : s \in Entering'} = In
    BY <2>5, <2>6
  <2>8. UNCHANGED <<alive, tasks>>
    BY <1>5 DEF StopForm
  <2>9. \A y \in alive \ In : task[y].id = task'[y].id
    BY <1>t, <2>2
  <2>10. tasks' = MapOf(task', alive' \ {arg'[s] : s \in Entering'})
    <3>1. MapOf(task, alive \ In) = MapOf(task', alive \ In)
      BY <2>9, SameMap
    <3>2. alive' \ {arg'[s] : s \in Entering'} = alive \ In
      BY <2>7, <2>8
    <3>3. tasks' = MapOf(task, alive \ In)
      BY <1>y, <2>8
    <3> QED
      BY <3>1, <3>2, <3>3
  <2>11. \A s \in Entering' : arg'[s] \in alive' /\ (s # Owner => ~task'[arg'[s]].once)
    BY <1>y, <1>t, <2>2, <2>5, <2>6, <2>8
  <2>12. \A s, u \in Entering' : arg'[s] = arg'[u] => s = u
    BY <1>y, <2>5, <2>6
  <2> QED
    BY <2>10, <2>11, <2>12 DEF MapExact
<1>6. ASSUME NEW p \in 0..Len(queue), TakeForm(p) PROVE MapExact'
  <2>1. \A s \in Thread : s # Owner => pc'[s] = pc[s]
    BY <1>6, <1>t DEF TakeForm
  <2>2. pc'[Owner] = "run" /\ pc[Owner] = "idle"
    BY <1>6, <1>t, <1>o DEF TakeForm
  <2>3. Entering' = Entering
    BY <2>1, <2>2 DEF Entering
  <2>4. UNCHANGED <<task, alive, tasks, arg>>
    BY <1>6 DEF TakeForm
  <2> QED
    BY <1>x, <2>3, <2>4 DEF MapExact, MapOf
<1>7. ASSUME NEW x \in Task, DeleteForm(x) PROVE MapExact'
  <2>1. x \in Elements(eq) /\ pc[Owner] = "run"
    BY <1>0, <1>7, <1>t, HeadListed DEF DeleteForm
  <2>2. x \in alive /\ \A s \in Pending : arg[s] # x
    BY <1>0, <2>1, ListedTasks
  <2>3. x \notin In
    <3>1. SUFFICES ASSUME NEW s \in Entering, arg[s] = x PROVE FALSE
      OBVIOUS
    <3>2. s \in Thread /\ pc[s] = "map" /\ s # Owner
      BY <3>1, <2>1, <2>2 DEF Entering, Pending
    <3>3. ~task[x].once
      BY <3>1, <3>2, <1>y
    <3>4. task[x].terminate
      BY <1>7, <3>3 DEF DeleteForm
    <3>5. MayStop
      BY <1>0, <2>2, <3>4 DEF QueueSound
    <3>6. usage.others # {}
      BY <1>0, <3>2 DEF CallsSound
    <3> QED
      BY <1>m, <3>5, <3>6
  <2>4. /\ \A y \in Task : y # x => task'[y] = task[y]
        /\ alive' = alive \ {x} /\ UNCHANGED <<pc, arg>>
        /\ tasks' = {entry \in tasks : entry[1] # task[x].id}
    BY <1>7, <1>t DEF DeleteForm
  <2>5. Entering' = Entering /\ {arg'[s] : s \in Entering'} = In
    BY <2>4 DEF Entering
  <2>6. \A y \in alive' \ In : task[y].id = task'[y].id /\ task[y].id # task[x].id
    <3>1. \A y \in alive' \ In : y \in Task /\ y # x /\ y \in alive
      BY <1>t, <2>4
    <3>2. \A y \in alive : task[y].id = task[x].id => y = x
      BY <1>0, <2>2 DEF IdsConserved
    <3> QED
      BY <2>4, <3>1, <3>2
  <2>7. tasks' = MapOf(task, alive' \ In)
    <3>1. tasks = MapOf(task, (alive' \ In) \cup {x})
      <4>1. alive \ In = (alive' \ In) \cup {x}
        BY <2>2, <2>3, <2>4
      <4> QED
        BY <4>1, <1>y
    <3>2. ASSUME NEW e \in tasks' PROVE e \in MapOf(task, alive' \ In)
      <4>1. e \in tasks /\ e[1] # task[x].id
        BY <3>2, <2>4
      <4>2. PICK y \in (alive' \ In) \cup {x} : e = <<task[y].id, y>>
        BY <3>1, <4>1 DEF MapOf
      <4>3. y # x
        BY <4>1, <4>2
      <4> QED
        BY <4>2, <4>3 DEF MapOf
    <3>3. ASSUME NEW e \in MapOf(task, alive' \ In) PROVE e \in tasks'
      <4>1. PICK y \in alive' \ In : e = <<task[y].id, y>>
        BY <3>3 DEF MapOf
      <4>2. e \in tasks
        BY <3>1, <4>1 DEF MapOf
      <4>3. e[1] # task[x].id
        BY <4>1, <2>6
      <4> QED
        BY <4>2, <4>3, <2>4
    <3> QED
      BY <3>2, <3>3
  <2>8. MapOf(task, alive' \ In) = MapOf(task', alive' \ In)
    BY <2>6, SameMap
  <2>9. tasks' = MapOf(task', alive' \ {arg'[s] : s \in Entering'})
    BY <2>5, <2>7, <2>8
  <2>10. \A s \in Entering : arg[s] # x /\ arg[s] \in alive /\ arg[s] \in Task
    BY <1>y, <1>t, <2>3
  <2>11. \A s \in Entering' : arg'[s] \in alive' /\ (s # Owner => ~task'[arg'[s]].once)
    BY <1>y, <2>4, <2>5, <2>10
  <2> QED
    BY <1>y, <2>4, <2>5, <2>9, <2>11 DEF MapExact
<1>8. ASSUME NEW x \in Task, RepeatForm(x) PROVE MapExact'
  <2>1. \A y \in Task : task'[y].id = task[y].id /\ task'[y].once = task[y].once
    BY <1>8, <1>t DEF RepeatForm, Fields
  <2>2. UNCHANGED <<alive, tasks, pc, arg>>
    BY <1>8 DEF RepeatForm
  <2>3. Entering' = Entering /\ {arg'[s] : s \in Entering'} = In
    BY <2>2 DEF Entering
  <2>4. \A y \in alive \ In : task[y].id = task'[y].id
    BY <1>t, <2>1
  <2>5. tasks' = MapOf(task', alive' \ {arg'[s] : s \in Entering'})
    BY <1>y, <2>2, <2>3, <2>4, SameMap
  <2>6. \A s \in Entering' : arg'[s] \in alive' /\ (s # Owner => ~task'[arg'[s]].once)
    BY <1>y, <1>t, <2>1, <2>2, <2>3
  <2> QED
    BY <1>y, <2>2, <2>3, <2>5, <2>6 DEF MapExact
<1>9. ASSUME NEW x \in Task, NEW p \in 0..Len(queue), ReinsertForm(x, p)
      PROVE  MapExact'
  <2>1. UNCHANGED <<task, alive, tasks, pc, arg>>
    BY <1>9 DEF ReinsertForm
  <2> QED
    BY <1>x, <2>1 DEF MapExact, MapOf, Entering
<1>10. ASSUME ProcessEnd PROVE MapExact'
  <2>1. \A s \in Thread : s # Owner => pc'[s] = pc[s]
    BY <1>10, <1>t, <1>o DEF ProcessEnd, Goto
  <2>2. pc'[Owner] = "idle" /\ pc[Owner] = "run"
    BY <1>10, <1>t, <1>o DEF ProcessEnd, Goto
  <2>3. Entering' = Entering
    BY <2>1, <2>2 DEF Entering
  <2>4. UNCHANGED <<task, alive, tasks, arg>>
    BY <1>10 DEF ProcessEnd, timerVars
  <2> QED
    BY <1>x, <2>3, <2>4 DEF MapExact, MapOf
<1>11. ASSUME UNCHANGED <<task, alive, tasks, pc, arg>> PROVE MapExact'
  BY <1>x, <1>11 DEF MapExact, MapOf, Entering
<1> QED
  BY <1>1, <1>2, <1>3, <1>4, <1>5, <1>6, <1>7, <1>8, <1>9, <1>10, <1>11
     DEF TimerStep, Tick, vars, timerVars

-----------------------------------------------------------------------------
LEMMA TimerInit ==
    ASSUME Init
    PROVE  TimerInv
<1>1. Elements(<<>>) = {} /\ Distinct(<<>>) /\ Len(<<>>) = 0 /\ <<>> \in Seq(Task)
  BY DEF Elements, Distinct
<1>2. MaxId \in Nat
  BY TimerAssumption
<1>3. uids \in Seq(Id) /\ Holds(uids, Id)
  BY <1>2, FullListHolds DEF Init, Id
<1>4. Pending = {} /\ Entering = {}
  BY DEF Init, Pending, Entering
<1>5. TypeOK
  BY <1>1, <1>3, BlankIsTyped DEF Init, TypeOK
<1>6. CallsSound
  BY <1>4 DEF Init, CallsSound, Thread
<1>7. QueueSound
  <2>1. Len(queue) = 0 /\ Elements(newTask) = {} /\ alive = {}
    BY <1>1 DEF Init
  <2> QED
    BY <2>1 DEF QueueSound
<1>8. PlacesSound
  <2>1. /\ Elements(queue) = {} /\ Elements(eq) = {} /\ Elements(newTask) = {}
        /\ Distinct(queue) /\ Distinct(eq) /\ Distinct(newTask) /\ alive = {}
    BY <1>1 DEF Init
  <2> QED
    BY <2>1 DEF PlacesSound
<1>9. IdsConserved
  <2>1. Id \ {task[x].id : x \in alive} = Id
    BY DEF Init
  <2> QED
    BY <1>3, <2>1 DEF Init, IdsConserved
<1>10. MapSound
  BY <1>4 DEF Init, MapSound
<1>11. NotBeforeItsTime
  BY DEF Init, NotBeforeItsTime, Thread
<1> QED
  BY <1>5, <1>6, <1>7, <1>8, <1>9, <1>10, <1>11 DEF TimerInv

(* The inductive invariant of the timer: types, the calls of threads, the    *)
(* order of the queue, the places of tasks, ids, the map and the tasks at    *)
(* work hold in every state, whatever threads add and the owner stops.       *)
THEOREM TimerInvariant ==
    ASSUME OrderlyUse
    PROVE  Spec => []TimerInv
<1>1. Init => TimerInv
  BY TimerInit
<1>2. TimerInv /\ [Next]_vars => TimerInv'
  <2>1. SUFFICES ASSUME TimerInv, [Next]_vars PROVE TimerInv'
    OBVIOUS
  <2>2. TimerStep
    BY <2>1, StepIsForm
  <2> QED
    BY <2>1, <2>2, TypeStep, CallsStep, QueueStep, PlacesStep, IdsStep, MapStep,
       TimeStep DEF TimerInv
<1> QED
  BY <1>1, <1>2, PTL DEF Spec

(* IdsConserved always holds: an id is free or belongs to one task object,   *)
(* whichever of process and stopTask ends a task (hrpc_timer.cpp:14).        *)
THEOREM TimerIdsConserved ==
    ASSUME OrderlyUse
    PROVE  Spec => []IdsConserved
<1>1. TimerInv => IdsConserved
  BY DEF TimerInv
<1> QED
  BY <1>1, TimerInvariant, PTL

(* NotBeforeItsTime always holds: process takes a task only when its time    *)
(* has come, or it has been stopped, though the order of the queue is none.  *)
THEOREM NoneBeforeItsTime ==
    ASSUME OrderlyUse
    PROVE  Spec => []NotBeforeItsTime
<1>1. TimerInv => NotBeforeItsTime
  BY DEF TimerInv
<1> QED
  BY <1>1, TimerInvariant, PTL

Joined(r, a, b, S) ==
    r \in Seq(S) /\ Elements(r) = Elements(a) \cup Elements(b) /\ Distinct(r)

LEMMA JoinIs ==
    ASSUME NEW S, NEW a \in Seq(S), NEW b \in Seq(S),
           Distinct(a), Distinct(b), Elements(a) \cap Elements(b) = {}
    PROVE  Joined(a \o b, a, b, S)
<1>1. PICK r : r = a \o b
  OBVIOUS
<1>2. a \in Seq(S) /\ b \in Seq(S) /\ Distinct(a) /\ Distinct(b)
  OBVIOUS
<1>3. Elements(a) \cap Elements(b) = {}
  OBVIOUS
<1>4. r \in Seq(S)
  BY <1>1, <1>2, <1>3, ConcatElements
<1>5. Elements(r) = Elements(a) \cup Elements(b)
  BY <1>1, <1>2, <1>3, ConcatElements, ZenonT(60)
<1>6. Distinct(r)
  BY <1>1, <1>2, <1>3, ConcatElements
<1> QED
  BY <1>1, <1>4, <1>5, <1>6 DEF Joined

(* OnePlace always holds, when other threads add no task that runs once: a   *)
(* task object is with the thread that inserts it, in the queue or in one of *)
(* the lists of process, and in the map from the end of its adding on.       *)
THEOREM TasksHaveOnePlace ==
    ASSUME OrderlyUse, \A u \in Usage : "once" \notin u.others
    PROVE  Spec => []OnePlace
<1>1. ASSUME TimerInv PROVE OnePlace
  <2>0. TypeOK /\ PlacesSound /\ MapSound
    BY <1>1 DEF TimerInv
  <2>t. queue \in Seq(Task) /\ eq \in Seq(Task) /\ newTask \in Seq(Task)
    BY <2>0 DEF TypeOK
  <2>p. /\ Distinct(queue) /\ Distinct(eq) /\ Distinct(newTask)
        /\ Elements(queue) \cap Elements(eq) = {}
        /\ Elements(queue) \cap Elements(newTask) = {}
        /\ Elements(eq) \cap Elements(newTask) = {}
        /\ Elements(queue) \cup Elements(eq) \cup Elements(newTask)
            = alive \ {arg[t] : t \in Pending}
    BY <2>0 DEF PlacesSound
  <2>q. PICK q1 \in Seq(Task), q2 \in Seq(Task), q3 \in Seq(Task) :
                q1 = queue /\ q2 = eq /\ q3 = newTask
    BY <2>t
  <2>r. /\ Distinct(q1) /\ Distinct(q2) /\ Distinct(q3)
        /\ Elements(q1) \cap Elements(q2) = {}
        /\ Elements(q1) \cap Elements(q3) = {}
        /\ Elements(q2) \cap Elements(q3) = {}
    BY <2>p, <2>q
  <2>1. PICK a : a = q1 \o q2
    OBVIOUS
  <2>2. a \in Seq(Task) /\ Elements(a) = Elements(q1) \cup Elements(q2) /\ Distinct(a)
    <3>1. Distinct(q1) /\ Distinct(q2) /\ Elements(q1) \cap Elements(q2) = {}
      BY <2>r
    <3>2. a = q1 \o q2
      BY <2>1
    <3>3. Joined(q1 \o q2, q1, q2, Task)
      BY <3>1, JoinIs
    <3> QED
      BY <3>2, <3>3 DEF Joined
  <2>3. PICK all : all = a \o q3
    OBVIOUS
  <2>4. Distinct(q3) /\ Elements(a) \cap Elements(q3) = {}
    BY <2>r, <2>2
  <2>5. all \in Seq(Task) /\ Elements(all) = Elements(a) \cup Elements(q3) /\ Distinct(all)
    BY <2>2, <2>3, <2>4, ConcatElements
  <2>6. all = queue \o eq \o newTask
    BY <2>1, <2>3, <2>q
  <2>7. \A i, j \in 1..Len(all) : all[i] = all[j] => i = j
    BY <2>5 DEF Distinct
  <2>8. Elements(all) = alive \ {arg[t] : t \in Pending}
    BY <2>p, <2>q, <2>2, <2>5
  <2>9. tasks = {<<task[x].id, x>> : x \in
                  alive \ {arg[t] : t \in {u \in Thread : pc[u] \in {"insert", "map"}}}}
    <3>1. "once" \notin usage.others
      BY <2>0 DEF TypeOK
    <3> QED
      BY <2>0, <3>1 DEF MapSound, Entering
  <2> QED
    BY <2>6, <2>7, <2>8, <2>9 DEF OnePlace
<1> QED
  BY <1>1, TimerInvariant, PTL

(* NothingLate: a step of process leaves no expired task in the queue, which *)
(* is hrpc_timer.h:86, all tasks before the base time run.                   *)
THEOREM ProcessLeavesNothingLate ==
    ASSUME OrderlyUse
    PROVE  Spec => NothingLate
<1>1. ASSUME TimerInv, Process
      PROVE  \A x \in Elements(queue') : task[x].terminate \/ task[x].start >= now
  <2>0. TypeOK /\ QueueSound
    BY <1>1 DEF TimerInv
  <2>t. queue \in Seq(Task) /\ Len(queue) \in Nat
    BY <2>0 DEF TypeOK
  <2>1. PICK p \in LowerBound(queue, [start |-> now, terminate |-> FALSE]) :
         /\ p > 0
         /\ eq' = SubSeq(queue, 1, p)
         /\ queue' = SubSeq(queue, p + 1, Len(queue))
    BY <1>1 DEF Process, TakeExpired
  <2>2. TakeForm(p) /\ p \in 0..Len(queue)
    BY <1>1, <2>1, BoundsAreIn DEF Process, TakeForm, Goto
  <2>3. PICK b \in Seq(Task) : b = SubSeq(queue, p + 1, Len(queue))
    BY <2>t, <2>2, SplitIs
  <2>4. Len(b) = Len(queue) - p /\ \A i \in 1..(Len(queue) - p) : b[i] = queue[p + i]
    BY <2>t, <2>2, <2>3, SplitIs
  <2>5. \A i \in 1..Len(b) : task[b[i]].start >= now
    <3>1. TAKE i \in 1..Len(b)
    <3>2. p + i \in (p + 1)..Len(queue) /\ b[i] = queue[p + i]
      BY <2>2, <2>4, <2>t
    <3> QED
      BY <2>0, <2>2, <3>2, LeftAreNotLate
  <2>6. \A x \in Elements(b) : task[x].start >= now
    BY <2>5 DEF Elements
  <2> QED
    BY <2>1, <2>3, <2>6
<1>2. TimerInv /\ [Next]_vars =>
        [Process => \A x \in Elements(queue') :
                        task[x].terminate \/ task[x].start >= now]_vars
  BY <1>1
<1> QED
  BY <1>2, TimerInvariant, PTL DEF Spec, NothingLate

==============================================================================
