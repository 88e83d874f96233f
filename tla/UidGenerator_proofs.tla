------------------------ MODULE UidGenerator_proofs ------------------------
(* What popUid and pushUid preserve: the free list holds exactly the free    *)
(* identifiers, each once.                                                   *)
EXTENDS UidGenerator, TLAPS

(* init fills the list with every identifier once.                           *)
LEMMA FullListHolds ==
    ASSUME NEW max \in Nat
    PROVE  /\ FullList(max) \in Seq(1..max)
           /\ Holds(FullList(max), 1..max)
<1>1. FullList(max) \in [1..max -> 1..max]
  BY DEF FullList
<1>2. FullList(max) \in Seq(1..max) /\ Len(FullList(max)) = max
  BY <1>1
<1>3. \A i \in 1..max : FullList(max)[i] = i
  BY DEF FullList
<1> QED
  BY <1>2, <1>3 DEF Holds

(* popUid hands out a free identifier and removes it from the list.          *)
LEMMA PopHolds ==
    ASSUME NEW S, NEW list \in Seq(S), NEW free,
           Holds(list, free), CanPop(list)
    PROVE  /\ Popped(list) \in free
           /\ Popped(list) \in S
           /\ AfterPop(list) \in Seq(S)
           /\ Holds(AfterPop(list), free \ {Popped(list)})
<1> DEFINE rest == AfterPop(list)
<1>1. Len(list) \in Nat \ {0} /\ Popped(list) = list[1]
  BY DEF CanPop, Popped
<1>2. /\ rest \in Seq(S)
      /\ Len(rest) = Len(list) - 1
      /\ \A i \in 1..Len(rest) : rest[i] = list[i + 1]
  BY <1>1 DEF CanPop, AfterPop
<1>3. Popped(list) \in free /\ Popped(list) \in S
  BY <1>1 DEF Holds
<1>4. ASSUME NEW u \in free \ {Popped(list)}
      PROVE  \E i \in 1..Len(rest) : rest[i] = u
  <2>1. PICK j \in 1..Len(list) : list[j] = u
    BY DEF Holds
  <2>2. j # 1
    BY <1>1, <2>1
  <2>3. j - 1 \in 1..Len(rest) /\ rest[j - 1] = u
    BY <1>1, <1>2, <2>1, <2>2
  <2> QED
    BY <2>3
<1>5. ASSUME NEW i \in 1..Len(rest)
      PROVE  rest[i] \in free \ {Popped(list)}
  <2>1. i + 1 \in 1..Len(list) /\ 1 \in 1..Len(list) /\ i + 1 # 1
    BY <1>1, <1>2
  <2>2. list[i + 1] \in free /\ list[i + 1] # list[1]
    BY <2>1 DEF Holds
  <2> QED
    BY <1>1, <1>2, <2>2
<1>6. ASSUME NEW i \in 1..Len(rest), NEW j \in 1..Len(rest), rest[i] = rest[j]
      PROVE  i = j
  <2>1. i + 1 \in 1..Len(list) /\ j + 1 \in 1..Len(list)
        /\ list[i + 1] = list[j + 1]
    BY <1>1, <1>2, <1>6
  <2>2. i + 1 = j + 1
    BY <2>1 DEF Holds
  <2> QED
    BY <1>2, <2>2
<1> QED
  BY <1>2, <1>3, <1>4, <1>5, <1>6 DEF Holds

(* pushUid returns an identifier that was in use.                            *)
LEMMA PushHolds ==
    ASSUME NEW S, NEW list \in Seq(S), NEW free, NEW u \in S,
           Holds(list, free), u \notin free
    PROVE  /\ AfterPush(list, u) \in Seq(S)
           /\ Holds(AfterPush(list, u), free \cup {u})
<1> DEFINE longer == AfterPush(list, u)
<1>1. /\ longer \in Seq(S)
      /\ Len(longer) = Len(list) + 1
      /\ \A i \in 1..Len(list) : longer[i] = list[i]
      /\ longer[Len(list) + 1] = u
  BY DEF AfterPush
<1>2. Len(list) \in Nat
  OBVIOUS
<1>3. ASSUME NEW v \in free \cup {u}
      PROVE  \E i \in 1..Len(longer) : longer[i] = v
  BY <1>1, <1>2 DEF Holds
<1>4. ASSUME NEW i \in 1..Len(longer)
      PROVE  longer[i] \in free \cup {u}
  BY <1>1, <1>2 DEF Holds
<1>5. ASSUME NEW i \in 1..Len(longer), NEW j \in 1..Len(longer),
             longer[i] = longer[j]
      PROVE  i = j
  <2>1. \A k \in 1..Len(list) : longer[k] # u
    BY <1>1 DEF Holds
  <2>2. CASE i \in 1..Len(list) /\ j \in 1..Len(list)
    BY <1>1, <1>5, <2>2 DEF Holds
  <2>3. CASE i = Len(list) + 1 \/ j = Len(list) + 1
    BY <1>1, <1>2, <1>5, <2>1, <2>3
  <2> QED
    BY <1>1, <1>2, <2>2, <2>3
<1> QED
  BY <1>1, <1>3, <1>4, <1>5 DEF Holds
=============================================================================
