------------------------- MODULE ThreadQueue_proofs -------------------------
(* The queue for any finite set of threads, any elements and any number of   *)
(* calls: it has the type, the lock excludes, no notification is owed to a   *)
(* free lock, and the queue implements AtomicQueue.                          *)
EXTENDS ThreadQueue, FiniteSetTheorems, TLAPS

USE DEF Operation, Takes, Limited

(* What is known of a thread from where it is.                               *)
PlacesSound == \A t \in Thread :
    /\ t \in waiting => pc[t] = "asleep"
    /\ pc[t] \in {"push", "notify"} => op[t] = "push"
    /\ pc[t] = "push" \/ (pc[t] = "lock" /\ op[t] = "push") => held[t] \in Element
    /\ pc[t] = "size" => op[t] = "size"
    /\ pc[t] \in {"test", "wait", "asleep", "late", "take"} => op[t] \in Takes
    /\ pc[t] = "late" => op[t] \in Limited

(* The thread with the mutex finds the queue as it has seen it.              *)
SeenSound == \A t \in Thread :
    /\ pc[t] = "take" => queue # <<>>
    /\ pc[t] = "wait" => queue = <<>>

QInv == TypeOK /\ MutualExclusion /\ NothingOwed /\ PlacesSound /\ SeenSound

LEMMA QInit == Init => QInv
<1> SUFFICES ASSUME Init PROVE QInv
  OBVIOUS
<1>1. TypeOK
  BY DEF Init, LockInit, TypeOK, LockType, Pc
<1>2. MutualExclusion /\ NothingOwed /\ PlacesSound /\ SeenSound
  BY ThreadLockAssumption DEF ThreadLockAssumption, Init, LockInit, MutualExclusion, InSection, NothingOwed, PlacesSound, SeenSound
<1> QED
  BY <1>1, <1>2 DEF QInv

(* Notifications leave a part of the waiting threads and none to send.       *)
LEMMA EmitEffect ==
    ASSUME NEW asleep, Emit(asleep)
    PROVE  /\ count' = 0
           /\ waiting' \subseteq asleep
BY DEF Emit

LEMMA TypeStep ==
    ASSUME QInv, [Next]_vars
    PROVE  TypeOK'
<1> USE ThreadLockAssumption, ThreadQueueAssumption DEF QInv, ThreadLockAssumption,
      ThreadQueueAssumption
<1>1. CASE UNCHANGED vars
  BY <1>1 DEF vars, lockVars, TypeOK, LockType
<1>2. ASSUME NEW t \in Thread, Call(t) PROVE TypeOK'
  <2>1. PICK o \in OpsOf[t] :
              /\ op' = [op EXCEPT ![t] = o]
              /\ \/ \E e \in Element : held' = [held EXCEPT ![t] = e]
                 \/ held' = held
    BY <1>2 DEF Call
  <2>2. o \in Operation
    BY ThreadQueueAssumption DEF ThreadQueueAssumption
  <2>3. op' \in [Thread -> Operation]
    BY <2>1, <2>2 DEF TypeOK
  <2>5. held' \in [Thread -> Element \cup {NoElement}]
    BY <2>1 DEF TypeOK
  <2>4. got' \in [Thread -> Seq(Element)] /\ calls' \in [Thread -> Nat]
    BY <1>2 DEF Call, TypeOK
  <2> QED
    BY <1>2, <2>3, <2>4, <2>5 DEF Call, Goto, lockVars, TypeOK, LockType, Pc
<1>3. ASSUME NEW t \in Thread, LockQueue(t) PROVE TypeOK'
  BY <1>3 DEF LockQueue, Lock, Goto, threadVars, TypeOK, LockType, Pc
<1>4. ASSUME NEW t \in Thread, PushElement(t) PROVE TypeOK'
  <2>1. held[t] \in Element
    BY <1>4 DEF PushElement, PlacesSound
  <2> QED
    BY <1>4, <2>1 DEF PushElement, Goto, lockVars, TypeOK, LockType, Pc
<1>5. ASSUME NEW t \in Thread, PushNotify(t) PROVE TypeOK'
  BY <1>5 DEF PushNotify, Notify, Goto, threadVars, TypeOK, LockType, Pc
<1>6. ASSUME NEW t \in Thread, ReadSize(t) PROVE TypeOK'
  BY <1>6 DEF ReadSize, Goto, lockVars, threadVars, TypeOK, LockType, Pc
<1>7. ASSUME NEW t \in Thread, TestEmpty(t) PROVE TypeOK'
  BY <1>7 DEF TestEmpty, Goto, lockVars, TypeOK, LockType, Pc
<1>8. ASSUME NEW t \in Thread, WaitForElement(t) PROVE TypeOK'
  <2>1. holder' = NoThread /\ count' = 0 /\ waiting' \subseteq waiting \cup {t}
    BY <1>8, EmitEffect DEF WaitForElement, Wait
  <2> QED
    BY <1>8, <2>1 DEF WaitForElement, Goto, threadVars, TypeOK, LockType, Pc
<1>9. ASSUME NEW t \in Thread, TimeOut(t) PROVE TypeOK'
  BY <1>9 DEF TimeOut, Leave, Goto, threadVars, TypeOK, LockType, Pc
<1>10. ASSUME NEW t \in Thread, WakeSpuriously(t) PROVE TypeOK'
  BY <1>10 DEF WakeSpuriously, Leave, threadVars, TypeOK, LockType
<1>11. ASSUME NEW t \in Thread, WakeUp(t) PROVE TypeOK'
  BY <1>11 DEF WakeUp, Reacquire, Goto, threadVars, TypeOK, LockType, Pc
<1>12. ASSUME NEW t \in Thread, Take(t) PROVE TypeOK'
  <2>1. queue # <<>>
    BY <1>12 DEF Take, SeenSound
  <2>2. queue \in Seq(Element) /\ Head(queue) \in Element /\ Tail(queue) \in Seq(Element)
    BY <2>1 DEF TypeOK
  <2>3. <<>> \in Seq(Element) /\ <<Head(queue)>> \in Seq(Element)
    BY <2>2
  <2>4. /\ queue' = <<>> \/ queue' = Tail(queue)
        /\ \E s \in Seq(Element) : got' = [got EXCEPT ![t] = s]
    BY <1>12, <2>2, <2>3 DEF Take
  <2>5. queue' \in Seq(Element)
    BY <2>2, <2>3, <2>4
  <2>6. got' \in [Thread -> Seq(Element)]
    BY <2>4 DEF TypeOK
  <2> QED
    BY <1>12, <2>5, <2>6 DEF Take, Goto, lockVars, TypeOK, LockType, Pc
<1>13. ASSUME NEW t \in Thread, UnlockQueue(t) PROVE TypeOK'
  <2>1. holder' = NoThread /\ count' = 0 /\ waiting' \subseteq waiting
    BY <1>13, EmitEffect DEF UnlockQueue, Unlock
  <2> QED
    BY <1>13, <2>1 DEF UnlockQueue, Goto, threadVars, TypeOK, LockType, Pc
<1> QED
  BY <1>1, <1>2, <1>3, <1>4, <1>5, <1>6, <1>7, <1>8, <1>9, <1>10, <1>11, <1>12, <1>13
     DEF Next, Step

(* A step of the lock: who holds it, and that a free lock owes nothing.      *)
LEMMA LockStep ==
    ASSUME QInv, [Next]_vars
    PROVE  MutualExclusion' /\ NothingOwed'
<1> USE DEF QInv, TypeOK, LockType, MutualExclusion, NothingOwed, InSection, Goto
<1>0. NoThread \notin Thread
  BY ThreadLockAssumption DEF ThreadLockAssumption
<1>1. CASE UNCHANGED vars
  BY <1>1 DEF vars, lockVars
<1>2. ASSUME NEW t \in Thread, Call(t) PROVE MutualExclusion' /\ NothingOwed'
  BY <1>2 DEF Call, lockVars
<1>3. ASSUME NEW t \in Thread, LockQueue(t) PROVE MutualExclusion' /\ NothingOwed'
  BY <1>0, <1>3 DEF LockQueue, Lock
<1>4. ASSUME NEW t \in Thread, PushElement(t) PROVE MutualExclusion' /\ NothingOwed'
  BY <1>4 DEF PushElement, lockVars
<1>5. ASSUME NEW t \in Thread, PushNotify(t) PROVE MutualExclusion' /\ NothingOwed'
  BY <1>0, <1>5 DEF PushNotify, Notify
<1>6. ASSUME NEW t \in Thread, ReadSize(t) PROVE MutualExclusion' /\ NothingOwed'
  BY <1>6 DEF ReadSize, lockVars
<1>7. ASSUME NEW t \in Thread, TestEmpty(t) PROVE MutualExclusion' /\ NothingOwed'
  BY <1>7 DEF TestEmpty, lockVars
<1>8. ASSUME NEW t \in Thread, WaitForElement(t) PROVE MutualExclusion' /\ NothingOwed'
  <2>1. holder' = NoThread /\ count' = 0
    BY <1>8, EmitEffect DEF WaitForElement, Wait
  <2> QED
    BY <1>0, <1>8, <2>1 DEF WaitForElement
<1>9. ASSUME NEW t \in Thread, TimeOut(t) PROVE MutualExclusion' /\ NothingOwed'
  BY <1>9 DEF TimeOut, Leave
<1>10. ASSUME NEW t \in Thread, WakeSpuriously(t) PROVE MutualExclusion' /\ NothingOwed'
  BY <1>10 DEF WakeSpuriously, Leave
<1>11. ASSUME NEW t \in Thread, WakeUp(t) PROVE MutualExclusion' /\ NothingOwed'
  BY <1>0, <1>11 DEF WakeUp, Reacquire
<1>12. ASSUME NEW t \in Thread, Take(t) PROVE MutualExclusion' /\ NothingOwed'
  BY <1>12 DEF Take, lockVars
<1>13. ASSUME NEW t \in Thread, UnlockQueue(t) PROVE MutualExclusion' /\ NothingOwed'
  <2>1. holder' = NoThread /\ count' = 0
    BY <1>13, EmitEffect DEF UnlockQueue, Unlock
  <2> QED
    BY <1>0, <1>13, <2>1 DEF UnlockQueue
<1> QED
  BY <1>1, <1>2, <1>3, <1>4, <1>5, <1>6, <1>7, <1>8, <1>9, <1>10, <1>11, <1>12, <1>13
     DEF Next, Step

LEMMA PlacesStep ==
    ASSUME QInv, [Next]_vars
    PROVE  PlacesSound'
<1> USE DEF QInv, TypeOK, LockType, PlacesSound, Goto
<1>1. CASE UNCHANGED vars
  BY <1>1 DEF vars, lockVars
<1>2. ASSUME NEW t \in Thread, Call(t) PROVE PlacesSound'
  BY <1>2 DEF Call, lockVars
<1>3. ASSUME NEW t \in Thread, LockQueue(t) PROVE PlacesSound'
  BY <1>3 DEF LockQueue, Lock, threadVars
<1>4. ASSUME NEW t \in Thread, PushElement(t) PROVE PlacesSound'
  BY <1>4 DEF PushElement, lockVars
<1>5. ASSUME NEW t \in Thread, PushNotify(t) PROVE PlacesSound'
  BY <1>5 DEF PushNotify, Notify, threadVars
<1>6. ASSUME NEW t \in Thread, ReadSize(t) PROVE PlacesSound'
  BY <1>6 DEF ReadSize, lockVars, threadVars
<1>7. ASSUME NEW t \in Thread, TestEmpty(t) PROVE PlacesSound'
  BY <1>7 DEF TestEmpty, lockVars
<1>8. ASSUME NEW t \in Thread, WaitForElement(t) PROVE PlacesSound'
  <2>1. waiting' \subseteq waiting \cup {t}
    BY <1>8, EmitEffect DEF WaitForElement, Wait
  <2> QED
    BY <1>8, <2>1 DEF WaitForElement, threadVars
<1>9. ASSUME NEW t \in Thread, TimeOut(t) PROVE PlacesSound'
  BY <1>9 DEF TimeOut, Leave, threadVars
<1>10. ASSUME NEW t \in Thread, WakeSpuriously(t) PROVE PlacesSound'
  BY <1>10 DEF WakeSpuriously, Leave, threadVars
<1>11. ASSUME NEW t \in Thread, WakeUp(t) PROVE PlacesSound'
  BY <1>11 DEF WakeUp, Reacquire, threadVars
<1>12. ASSUME NEW t \in Thread, Take(t) PROVE PlacesSound'
  BY <1>12 DEF Take, lockVars
<1>13. ASSUME NEW t \in Thread, UnlockQueue(t) PROVE PlacesSound'
  <2>1. waiting' \subseteq waiting
    BY <1>13, EmitEffect DEF UnlockQueue, Unlock
  <2> QED
    BY <1>13, <2>1 DEF UnlockQueue, threadVars
<1> QED
  BY <1>1, <1>2, <1>3, <1>4, <1>5, <1>6, <1>7, <1>8, <1>9, <1>10, <1>11, <1>12, <1>13
     DEF Next, Step

(* Only the thread with the mutex changes the queue, so what one has seen    *)
(* there stays while it is at work.                                          *)
LEMMA SeenStep ==
    ASSUME QInv, [Next]_vars
    PROVE  SeenSound'
<1> USE DEF QInv, TypeOK, SeenSound, Goto
<1>1. CASE UNCHANGED vars
  BY <1>1 DEF vars
<1>2. ASSUME NEW t \in Thread, Call(t) PROVE SeenSound'
  BY <1>2 DEF Call
<1>3. ASSUME NEW t \in Thread, LockQueue(t) PROVE SeenSound'
  BY <1>3 DEF LockQueue
<1>4. ASSUME NEW t \in Thread, PushElement(t) PROVE SeenSound'
  BY <1>4 DEF PushElement, MutualExclusion, InSection
<1>5. ASSUME NEW t \in Thread, PushNotify(t) PROVE SeenSound'
  BY <1>5 DEF PushNotify
<1>6. ASSUME NEW t \in Thread, ReadSize(t) PROVE SeenSound'
  BY <1>6 DEF ReadSize
<1>7. ASSUME NEW t \in Thread, TestEmpty(t) PROVE SeenSound'
  BY <1>7 DEF TestEmpty
<1>8. ASSUME NEW t \in Thread, WaitForElement(t) PROVE SeenSound'
  BY <1>8 DEF WaitForElement
<1>9. ASSUME NEW t \in Thread, TimeOut(t) PROVE SeenSound'
  BY <1>9 DEF TimeOut
<1>10. ASSUME NEW t \in Thread, WakeSpuriously(t) PROVE SeenSound'
  BY <1>10 DEF WakeSpuriously
<1>11. ASSUME NEW t \in Thread, WakeUp(t) PROVE SeenSound'
  BY <1>11 DEF WakeUp
<1>12. ASSUME NEW t \in Thread, Take(t) PROVE SeenSound'
  BY <1>12 DEF Take, MutualExclusion, InSection
<1>13. ASSUME NEW t \in Thread, UnlockQueue(t) PROVE SeenSound'
  BY <1>13 DEF UnlockQueue
<1> QED
  BY <1>1, <1>2, <1>3, <1>4, <1>5, <1>6, <1>7, <1>8, <1>9, <1>10, <1>11, <1>12, <1>13
     DEF Next, Step

(* TypeOK, MutualExclusion and NothingOwed hold of a queue of any size,      *)
(* together with what the places of the threads say.                         *)
THEOREM QueueInvariant == Spec => []QInv
<1>1. QInv /\ [Next]_vars => QInv'
  BY TypeStep, LockStep, PlacesStep, SeenStep DEF QInv
<1> QED
  BY QInit, <1>1, PTL DEF Spec

(* Every variable of the queue keeps its type.                               *)
THEOREM QueueTypeCorrect == Spec => []TypeOK
<1>1. QInv => TypeOK
  BY DEF QInv
<1> QED
  BY QueueInvariant, <1>1, PTL

(* Exactly the thread that works on the queue owns the mutex.                *)
THEOREM ThreadsExcluded == Spec => []MutualExclusion
<1>1. QInv => MutualExclusion
  BY DEF QInv
<1> QED
  BY QueueInvariant, <1>1, PTL

(* A free mutex has no notification to send, so lock() forgets none.         *)
THEOREM NoneOwed == Spec => []NothingOwed
<1>1. QInv => NothingOwed
  BY DEF QInv
<1> QED
  BY QueueInvariant, <1>1, PTL
-----------------------------------------------------------------------------
(* The state of the atomic queue when one thread moves.                      *)
LEMMA PromisedAt ==
    ASSUME TypeOK, NEW t \in Thread, NEW place,
           pc' = [pc EXCEPT ![t] = place], op' = op
    PROVE  Promised' = [Promised EXCEPT ![t] =
               IF place = "idle" THEN "none"
               ELSE IF place \in {"notify", "unlock"} THEN "done" ELSE op[t]]
BY DEF TypeOK, Promised

LEMMA ServiceStep ==
    ASSUME QInv, [Next]_vars
    PROVE  [Service!Next]_Service!vars
<1> DEFINE Stutter == UNCHANGED <<queue, Promised, got>>
           Atomic(t) == \/ Service!Begin(t) \/ Service!Push(t) \/ Service!TakeAll(t)
                        \/ Service!TakeOne(t) \/ Service!ComeAway(t) \/ Service!End(t)
<1> USE DEF QInv, Goto, threadVars
<1>1. CASE UNCHANGED vars
  <2>1. Promised' = Promised
    BY <1>1 DEF vars, Promised
  <2> QED
    BY <1>1, <2>1 DEF vars, Service!vars
<1>2. ASSUME NEW t \in Thread, Call(t) PROVE Service!Begin(t)
  <2>1. PICK o \in OpsOf[t] : op' = [op EXCEPT ![t] = o]
    BY <1>2 DEF Call
  <2>2. o \in Operation
    BY ThreadQueueAssumption DEF ThreadQueueAssumption
  <2>3. Promised[t] = "none"
    BY <1>2 DEF Call, Promised
  <2>4. pc' = [pc EXCEPT ![t] = "lock"]
    BY <1>2 DEF Call
  <2>5. Promised' = [Promised EXCEPT ![t] = o]
    BY <2>1, <2>4 DEF Promised, TypeOK
  <2>6. got' = [got EXCEPT ![t] = <<>>] /\ queue' = queue
    BY <1>2 DEF Call
  <2> QED
    BY <2>2, <2>3, <2>5, <2>6 DEF Service!Begin, Service!Operation
<1>3. ASSUME NEW t \in Thread, LockQueue(t) PROVE Stutter
  BY <1>3 DEF LockQueue, Promised, TypeOK
<1>4. ASSUME NEW t \in Thread, PushElement(t) PROVE Service!Push(t)
  <2>1. Promised[t] = "push" /\ held[t] \in Element
    BY <1>4 DEF PushElement, Promised, PlacesSound
  <2>2. Promised' = [Promised EXCEPT ![t] = "done"]
    BY <1>4, PromisedAt DEF PushElement
  <2> QED
    BY <1>4, <2>1, <2>2 DEF PushElement, Service!Push
<1>5. ASSUME NEW t \in Thread, PushNotify(t) PROVE Stutter
  BY <1>5 DEF PushNotify, Promised, TypeOK
<1>6. ASSUME NEW t \in Thread, ReadSize(t) PROVE Service!ComeAway(t)
  <2>1. Promised[t] = "size"
    BY <1>6 DEF ReadSize, Promised, PlacesSound
  <2>2. Promised' = [Promised EXCEPT ![t] = "done"]
    BY <1>6, PromisedAt DEF ReadSize
  <2> QED
    BY <1>6, <2>1, <2>2 DEF ReadSize, Service!ComeAway, Service!Operation
<1>7. ASSUME NEW t \in Thread, TestEmpty(t) PROVE Stutter \/ Service!ComeAway(t)
  <2>1. CASE pc' = [pc EXCEPT ![t] = "take"] \/ pc' = [pc EXCEPT ![t] = "wait"]
    BY <1>7, <2>1 DEF TestEmpty, Promised, TypeOK
  <2>2. CASE op[t] = "pop" /\ pc' = [pc EXCEPT ![t] = "unlock"]
    <3>1. Promised[t] = op[t]
      BY <1>7 DEF TestEmpty, Promised
    <3>2. Promised' = [Promised EXCEPT ![t] = "done"]
      BY <1>7, <2>2, PromisedAt DEF TestEmpty
    <3> QED
      BY <1>7, <2>2, <3>1, <3>2 DEF TestEmpty, Service!ComeAway, Service!Operation
  <2> QED
    BY <1>7, <2>1, <2>2 DEF TestEmpty
<1>8. ASSUME NEW t \in Thread, WaitForElement(t) PROVE Stutter
  BY <1>8 DEF WaitForElement, Promised, TypeOK
<1>9. ASSUME NEW t \in Thread, TimeOut(t) PROVE Stutter
  BY <1>9 DEF TimeOut, Promised, TypeOK
<1>10. ASSUME NEW t \in Thread, WakeSpuriously(t) PROVE Stutter
  BY <1>10 DEF WakeSpuriously, Promised, TypeOK
<1>11. ASSUME NEW t \in Thread, WakeUp(t) PROVE Stutter \/ Service!ComeAway(t)
  <2>1. CASE pc[t] = "asleep"
    BY <1>11, <2>1 DEF WakeUp, Promised, TypeOK
  <2>2. CASE pc[t] = "late"
    <3>1. Promised[t] = op[t] /\ op[t] \in {"swap", "pop"}
      BY <2>2 DEF Promised, PlacesSound
    <3>2. Promised' = [Promised EXCEPT ![t] = "done"]
      BY <1>11, <2>2, PromisedAt DEF WakeUp
    <3> QED
      BY <1>11, <3>1, <3>2 DEF WakeUp, Service!ComeAway, Service!Operation
  <2> QED
    BY <1>11, <2>1, <2>2 DEF WakeUp
<1>12. ASSUME NEW t \in Thread, Take(t) PROVE Service!TakeAll(t) \/ Service!TakeOne(t)
  <2>1. Promised[t] = op[t] /\ queue # <<>>
    BY <1>12 DEF Take, Promised, SeenSound
  <2>2. Promised' = [Promised EXCEPT ![t] = "done"]
    BY <1>12, PromisedAt DEF Take
  <2> QED
    BY <1>12, <2>1, <2>2 DEF Take, Service!TakeAll, Service!TakeOne
<1>13. ASSUME NEW t \in Thread, UnlockQueue(t) PROVE Service!End(t)
  <2>1. Promised[t] = "done"
    BY <1>13 DEF UnlockQueue, Promised
  <2>2. Promised' = [Promised EXCEPT ![t] = "none"]
    BY <1>13, PromisedAt DEF UnlockQueue
  <2> QED
    BY <1>13, <2>1, <2>2 DEF UnlockQueue, Service!End
<1>14. Stutter => UNCHANGED Service!vars
  BY DEF Service!vars
<1>15. ASSUME NEW t \in Thread, Atomic(t) PROVE Service!Next
  BY <1>15 DEF Service!Next
<1> QED
  BY <1>1, <1>2, <1>3, <1>4, <1>5, <1>6, <1>7, <1>8, <1>9, <1>10, <1>11, <1>12, <1>13,
     <1>14, <1>15 DEF Next, Step

(* Hrpc_Queue with its lock, its waits and its notifications does what an    *)
(* atomic queue does, step by step.                                          *)
THEOREM QueueRefines == Spec => QueueIsAtomic
<1>1. Init => Service!Init
  BY DEF Init, Service!Init, Promised
<1>2. QInv /\ [Next]_vars => [Service!Next]_Service!vars
  BY ServiceStep
<1> QED
  BY QueueInvariant, <1>1, <1>2, PTL DEF Spec, QueueIsAtomic, Service!Spec
-----------------------------------------------------------------------------
(* What the operations do to the elements of a sequence.                     *)
LEMMA AppendElements ==
    ASSUME NEW s \in Seq(Element), NEW e \in Element
    PROVE  /\ Elements(Append(s, e)) = Elements(s) \cup {e}
           /\ Once(s) /\ e \notin Elements(s) => Once(Append(s, e))
<1> DEFINE a == Append(s, e)
<1>1. /\ Len(s) \in Nat /\ Len(a) = Len(s) + 1
      /\ a[Len(s) + 1] = e
      /\ \A i \in 1..Len(s) : a[i] = s[i]
  OBVIOUS
<1>2. 1..Len(a) = 1..Len(s) \cup {Len(s) + 1}
  BY <1>1
<1> HIDE DEF a
<1>3. Elements(a) = Elements(s) \cup {e}
  BY <1>1, <1>2 DEF Elements
<1>4. ASSUME Once(s), e \notin Elements(s), NEW i \in 1..Len(a), NEW j \in 1..Len(a),
             a[i] = a[j]
      PROVE  i = j
  <2>1. \A k \in 1..Len(s) : s[k] # e
    BY <1>4 DEF Elements
  <2> QED
    BY <1>1, <1>2, <1>4, <2>1 DEF Once
<1> QED
  BY <1>3, <1>4 DEF Once, a

LEMMA TailElements ==
    ASSUME NEW s \in Seq(Element), s # <<>>
    PROVE  /\ Head(s) \in Elements(s)
           /\ Elements(Tail(s)) \subseteq Elements(s)
           /\ Once(s) => Once(Tail(s)) /\ Head(s) \notin Elements(Tail(s))
<1> DEFINE r == Tail(s)
<1>1. /\ Len(s) \in Nat \ {0} /\ Len(r) = Len(s) - 1
      /\ Head(s) = s[1]
      /\ \A i \in 1..Len(r) : r[i] = s[i + 1]
  OBVIOUS
<1> HIDE DEF r
<1>2. Head(s) \in Elements(s) /\ Elements(r) \subseteq Elements(s)
  BY <1>1 DEF Elements
<1>3. ASSUME Once(s) PROVE Once(r)
  <2> SUFFICES ASSUME NEW i \in 1..Len(r), NEW j \in 1..Len(r), r[i] = r[j]
               PROVE  i = j
    BY DEF Once
  <2>1. i + 1 \in 1..Len(s) /\ j + 1 \in 1..Len(s) /\ s[i + 1] = s[j + 1]
    BY <1>1
  <2>2. i + 1 = j + 1
    BY <1>3, <2>1 DEF Once
  <2> QED
    BY <2>2
<1>4. ASSUME Once(s), NEW i \in 1..Len(r), r[i] = Head(s) PROVE FALSE
  <2>1. i + 1 \in 1..Len(s) /\ 1 \in 1..Len(s) /\ s[i + 1] = s[1]
    BY <1>1, <1>4
  <2>2. i + 1 = 1
    BY <1>4, <2>1 DEF Once
  <2> QED
    BY <2>2
<1> QED
  BY <1>2, <1>3, <1>4 DEF Elements, r

LEMMA ShortElements ==
    ASSUME NEW e
    PROVE  /\ Elements(<<>>) = {} /\ Once(<<>>)
           /\ Elements(<<e>>) = {e} /\ Once(<<e>>)
<1>1. Len(<<>>) = 0 /\ 1..0 = {}
  OBVIOUS
<1>2. Len(<<e>>) = 1 /\ 1..1 = {1} /\ <<e>>[1] = e
  OBVIOUS
<1>3. Elements(<<>>) = {} /\ Once(<<>>)
  BY <1>1 DEF Elements, Once
<1>4. Elements(<<e>>) = {e} /\ Once(<<e>>)
  BY <1>2 DEF Elements, Once
<1> QED
  BY <1>3, <1>4

LEMMA OwnedStep ==
    ASSUME QInv, OwnedOnce, [Next]_vars
    PROVE  OwnedOnce'
<1> USE DEF QInv, Goto
<1>1. CASE UNCHANGED <<queue, got, held>>
  BY <1>1 DEF OwnedOnce
<1>2. ASSUME NEW t \in Thread, Call(t) PROVE OwnedOnce'
  <2>1. queue' = queue /\ got' = [got EXCEPT ![t] = <<>>]
    BY <1>2 DEF Call
  <2>2. \A u \in Thread : got'[u] = got[u] \/ got'[u] = <<>>
    BY <2>1 DEF TypeOK
  <2>3. \A u \in Thread : Elements(got'[u]) \subseteq Elements(got[u]) /\ Once(got'[u])
    BY <2>2, ShortElements DEF OwnedOnce
  <2>4. \/ held' = held
        \/ \E e \in Element \ Owned : held' = [held EXCEPT ![t] = e]
    BY <1>2 DEF Call
  <2>5. CASE held' = held
    BY <2>1, <2>3, <2>5 DEF OwnedOnce
  <2>6. ASSUME NEW e \in Element \ Owned, held' = [held EXCEPT ![t] = e]
        PROVE  OwnedOnce'
    <3>1. /\ e \notin Elements(queue)
          /\ \A u \in Thread : e \notin Elements(got[u]) /\ e # held[u]
      BY DEF Owned
    <3>2. \A u \in Thread : held'[u] = IF u = t THEN e ELSE held[u]
      BY <2>6 DEF TypeOK
    <3>3. ASSUME NEW u \in Thread, held'[u] # NoElement
          PROVE  /\ held'[u] \notin Elements(queue')
                 /\ \A v \in Thread : held'[u] \notin Elements(got'[v])
                 /\ \A v \in Thread \ {u} : held'[u] # held'[v]
      <4>1. CASE u = t
        BY <2>1, <2>3, <3>1, <3>2, <4>1
      <4>2. CASE u # t
        BY <2>1, <2>3, <3>1, <3>2, <3>3, <4>2 DEF OwnedOnce
      <4> QED
        BY <4>1, <4>2
    <3> QED
      BY <2>1, <2>3, <3>3 DEF OwnedOnce
  <2> QED
    BY <2>4, <2>5, <2>6
<1>3. ASSUME NEW t \in Thread, PushElement(t) PROVE OwnedOnce'
  <2>1. held[t] \in Element /\ held[t] # NoElement
    BY <1>3, ThreadQueueAssumption DEF PushElement, PlacesSound, ThreadQueueAssumption
  <2>2. queue' = Append(queue, held[t]) /\ got' = got
    BY <1>3 DEF PushElement
  <2>3. \A u \in Thread : held'[u] = IF u = t THEN NoElement ELSE held[u]
    BY <1>3 DEF PushElement, TypeOK
  <2>4. held[t] \notin Elements(queue) /\ Once(queue)
    BY <2>1 DEF OwnedOnce
  <2>5. Elements(queue') = Elements(queue) \cup {held[t]} /\ Once(queue')
    BY <2>1, <2>2, <2>4, AppendElements DEF TypeOK
  <2> QED
    BY <2>1, <2>2, <2>3, <2>5 DEF OwnedOnce
<1>4. ASSUME NEW t \in Thread, Take(t) PROVE OwnedOnce'
  <2>1. queue # <<>> /\ queue \in Seq(Element) /\ Once(queue)
    BY <1>4 DEF Take, SeenSound, TypeOK, OwnedOnce
  <2>2. /\ held' = held
        /\ \A u \in Thread \ {t} : got'[u] = got[u]
    BY <1>4 DEF Take, TypeOK
  <2>3. /\ Elements(queue') \subseteq Elements(queue) /\ Once(queue')
        /\ Elements(got'[t]) \subseteq Elements(queue) /\ Once(got'[t])
        /\ Elements(got'[t]) \cap Elements(queue') = {}
    <3>1. CASE queue' = <<>> /\ got' = [got EXCEPT ![t] = queue]
      <4>1. got'[t] = queue
        BY <3>1 DEF TypeOK
      <4> QED
        BY <2>1, <3>1, <4>1, ShortElements
    <3>2. CASE queue' = Tail(queue) /\ got' = [got EXCEPT ![t] = <<Head(queue)>>]
      <4>1. got'[t] = <<Head(queue)>>
        BY <3>2 DEF TypeOK
      <4> QED
        BY <2>1, <3>2, <4>1, ShortElements, TailElements
    <3> QED
      BY <1>4, <3>1, <3>2 DEF Take
  <2> QED
    BY <2>2, <2>3 DEF OwnedOnce
<1>5. ASSUME NEW t \in Thread, TestEmpty(t) PROVE UNCHANGED <<queue, got, held>>
  BY <1>5 DEF TestEmpty
<1>6. ASSUME NEW t \in Thread,
             LockQueue(t) \/ PushNotify(t) \/ ReadSize(t) \/ WaitForElement(t)
               \/ TimeOut(t) \/ WakeSpuriously(t) \/ WakeUp(t) \/ UnlockQueue(t)
      PROVE  UNCHANGED <<queue, got, held>>
  BY <1>6 DEF LockQueue, PushNotify, ReadSize, WaitForElement, TimeOut, WakeSpuriously,
              WakeUp, UnlockQueue, threadVars
<1>7. CASE UNCHANGED vars
  BY <1>1, <1>7 DEF vars
<1> QED
  BY <1>1, <1>2, <1>3, <1>4, <1>5, <1>6, <1>7 DEF Next, Step

(* An element is in one hand: of a caller of push, of the queue, or of the   *)
(* thread it was served to.                                                  *)
THEOREM ElementsOwnedOnce == Spec => []OwnedOnce
<1>1. Init => OwnedOnce
  BY ShortElements, ThreadQueueAssumption DEF Init, OwnedOnce, ThreadQueueAssumption
<1>2. QInv /\ OwnedOnce /\ [Next]_vars => OwnedOnce'
  BY OwnedStep
<1> QED
  BY QueueInvariant, <1>1, <1>2, PTL DEF Spec
-----------------------------------------------------------------------------
(* While a thread waits there are not more elements than notifications to    *)
(* send, or about to be counted, and threads on the way to take one.         *)
Notifying == IF \E t \in Thread : pc[t] = "notify" THEN 1 ELSE 0
Enough ==
    waiting # {} => Len(queue) <= count + Notifying + Cardinality(OnTheWay)

Counts ==
    /\ IsFiniteSet(OnTheWay) /\ Cardinality(OnTheWay) \in Nat
    /\ count \in Nat /\ Len(queue) \in Nat /\ Notifying \in {0, 1}

LEMMA CountsAreNumbers == TypeOK => Counts
<1> SUFFICES ASSUME TypeOK PROVE Counts
  OBVIOUS
<1>1. IsFiniteSet(OnTheWay)
  BY FS_Subset, ThreadLockAssumption DEF OnTheWay, ThreadLockAssumption
<1> QED
  BY <1>1, FS_CardinalityType DEF Counts, TypeOK, LockType, Notifying

(* The thread with the mutex is the only one that may be about to notify.    *)
LEMMA NotifyingIs ==
    ASSUME QInv, NEW t \in Thread, pc[t] \in InSection
    PROVE  Notifying = IF pc[t] = "notify" THEN 1 ELSE 0
BY DEF QInv, MutualExclusion, InSection, Notifying

(* A step after which there are as many signals and takers as before, and no *)
(* more elements, leaves enough.                                             *)
LEMMA EnoughKept ==
    ASSUME TypeOK, TypeOK', Enough, waiting' # {} => waiting # {},
           Len(queue') <= Len(queue), count' >= count, Notifying' = Notifying,
           OnTheWay \subseteq OnTheWay'
    PROVE  Enough'
<1>1. Counts
  BY CountsAreNumbers
<1>2. Counts'
  BY CountsAreNumbers, PTL
<1>3. Cardinality(OnTheWay) <= Cardinality(OnTheWay')
  BY <1>2, FS_Subset DEF Counts
<1> QED
  BY <1>1, <1>2, <1>3 DEF Enough, Counts

LEMMA EmptyIsEnough ==
    ASSUME TypeOK', queue' = <<>>
    PROVE  Enough'
<1>1. Counts'
  BY CountsAreNumbers, PTL
<1>2. Len(queue') = 0
  OBVIOUS
<1> QED
  BY <1>1, <1>2 DEF Enough, Counts

LEMMA EnoughStep ==
    ASSUME QInv, QInv', Enough, [Next]_vars
    PROVE  Enough'
<1> DEFINE Same == UNCHANGED <<waiting, count, queue, OnTheWay, Notifying>>
<1> USE DEF QInv, Goto
<1>0. /\ IsFiniteSet(OnTheWay) /\ Cardinality(OnTheWay) \in Nat
      /\ count \in Nat /\ Len(queue) \in Nat /\ Notifying \in {0, 1}
  BY CountsAreNumbers DEF Counts
<1>1. CASE UNCHANGED vars
  BY <1>1 DEF vars, lockVars, Enough, OnTheWay, Notifying
<1>2. ASSUME NEW t \in Thread, Call(t) PROVE Enough'
  <2>1. \A u \in Thread \ {t} : pc'[u] = pc[u] /\ op'[u] = op[u]
    BY <1>2 DEF Call, TypeOK
  <2>2. pc[t] = "idle" /\ pc'[t] = "lock" /\ UNCHANGED <<waiting, count, queue>>
    BY <1>2 DEF Call, TypeOK, lockVars
  <2>3. OnTheWay \subseteq OnTheWay' /\ Notifying' = Notifying
    BY <2>1, <2>2 DEF OnTheWay, Notifying
  <2> QED
    BY <1>0, <2>2, <2>3, EnoughKept
<1>3. ASSUME NEW t \in Thread, LockQueue(t) PROVE Enough'
  <2>1. count = 0 /\ count' = 0 /\ UNCHANGED <<waiting, queue, op>>
    BY <1>3 DEF LockQueue, Lock, NothingOwed, threadVars
  <2>2. /\ pc[t] = "lock" /\ pc'[t] \in {"push", "size", "test"}
        /\ op[t] \in Takes => pc'[t] = "test"
        /\ \A u \in Thread \ {t} : pc'[u] = pc[u]
    BY <1>3 DEF LockQueue, TypeOK
  <2>3. OnTheWay \subseteq OnTheWay' /\ Notifying' = Notifying
    BY <2>1, <2>2 DEF OnTheWay, Notifying
  <2> QED
    BY <1>0, <2>1, <2>3, EnoughKept
<1>4. ASSUME NEW t \in Thread, PushElement(t) PROVE Enough'
  <2>1. /\ pc[t] = "push" /\ pc'[t] = "notify" /\ UNCHANGED <<waiting, count, op>>
        /\ \A u \in Thread \ {t} : pc'[u] = pc[u]
    BY <1>4 DEF PushElement, TypeOK, lockVars
  <2>2. Notifying = 0 /\ Notifying' = 1
    BY <2>1, NotifyingIs DEF Notifying, InSection
  <2>3. OnTheWay' = OnTheWay
    BY <2>1 DEF OnTheWay
  <2>4. Len(queue') = Len(queue) + 1
    BY <1>4 DEF PushElement, TypeOK
  <2> QED
    BY <1>0, <2>1, <2>2, <2>3, <2>4 DEF Enough
<1>5. ASSUME NEW t \in Thread, PushNotify(t) PROVE Enough'
  <2>1. /\ pc[t] = "notify" /\ pc'[t] = "unlock" /\ UNCHANGED <<waiting, queue, op>>
        /\ \A u \in Thread \ {t} : pc'[u] = pc[u]
    BY <1>5 DEF PushNotify, Notify, TypeOK, threadVars
  <2>2. Notifying = 1 /\ Notifying' = 0
    BY <2>1 DEF MutualExclusion, InSection, Notifying
  <2>3. OnTheWay' = OnTheWay
    BY <2>1 DEF OnTheWay
  <2>4. count' = count + 1
    BY <1>5 DEF PushNotify, Notify
  <2> QED
    BY <1>0, <2>1, <2>2, <2>3, <2>4 DEF Enough
<1>6. ASSUME NEW t \in Thread, ReadSize(t) PROVE Enough'
  <2>1. /\ pc[t] = "size" /\ pc'[t] = "unlock" /\ UNCHANGED <<waiting, count, queue, op>>
        /\ \A u \in Thread \ {t} : pc'[u] = pc[u]
    BY <1>6 DEF ReadSize, TypeOK, lockVars, threadVars
  <2>2. OnTheWay' = OnTheWay /\ Notifying' = Notifying
    BY <2>1 DEF OnTheWay, Notifying
  <2> QED
    BY <1>0, <2>1, <2>2, EnoughKept
<1>7. ASSUME NEW t \in Thread, TestEmpty(t) PROVE Enough'
  <2>1. CASE queue' = <<>>
    BY <2>1, EmptyIsEnough
  <2>2. CASE queue' # <<>>
    <3>1. /\ pc[t] = "test" /\ pc'[t] = "take" /\ UNCHANGED <<waiting, count, queue, op>>
          /\ \A u \in Thread \ {t} : pc'[u] = pc[u]
      BY <1>7, <2>2 DEF TestEmpty, TypeOK, lockVars
    <3>2. OnTheWay' = OnTheWay /\ Notifying' = Notifying
      BY <3>1 DEF OnTheWay, Notifying
    <3> QED
      BY <1>0, <3>1, <3>2, EnoughKept
  <2> QED
    BY <2>1, <2>2
<1>8. ASSUME NEW t \in Thread, WaitForElement(t) PROVE Enough'
  <2>1. queue' = <<>>
    BY <1>8 DEF WaitForElement, SeenSound
  <2> QED
    BY <2>1, EmptyIsEnough
<1>9. ASSUME NEW t \in Thread, TimeOut(t) PROVE Enough'
  <2>1. /\ pc[t] = "asleep" /\ pc'[t] = "late" /\ UNCHANGED <<count, queue, op>>
        /\ t \in waiting /\ waiting' = waiting \ {t}
        /\ \A u \in Thread \ {t} : pc'[u] = pc[u]
    BY <1>9 DEF TimeOut, Leave, TypeOK, threadVars
  <2>2. OnTheWay' = OnTheWay /\ Notifying' = Notifying
    BY <2>1 DEF OnTheWay, Notifying
  <2> QED
    BY <1>0, <2>1, <2>2, EnoughKept
<1>10. ASSUME NEW t \in Thread, WakeSpuriously(t) PROVE Enough'
  <2>1. UNCHANGED <<count, queue, op, pc>> /\ waiting' = waiting \ {t} /\ t \in waiting
    BY <1>10 DEF WakeSpuriously, Leave, threadVars
  <2>2. OnTheWay \subseteq OnTheWay' /\ Notifying' = Notifying
    BY <2>1 DEF OnTheWay, Notifying
  <2> QED
    BY <1>0, <2>1, <2>2, EnoughKept
<1>11. ASSUME NEW t \in Thread, WakeUp(t) PROVE Enough'
  <2>1. /\ UNCHANGED <<count, queue, op, waiting>>
        /\ \/ pc[t] = "asleep" /\ pc'[t] = "test"
           \/ pc[t] = "late" /\ pc'[t] = "unlock"
        /\ \A u \in Thread \ {t} : pc'[u] = pc[u]
    BY <1>11 DEF WakeUp, Reacquire, TypeOK, threadVars
  <2>2. OnTheWay' = OnTheWay /\ Notifying' = Notifying
    BY <2>1 DEF OnTheWay, Notifying
  <2> QED
    BY <1>0, <2>1, <2>2, EnoughKept
<1>12. ASSUME NEW t \in Thread, Take(t) PROVE Enough'
  <2>1. /\ pc[t] = "take" /\ pc'[t] = "unlock" /\ UNCHANGED <<count, op, waiting>>
        /\ op[t] \in Takes /\ t \notin waiting /\ queue # <<>>
        /\ \A u \in Thread \ {t} : pc'[u] = pc[u]
    BY <1>12 DEF Take, TypeOK, lockVars, PlacesSound, SeenSound
  <2>2. t \in OnTheWay /\ OnTheWay' = OnTheWay \ {t} /\ Notifying' = Notifying
    BY <2>1 DEF OnTheWay, Notifying
  <2>3. Cardinality(OnTheWay') = Cardinality(OnTheWay) - 1
    BY <1>0, <2>2, FS_RemoveElement
  <2>4. CASE queue' = <<>>
    BY <2>4, EmptyIsEnough
  <2>5. CASE queue' = Tail(queue)
    <3>1. Len(queue') = Len(queue) - 1
      BY <2>1, <2>5 DEF TypeOK
    <3> QED
      BY <1>0, <2>1, <2>2, <2>3, <3>1 DEF Enough
  <2> QED
    BY <1>12, <2>4, <2>5 DEF Take
<1>13. ASSUME NEW t \in Thread, UnlockQueue(t) PROVE Enough'
  <2>1. /\ pc[t] = "unlock" /\ pc'[t] = "idle" /\ UNCHANGED <<queue, op>>
        /\ \A u \in Thread \ {t} : pc'[u] = pc[u]
    BY <1>13 DEF UnlockQueue, TypeOK, threadVars
  <2>2. PICK woken \in SUBSET waiting :
          /\ Cardinality(woken) = count \/ woken = waiting
          /\ waiting' = waiting \ woken
    BY <1>13 DEF UnlockQueue, Unlock, Emit
  <2>3. count' = 0 /\ Notifying = 0 /\ Notifying' = 0
    BY <1>13, <2>1, NotifyingIs, EmitEffect DEF UnlockQueue, Unlock, Notifying, InSection
  <2>4. CASE woken = waiting
    BY <2>2, <2>4 DEF Enough
  <2>5. CASE Cardinality(woken) = count
    <3>0. \A u \in waiting : u \in Thread /\ pc[u] = "asleep" /\ op[u] \in Takes /\ u # t
      BY <2>1 DEF PlacesSound, TypeOK, LockType
    <3>1. OnTheWay' = OnTheWay \cup woken /\ OnTheWay \cap woken = {}
      BY <2>1, <2>2, <3>0 DEF OnTheWay
    <3>2. woken \in SUBSET Thread /\ IsFiniteSet(Thread)
      BY <2>2, ThreadLockAssumption DEF TypeOK, LockType, ThreadLockAssumption
    <3>3. IsFiniteSet(woken)
      BY <3>2, FS_Subset
    <3>4. Cardinality(OnTheWay') = Cardinality(OnTheWay) + count
      BY <1>0, <2>5, <3>1, <3>3, FS_Union, FS_EmptySet
    <3> QED
      BY <1>0, <2>1, <2>2, <2>3, <3>4 DEF Enough
  <2> QED
    BY <2>2, <2>4, <2>5
<1> QED
  BY <1>1, <1>2, <1>3, <1>4, <1>5, <1>6, <1>7, <1>8, <1>9, <1>10, <1>11, <1>12, <1>13
     DEF Next, Step

(* Whatever times out, wakes without cause or takes more than its share: no  *)
(* thread waits beside an element with nobody on the way.                    *)
THEOREM NoWakeupIsLost == Spec => []NoLostWakeup
<1>1. QInv /\ Enough => NoLostWakeup
  <2> SUFFICES ASSUME QInv, Enough, queue # <<>>, waiting # {}
               PROVE  count > 0 \/ OnTheWay # {} \/ \E t \in Thread : pc[t] = "notify"
    BY DEF NoLostWakeup
  <2>1. count \in Nat /\ Len(queue) \in Nat /\ Len(queue) # 0
    BY DEF QInv, TypeOK, LockType
  <2>2. SUFFICES ASSUME count = 0, OnTheWay = {},
                        ~ \E t \in Thread : pc[t] = "notify"
                 PROVE  FALSE
    BY <2>1
  <2>3. Notifying = 0
    BY <2>2 DEF Notifying
  <2>4. Cardinality(OnTheWay) = 0
    BY <2>2, FS_EmptySet
  <2> QED
    BY <2>1, <2>2, <2>3, <2>4 DEF Enough
<1>2. Init => Enough
  BY DEF Init, LockInit, Enough
<1>3. QInv /\ QInv' /\ Enough /\ [Next]_vars => Enough'
  BY EnoughStep
<1> QED
  BY QueueInvariant, <1>1, <1>2, <1>3, PTL DEF Spec
=============================================================================
