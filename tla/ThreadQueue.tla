---------------------------- MODULE ThreadQueue -----------------------------
(* hrpc_queue.h, class Hrpc_Queue, over Hrpc_ThreadLock.  A step is what a   *)
(* thread does while no other thread can see it: the mutex operations, and   *)
(* each look at the queue and change of it on its own, so that the model     *)
(* does not assume that the mutex excludes.  A pop without a limit is left   *)
(* out: nothing in the repository calls it.                                  *)
EXTENDS ThreadLock, Sequences

CONSTANTS
    NoElement,  \* push has no element
    Element,    \* the requests or responses, owned by one unique_ptr each
    OpsOf,      \* OpsOf[t]: the operations thread t calls
    MaxCalls    \* bound: operations a thread calls

Takes == {"swap", "swapWait", "pop"}
Operation == Takes \cup {"push", "size"}
Limited == {"swap", "pop"}          \* a timeout that is not negative

ASSUME ThreadQueueAssumption ==
    /\ OpsOf \in [Thread -> SUBSET Operation]
    /\ MaxCalls \in Nat
    /\ NoElement \notin Element

VARIABLES
    queue,      \* _queue
    pc,         \* where a thread is
    op,         \* the operation it is in
    waited,     \* flag of pop: it has waited once
    held,       \* the element push was given
    got,        \* the elements swap or pop gave
    calls       \* operations begun

vars == <<lockVars, queue, pc, op, waited, held, got, calls>>
threadVars == <<op, waited, held, got, calls>>

Pc == {"idle", "lock", "push", "notify", "size", "test", "wait", "asleep",
       "late", "take", "unlock"}

TypeOK ==
    /\ LockType
    /\ queue \in Seq(Element)
    /\ pc \in [Thread -> Pc]
    /\ op \in [Thread -> Operation]
    /\ waited \in [Thread -> BOOLEAN]
    /\ held \in [Thread -> Element \cup {NoElement}]
    /\ got \in [Thread -> Seq(Element)]
    /\ calls \in [Thread -> Nat]

Init ==
    /\ LockInit
    /\ queue = <<>>
    /\ pc = [t \in Thread |-> "idle"]
    /\ op = [t \in Thread |-> "size"]
    /\ waited = [t \in Thread |-> FALSE]
    /\ held = [t \in Thread |-> NoElement]
    /\ got = [t \in Thread |-> <<>>]
    /\ calls = [t \in Thread |-> 0]

Goto(t, place) == pc' = [pc EXCEPT ![t] = place]

(* A thread may pass an element that no queue and no thread owns.            *)
Elements(s) == {s[i] : i \in 1..Len(s)}
Owned ==
    Elements(queue) \cup {held[t] : t \in Thread}
        \cup UNION {Elements(got[t]) : t \in Thread}

Call(t) ==
    /\ pc[t] = "idle"
    /\ calls[t] < MaxCalls
    /\ calls' = [calls EXCEPT ![t] = @ + 1]
    /\ \E o \in OpsOf[t] :
         /\ op' = [op EXCEPT ![t] = o]
         /\ \/ /\ o = "push"
               /\ \E e \in Element \ Owned : held' = [held EXCEPT ![t] = e]
            \/ o # "push" /\ UNCHANGED held
    /\ waited' = [waited EXCEPT ![t] = FALSE]
    /\ got' = [got EXCEPT ![t] = <<>>]
    /\ Goto(t, "lock")
    /\ UNCHANGED <<lockVars, queue>>

(* The guard's constructor.                                                  *)
LockQueue(t) ==
    /\ pc[t] = "lock"
    /\ Lock(t)
    /\ Goto(t, CASE op[t] = "push" -> "push"
                 [] op[t] = "size" -> "size"
                 [] OTHER -> "test")
    /\ UNCHANGED <<threadVars, queue>>

(* push: the element goes to the back, and one notification is due.          *)
PushElement_Moved(t) ==     \* mutant: the element is moved from before it is pushed
    /\ pc[t] = "push"
    /\ queue' = Append(queue, NoElement)
    /\ held' = [held EXCEPT ![t] = NoElement]
    /\ Goto(t, "notify")
    /\ UNCHANGED <<lockVars, op, waited, got, calls>>
PushElement(t) ==
    /\ pc[t] = "push"
    /\ queue' = Append(queue, held[t])
    /\ held' = [held EXCEPT ![t] = NoElement]
    /\ Goto(t, "notify")
    /\ UNCHANGED <<lockVars, op, waited, got, calls>>

PushNotify(t) ==
    /\ pc[t] = "notify"
    /\ Notify(t)
    /\ Goto(t, "unlock")
    /\ UNCHANGED <<threadVars, queue>>

(* size and empty look at the queue and leave it as it is.                   *)
ReadSize(t) ==
    /\ pc[t] = "size"
    /\ Goto(t, "unlock")
    /\ UNCHANGED <<lockVars, threadVars, queue>>

(* swap and pop wait while the queue is empty, pop once at most.             *)
TestEmpty_If(t) ==     \* mutant: if instead of while, once waited
    /\ pc[t] = "test"
    /\ IF queue # <<>> \/ waited[t]
       THEN Goto(t, "take") /\ UNCHANGED waited
       ELSE Goto(t, "wait") /\ waited' = [waited EXCEPT ![t] = TRUE]
    /\ UNCHANGED <<lockVars, queue, op, held, got, calls>>
TestEmpty(t) ==
    /\ pc[t] = "test"
    /\ \/ /\ queue # <<>>
          /\ Goto(t, "take")
          /\ UNCHANGED waited
       \/ /\ queue = <<>>
          /\ op[t] = "pop" => ~waited[t]
          /\ waited' = [waited EXCEPT ![t] = TRUE]
          /\ Goto(t, "wait")
       \/ /\ queue = <<>>
          /\ op[t] = "pop" /\ waited[t]
          /\ Goto(t, "unlock")
          /\ UNCHANGED waited
    /\ UNCHANGED <<lockVars, queue, op, held, got, calls>>

WaitForElement(t) ==
    /\ pc[t] = "wait"
    /\ Wait(t)
    /\ Goto(t, "asleep")
    /\ UNCHANGED <<threadVars, queue>>

(* A wait without a limit ends early only by a spurious wakeup.              *)
TimeOut(t) ==
    /\ pc[t] = "asleep"
    /\ op[t] \in Limited
    /\ Leave(t)
    /\ Goto(t, "late")
    /\ UNCHANGED <<threadVars, queue>>

WakeSpuriously(t) ==
    /\ pc[t] = "asleep"
    /\ Leave(t)
    /\ UNCHANGED <<threadVars, queue, pc>>

(* Woken threads look again; one whose time is up gives up without a look.   *)
WakeUp(t) ==
    /\ pc[t] \in {"asleep", "late"}
    /\ Reacquire(t)
    /\ Goto(t, IF pc[t] = "asleep" THEN "test" ELSE "unlock")
    /\ UNCHANGED <<threadVars, queue>>

(* swap exchanges the contents with the caller's empty queue, pop takes the  *)
(* front.                                                                    *)
Take_Copy(t) ==     \* mutant: pop without _queue.pop()
    /\ pc[t] = "take"
    /\ got' = [got EXCEPT ![t] = IF op[t] = "pop" THEN <<queue[1]>> ELSE queue]
    /\ queue' = IF op[t] = "pop" THEN queue ELSE <<>>
    /\ Goto(t, "unlock")
    /\ UNCHANGED <<lockVars, op, waited, held, calls>>
Take(t) ==
    /\ pc[t] = "take"
    /\ \/ /\ op[t] \in {"swap", "swapWait"}
          /\ got' = [got EXCEPT ![t] = queue]
          /\ queue' = <<>>
       \/ /\ op[t] = "pop"
          /\ got' = [got EXCEPT ![t] = <<Head(queue)>>]
          /\ queue' = Tail(queue)
    /\ Goto(t, "unlock")
    /\ UNCHANGED <<lockVars, op, waited, held, calls>>

(* The guard's destructor, also when pop throws.                             *)
UnlockQueue(t) ==
    /\ pc[t] = "unlock"
    /\ Unlock(t)
    /\ Goto(t, "idle")
    /\ UNCHANGED <<threadVars, queue>>

Step(t) ==
    \/ LockQueue(t) \/ PushElement(t) \/ PushNotify(t) \/ ReadSize(t)
    \/ TestEmpty(t) \/ WaitForElement(t) \/ WakeUp(t) \/ Take(t)
    \/ UnlockQueue(t)

Next == \E t \in Thread :
    Call(t) \/ Step(t) \/ TimeOut(t) \/ WakeSpuriously(t)

Spec == Init /\ [][Next]_vars

(* A thread that can go on does so, and a limited wait ends.  Nobody has to  *)
(* call, and no spurious wakeup is counted on.                               *)
FairSpec == Spec /\ \A t \in Thread : WF_vars(Step(t)) /\ WF_vars(TimeOut(t))
-----------------------------------------------------------------------------
InSection == {"push", "notify", "size", "test", "wait", "take", "unlock"}

(* Hrpc_ThreadLock keeps the threads apart: the one that works on the queue  *)
(* or on _count is the one that owns the mutex, through waits, timeouts and  *)
(* notifications.                                                            *)
MutualExclusion == \A t \in Thread : pc[t] \in InSection <=> holder = t

(* A notification is counted for the thread that works on the queue; when    *)
(* the mutex is free none is owed, so the reset in lock() loses none and a   *)
(* wait needs none.                                                          *)
NothingOwed == holder = NoThread => count = 0

(* A waiting thread and an element it waits for are not left alone with each *)
(* other: some thread has been woken, or is on its way to a notification.    *)
OnTheWay == {t \in Thread : /\ pc[t] \in {"lock", "test", "take", "asleep"}
                            /\ op[t] \in Takes
                            /\ t \notin waiting}
NoLostWakeup ==
    queue # <<>> /\ waiting # {} =>
        count > 0 \/ OnTheWay # {} \/ \E t \in Thread : pc[t] = "notify"

(* The queue, the callers of push and those swap and pop have served own     *)
(* each element once at most: none is served twice.                          *)
Once(s) == \A i, j \in 1..Len(s) : s[i] = s[j] => i = j
OwnedOnce ==
    /\ Once(queue)
    /\ \A t \in Thread :
         /\ Once(got[t])
         /\ Elements(got[t]) \cap Elements(queue) = {}
         /\ \A u \in Thread \ {t} : Elements(got[t]) \cap Elements(got[u]) = {}
         /\ held[t] # NoElement =>
              /\ held[t] \notin Elements(queue)
              /\ \A u \in Thread : held[t] \notin Elements(got[u])
              /\ \A u \in Thread \ {t} : held[t] # held[u]

(* A swap without a limit does not sleep on while there are elements.        *)
ServedInTheEnd == \A t \in Thread :
    (op[t] = "swapWait" /\ pc[t] # "idle" /\ queue # <<>>)
        ~> (pc[t] = "idle" \/ queue = <<>>)

(* The queue is what its users take it for, an atomic one: an operation acts *)
(* where it changes the queue, or leaves it as it is.                        *)
Promised == [t \in Thread |->
    IF pc[t] = "idle" THEN "none"
    ELSE IF pc[t] \in {"notify", "unlock"} THEN "done"
    ELSE op[t]]
Service == INSTANCE AtomicQueue WITH items <- queue, call <- Promised
QueueIsAtomic == Service!Spec
=============================================================================
