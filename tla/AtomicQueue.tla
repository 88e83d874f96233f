---------------------------- MODULE AtomicQueue -----------------------------
(* What Hrpc_Queue promises: each operation acts on the queue in one step.   *)
(* An element is handed to the queue by one thread and comes out once, in    *)
(* the order of the pushes.  A swap that waits without a limit returns only  *)
(* with elements.                                                            *)
EXTENDS Sequences

CONSTANTS Thread, Element

VARIABLES
    items,      \* the queue
    call,       \* the operation a thread is in, "none" outside
    got         \* the elements its last operation gave it

vars == <<items, call, got>>

Operation == {"push", "swap", "swapWait", "pop", "size"}

Init ==
    /\ items = <<>>
    /\ call = [t \in Thread |-> "none"]
    /\ got = [t \in Thread |-> <<>>]

(* A thread begins an operation; what it was given before is used up.        *)
Begin(t) ==
    /\ call[t] = "none"
    /\ call' \in {[call EXCEPT ![t] = o] : o \in Operation}
    /\ got' = [got EXCEPT ![t] = <<>>]
    /\ UNCHANGED items

Push(t) ==
    /\ call[t] = "push"
    /\ \E e \in Element : items' = Append(items, e)
    /\ call' = [call EXCEPT ![t] = "done"]
    /\ UNCHANGED got

TakeAll(t) ==
    /\ call[t] \in {"swap", "swapWait"}
    /\ items # <<>>
    /\ got' = [got EXCEPT ![t] = items]
    /\ items' = <<>>
    /\ call' = [call EXCEPT ![t] = "done"]

TakeOne(t) ==
    /\ call[t] = "pop"
    /\ items # <<>>
    /\ got' = [got EXCEPT ![t] = <<Head(items)>>]
    /\ items' = Tail(items)
    /\ call' = [call EXCEPT ![t] = "done"]

(* A call with a limit may end with nothing.                                 *)
ComeAway(t) ==
    /\ call[t] \in Operation \ {"push", "swapWait"}
    /\ call' = [call EXCEPT ![t] = "done"]
    /\ UNCHANGED <<items, got>>

End(t) ==
    /\ call[t] = "done"
    /\ call' = [call EXCEPT ![t] = "none"]
    /\ UNCHANGED <<items, got>>

Next == \E t \in Thread :
    Begin(t) \/ Push(t) \/ TakeAll(t) \/ TakeOne(t) \/ ComeAway(t) \/ End(t)

Spec == Init /\ [][Next]_vars
=============================================================================
