---------------------------- MODULE UidGenerator ----------------------------
(* hrpc_uid.cpp, class UidGenarator: the free list of identifiers 1..max.   *)
(* EpollerServer takes connection uids from one, ClientConnection takes call *)
(* sequence numbers from another.  popUid and pushUid hold the generator's   *)
(* mutex, so each is one step of its caller.                                 *)
EXTENDS Naturals, Sequences

(* init: the list holds 1, 2, ..., max in this order.                        *)
FullList_FromZero(max) == [i \in 1..max |-> i - 1]     \* mutant: starts at 0
FullList(max) == [i \in 1..max |-> i]

(* popUid: -1 when the list is empty, else its front, which leaves the list. *)
CanPop(list) == list # <<>>
Popped(list) == Head(list)
AfterPop_Kept(list) == list     \* mutant: front() without pop_front()
AfterPop(list) == Tail(list)

(* pushUid: an identifier is returned at the back of the list.               *)
AfterPush_Lost(list, uid) == list     \* mutant: the uid is not returned
AfterPush(list, uid) == Append(list, uid)

(* The list holds exactly the identifiers of `free`, each once.              *)
Holds(list, free) ==
    /\ \A u \in free : \E i \in 1..Len(list) : list[i] = u
    /\ \A i \in 1..Len(list) : list[i] \in free
    /\ \A i, j \in 1..Len(list) : list[i] = list[j] => i = j
=============================================================================
