---------------------------- MODULE CallService ----------------------------
(* What a user of an ObjectProxy is promised: a call is begun once, the      *)
(* remote function runs at most once for it, and it returns once: with the   *)
(* result of its own run, or with an exception.  After the exception of a    *)
(* connection that could not be had the function never runs; after a timeout *)
(* it may have run or may still run.                                         *)
EXTENDS Naturals

CONSTANTS Call, Oneway

VARIABLES
    status,  \* what the caller knows of a call
    runs     \* how often the remote function ran for it

Init ==
    /\ status = [k \in Call |-> "idle"]
    /\ runs = [k \in Call |-> 0]

Begin(k) ==
    /\ status[k] = "idle"
    /\ status' = [status EXCEPT ![k] = "pending"]
    /\ UNCHANGED runs

Run(k) ==
    /\ status[k] \in {"pending", "timeout", "returned"}
    /\ runs[k] = 0
    /\ runs' = [runs EXCEPT ![k] = 1]
    /\ UNCHANGED status

Answer(k) ==
    /\ status[k] = "pending"
    /\ k \notin Oneway
    /\ runs[k] = 1
    /\ status' = [status EXCEPT ![k] = "answered"]
    /\ UNCHANGED runs

Timeout(k) ==
    /\ status[k] = "pending"
    /\ k \notin Oneway
    /\ status' = [status EXCEPT ![k] = "timeout"]
    /\ UNCHANGED runs

Refuse(k) ==
    /\ status[k] = "pending"
    /\ runs[k] = 0
    /\ status' = [status EXCEPT ![k] = "refused"]
    /\ UNCHANGED runs

Return(k) ==
    /\ status[k] = "pending"
    /\ k \in Oneway
    /\ status' = [status EXCEPT ![k] = "returned"]
    /\ UNCHANGED runs

Next == \E k \in Call :
    Begin(k) \/ Run(k) \/ Answer(k) \/ Timeout(k) \/ Refuse(k) \/ Return(k)

Spec == Init /\ [][Next]_<<status, runs>>
=============================================================================
