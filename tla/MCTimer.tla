------------------------------ MODULE MCTimer -------------------------------
(* Small timers for TLC, by the way they are used.                           *)
EXTENDS Timer

Delays == {0, 2}
Later == {1, 2}

(* The owner of the timer uses it alone, and the tasks it has stopped are    *)
(* gone before its next call; or another thread adds repeated tasks.         *)
Orderly == {[owner |-> {"once", "repeat", "stop"}, others |-> {}, sweep |-> TRUE],
            [owner |-> {"once"}, others |-> {"repeat"}, sweep |-> FALSE]}

(* The owner uses the timer alone, as it likes.                              *)
Alone == {[owner |-> {"once", "stop"}, others |-> {}, sweep |-> FALSE]}
=============================================================================
