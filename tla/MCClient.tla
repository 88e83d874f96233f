------------------------------ MODULE MCClient ------------------------------
(* Small clients for TLC.                                                    *)
EXTENDS HrpcClient, TLC

CONSTANTS k1, k2, k3, o1, o2

OneObject == [k \in Call |-> o1]
TwoObjects == [k \in Call |-> IF k = k3 THEN o2 ELSE o1]

ThreadSymmetry == Permutations(Thread)
ConnSymmetry == Permutations(Conn)

(* Calls that wait for an answer of the same object are alike.               *)
CallSymmetry ==
    UNION {Permutations({k \in Call \ Oneway : ObjectOf[k] = o}) : o \in Object}

Symmetry == ThreadSymmetry \cup ConnSymmetry \cup CallSymmetry
=============================================================================
