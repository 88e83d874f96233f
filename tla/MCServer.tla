------------------------------ MODULE MCServer ------------------------------
(* Small servers for TLC.                                                    *)
EXTENDS HrpcServer, TLC

ConnSymmetry == Permutations(Conn)
HandleSymmetry == Permutations(Handle)
Symmetry == ConnSymmetry \cup HandleSymmetry
=============================================================================
