------------------------------ MODULE MCQueue -------------------------------
(* A small queue for TLC: a thread that pushes, one that takes all, as       *)
(* handle threads do, and one that takes one at a time.                      *)
EXTENDS ThreadQueue

CONSTANTS p1, c1, c2

Roles == [t \in Thread |->
    CASE t = p1 -> {"push", "size"}
      [] t = c1 -> {"swap", "swapWait"}
      [] OTHER -> {"swapWait", "pop"}]
=============================================================================
