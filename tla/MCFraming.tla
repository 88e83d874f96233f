----------------------------- MODULE MCFraming ------------------------------
(* Conversations for TLC: requests to a server, responses to a client, and   *)
(* damage to one of them.                                                    *)
EXTENDS Framing

Repeat(byte, n) == [i \in 1..n |-> byte]
Request(kind, seq, func, data) ==
    [kind |-> kind, seq |-> seq, object |-> ObjectName, func |-> func, data |-> data]
Response(seq, data) == [kind |-> "response", seq |-> seq, data |-> data]
Heart == [kind |-> "heart"]
Unharmed == [at |-> 0, kind |-> "none", value |-> 0]

(* Names that leave room for all heads, for some of them, or for none.       *)
Named == {[to |-> "server", damage |-> Unharmed, cuts |-> 1,
           messages |-> <<Request("request", n, Repeat(102, n), <<35, 1>>)>>] :
             n \in {1, 10, 14, 15, 16, 17, 18, 19, 20, 21, 22, 26, 27, 28, 29, 30, 40}}

(* A few packages in a row, on one stream, in which a check code also occurs *)
(* in the data.                                                              *)
Rows == {[to |-> "server", damage |-> Unharmed, cuts |-> 2,
          messages |-> <<Request("oneway", 256, <<102>>, Code), Request("request", 1, <<103>>, <<>>)>>],
         [to |-> "client", damage |-> Unharmed, cuts |-> 1,
          messages |-> <<Response(1, <<200>>), Heart, Response(70000, Code)>>]}

(* The first of four responses is damaged: a length that is negative, too    *)
(* small, too large by one, beyond the next packages, or beyond the limit.   *)
Harm == {[at |-> 1, kind |-> "length", value |-> v] : v \in {-1, 13, 16, 40, 1000}}
          \cup {[at |-> 1, kind |-> "code", value |-> 36]}
Damages == {[to |-> "client", damage |-> h, cuts |-> 1,
             messages |-> [i \in 1..4 |-> Response(i, <<i>>)]] : h \in Harm}

Conversations == Named \cup Rows \cup Damages
Object == <<111>>
=============================================================================
