--------------------------- MODULE IdlTranslation ---------------------------
(* A call between two programs that were translated from interface files:    *)
(* the translator of Idl and the call of IdlCall together.                   *)
EXTENDS IdlCall, Idl

(* main: a file is read, scanned and parsed.                                 *)
Translation(file) == Parse(Scan(ReadFile(file)))
-----------------------------------------------------------------------------
(* A line that ends in a word before one that begins with a word.            *)
Joined(file) ==
    \E i, j \in DOMAIN file :
        LET a == Uncommented(file[i])
            b == Uncommented(file[j])
        IN  /\ i < j /\ \A k \in (i + 1)..(j - 1) : Uncommented(file[k]) = <<>>
            /\ a # <<>> /\ b # <<>>
            /\ {a[Len(a)], b[1]} \cap ({White} \cup Separators) = {}
TooLong(file) == \E i \in DOMAIN file : Len(file[i]) > LineLen

(* The translator takes a file for what it says.  A file in which the end of *)
(* a line parts two words, or with a line too long for getline, is refused   *)
(* or loses classes; what is left of it is what it says (tools/main.cpp:44). *)
InterfaceKept == pc # "translate" =>
    LET broken == Joined(case.client) \/ TooLong(case.client) IN
    /\ client = NoInterface => broken
    /\ client # NoInterface => Range(client.classes) \subseteq Range(case.meant.classes)
    /\ client # NoInterface /\ ~broken => client = case.meant
=============================================================================
