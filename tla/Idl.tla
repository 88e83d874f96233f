--------------------------------- MODULE Idl --------------------------------
(* tools/: the translator of interface files into C++.  A file is a sequence *)
(* of lines, a line one of symbols: white space, a separator, "#", or a      *)
(* piece of a word.  A word is the sequence of the pieces that stand next to *)
(* each other.  What is translated is an interface: its namespace and its    *)
(* classes with their functions.  The C++ text is left out; IdlCall has what *)
(* it does.                                                                  *)
EXTENDS Serialise

CONSTANT LineLen    \* getline reads lines up to this length, 1023 characters

ASSUME IdlAssumption == LineLen \in Nat \ {0}

White == " "
Separators == {",", ";", "(", ")", "<", ">", "{", "}"}
Simple == DOMAIN Width \cup {"string"}
Keywords == Simple \cup {"vector", "map", "class", "namespace", "out"}
-----------------------------------------------------------------------------
(* main: the lines up to the first that is too long, without comments and    *)
(* without what ends them.                                                   *)
Uncommented(line) ==
    LET marks == {i \in DOMAIN line : line[i] = "#"} IN
    IF marks = {} THEN line
    ELSE SubSeq(line, 1, (CHOOSE i \in marks : \A j \in marks : i <= j) - 1)
ReadFile(file) ==
    LET long == {i \in DOMAIN file : Len(file[i]) > LineLen}
        n == IF long = {} THEN Len(file) ELSE (CHOOSE i \in long : \A j \in long : i <= j) - 1
    IN  FlattenSeq([i \in 1..n |-> Uncommented(file[i])])

(* scan: a separator or white space ends a word.                             *)
WordToken(word) ==
    IF Len(word) = 1 /\ word[1] \in Keywords THEN [type |-> word[1], value |-> <<>>]
    ELSE [type |-> "id", value |-> word]
Scan(text) ==
    LET Piece(i) == i \in DOMAIN text /\ text[i] \notin {White} \cup Separators
        Starts(i) == text[i] \in Separators \/ (Piece(i) /\ ~Piece(i - 1))
        starts == SelectSeq([i \in 1..Len(text) |-> i], Starts)
        end(i) == CHOOSE j \in i..Len(text) : ~Piece(j + 1) /\ \A k \in i..j : Piece(k)
    IN  [n \in 1..Len(starts) |->
           LET i == starts[n] IN
           IF Piece(i) THEN WordToken(SubSeq(text, i, end(i)))
           ELSE [type |-> text[i], value |-> <<>>]]
-----------------------------------------------------------------------------
(* The parser.  Positions count from 1, 0 stands for an exception.  A token  *)
(* beyond the last is none (the code reads it all the same).                 *)
Type(tokens, i) == IF i \in DOMAIN tokens THEN tokens[i].type ELSE "none"

FindToken_After(tokens, start, type) ==     \* mutant: does not look at the first one
    LET found == {i \in (start + 1)..Len(tokens) : tokens[i].type = type} IN
    IF found = {} THEN 0 ELSE CHOOSE i \in found : \A j \in found : i <= j
FindToken(tokens, start, type) ==
    LET found == {i \in start..Len(tokens) : tokens[i].type = type} IN
    IF found = {} THEN 0 ELSE CHOOSE i \in found : \A j \in found : i <= j

Refused == [next |-> 0]

RECURSIVE LoadParaType(_, _)
LoadParaType(tokens, start) ==
    LET is == Type(tokens, start)
        first == LoadParaType(tokens, start + 2)
        second == LoadParaType(tokens, first.next + 1)
    IN  IF is \in Simple THEN [next |-> start + 1, type |-> [is |-> is]]
        ELSE IF is \notin {"vector", "map"} \/ Type(tokens, start + 1) # "<" \/ first.next = 0
        THEN Refused
        ELSE IF is = "vector"
        THEN IF Type(tokens, first.next) # ">" THEN Refused
             ELSE [next |-> first.next + 1, type |-> [is |-> is, of |-> first.type]]
        ELSE IF \/ first.type.is \in {"vector", "map"} \/ Type(tokens, first.next) # ","
                \/ second.next = 0 \/ Type(tokens, second.next) # ">"
        THEN Refused
        ELSE [next |-> second.next + 1,
              type |-> [is |-> is, key |-> first.type, of |-> second.type]]

LoadParameter(tokens, start) ==
    LET out == Type(tokens, start) = "out"
        t == LoadParaType(tokens, IF out THEN start + 1 ELSE start)
    IN  IF t.next = 0 \/ Type(tokens, t.next) # "id" THEN Refused
        ELSE [next |-> t.next + 1,
              param |-> [type |-> t.type, name |-> tokens[t.next].value, out |-> out]]

(* transferParaList: a list of one token is taken for an empty one.          *)
RECURSIVE Parameters(_, _, _)
Parameters(tokens, st, end) ==
    LET p == LoadParameter(tokens, st)
        rest == Parameters(tokens, p.next + 1, end)
    IN  IF st > end THEN [next |-> st, params |-> <<>>]
        ELSE IF p.next = 0 THEN Refused
        ELSE IF p.next = end + 1 THEN [next |-> p.next, params |-> <<p.param>>]
        ELSE IF Type(tokens, p.next) # "," \/ rest.next = 0 THEN Refused
        ELSE [rest EXCEPT !.params = <<p.param>> \o @]
TransferParaList(tokens, start, end) ==
    IF end - start <= 0 THEN [next |-> end + 1, params |-> <<>>]
    ELSE Parameters(tokens, start, end)

ParseFuncBody(tokens, start) ==
    LET ret == LoadParaType(tokens, start)
        st == FindToken(tokens, ret.next + 2, ")")
        list == TransferParaList(tokens, ret.next + 2, st - 1)
    IN  IF \/ ret.next = 0 \/ Type(tokens, ret.next) # "id" \/ Type(tokens, ret.next + 1) # "("
           \/ st = 0 \/ list.next = 0 \/ Type(tokens, st + 1) # ";"
        THEN Refused
        ELSE [next |-> st + 2,
              func |-> [ret |-> ret.type, name |-> tokens[ret.next].value, params |-> list.params]]

(* transferClass: one function after the other, each from behind the next    *)
(* semicolon.                                                                *)
RECURSIVE Functions(_, _, _)
Functions(tokens, cur, end) ==
    LET f == ParseFuncBody(tokens, cur)
        rest == Functions(tokens, FindToken(tokens, cur, ";") + 1, end)
    IN  IF cur >= end THEN [next |-> cur, funcs |-> <<>>]
        ELSE IF f.next = 0 \/ rest.next = 0 THEN Refused
        ELSE [rest EXCEPT !.funcs = <<f.func>> \o @]

RECURSIVE Classes(_, _)
Classes(tokens, cur) ==
    LET pos == FindToken(tokens, cur, "class")
        pos2 == FindToken(tokens, pos, "}")
        class == Functions(tokens, pos + 3, pos2)
        rest == Classes(tokens, pos2)
    IN  IF pos = 0 THEN [next |-> cur, classes |-> <<>>]
        ELSE IF \/ Type(tokens, pos + 1) # "id" \/ Type(tokens, pos + 2) # "{" \/ pos2 = 0
                \/ class.next = 0 \/ rest.next = 0
        THEN Refused
        ELSE [rest EXCEPT !.classes =
                <<[name |-> tokens[pos + 1].value, funcs |-> class.funcs]>> \o @]

NoInterface == [classes |-> <<>>]
Parse(tokens) ==
    LET classes == Classes(tokens, 1) IN
    IF \/ Len(tokens) < 3
       \/ [i \in 1..3 |-> Type(tokens, i)] # <<"namespace", "id", ";">>
       \/ FindToken(tokens, 2, "namespace") # 0
       \/ classes.next = 0
    THEN NoInterface
    ELSE [namespace |-> tokens[2].value, classes |-> classes.classes]
=============================================================================
