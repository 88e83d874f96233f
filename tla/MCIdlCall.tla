----------------------------- MODULE MCIdlCall ------------------------------
(* Interfaces and calls for TLC: what a file says is given next to its text. *)
EXTENDS IdlTranslation

T(name) == [is |-> name]
Vector(t) == [is |-> "vector", of |-> t]
Map(k, t) == [is |-> "map", key |-> k, of |-> t]
In(t, name) == [type |-> t, name |-> <<name>>, out |-> FALSE]
Out(t, name) == [type |-> t, name |-> <<name>>, out |-> TRUE]
Func(ret, name, params) == [ret |-> ret, name |-> <<name>>, params |-> params]
Class(name, funcs) == [name |-> <<name>>, funcs |-> funcs]
Interface(classes) == [namespace |-> <<"Hehe">>, classes |-> classes]

(* How an interface is written: in words, white space after each.            *)
RECURSIVE TypeText(_)
TypeText(t) ==
    CASE t.is = "vector" -> <<"vector", "<">> \o TypeText(t.of) \o <<">">>
      [] t.is = "map" -> <<"map", "<">> \o TypeText(t.key) \o <<",">> \o TypeText(t.of) \o <<">">>
      [] OTHER -> <<t.is>>
ParamText(p) == (IF p.out THEN <<"out">> ELSE <<>>) \o TypeText(p.type) \o p.name
FuncText(f) ==
    LET n == Len(f.params) IN
    TypeText(f.ret) \o f.name \o <<"(">>
      \o FlattenSeq([i \in 1..n |-> ParamText(f.params[i]) \o IF i < n THEN <<",">> ELSE <<>>])
      \o <<")", ";">>
ClassText(c) ==
    <<"class">> \o c.name \o <<"{">>
      \o FlattenSeq([i \in DOMAIN c.funcs |-> FuncText(c.funcs[i])]) \o <<"}", ";">>
Spaced(words) == FlattenSeq([i \in DOMAIN words |-> <<words[i], White>>])

Opening == <<"namespace", White, "Hehe", ";">>
(* A comment after the namespace and one line for each class.                *)
Lines(itf) == <<Opening \o <<"#", "class", White, "}">>, <<>>>>
    \o [i \in DOMAIN itf.classes |-> Spaced(ClassText(itf.classes[i]))]
(* One line for each word.                                                   *)
Words(itf) == <<Opening>> \o FlattenSeq([i \in DOMAIN itf.classes |->
    LET w == ClassText(itf.classes[i]) IN [j \in DOMAIN w |-> <<w[j]>>]])
(* A comment that is too long before the last class.                         *)
Long(itf) == LET l == Lines(itf) IN
    SubSeq(l, 1, Len(l) - 1) \o <<<<"#">> \o [i \in 1..LineLen |-> "x"]>> \o <<l[Len(l)]>>

Case(itf, class, func, args, ret, outs) ==
    [client |-> Lines(itf), server |-> Lines(itf), meant |-> itf, class |-> class, func |-> func,
     args |-> args, servant |-> "returns", ret |-> ret, outs |-> outs]
-----------------------------------------------------------------------------
Text(n) == [i \in 1..n |-> 97]
HelloWorld == Func(T("Int32"), "test_hello", <<In(T("string"), "name"), Out(T("Int32"), "abs")>>)
NiceTest == Func(Vector(T("string")), "niceTest",
                 <<In(Map(T("string"), T("Int32")), "ma"), Out(T("string"), "mb")>>)
Deep == Func(T("float"), "deep",
             <<Out(Map(T("Int8"), Vector(Vector(T("Int16")))), "m"), In(T("Int64"), "n"),
               In(T("bool"), "b"), Out(T("bool"), "c")>>)
NoParams == Func(T("bool"), "none", <<>>)
GetString == Func(Vector(T("string")), "getString", <<In(T("Int32"), "count")>>)
(* Two functions of one name.                                                *)
Two == Interface(<<Class("Two", <<NoParams, [NoParams EXCEPT !.params = <<In(T("Int8"), "a")>>]>>)>>)
(* Numbers around the one that needs a byte of its own, and the last one.    *)
Many(n) == Func(T("Int8"), "many", [i \in 1..n |->
              IF i > n - 2 THEN Out(T("Int8"), "x") ELSE In(T("Int8"), "x")])
Wide(n) == Interface(<<Class("Wide", <<Many(n)>>)>>)

Readme == Interface(<<Class("HelloWorld", <<HelloWorld, NiceTest>>),
                      Class("NiceObject", <<NoParams, Deep, GetString>>)>>)
Ints(n) == [i \in 1..n |-> IF i % 2 = 0 THEN i ELSE 0 - i]

Calls == <<
    Case(Readme, 1, 1, <<<<35, 0, 255>>, -1>>, 2147483647, <<0, -128>>),
    Case(Readme, 1, 1, <<<<>>, 65536>>, -32769, <<0, 15>>),
    Case(Readme, 1, 2, <<(<<1>> :> 5 @@ <<>> :> -5), <<200>>>>, <<<<7>>, <<>>>>, <<0, <<>>>>),
    Case(Readme, 1, 2, <<<<>>, <<>>>>, <<>>, <<0, <<15, 31>>>>),
    Case(Readme, 2, 1, <<>>, TRUE, <<>>),
    Case(Readme, 2, 2, <<(-1 :> <<<<1, -2>>, <<>>>> @@ 3 :> <<>>), -2, TRUE, FALSE>>, 1065353216,
         <<(0 :> <<<<300>>>>), 0, 0, TRUE>>),
    Case(Readme, 1, 1, <<Text(32765), 7>>, 8, <<0, 9>>),
    Case(Readme, 1, 2, <<<<>>, Text(300)>>, <<>>, <<0, Text(32765)>>),
    Case(Readme, 2, 3, <<-40000>>, <<<<1>>, <<>>>>, <<>>),
    Case(Two, 1, 1, <<>>, FALSE, <<>>), Case(Two, 1, 2, <<3>>, TRUE, <<>>),
    Case(Wide(17), 1, 1, Ints(17), 5, Ints(17)),
    Case(Wide(MaxSeq + 1), 1, 1, Ints(MaxSeq + 1), 5, Ints(MaxSeq + 1)),
    [Case(Readme, 1, 1, <<<<>>, 1>>, 1, <<0, 0>>) EXCEPT !.servant = "missing"] >>
Layouts == <<
    [Case(Readme, 1, 1, <<<<>>, 1>>, 1, <<0, 0>>) EXCEPT !.client = Words(Readme)],
    [Case(Readme, 1, 1, <<<<9>>, 1>>, 1, <<0, 2>>) EXCEPT !.client = Long(Readme)] >>
(* The client knows an older or a newer interface than the server.           *)
Older == Interface(<<Class("HelloWorld", <<HelloWorld>>)>>)
Versions ==
    LET Against(f) == [Case(Older, 1, 1, <<<<1, 2>>, 5>>, 6, <<0, 7>>)
                         EXCEPT !.server = Lines(Interface(<<Class("HelloWorld", <<f>>)>>))]
    IN  << Against([HelloWorld EXCEPT !.params = <<@[1]>>]),
           Against([HelloWorld EXCEPT !.params = Append(@, In(T("string"), "more"))]),
           Against([HelloWorld EXCEPT !.params = <<@[1], Out(T("float"), "abs")>>]),
           Against([HelloWorld EXCEPT !.name = <<"testHello">>]) >>
(* The server's version has more results than there are numbers.            *)
TooMany == LET c == Versions[1] IN
    [c EXCEPT !.server = Lines(Interface(<<Class("HelloWorld",
         <<[Many(MaxSeq + 1) EXCEPT !.name = HelloWorld.name, !.params[1] = HelloWorld.params[1]]>>)>>)),
       !.outs = Ints(MaxSeq + 1)]
Conversations == Calls \o Layouts \o Versions \o <<TooMany>>

-----------------------------------------------------------------------------
UsedTypes ==
    << T("Int8"), T("Int16"), T("Int32"), T("Int64"), T("float"), T("bool"), T("string"),
       Vector(T("string")), Map(T("string"), T("Int32")), Vector(T("Int16")),
       Vector(Vector(T("Int16"))), Map(T("Int8"), Vector(Vector(T("Int16")))) >>

UsedValues == [t \in InUse |->
    CASE t = T("Int8") -> (0 - MaxSeq - 1)..(MaxSeq + 1)
      [] t = T("Int16") -> {1, -2, 300}
      [] t = T("Int32") -> {-40000, -32769, -128, -5, -1, 65536, 2147483647} \cup 0..20
      [] t = T("Int64") -> {-2}
      [] t = T("float") -> {7, 1065353216}
      [] t = T("bool") -> BOOLEAN
      [] t = T("string") ->
           {<<35, 0, 255>>, <<15, 31>>, <<1, 2>>, <<>>, <<1>>, <<7>>, <<9>>, <<200>>,
            Text(300), Text(32765)}
      [] t = Vector(T("string")) -> {<<>>, <<<<7>>, <<>>>>, <<<<1>>, <<>>>>}
      [] t = Map(T("string"), T("Int32")) -> {<<>>, (<<1>> :> 5 @@ <<>> :> -5)}
      [] t = Vector(T("Int16")) -> {<<>>, <<1, -2>>, <<300>>}
      [] t = Vector(Vector(T("Int16"))) -> {<<>>, <<<<1, -2>>, <<>>>>, <<<<300>>>>}
      [] OTHER -> {(-1 :> <<<<1, -2>>, <<>>>> @@ 3 :> <<>>), (0 :> <<<<300>>>>)}]
=============================================================================
