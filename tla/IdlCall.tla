------------------------------ MODULE IdlCall -------------------------------
(* One call through the code that the translator generates: the function of  *)
(* the proxy writes its parameters, the handler of the server reads them,    *)
(* calls the function of the user and writes what it returns.  The two sides *)
(* may come from different interface files.                                  *)
EXTENDS Serialise

CONSTANTS
    Cases,      \* [client, server: files, meant: what the client's file says,
                \*  class, func: the function that is called, by position,
                \*  args: the parameters of the caller,
                \*  servant: "returns", or "missing" when the user has not
                \*    written the function,
                \*  ret, outs: what it returns, and the parameters it leaves]
    Heads       \* bytes of the heads in front of the data of a package

CONSTANT Translated(_)      \* the interface that the translator makes of a file

(* The function that is called on the proxy, and the first one of its name,  *)
(* which the handler calls.                                                  *)
Called(itf, c) == itf.classes[c.class].funcs[c.func]
Named(itf, c, name) ==
    {i \in DOMAIN itf.classes[c.class].funcs : itf.classes[c.class].funcs[i].name = name}
First(itf, c, S) ==
    itf.classes[c.class].funcs[CHOOSE i \in S : \A j \in S : i <= j]

Outs_Second(f) ==     \* mutant: the loop over the parameters begins at the second
    {i \in DOMAIN f.params : i > 1 /\ f.params[i].out}
Outs(f) == {i \in DOMAIN f.params : f.params[i].out}

IsFunc(f) ==
    /\ f.ret \in InUse
    /\ f.params \in Seq(Range(f.params))
    /\ \A i \in DOMAIN f.params : f.params[i].type \in InUse /\ f.params[i].out \in BOOLEAN
IsInterface(itf) ==
    \A k \in DOMAIN itf.classes :
        /\ itf.classes[k].funcs \in Seq(Range(itf.classes[k].funcs))
        /\ \A i \in DOMAIN itf.classes[k].funcs : IsFunc(itf.classes[k].funcs[i])

(* The caller passes values of the types of its interface, and the function  *)
(* of the user returns values of those of its own: C++ sees to it.           *)
Typed(c, proxy, handler) ==
    LET f == Called(proxy, c)
        S == Named(handler, c, f.name)
        g == First(handler, c, S)
    IN  /\ c.func \in DOMAIN proxy.classes[c.class].funcs
        /\ DOMAIN c.args = DOMAIN f.params
        /\ \A i \in DOMAIN f.params : c.args[i] \in Values[f.params[i].type]
        /\ S # {} => /\ c.ret \in Values[g.ret]
                     /\ \A i \in DOMAIN g.params :
                          g.params[i].out => c.outs[i] \in Values[g.params[i].type]

ASSUME IdlCallAssumption ==
    /\ Heads \in Nat
    /\ \A i \in DOMAIN Cases :
        /\ IsInterface(Translated(Cases[i].client)) /\ IsInterface(Translated(Cases[i].server))
        /\ Cases[i].class \in DOMAIN Translated(Cases[i].client).classes
                              \cap DOMAIN Translated(Cases[i].server).classes
           => Typed(Cases[i], Translated(Cases[i].client), Translated(Cases[i].server))

VARIABLES
    case,       \* the case
    pc,         \* what the client or the server does next
    client,     \* the interface the proxy was generated from
    server,     \* the interface the handler was generated from
    at,         \* the number of the value that is written or read
    buf,        \* _buffer of the stream in use
    given,      \* the parameters the server has read
    got         \* what the client has read, by number: ret and out parameters

vars == <<case, pc, client, server, at, buf, given, got>>

Init ==
    /\ \E i \in DOMAIN Cases : case = Cases[i]
    /\ pc = "translate"
    /\ client = [classes |-> <<>>] /\ server = client
    /\ at = 1
    /\ buf = NewBuffer
    /\ given = <<>> /\ got = <<>>

(* Both files are translated; without the class nothing can be compiled.     *)
Translate ==
    /\ pc = "translate"
    /\ client' = Translated(case.client)
    /\ server' = Translated(case.server)
    /\ pc' = IF case.class \in DOMAIN client'.classes \cap DOMAIN server'.classes
             THEN "write" ELSE "refused"
    /\ buf' = NewWith(512, 32)
    /\ UNCHANGED <<case, at, given, got>>
-----------------------------------------------------------------------------
(* The proxy writes all parameters, also those that only come back.          *)
ClientFunc == Called(client, case)

ClientWrite ==
    /\ pc = "write"
    /\ at <= Len(ClientFunc.params)
    /\ ~WriteFails(at)
    /\ buf' = WriteTo(buf, at, ClientFunc.params[at].type, case.args[at])
    /\ at' = at + 1
    /\ UNCHANGED <<case, pc, client, server, given, got>>

ClientWriteFails ==
    /\ pc = "write"
    /\ at <= Len(ClientFunc.params)
    /\ WriteFails(at)
    /\ pc' = "thrown"
    /\ UNCHANGED <<case, client, server, at, buf, given, got>>

(* The data in the package that has arrived (Framing): behind its heads.     *)
Arrived(b) ==
    SkipBytes(Write(NewWith(Heads + Size(b), Before), [i \in 1..Heads |-> Junk] \o b.data, TRUE),
              Heads)

(* distribute: the first function of the name.  What it throws, for a name   *)
(* it does not know, for a parameter of another type, or from the function,  *)
(* nothing catches: it ends the server.                                      *)
SameName == Named(server, case, ClientFunc.name)
ServerFunc == First(server, case, SameName)

Involve ==
    /\ pc = "write"
    /\ at > Len(ClientFunc.params)
    /\ pc' = IF SameName = {} THEN "aborted" ELSE "read"
    /\ buf' = Arrived(buf)
    /\ at' = 1
    /\ UNCHANGED <<case, client, server, given, got>>

(* A parameter that is not there keeps what it was declared with: nothing,   *)
(* if its type has no constructor.                                           *)
Unread(t) == IF t.is \in {"string", "vector", "map"} THEN <<>> ELSE Junk

ServerRead ==
    /\ pc = "read"
    /\ at <= Len(ServerFunc.params)
    /\ LET t == ServerFunc.params[at].type
           r == ReadFrom(buf, at, t)
       IN  /\ pc' = IF r = Thrown THEN "aborted" ELSE "read"
           /\ given' = IF r = Thrown THEN given
                       ELSE Append(given, IF r = Absent THEN Unread(t) ELSE r.value)
    /\ at' = at + 1
    /\ UNCHANGED <<case, client, server, buf, got>>

(* The function is called; one that the user did not write throws.           *)
ServerCall ==
    /\ pc = "read"
    /\ at > Len(ServerFunc.params)
    /\ pc' = IF case.servant = "missing" THEN "aborted" ELSE "answer"
    /\ buf' = NewBuffer
    /\ at' = 0
    /\ UNCHANGED <<case, client, server, given, got>>

(* The response: ret, and the out parameters under their numbers.            *)
ServerWrite ==
    /\ pc = "answer"
    /\ at <= Len(ServerFunc.params)
    /\ pc' = IF at \in Outs(ServerFunc) /\ WriteFails(at) THEN "aborted" ELSE "answer"
    /\ buf' = IF at = 0 THEN WriteTo(buf, 0, ServerFunc.ret, case.ret)
              ELSE IF at \in Outs(ServerFunc) /\ ~WriteFails(at)
              THEN WriteTo(buf, at, ServerFunc.params[at].type, case.outs[at])
              ELSE buf
    /\ at' = at + 1
    /\ UNCHANGED <<case, client, server, given, got>>

ServerReturn ==
    /\ pc = "answer"
    /\ at > Len(ServerFunc.params)
    /\ pc' = "return"
    /\ buf' = Arrived(buf)
    /\ at' = 0
    /\ UNCHANGED <<case, client, server, given, got>>

(* The proxy reads ret and the out parameters; those that are not there stay *)
(* as they were.                                                             *)
ClientRead ==
    /\ pc = "return"
    /\ at <= Len(ClientFunc.params)
    /\ LET t == IF at = 0 THEN ClientFunc.ret ELSE ClientFunc.params[at].type
           r == ReadFrom(buf, at, t)
           had == IF at = 0 THEN Unread(t) ELSE case.args[at]
       IN  IF at = 0 \/ at \in Outs(ClientFunc)
           THEN /\ pc' = IF r = Thrown THEN "thrown" ELSE "return"
                /\ got' = IF r = Thrown THEN got
                          ELSE [i \in DOMAIN got \cup {at} |->
                        IF i # at THEN got[i] ELSE IF r = Absent THEN had ELSE r.value]
           ELSE UNCHANGED <<pc, got>>
    /\ at' = at + 1
    /\ UNCHANGED <<case, client, server, buf, given>>

ClientReturn ==
    /\ pc = "return"
    /\ at > Len(ClientFunc.params)
    /\ pc' = "done"
    /\ UNCHANGED <<case, client, server, at, buf, given, got>>

Next == \/ Translate
        \/ ClientWrite \/ ClientWriteFails \/ Involve \/ ClientRead \/ ClientReturn
        \/ ServerRead \/ ServerCall \/ ServerWrite \/ ServerReturn

Spec == Init /\ [][Next]_vars
-----------------------------------------------------------------------------
Args == DOMAIN case.args

(* Values have a size that their elements can hold.                          *)
Fit(t, v) == Len(WriteData[t][v]) <= 32767
ArgsFit == \A i \in Args : Fit(ClientFunc.params[i].type, case.args[i])
ResultsFit ==
    /\ Fit(ServerFunc.ret, case.ret)
    /\ \A i \in DOMAIN ServerFunc.params :
        ServerFunc.params[i].out => Fit(ServerFunc.params[i].type, case.outs[i])

(* What the handler passes to the function is what the caller passed, of the *)
(* same type, or nothing: also when the two sides know different versions    *)
(* of the interface, no value is taken for another one.                      *)
ArgumentsArrive == pc = "answer" /\ ArgsFit =>
    \A i \in DOMAIN given :
        given[i] = IF i \in Args THEN case.args[i] ELSE Unread(ServerFunc.params[i].type)

(* The caller gets what the function returned and left in its out            *)
(* parameters, at their places, and keeps its own value of those that the    *)
(* server's version of the function does not return.                         *)
ResultsArrive == pc = "done" /\ ResultsFit =>
    LET outs(f) == {i \in DOMAIN f.params : f.params[i].out}
    IN  got = [i \in {0} \cup outs(ClientFunc) |->
                 IF i = 0 THEN case.ret
                 ELSE IF i \in outs(ServerFunc) THEN case.outs[i] ELSE case.args[i]]

(* No function before the one that is called has its name.                   *)
FirstOfItsName == \A i \in SameName : case.func <= i

(* With one interface on both sides nothing throws but a function that is    *)
(* not written, one that shares its name with an earlier one, and a          *)
(* parameter of a number beyond MaxSeq.                                      *)
SoundCallsSucceed ==
    pc \in {"thrown", "aborted"} /\ client = server /\ FirstOfItsName
    /\ ArgsFit /\ ResultsFit /\ Len(ClientFunc.params) <= MaxSeq
    => case.servant = "missing"

=============================================================================
