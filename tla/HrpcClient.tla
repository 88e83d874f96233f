----------------------------- MODULE HrpcClient -----------------------------
(* The client side of Hrpc below ObjectProxy::involve: threads of the        *)
(* application call functions of remote objects through one ClientNetThread, *)
(* which keeps one connection per object (_list) in an EpollerServer, and    *)
(* through ClientConnection, which matches responses with calls by sequence  *)
(* number.                                                                   *)
(*                                                                           *)
(* A step is what a thread does between two points where another thread can  *)
(* see or change what it works on.  How bytes travel is the subject of       *)
(* HrpcServer, which runs the same EpollerServer; here a request that is     *)
(* sent reaches the server of its connection or is lost with it.             *)
EXTENDS Naturals, Integers, Sequences, FiniteSets, UidGenerator

CONSTANTS
    Thread,      \* threads of the application
    Net,         \* the network thread
    Call,        \* the calls they make
    Oneway,      \* those that expect no response (HRPC_ONEWAY)
    Object,      \* remote objects, each with an address of its own
    ObjectOf,    \* the object a call is for
    Conn,        \* the connections that are ever built
    NoConn,
    NoCall,
    MaxUid,      \* MaxConnection of the network thread
    MaxWait,     \* MaxWaitNumInConnection
    MaxLost      \* bound: connections the network thread closes

ASSUME ClientAssumption ==
    /\ Oneway \subseteq Call
    /\ Object # {} /\ ObjectOf \in [Call -> Object]
    /\ MaxUid \in Nat \ {0}
    /\ MaxWait \in Nat \ {0}
    /\ MaxLost \in Nat
    /\ NoConn \notin Conn
    /\ NoCall \notin Call
    /\ Net \notin Thread

Closer == Thread \cup {Net}     \* who runs EpollerServer::closeConnection
Uid == 1..MaxUid
SeqNum == 1..MaxWait
NoUid == -1
NoSeq == -1
Message == [seq : SeqNum, call : Call]      \* a request or its response
NetTask == [type : {"net"}, uid : Uid \cup {NoUid}, msg : Message]
AddTask == [type : {"add"}, conn : Conn]

VARIABLES
    \* threads of the application
    pc,       \* where involve stands, and where the network thread does
    doing,    \* the call a thread makes
    conn,     \* the connection it makes it on
    num,      \* the sequence number it has taken
    outcome,  \* what a call came to
    value,    \* the promise of a call: whose response it was given
    \* ClientNetThread
    list,     \* _list
    respQ,    \* EpollerServer::_response_queue
    adding,   \* the connection addConnection has given a uid to
    closing,  \* the connection closeConnection is called for, or has found
    table,    \* EpollerServer::_connections
    uids,     \* EpollerServer::_uidGen
    lost,     \* connections the network thread has closed
    \* ClientConnection
    stage,    \* life of the connection
    dest,     \* the object it was built for
    uid,      \* ConnectionBase::_uid
    seqs,     \* _seq
    waiting,  \* _waitQueue
    \* network and servers
    wire,     \* requests on their way
    replies,  \* responses on their way
    ran       \* how often the function of a call ran

threadVars == <<pc, doing, conn, num, outcome, value>>
netVars == <<list, respQ, adding, closing, table, uids, lost>>
connVars == <<stage, dest, uid, seqs, waiting>>
wireVars == <<wire, replies, ran>>
vars == <<threadVars, netVars, connVars, wireVars>>

Init ==
    /\ pc = [x \in Closer |-> "idle"]
    /\ doing = [t \in Thread |-> NoCall]
    /\ conn = [t \in Thread |-> NoConn]
    /\ num = [t \in Thread |-> NoSeq]
    /\ outcome = [k \in Call |-> "idle"]
    /\ value = [k \in Call |-> NoCall]
    /\ list = [o \in Object |-> NoUid]
    /\ respQ = <<>>
    /\ adding = NoConn
    /\ closing = [x \in Closer |-> NoConn]
    /\ table = [u \in Uid |-> NoConn]
    /\ uids = FullList(MaxUid)
    /\ lost = 0
    /\ stage = [c \in Conn |-> "none"]
    /\ dest = [c \in Conn |-> CHOOSE o \in Object : TRUE]
    /\ uid = [c \in Conn |-> NoUid]
    /\ seqs = [c \in Conn |-> FullList(MaxWait)]
    /\ waiting = [c \in Conn |-> [s \in SeqNum |-> NoCall]]
    /\ wire = [c \in Conn |-> {}]
    /\ replies = [c \in Conn |-> <<>>]
    /\ ran = [k \in Call |-> 0]

-----------------------------------------------------------------------------
(* A call: ObjectProxy::involve.                                             *)

Goto(x, label) == pc' = [pc EXCEPT ![x] = label]

Begin(t) == \E k \in Call :
    /\ pc[t] = "idle"
    /\ outcome[k] = "idle"
    /\ outcome' = [outcome EXCEPT ![k] = "pending"]
    /\ doing' = [doing EXCEPT ![t] = k]
    /\ Goto(t, "lookup")
    /\ UNCHANGED <<conn, num, value, netVars, connVars, wireVars>>

(* involve returns or throws: its thread is free for the next call.          *)
Finish(t, result) ==
    /\ outcome' = [outcome EXCEPT ![doing[t]] = result]
    /\ doing' = [doing EXCEPT ![t] = NoCall]
    /\ conn' = [conn EXCEPT ![t] = NoConn]
    /\ num' = [num EXCEPT ![t] = NoSeq]
    /\ Goto(t, "idle")

(* ClientNetThread::connect.                                                 *)

(* The connection _list leads to: getConnectionByUid of the uid it holds.    *)
(* ClientNetThread::_lock protects _list from other callers, but the network *)
(* thread never takes it: _connections is read, and below erased from, while *)
(* that thread may do the same.  Each access is before or after the others.  *)
Listed(o) == IF list[o] \in Uid THEN table[list[o]] ELSE NoConn

(* A caller holds _lock from the look at _list to the end of the close.      *)
Closing == {"find", "mark", "erase", "return"}
LockFree == \A t \in Thread : pc[t] \notin Closing

Lookup(t) ==
    LET c == Listed(ObjectOf[doing[t]]) IN
    /\ pc[t] = "lookup"
    /\ LockFree
    /\ IF c # NoConn
       THEN conn' = [conn EXCEPT ![t] = c] /\ Goto(t, "pop")
       ELSE UNCHANGED conn /\ Goto(t, "build")
    /\ UNCHANGED <<doing, num, outcome, value, netVars, connVars, wireVars>>

(* buildConnection connects a socket; addConnection hands the connection to  *)
(* the network thread.                                                       *)
Build(t) == \E c \in Conn :
    /\ pc[t] = "build"
    /\ stage[c] = "none"
    /\ stage' = [stage EXCEPT ![c] = "task"]
    /\ dest' = [dest EXCEPT ![c] = ObjectOf[doing[t]]]
    /\ respQ' = Append(respQ, [type |-> "add", conn |-> c])
    /\ conn' = [conn EXCEPT ![t] = c]
    /\ Goto(t, "check")
    /\ UNCHANGED <<doing, num, outcome, value, list, adding, closing, table, uids,
                   lost, uid, seqs, waiting, wireVars>>

BuildFails(t) ==
    /\ pc[t] = "build"
    /\ Finish(t, "refused")
    /\ UNCHANGED <<value, netVars, connVars, wireVars>>

(* ConnectionBase::waitForUidValid: a look without the lock, ...             *)
CheckUid(t) ==
    /\ pc[t] = "check"
    /\ Goto(t, IF uid[conn[t]] # NoUid THEN "link" ELSE "lock")
    /\ UNCHANGED <<doing, conn, num, outcome, value, netVars, connVars, wireVars>>

(* ... one with it, after which it waits or returns false, ...               *)
LockUid(t) ==
    /\ pc[t] = "lock"
    /\ IF uid[conn[t]] = NoUid
       THEN Goto(t, "wait_uid") /\ UNCHANGED <<doing, conn, num, outcome>>
       ELSE Finish(t, "refused")
    /\ UNCHANGED <<value, netVars, connVars, wireVars>>

(* ... and the result of timeWait is its result: true when woken, by setUid  *)
(* or for no reason, false after the timeout.                                *)
WokenForUid(t) ==
    /\ pc[t] = "wait_uid"
    /\ Goto(t, "link")
    /\ UNCHANGED <<doing, conn, num, outcome, value, netVars, connVars, wireVars>>

UidTimeout(t) ==
    /\ pc[t] = "wait_uid"
    /\ Finish(t, "refused")
    /\ UNCHANGED <<value, netVars, connVars, wireVars>>

(* The new connection becomes the one of its object, unless _list leads to a *)
(* connection by now: then that one is returned and the new one closed.      *)
Link(t) ==
    LET o == ObjectOf[doing[t]] IN
    /\ pc[t] = "link"
    /\ LockFree
    /\ IF Listed(o) # NoConn
       THEN /\ conn' = [conn EXCEPT ![t] = Listed(o)]
            /\ closing' = [closing EXCEPT ![t] = conn[t]]
            /\ Goto(t, "find")
            /\ UNCHANGED list
       ELSE /\ list' = [list EXCEPT ![o] = uid[conn[t]]]
            /\ Goto(t, "pop")
            /\ UNCHANGED <<conn, closing>>
    /\ UNCHANGED <<doing, num, outcome, value, respQ, adding, table, uids, lost,
                   connVars, wireVars>>

-----------------------------------------------------------------------------
(* EpollerServer::closeConnection, run by the caller with a connection too   *)
(* many and by the network thread.                                           *)

(* A uid that is not in the table is ignored.                                *)
FindSurplus(t) ==
    LET u == uid[closing[t]]
        c == IF u \in Uid THEN table[u] ELSE NoConn
    IN
    /\ pc[t] = "find"
    /\ closing' = [closing EXCEPT ![t] = c]
    /\ Goto(t, IF c # NoConn THEN "mark" ELSE "pop")
    /\ UNCHANGED <<doing, conn, num, outcome, value, list, respQ, adding, table,
                   uids, lost, connVars, wireVars>>

(* setClosed, and epoll_ctl(DEL): of what has come and is not processed, the *)
(* network thread has read some and processes it, whoever closes.            *)
MarkClosed(x) ==
    LET c == closing[x] IN
    /\ pc[x] = "mark"
    /\ stage' = [stage EXCEPT ![c] = "closed"]
    /\ \E m \in 0..Len(replies[c]) :
            replies' = [replies EXCEPT ![c] = SubSeq(@, 1, m)]
    /\ Goto(x, "erase")
    /\ UNCHANGED <<doing, conn, num, outcome, value, netVars, dest, uid, seqs,
                   waiting, wire, ran>>

EraseEntry(x) ==
    /\ pc[x] = "erase"
    /\ table' = [table EXCEPT ![uid[closing[x]]] = NoConn]
    /\ Goto(x, "return")
    /\ UNCHANGED <<doing, conn, num, outcome, value, list, respQ, adding, closing,
                   uids, lost, connVars, wireVars>>

ReturnUid(x) ==
    /\ pc[x] = "return"
    /\ uids' = AfterPush(uids, uid[closing[x]])
    /\ closing' = [closing EXCEPT ![x] = NoConn]
    /\ Goto(x, IF x = Net THEN "idle" ELSE "pop")
    /\ UNCHANGED <<doing, conn, num, outcome, value, list, respQ, adding, table,
                   lost, connVars, wireVars>>

CloseStep(x) == MarkClosed(x) \/ EraseEntry(x) \/ ReturnUid(x)

-----------------------------------------------------------------------------
(* A call on the connection connect has returned.                            *)

(* ClientConnection::call_func_with_future and call_func.  While _seq is     *)
(* empty the thread sleeps and asks again.                                   *)
PopSeq(t) ==
    LET c == conn[t] IN
    /\ pc[t] = "pop"
    /\ CanPop(seqs[c])
    /\ num' = [num EXCEPT ![t] = Popped(seqs[c])]
    /\ seqs' = [seqs EXCEPT ![c] = AfterPop(@)]
    /\ Goto(t, IF doing[t] \in Oneway THEN "send" ELSE "register")
    /\ UNCHANGED <<doing, conn, outcome, value, netVars, stage, dest, uid,
                   waiting, wireVars>>

Register(t) ==
    /\ pc[t] = "register"
    /\ waiting' = [waiting EXCEPT ![conn[t]][num[t]] = doing[t]]
    /\ Goto(t, "send")
    /\ UNCHANGED <<doing, conn, num, outcome, value, netVars, stage, dest, uid,
                   seqs, wireVars>>

(* sendRequest: the message is addressed by the uid of the connection.       *)
SendRequest(t) ==
    LET msg == [seq |-> num[t], call |-> doing[t]] IN
    /\ pc[t] = "send"
    /\ respQ' = Append(respQ, [type |-> "net", uid |-> uid[conn[t]], msg |-> msg])
    /\ IF doing[t] \in Oneway
       THEN Finish(t, "returned")
       ELSE Goto(t, "wait") /\ UNCHANGED <<doing, conn, num, outcome>>
    /\ UNCHANGED <<value, list, adding, closing, table, uids, lost, connVars,
                   wireVars>>

(* ObjectProxy::waitResult.                                                  *)
TakeResult(t) ==
    /\ pc[t] = "wait"
    /\ value[doing[t]] # NoCall
    /\ Finish(t, "answered")
    /\ UNCHANGED <<value, netVars, connVars, wireVars>>

SeqsAfterTimeout_Returned(t) ==      \* mutant: the number is given back
    [seqs EXCEPT ![conn[t]] = AfterPush(@, num[t])]
SeqsAfterTimeout(t) == seqs

WaitTimeout(t) ==
    /\ pc[t] = "wait"
    /\ value[doing[t]] = NoCall
    /\ Finish(t, "timeout")
    /\ seqs' = SeqsAfterTimeout(t)
    /\ UNCHANGED <<value, netVars, stage, dest, uid, waiting, wireVars>>

-----------------------------------------------------------------------------
(* The network thread.                                                       *)

Idling == adding = NoConn /\ pc[Net] = "idle"

NextTask ==
    /\ Idling
    /\ respQ # <<>>
    /\ respQ' = Tail(respQ)

(* EpollerServer::addConnection: setUid wakes the caller before the          *)
(* connection is in the table.                                               *)
AddUid ==
    LET c == Head(respQ).conn IN
    /\ NextTask
    /\ Head(respQ).type = "add"
    /\ IF CanPop(uids)
       THEN /\ uid' = [uid EXCEPT ![c] = Popped(uids)]
            /\ uids' = AfterPop(uids)
            /\ adding' = c
            /\ UNCHANGED stage
       ELSE /\ stage' = [stage EXCEPT ![c] = "dropped"]
            /\ UNCHANGED <<uid, uids, adding>>
    /\ UNCHANGED <<threadVars, list, closing, table, lost, dest, seqs, waiting, wireVars>>

AddEntry ==
    /\ adding # NoConn
    /\ table' = [table EXCEPT ![uid[adding]] = adding]
    /\ stage' = [stage EXCEPT ![adding] = "open"]
    /\ adding' = NoConn
    /\ UNCHANGED <<threadVars, list, respQ, closing, uids, lost, dest, uid, seqs,
                   waiting, wireVars>>

(* processResponse: the request goes out on the connection that has the uid  *)
(* now, if any.                                                              *)
SendTask ==
    LET u == Head(respQ).uid IN
    /\ NextTask
    /\ Head(respQ).type = "net"
    /\ IF u \in Uid /\ table[u] # NoConn
       THEN wire' = [wire EXCEPT ![table[u]] = @ \cup {Head(respQ).msg}]
       ELSE UNCHANGED wire
    /\ UNCHANGED <<threadVars, list, adding, closing, table, uids, lost, connVars,
                   replies, ran>>

(* recvCallback, parseHrpc and processHrpc for one package.  Events carry    *)
(* the uid: those of a connection that is not under its own are not served.  *)
Unregistered(c, s) == [waiting EXCEPT ![c][s] = NoCall]

Receive(c) ==
    LET msg == Head(replies[c])
        k == waiting[c][msg.seq]
    IN
    /\ Idling
    /\ replies[c] # <<>>
    /\ stage[c] = "closed" \/ \E u \in Uid : table[u] = c
    /\ replies' = [replies EXCEPT ![c] = Tail(@)]
    /\ IF k # NoCall
       THEN /\ value' = [value EXCEPT ![k] = msg.call]
            /\ waiting' = Unregistered(c, msg.seq)
            /\ seqs' = [seqs EXCEPT ![c] = AfterPush(@, msg.seq)]
       ELSE UNCHANGED <<value, waiting, seqs>>
    /\ UNCHANGED <<pc, doing, conn, num, outcome, netVars, stage, dest, uid, wire,
                   ran>>

(* A connection ends: an error, the end of the stream, or checkActivity      *)
(* finds it idle.  After the end of the stream recvCallback goes on with a   *)
(* reference to the erased entry of the table: undefined, seen as packages   *)
(* that are still processed or not (MarkClosed).                             *)
LoseConnection(u) ==
    /\ Idling
    /\ table[u] # NoConn
    /\ lost < MaxLost
    /\ lost' = lost + 1
    /\ closing' = [closing EXCEPT ![Net] = table[u]]
    /\ Goto(Net, "mark")
    /\ UNCHANGED <<doing, conn, num, outcome, value, list, respQ, adding, table,
                   uids, connVars, wireVars>>

-----------------------------------------------------------------------------
(* The server of a connection runs what it is asked, in any order, if it     *)
(* serves the object; the response goes back while the connection lasts.     *)
Serve(c) == \E msg \in wire[c] :
    /\ wire' = [wire EXCEPT ![c] = @ \ {msg}]
    /\ IF dest[c] = ObjectOf[msg.call]
       THEN /\ ran' = [ran EXCEPT ![msg.call] = @ + 1]
            /\ replies' = IF msg.call \in Oneway \/ stage[c] # "open" THEN replies
                          ELSE [replies EXCEPT ![c] = Append(@, msg)]
       ELSE UNCHANGED <<ran, replies>>
    /\ UNCHANGED <<threadVars, netVars, connVars>>

-----------------------------------------------------------------------------
ThreadStep(t) ==
    \/ Lookup(t) \/ Build(t) \/ BuildFails(t)
    \/ CheckUid(t) \/ LockUid(t) \/ WokenForUid(t) \/ UidTimeout(t) \/ Link(t)
    \/ FindSurplus(t) \/ CloseStep(t)
    \/ PopSeq(t) \/ Register(t) \/ SendRequest(t)
    \/ TakeResult(t) \/ WaitTimeout(t)

NetStep ==
    \/ AddUid \/ AddEntry \/ SendTask \/ CloseStep(Net)
    \/ \E c \in Conn : Receive(c)

Next ==
    \/ \E t \in Thread : Begin(t) \/ ThreadStep(t)
    \/ NetStep
    \/ \E u \in Uid : LoseConnection(u)
    \/ \E c \in Conn : Serve(c)

Spec == Init /\ [][Next]_vars

(* The threads of the client are scheduled and a server that has a request   *)
(* serves it.                                                                *)
Fairness ==
    /\ \A t \in Thread : WF_vars(ThreadStep(t))
    /\ WF_vars(NetStep)
    /\ \A c \in Conn : WF_vars(Serve(c))

FairSpec == Spec /\ Fairness

-----------------------------------------------------------------------------
TypeOK ==
    /\ pc \in [Closer -> {"idle", "lookup", "build", "check", "lock", "wait_uid",
                          "link", "pop", "register", "send", "wait"} \cup Closing]
    /\ doing \in [Thread -> Call \cup {NoCall}]
    /\ conn \in [Thread -> Conn \cup {NoConn}]
    /\ num \in [Thread -> SeqNum \cup {NoSeq}]
    /\ outcome \in [Call -> {"idle", "pending", "answered", "timeout", "refused",
                             "returned"}]
    /\ value \in [Call -> Call \cup {NoCall}]
    /\ list \in [Object -> Uid \cup {NoUid}]
    /\ respQ \in Seq(NetTask \cup AddTask)
    /\ adding \in Conn \cup {NoConn}
    /\ closing \in [Closer -> Conn \cup {NoConn}]
    /\ table \in [Uid -> Conn \cup {NoConn}]
    /\ uids \in Seq(Uid)
    /\ lost \in 0..MaxLost
    /\ stage \in [Conn -> {"none", "task", "open", "closed", "dropped"}]
    /\ dest \in [Conn -> Object]
    /\ uid \in [Conn -> Uid \cup {NoUid}]
    /\ seqs \in [Conn -> Seq(SeqNum)]
    /\ waiting \in [Conn -> [SeqNum -> Call \cup {NoCall}]]
    /\ wire \in [Conn -> SUBSET Message]
    /\ replies \in [Conn -> Seq(Message)]
    /\ ran \in [Call -> Nat]

(* Who has taken a uid out of the table and not yet given it back.           *)
Returning(u) == {x \in Closer : pc[x] = "return" /\ uid[closing[x]] = u}

(* hrpc_uid.h:43, pushUid "gives back a uid that was taken":  a uid of the   *)
(* network thread is in the list, in the table, with the connection being    *)
(* added, or with the thread that closes its connection.                     *)
UidsConserved ==
    Holds(uids, {u \in Uid : /\ table[u] = NoConn
                             /\ adding # NoConn => uid[adding] # u
                             /\ Returning(u) = {}})

(* Whoever closes a connection, and however the closes of two threads and    *)
(* the adding of connections interleave, no uid is lost to the client, and   *)
(* what the table leads to has the uid it is found by.                       *)
UidsKept ==
    \A u \in Uid :
        /\ \/ \E i \in 1..Len(uids) : uids[i] = u
           \/ table[u] # NoConn
           \/ adding # NoConn /\ uid[adding] = u
           \/ Returning(u) # {}
        /\ table[u] # NoConn => uid[table[u]] = u

(* Where the sequence numbers of a connection are that _seq does not hold.   *)
Registered(c) == {s \in SeqNum : waiting[c][s] # NoCall}
Holding(c, s) == {t \in Thread : /\ conn[t] = c /\ num[t] = s
                                 /\ \/ pc[t] = "register"
                                    \/ pc[t] = "send" /\ doing[t] \in Oneway}
Held(c) == {s \in SeqNum : Holding(c, s) # {}}
Spent(c) == {s \in SeqNum : /\ s \notin Registered(c) \cup Held(c)
                            /\ \A i \in 1..Len(seqs[c]) : seqs[c][i] # s}

AllSpent == {p \in Conn \X SeqNum : p[2] \in Spent(p[1])}

(* A sequence number is free, in the hands of one thread, registered for one *)
(* call, or was spent on a call without response: whatever is timed out,     *)
(* answered late or lost, none is given out twice.                           *)
SeqsConserved ==
    /\ \A c \in Conn :
        /\ Holds(seqs[c], SeqNum \ (Registered(c) \cup Held(c) \cup Spent(c)))
        /\ Registered(c) \cap Held(c) = {}
        /\ \A s \in Held(c) : Cardinality(Holding(c, s)) = 1
    /\ Cardinality(AllSpent) = Cardinality({k \in Oneway : outcome[k] = "returned"})

(* ClientNetThread.h:129, _list holds "the uid of the connection of a proxy  *)
(* object": what it leads to was built for the object.                       *)
ListedServesObject ==
    \A o \in Object : Listed(o) # NoConn => dest[Listed(o)] = o

(* ClientConnection.h, call_func_with_future returns a future to "wait for   *)
(* the result": a promise is given the response to its own call.             *)
OwnAnswers == \A k \in Call : value[k] \in {k, NoCall}

(* ClientConnection.cpp:60, "if the wait queue is full, wait 10ms": who      *)
(* finds no sequence number finds every one of them registered, or in the    *)
(* hands of a thread that is about to register or to send.                   *)
WaitsOnlyWhenFull ==
    \A t \in Thread : pc[t] = "pop" /\ ~CanPop(seqs[conn[t]]) =>
        Registered(conn[t]) \cup Held(conn[t]) = SeqNum

(* ConnectionBase.h, waitForUidValid returns "whether it is normal": a call  *)
(* is refused after the wait only while its connection has no uid.           *)
RefusedWithoutUid ==
    [][\A t \in Thread : pc[t] = "lock" /\ pc'[t] = "idle" =>
            uid[conn[t]] = NoUid]_vars

(* ClientNetThread.cpp:114, "the connection just built is redundant": the    *)
(* one connect closes is never the one it returns.                           *)
ReturnsWhatItKeeps ==
    \A t \in Thread : pc[t] = "mark" => closing[t] # conn[t]

(* ObjectProxy.h, "the wait time is 2s": a call comes to an end, unless it  *)
(* polls for a sequence number on a connection that has ended.               *)
CallReturns ==
    \A t \in Thread : pc[t] # "idle" ~>
        pc[t] = "idle" \/ (pc[t] = "pop" /\ stage[conn[t]] = "closed")

(* What the user is promised.  The response to another call is wrong; once a *)
(* uid has named two connections, where that happens (OwnAnswers), it counts *)
(* for no more than a timeout, and the rest of the promise stands.           *)
UidTwice == \E c, d \in Conn : c # d /\ uid[c] # NoUid /\ uid[c] = uid[d]

Result(k) ==
    IF outcome[k] = "answered" /\ value[k] # k
    THEN IF UidTwice THEN "timeout" ELSE "wrong"
    ELSE outcome[k]

Service == INSTANCE CallService WITH
    status <- [k \in Call |-> Result(k)],
    runs <- ran

CallsServed == Service!Spec
=============================================================================
