-------------------------- MODULE HrpcClient_proofs --------------------------
(* The client for any numbers of threads, calls, connections, uids and       *)
(* sequence numbers, also when uids are used again and when two threads      *)
(* close one connection: it has its types, no uid is lost to it, and no      *)
(* sequence number is given out twice or lost but to calls without response; *)
(* it keeps what CallService promises the user of an ObjectProxy.            *)
EXTENDS HrpcClient, UidGenerator_proofs, FiniteSetTheorems, TLAPS

(* A thread that is inside a call has it for its own, and has what it takes  *)
(* for the place it is at.                                                   *)
BusySound == \A t \in Thread :
    /\ pc[t] = "idle" => doing[t] = NoCall
    /\ pc[t] # "idle" =>
         /\ doing[t] \in Call
         /\ outcome[doing[t]] = "pending"
         /\ \A u \in Thread \ {t} : doing[u] # doing[t]
    /\ pc[t] \notin {"idle", "lookup", "build"} => conn[t] \in Conn
    /\ pc[t] \in {"register", "send", "wait"} => num[t] \in SeqNum

(* A connection that waits to be added does so once.                         *)
IsAdd(i) == i \in 1..Len(respQ) /\ respQ[i].type = "add"
AddsSound == \A i \in 1..Len(respQ) : IsAdd(i) =>
    /\ stage[respQ[i].conn] = "task"
    /\ respQ[i].conn # adding
    /\ \A j \in 1..Len(respQ) : IsAdd(j) /\ respQ[j].conn = respQ[i].conn => i = j

(* What the table leads to was added; what is not added has no uid, ...      *)
EntriesSound ==
    /\ \A u \in Uid : table[u] # NoConn => stage[table[u]] \in {"open", "closed"}
    /\ adding # NoConn => stage[adding] = "task" /\ uid[adding] \in Uid
    /\ \A c \in Conn :
         stage[c] \in {"none", "task", "dropped"} /\ c # adding => uid[c] = NoUid

(* ... and what is found in the table and closed was added before.           *)
Added(c) == c \in Conn /\ stage[c] \in {"open", "closed"} /\ uid[c] \in Uid
CloserSound(x) ==
    /\ x = Net => pc[x] \in {"idle", "mark", "erase", "return"}
    /\ pc[x] = "find" => closing[x] \in Conn
    /\ pc[x] \in {"mark", "erase", "return"} => Added(closing[x])
ClosersSound == \A x \in Closer : CloserSound(x)

(* A sequence number is in one place, and gone for each call without         *)
(* response that returned.                                                   *)
Free(c) == {seqs[c][i] : i \in 1..Len(seqs[c])}
Known(c) == Free(c) \cup Registered(c) \cup Held(c)
SeqsSound ==
    /\ \A t \in Thread : pc[t] = "register" => doing[t] \notin Oneway
    /\ \A c \in Conn :
        /\ Holds(seqs[c], Free(c))
        /\ Free(c) \cap (Registered(c) \cup Held(c)) = {}
        /\ Registered(c) \cap Held(c) = {}
        /\ \A s \in SeqNum : \A t, u \in Holding(c, s) : t = u
Returned == {k \in Oneway : outcome[k] = "returned"}
SpentSound ==
    /\ IsFiniteSet(AllSpent) /\ IsFiniteSet(Returned)
    /\ Cardinality(AllSpent) = Cardinality(Returned)

CInv ==
    /\ TypeOK /\ BusySound /\ AddsSound
    /\ EntriesSound /\ ClosersSound /\ UidsKept
    /\ SeqsSound /\ SpentSound

LEMMA Constants ==
    /\ Object # {} /\ ObjectOf \in [Call -> Object] /\ Oneway \subseteq Call
    /\ MaxUid \in Nat \ {0} /\ MaxWait \in Nat \ {0} /\ MaxLost \in Nat
    /\ NoConn \notin Conn /\ NoCall \notin Call
    /\ NoUid \notin Uid /\ NoSeq \notin SeqNum
    /\ Net \notin Thread /\ Net \in Closer /\ \A t \in Thread : t \in Closer
    /\ Closer = Thread \cup {Net}
BY ClientAssumption DEF ClientAssumption, NoUid, NoSeq, Uid, SeqNum, Closer

(* The list of a generator holds what is in it, each once.                   *)
LEMMA FullFree ==
    ASSUME NEW n \in Nat
    PROVE  /\ FullList(n) \in Seq(1..n)
           /\ Holds(FullList(n), 1..n)
           /\ {FullList(n)[i] : i \in 1..Len(FullList(n))} = 1..n
BY FullListHolds DEF FullList

LEMMA ClientInit == Init => CInv
<1> SUFFICES ASSUME Init PROVE CInv
  OBVIOUS
<1> USE Constants
<1>1. /\ FullList(MaxUid) \in Seq(Uid) /\ Holds(FullList(MaxUid), Uid)
      /\ FullList(MaxWait) \in Seq(SeqNum) /\ Holds(FullList(MaxWait), SeqNum)
      /\ {FullList(MaxWait)[i] : i \in 1..Len(FullList(MaxWait))} = SeqNum
  BY FullFree DEF Uid, SeqNum
<1>2. TypeOK
  <2>1. (CHOOSE o \in Object : TRUE) \in Object
    OBVIOUS
  <2> QED
    BY <1>1, <2>1 DEF Init, TypeOK
<1>3. BusySound /\ AddsSound
  BY DEF Init, BusySound, AddsSound
<1>4. EntriesSound /\ ClosersSound /\ UidsKept
  <2>1. EntriesSound /\ ClosersSound
    BY DEF Init, EntriesSound, ClosersSound, CloserSound
  <2>2. \A u \in Uid : \E i \in 1..Len(uids) : uids[i] = u
    BY <1>1 DEF Init, Holds
  <2> QED
    BY <2>1, <2>2 DEF Init, UidsKept
<1>5. \A c \in Conn : Free(c) = SeqNum /\ Registered(c) = {} /\ Held(c) = {}
  BY <1>1 DEF Init, Free, Registered, Held, Holding
<1>6. SeqsSound
  BY <1>1, <1>5 DEF Init, SeqsSound, Holding
<1>7. AllSpent = {} /\ Returned = {}
  <2>1. AllSpent = {}
    <3> SUFFICES ASSUME NEW p \in AllSpent PROVE FALSE
      OBVIOUS
    <3>1. p[1] \in Conn /\ p[2] \in Spent(p[1])
      BY DEF AllSpent
    <3>2. p[2] \in SeqNum /\ p[2] \notin Free(p[1])
      BY <3>1 DEF Spent, Free
    <3> QED
      BY <1>5, <3>1, <3>2
  <2> QED
    BY <2>1, Constants DEF Init, Returned
<1>8. SpentSound
  BY <1>7, FS_EmptySet DEF SpentSound
<1> QED
  BY <1>2, <1>3, <1>4, <1>6, <1>8 DEF CInv

LEMMA HoldsIs ==
    ASSUME NEW ids, NEW free, Holds(ids, free)
    PROVE  {ids[i] : i \in 1..Len(ids)} = free
BY DEF Holds

(* involve returns: the thread is free, its call has its result.             *)
LEMMA FinishEffect ==
    ASSUME TypeOK, NEW t \in Thread,
           NEW result \in {"answered", "timeout", "refused", "returned"},
           Finish(t, result)
    PROVE  /\ pc' \in [Closer -> {"idle", "lookup", "build", "check", "lock", "wait_uid",
                                  "link", "pop", "register", "send", "wait"} \cup Closing]
           /\ pc' = [pc EXCEPT ![t] = "idle"]
           /\ doing' \in [Thread -> Call \cup {NoCall}]
           /\ conn' \in [Thread -> Conn \cup {NoConn}]
           /\ num' \in [Thread -> SeqNum \cup {NoSeq}]
           /\ outcome' \in [Call -> {"idle", "pending", "answered", "timeout", "refused",
                                     "returned"}]
           /\ pc'[t] = "idle" /\ doing'[t] = NoCall /\ conn'[t] = NoConn /\ num'[t] = NoSeq
           /\ \A u \in Thread \ {t} : /\ pc'[u] = pc[u] /\ doing'[u] = doing[u]
                                      /\ conn'[u] = conn[u] /\ num'[u] = num[u]
           /\ \A k \in Call : outcome'[k] = IF k = doing[t] THEN result ELSE outcome[k]
<1>1. /\ pc' = [pc EXCEPT ![t] = "idle"]
      /\ doing' = [doing EXCEPT ![t] = NoCall]
      /\ conn' = [conn EXCEPT ![t] = NoConn]
      /\ num' = [num EXCEPT ![t] = NoSeq]
      /\ outcome' = [outcome EXCEPT ![doing[t]] = result]
  BY DEF Finish, Goto
<1>2. /\ pc' \in [Closer -> {"idle", "lookup", "build", "check", "lock", "wait_uid",
                             "link", "pop", "register", "send", "wait"} \cup Closing]
      /\ pc'[t] = "idle"
      /\ \A u \in Thread \ {t} : pc'[u] = pc[u]
  BY <1>1, Constants DEF TypeOK
<1>3. /\ doing' \in [Thread -> Call \cup {NoCall}]
      /\ conn' \in [Thread -> Conn \cup {NoConn}]
      /\ num' \in [Thread -> SeqNum \cup {NoSeq}]
      /\ doing'[t] = NoCall /\ conn'[t] = NoConn /\ num'[t] = NoSeq
      /\ \A u \in Thread \ {t} : /\ doing'[u] = doing[u]
                                 /\ conn'[u] = conn[u] /\ num'[u] = num[u]
  BY <1>1 DEF TypeOK
<1>4. /\ outcome' \in [Call -> {"idle", "pending", "answered", "timeout", "refused",
                                "returned"}]
      /\ \A k \in Call : outcome'[k] = IF k = doing[t] THEN result ELSE outcome[k]
  BY <1>1 DEF TypeOK
<1> QED
  BY <1>1, <1>2, <1>3, <1>4

(* The head of the response queue and what is behind it.                     *)
LEMMA QueueHead ==
    ASSUME TypeOK, NextTask
    PROVE  /\ 1 \in 1..Len(respQ) /\ Head(respQ) = respQ[1]
           /\ Head(respQ) \in NetTask \cup AddTask
           /\ respQ' \in Seq(NetTask \cup AddTask)
           /\ Len(respQ') = Len(respQ) - 1
           /\ \A i \in 1..Len(respQ') : i + 1 \in 1..Len(respQ) /\ respQ'[i] = respQ[i + 1]
           /\ Head(respQ).type = "add" => Head(respQ).conn \in Conn
           /\ Head(respQ).type = "net" =>
                Head(respQ).uid \in Uid \cup {NoUid} /\ Head(respQ).msg \in Message
<1>1. respQ \in Seq(NetTask \cup AddTask) /\ respQ # <<>> /\ respQ' = Tail(respQ)
  BY DEF NextTask, TypeOK
<1>2. Head(respQ) \in NetTask \cup AddTask
  BY <1>1
<1>3. /\ 1 \in 1..Len(respQ) /\ Head(respQ) = respQ[1]
      /\ respQ' \in Seq(NetTask \cup AddTask)
      /\ Len(respQ') = Len(respQ) - 1
      /\ \A i \in 1..Len(respQ') : i + 1 \in 1..Len(respQ) /\ respQ'[i] = respQ[i + 1]
  BY <1>1
<1> QED
  BY <1>2, <1>3 DEF NetTask, AddTask

LEMMA TypeStep ==
    ASSUME CInv, [Next]_vars
    PROVE  TypeOK'
<1> USE Constants DEF CInv
<1>1. CASE UNCHANGED vars
  BY <1>1 DEF vars, threadVars, netVars, connVars, wireVars, TypeOK
<1>2. ASSUME NEW t \in Thread, Begin(t) PROVE TypeOK'
  BY <1>2 DEF Begin, Goto, netVars, connVars, wireVars, TypeOK
<1>3. ASSUME NEW t \in Thread, Lookup(t) PROVE TypeOK'
  <2>1. Listed(ObjectOf[doing[t]]) \in Conn \cup {NoConn}
    BY DEF Listed, TypeOK
  <2>2. conn' \in [Thread -> Conn \cup {NoConn}]
    <3>1. conn' = conn \/ conn' = [conn EXCEPT ![t] = Listed(ObjectOf[doing[t]])]
      BY <1>3 DEF Lookup
    <3> QED
      BY <2>1, <3>1 DEF TypeOK
  <2>3. \/ pc' = [pc EXCEPT ![t] = "pop"]
        \/ pc' = [pc EXCEPT ![t] = "build"]
    BY <1>3 DEF Lookup, Goto
  <2> QED
    BY <1>3, <2>2, <2>3 DEF Lookup, netVars, connVars, wireVars, TypeOK
<1>4. ASSUME NEW t \in Thread, Build(t) PROVE TypeOK'
  <2>1. PICK c \in Conn :
          /\ stage' = [stage EXCEPT ![c] = "task"]
          /\ dest' = [dest EXCEPT ![c] = ObjectOf[doing[t]]]
          /\ respQ' = Append(respQ, [type |-> "add", conn |-> c])
          /\ conn' = [conn EXCEPT ![t] = c]
    BY <1>4 DEF Build
  <2>2. [type |-> "add", conn |-> c] \in NetTask \cup AddTask
    BY DEF AddTask
  <2>3. respQ' \in Seq(NetTask \cup AddTask)
    BY <2>1, <2>2 DEF TypeOK
  <2>4. dest' \in [Conn -> Object]
    BY <1>4, <2>1 DEF Build, BusySound, TypeOK
  <2> QED
    BY <1>4, <2>1, <2>3, <2>4 DEF Build, Goto, wireVars, TypeOK
<1>5. ASSUME NEW t \in Thread, BuildFails(t) PROVE TypeOK'
  BY <1>5, FinishEffect DEF BuildFails, netVars, connVars, wireVars, TypeOK
<1>6. ASSUME NEW t \in Thread, CheckUid(t) PROVE TypeOK'
  BY <1>6 DEF CheckUid, Goto, netVars, connVars, wireVars, TypeOK
<1>7. ASSUME NEW t \in Thread, LockUid(t) PROVE TypeOK'
  <2>1. CASE Finish(t, "refused")
    BY <1>7, <2>1, FinishEffect DEF LockUid, netVars, connVars, wireVars, TypeOK
  <2>2. CASE Goto(t, "wait_uid") /\ UNCHANGED <<doing, conn, num, outcome>>
    BY <1>7, <2>2 DEF LockUid, Goto, netVars, connVars, wireVars, TypeOK
  <2> QED
    BY <1>7, <2>1, <2>2 DEF LockUid
<1>8. ASSUME NEW t \in Thread, WokenForUid(t) PROVE TypeOK'
  BY <1>8 DEF WokenForUid, Goto, netVars, connVars, wireVars, TypeOK
<1>9. ASSUME NEW t \in Thread, UidTimeout(t) PROVE TypeOK'
  BY <1>9, FinishEffect DEF UidTimeout, netVars, connVars, wireVars, TypeOK
<1>10. ASSUME NEW t \in Thread, Link(t) PROVE TypeOK'
  <2>1. /\ doing[t] \in Call /\ conn[t] \in Conn /\ ObjectOf[doing[t]] \in Object
        /\ uid[conn[t]] \in Uid \cup {NoUid}
        /\ Listed(ObjectOf[doing[t]]) \in Conn \cup {NoConn}
    BY <1>10 DEF Link, Listed, BusySound, TypeOK
  <2>2. CASE Listed(ObjectOf[doing[t]]) # NoConn
    <3>1. /\ list' = list
          /\ conn' = [conn EXCEPT ![t] = Listed(ObjectOf[doing[t]])]
          /\ closing' = [closing EXCEPT ![t] = conn[t]]
          /\ pc' = [pc EXCEPT ![t] = "find"]
      BY <1>10, <2>2 DEF Link, Goto
    <3> QED
      BY <1>10, <2>1, <3>1 DEF Link, connVars, wireVars, Closing, TypeOK
  <2>3. CASE Listed(ObjectOf[doing[t]]) = NoConn
    <3>1. /\ list' = [list EXCEPT ![ObjectOf[doing[t]]] = uid[conn[t]]]
          /\ UNCHANGED <<conn, closing>>
          /\ pc' = [pc EXCEPT ![t] = "pop"]
      BY <1>10, <2>3 DEF Link, Goto
    <3>2. list' \in [Object -> Uid \cup {NoUid}]
      BY <2>1, <3>1 DEF TypeOK
    <3> QED
      BY <1>10, <3>1, <3>2 DEF Link, connVars, wireVars, TypeOK
  <2> QED
    BY <2>2, <2>3
<1>11. ASSUME NEW t \in Thread, PopSeq(t) PROVE TypeOK'
  <2>1. conn[t] \in Conn /\ seqs[conn[t]] \in Seq(SeqNum) /\ seqs[conn[t]] # <<>>
    BY <1>11 DEF PopSeq, CanPop, BusySound, TypeOK
  <2>2. Popped(seqs[conn[t]]) \in SeqNum /\ AfterPop(seqs[conn[t]]) \in Seq(SeqNum)
    BY <2>1 DEF Popped, AfterPop
  <2> QED
    BY <1>11, <2>1, <2>2 DEF PopSeq, Goto, netVars, wireVars, TypeOK
<1>12. ASSUME NEW t \in Thread, Register(t) PROVE TypeOK'
  BY <1>12 DEF Register, Goto, netVars, wireVars, BusySound, TypeOK
<1>13. ASSUME NEW t \in Thread, SendRequest(t) PROVE TypeOK'
  <2> DEFINE msg == [seq |-> num[t], call |-> doing[t]]
             task == [type |-> "net", uid |-> uid[conn[t]], msg |-> msg]
  <2>1. msg \in Message
    BY <1>13 DEF SendRequest, Message, BusySound, TypeOK
  <2>2. uid[conn[t]] \in Uid \cup {NoUid}
    BY <1>13 DEF SendRequest, BusySound, TypeOK
  <2>3. task \in NetTask \cup AddTask
    BY <2>1, <2>2 DEF NetTask
  <2>4. respQ' = Append(respQ, task)
    BY <1>13 DEF SendRequest
  <2> HIDE DEF task
  <2>5. respQ' \in Seq(NetTask \cup AddTask)
    BY <2>3, <2>4 DEF TypeOK
  <2>6. CASE Finish(t, "returned")
    BY <1>13, <2>5, <2>6, FinishEffect DEF SendRequest, connVars, wireVars, TypeOK
  <2>7. CASE Goto(t, "wait") /\ UNCHANGED <<doing, conn, num, outcome>>
    BY <1>13, <2>5, <2>7 DEF SendRequest, Goto, connVars, wireVars, TypeOK
  <2> QED
    BY <1>13, <2>6, <2>7 DEF SendRequest
<1>14. ASSUME NEW t \in Thread, TakeResult(t) PROVE TypeOK'
  BY <1>14, FinishEffect DEF TakeResult, netVars, connVars, wireVars, TypeOK
<1>15. ASSUME NEW t \in Thread, WaitTimeout(t) PROVE TypeOK'
  BY <1>15, FinishEffect DEF WaitTimeout, SeqsAfterTimeout, netVars, wireVars, TypeOK
<1>16. CASE AddUid
  <2>1. respQ' \in Seq(NetTask \cup AddTask) /\ Head(respQ).conn \in Conn
    BY <1>16, QueueHead DEF AddUid
  <2>2. CASE CanPop(uids)
    <3>1. Popped(uids) \in Uid /\ AfterPop(uids) \in Seq(Uid)
      BY <2>2 DEF CanPop, Popped, AfterPop, TypeOK
    <3>2. /\ uid' = [uid EXCEPT ![Head(respQ).conn] = Popped(uids)]
          /\ uids' = AfterPop(uids)
          /\ adding' = Head(respQ).conn
          /\ stage' = stage
      BY <1>16, <2>2 DEF AddUid
    <3>3. uid' \in [Conn -> Uid \cup {NoUid}]
      BY <3>1, <3>2 DEF TypeOK
    <3> QED
      BY <1>16, <2>1, <3>1, <3>2, <3>3 DEF AddUid, threadVars, wireVars, TypeOK
  <2>3. CASE ~CanPop(uids)
    <3>1. stage' = [stage EXCEPT ![Head(respQ).conn] = "dropped"]
          /\ UNCHANGED <<uid, uids, adding>>
      BY <1>16, <2>3 DEF AddUid
    <3>2. stage' \in [Conn -> {"none", "task", "open", "closed", "dropped"}]
      BY <3>1 DEF TypeOK
    <3> QED
      BY <1>16, <2>1, <3>1, <3>2 DEF AddUid, threadVars, wireVars, TypeOK
  <2> QED
    BY <2>2, <2>3
<1>17. CASE AddEntry
  BY <1>17 DEF AddEntry, EntriesSound, threadVars, wireVars, TypeOK
<1>18. CASE SendTask
  <2>1. respQ' \in Seq(NetTask \cup AddTask) /\ Head(respQ).msg \in Message
    BY <1>18, QueueHead DEF SendTask
  <2>2. wire' \in [Conn -> SUBSET Message]
    <3> DEFINE c == table[Head(respQ).uid]
    <3>1. CASE wire' = wire
      BY <3>1 DEF TypeOK
    <3>2. CASE /\ c \in Conn
               /\ wire' = [wire EXCEPT ![c] = wire[c] \cup {Head(respQ).msg}]
      <4>1. wire[c] \cup {Head(respQ).msg} \in SUBSET Message
        BY <2>1, <3>2 DEF TypeOK
      <4> QED
        BY <3>2, <4>1 DEF TypeOK
    <3>3. Head(respQ).uid \in Uid => c \in Conn \cup {NoConn}
      BY DEF TypeOK
    <3> QED
      BY <1>18, <3>1, <3>2, <3>3 DEF SendTask
  <2> QED
    BY <1>18, <2>1, <2>2 DEF SendTask, threadVars, connVars, TypeOK
<1>19. ASSUME NEW c \in Conn, Receive(c) PROVE TypeOK'
  <2> DEFINE msg == Head(replies[c])
  <2>1. replies[c] \in Seq(Message) /\ replies[c] # <<>>
    BY <1>19 DEF Receive, TypeOK
  <2>2. msg \in Message /\ Tail(replies[c]) \in Seq(Message)
    BY <2>1
  <2>3. msg.seq \in SeqNum /\ msg.call \in Call
    BY <2>2 DEF Message
  <2>4. replies' \in [Conn -> Seq(Message)]
    BY <1>19, <2>2 DEF Receive, TypeOK
  <2>5. CASE waiting[c][msg.seq] # NoCall
    <3>1. waiting[c][msg.seq] \in Call
      BY <2>3, <2>5 DEF TypeOK
    <3>2. AfterPush(seqs[c], msg.seq) \in Seq(SeqNum)
      BY <2>3 DEF AfterPush, TypeOK
    <3>3. /\ value' = [value EXCEPT ![waiting[c][msg.seq]] = msg.call]
          /\ waiting' = [waiting EXCEPT ![c][msg.seq] = NoCall]
          /\ seqs' = [seqs EXCEPT ![c] = AfterPush(seqs[c], msg.seq)]
      BY <1>19, <2>5 DEF Receive, Unregistered
    <3>4. /\ value' \in [Call -> Call \cup {NoCall}]
          /\ waiting' \in [Conn -> [SeqNum -> Call \cup {NoCall}]]
          /\ seqs' \in [Conn -> Seq(SeqNum)]
      BY <2>3, <3>1, <3>2, <3>3 DEF TypeOK
    <3> QED
      BY <1>19, <2>4, <3>4 DEF Receive, netVars, TypeOK
  <2>6. CASE waiting[c][msg.seq] = NoCall
    BY <1>19, <2>4, <2>6 DEF Receive, netVars, TypeOK
  <2> QED
    BY <2>5, <2>6
<1>20. ASSUME NEW u \in Uid, LoseConnection(u) PROVE TypeOK'
  <2>1. /\ table[u] \in Conn
        /\ closing' = [closing EXCEPT ![Net] = table[u]]
        /\ pc' = [pc EXCEPT ![Net] = "mark"]
        /\ lost' \in 0..MaxLost
    BY <1>20 DEF LoseConnection, Goto, TypeOK
  <2> QED
    BY <1>20, <2>1 DEF LoseConnection, connVars, wireVars, Closing, TypeOK
<1>21. ASSUME NEW c \in Conn, Serve(c) PROVE TypeOK'
  <2>1. PICK msg \in wire[c] :
          /\ wire' = [wire EXCEPT ![c] = @ \ {msg}]
          /\ ran' = [ran EXCEPT ![msg.call] = ran[msg.call] + 1] \/ ran' = ran
          /\ \/ replies' = [replies EXCEPT ![c] = Append(replies[c], msg)]
             \/ replies' = replies
    BY <1>21 DEF Serve
  <2>2. msg \in Message /\ msg.call \in Call
    BY DEF TypeOK, Message
  <2>3. wire' \in [Conn -> SUBSET Message]
    BY <2>1 DEF TypeOK
  <2>4. ran' \in [Call -> Nat]
    <3>1. ran[msg.call] + 1 \in Nat
      BY <2>2 DEF TypeOK
    <3> QED
      BY <2>1, <3>1 DEF TypeOK
  <2>5. replies' \in [Conn -> Seq(Message)]
    <3>0. replies[c] \in Seq(Message)
      BY DEF TypeOK
    <3>1. PICK q \in Seq(Message) : q = Append(replies[c], msg)
      <4>1. \A r \in Seq(Message) : \A m \in Message : Append(r, m) \in Seq(Message)
        OBVIOUS
      <4> QED
        BY <2>2, <3>0, <4>1, Zenon
    <3>2. replies' = [replies EXCEPT ![c] = q] \/ replies' = replies
      BY <2>1, <3>1
    <3> QED
      BY <3>2 DEF TypeOK
  <2> QED
    BY <1>21, <2>3, <2>4, <2>5 DEF Serve, threadVars, netVars, connVars, TypeOK
<1>22. ASSUME NEW t \in Thread, FindSurplus(t) PROVE TypeOK'
  <2>1. PICK c \in Conn \cup {NoConn} : closing' = [closing EXCEPT ![t] = c]
    BY <1>22 DEF FindSurplus, TypeOK
  <2>2. \/ pc' = [pc EXCEPT ![t] = "mark"]
        \/ pc' = [pc EXCEPT ![t] = "pop"]
    BY <1>22 DEF FindSurplus, Goto
  <2>3. /\ closing' \in [Closer -> Conn \cup {NoConn}]
        /\ pc' \in [Closer -> {"idle", "lookup", "build", "check", "lock", "wait_uid",
                              "link", "pop", "register", "send", "wait"} \cup Closing]
    <3>1. closing' \in [Closer -> Conn \cup {NoConn}]
      BY <2>1 DEF TypeOK
    <3>2. pc' \in [Closer -> {"idle", "lookup", "build", "check", "lock", "wait_uid",
                              "link", "pop", "register", "send", "wait"} \cup Closing]
      BY <2>2 DEF Closing, TypeOK
    <3> QED
      BY <3>1, <3>2
  <2> QED
    BY <1>22, <2>3 DEF FindSurplus, connVars, wireVars, TypeOK
<1>23. ASSUME NEW x \in Closer, MarkClosed(x) PROVE TypeOK'
  <2> DEFINE c == closing[x]
  <2>1. c \in Conn /\ replies[c] \in Seq(Message)
    BY <1>23 DEF MarkClosed, ClosersSound, CloserSound, Added, TypeOK
  <2>2. PICK m \in 0..Len(replies[c]) :
          replies' = [replies EXCEPT ![c] = SubSeq(replies[c], 1, m)]
    BY <1>23 DEF MarkClosed
  <2>3. SubSeq(replies[c], 1, m) \in Seq(Message)
    BY <2>1
  <2>4. replies' \in [Conn -> Seq(Message)]
    BY <2>1, <2>2, <2>3 DEF TypeOK
  <2>5. stage' = [stage EXCEPT ![c] = "closed"] /\ pc' = [pc EXCEPT ![x] = "erase"]
    BY <1>23 DEF MarkClosed, Goto
  <2> QED
    BY <1>23, <2>4, <2>5 DEF MarkClosed, netVars, Closing, TypeOK
<1>24. ASSUME NEW x \in Closer, EraseEntry(x) PROVE TypeOK'
  BY <1>24 DEF EraseEntry, Goto, connVars, wireVars, Closing, TypeOK
<1>25. ASSUME NEW x \in Closer, ReturnUid(x) PROVE TypeOK'
  <2>1. uid[closing[x]] \in Uid
    BY <1>25 DEF ReturnUid, ClosersSound, CloserSound, Added
  <2>2. AfterPush(uids, uid[closing[x]]) \in Seq(Uid)
    BY <2>1 DEF AfterPush, TypeOK
  <2>3. \/ pc' = [pc EXCEPT ![x] = "idle"]
        \/ pc' = [pc EXCEPT ![x] = "pop"]
    BY <1>25 DEF ReturnUid, Goto
  <2> QED
    BY <1>25, <2>2, <2>3 DEF ReturnUid, connVars, wireVars, TypeOK
<1> QED
  BY <1>1, <1>2, <1>3, <1>4, <1>5, <1>6, <1>7, <1>8, <1>9, <1>10, <1>11, <1>12, <1>13,
     <1>14, <1>15, <1>16, <1>17, <1>18, <1>19, <1>20, <1>21, <1>22, <1>23, <1>24, <1>25
     DEF Next, ThreadStep, NetStep, CloseStep

(* Steps of the network thread and of the servers leave the threads alone.   *)
Elsewhere ==
    /\ UNCHANGED <<doing, conn, num, outcome>>
    /\ \A t \in Thread : pc'[t] = pc[t]
LEMMA OnlyElsewhere ==
    ASSUME TypeOK,
           UNCHANGED vars \/ NetStep \/ (\E u \in Uid : LoseConnection(u))
           \/ (\E c \in Conn : Serve(c))
    PROVE  Elsewhere
<1>1. CASE \/ UNCHANGED vars \/ AddUid \/ AddEntry \/ SendTask
           \/ \E c \in Conn : Receive(c) \/ Serve(c)
  BY <1>1 DEF Elsewhere, vars, AddUid, AddEntry, SendTask, Receive, Serve, threadVars
<1>2. CASE CloseStep(Net) \/ \E u \in Uid : LoseConnection(u)
  <2>1. UNCHANGED <<doing, conn, num, outcome>> /\ \E p : pc' = [pc EXCEPT ![Net] = p]
    BY <1>2 DEF CloseStep, MarkClosed, EraseEntry, ReturnUid, LoseConnection, Goto
  <2> QED
    BY <2>1, Constants DEF Elsewhere, TypeOK
<1> QED
  BY <1>1, <1>2 DEF NetStep

(* A thread that goes on with its call.                                      *)
LEMMA GoesOn ==
    ASSUME TypeOK, BusySound, NEW t \in Thread, NEW place,
           pc[t] # "idle", place # "idle", pc' = [pc EXCEPT ![t] = place],
           doing' = doing, outcome' = outcome,
           \A u \in Thread \ {t} : conn'[u] = conn[u] /\ num'[u] = num[u],
           place \notin {"lookup", "build"} => conn'[t] \in Conn,
           place \in {"register", "send", "wait"} => num'[t] \in SeqNum
    PROVE  BusySound'
<1>1. pc'[t] = place /\ \A u \in Thread \ {t} : pc'[u] = pc[u]
  BY Constants DEF TypeOK
<1>2. ASSUME NEW u \in Thread
      PROVE  BusySound!(u)'
  <2>1. CASE u = t
    BY <1>1, <2>1 DEF BusySound
  <2>2. CASE u # t
    BY <1>1, <2>2 DEF BusySound
  <2> QED
    BY <2>1, <2>2
<1> QED
  BY <1>2 DEF BusySound

LEMMA FinishBusy ==
    ASSUME TypeOK, BusySound, NEW t \in Thread, pc[t] # "idle",
           NEW result \in {"answered", "timeout", "refused", "returned"},
           Finish(t, result)
    PROVE  BusySound'
<1>1. /\ pc'[t] = "idle" /\ doing'[t] = NoCall
      /\ \A u \in Thread \ {t} : /\ pc'[u] = pc[u] /\ doing'[u] = doing[u]
                                 /\ conn'[u] = conn[u] /\ num'[u] = num[u]
      /\ \A k \in Call : outcome'[k] = IF k = doing[t] THEN result ELSE outcome[k]
  BY FinishEffect
<1>2. doing[t] \in Call /\ NoCall \notin Call
  BY Constants DEF BusySound
<1>3. ASSUME NEW u \in Thread
      PROVE  BusySound!(u)'
  <2>1. CASE u = t
    BY <1>1, <2>1
  <2>2. CASE u # t
    <3>1. /\ pc'[u] = pc[u] /\ doing'[u] = doing[u] /\ conn'[u] = conn[u]
          /\ num'[u] = num[u]
      BY <1>1, <2>2
    <3>2. pc[u] # "idle" => doing[u] \in Call /\ outcome'[doing[u]] = "pending"
      BY <1>1, <2>2 DEF BusySound
    <3>3. pc[u] # "idle" => \A v \in Thread \ {u} : doing'[v] # doing'[u]
      BY <1>1, <1>2, <3>1, <3>2 DEF BusySound
    <3> QED
      BY <3>1, <3>2, <3>3 DEF BusySound
  <2> QED
    BY <2>1, <2>2
<1> QED
  BY <1>3 DEF BusySound

LEMMA BusyStep ==
    ASSUME CInv, [Next]_vars
    PROVE  BusySound'
<1> USE DEF CInv
<1>1. CASE Elsewhere
  BY <1>1 DEF Elsewhere, BusySound
<1>2. ASSUME NEW t \in Thread, Begin(t) PROVE BusySound'
  <2>1. PICK k \in Call :
          /\ pc[t] = "idle" /\ outcome[k] = "idle"
          /\ outcome' = [outcome EXCEPT ![k] = "pending"]
          /\ doing' = [doing EXCEPT ![t] = k]
          /\ pc' = [pc EXCEPT ![t] = "lookup"]
          /\ UNCHANGED <<conn, num>>
    BY <1>2 DEF Begin, Goto
  <2>2. /\ pc'[t] = "lookup" /\ doing'[t] = k /\ outcome'[k] = "pending"
        /\ \A u \in Thread \ {t} : pc'[u] = pc[u] /\ doing'[u] = doing[u]
        /\ \A x \in Call \ {k} : outcome'[x] = outcome[x]
    BY <2>1, Constants DEF TypeOK
  <2>3. \A u \in Thread : doing[u] # k
    BY <2>1, Constants DEF BusySound
  <2>4. ASSUME NEW u \in Thread
        PROVE  BusySound!(u)'
    <3>1. CASE u = t
      BY <2>1, <2>2, <2>3, <3>1
    <3>2. CASE u # t
      BY <2>1, <2>2, <2>3, <3>2 DEF BusySound
    <3> QED
      BY <3>1, <3>2
  <2> QED
    BY <2>4 DEF BusySound
<1>3. ASSUME NEW t \in Thread, Lookup(t) PROVE BusySound'
  <2>1. Listed(ObjectOf[doing[t]]) \in Conn \cup {NoConn}
    BY DEF Listed, TypeOK
  <2>2. CASE Listed(ObjectOf[doing[t]]) = NoConn
    BY <1>3, <2>2, GoesOn DEF Lookup, Goto
  <2>3. CASE Listed(ObjectOf[doing[t]]) # NoConn
    <3>1. /\ pc[t] = "lookup" /\ pc' = [pc EXCEPT ![t] = "pop"]
          /\ UNCHANGED <<doing, num, outcome>>
          /\ conn' = [conn EXCEPT ![t] = Listed(ObjectOf[doing[t]])]
      BY <1>3, <2>3 DEF Lookup, Goto
    <3>2. conn'[t] \in Conn /\ \A u \in Thread \ {t} : conn'[u] = conn[u]
      BY <2>1, <2>3, <3>1 DEF TypeOK
    <3> QED
      BY <3>1, <3>2, GoesOn
  <2> QED
    BY <2>2, <2>3
<1>4. ASSUME NEW t \in Thread, Build(t) PROVE BusySound'
  <2>1. /\ pc[t] = "build" /\ pc' = [pc EXCEPT ![t] = "check"]
        /\ UNCHANGED <<doing, num, outcome>>
        /\ \E c \in Conn : conn' = [conn EXCEPT ![t] = c]
    BY <1>4 DEF Build, Goto
  <2>2. conn'[t] \in Conn /\ \A u \in Thread \ {t} : conn'[u] = conn[u]
    BY <2>1 DEF TypeOK
  <2> QED
    BY <2>1, <2>2, GoesOn
<1>5. ASSUME NEW t \in Thread, BuildFails(t) PROVE BusySound'
  BY <1>5, FinishBusy DEF BuildFails
<1>6. ASSUME NEW t \in Thread, CheckUid(t) PROVE BusySound'
  BY <1>6, GoesOn DEF CheckUid, Goto, BusySound
<1>7. ASSUME NEW t \in Thread, LockUid(t) PROVE BusySound'
  <2>1. CASE Finish(t, "refused")
    BY <1>7, <2>1, FinishBusy DEF LockUid
  <2>2. CASE Goto(t, "wait_uid") /\ UNCHANGED <<doing, conn, num, outcome>>
    BY <1>7, <2>2, GoesOn DEF LockUid, Goto, BusySound
  <2> QED
    BY <1>7, <2>1, <2>2 DEF LockUid
<1>8. ASSUME NEW t \in Thread, WokenForUid(t) PROVE BusySound'
  BY <1>8, GoesOn DEF WokenForUid, Goto, BusySound
<1>9. ASSUME NEW t \in Thread, UidTimeout(t) PROVE BusySound'
  BY <1>9, FinishBusy DEF UidTimeout
<1>10. ASSUME NEW t \in Thread, Link(t) PROVE BusySound'
  <2>1. /\ pc[t] = "link" /\ UNCHANGED <<doing, num, outcome>>
        /\ \/ pc' = [pc EXCEPT ![t] = "pop"]
           \/ pc' = [pc EXCEPT ![t] = "find"]
    BY <1>10 DEF Link, Goto
  <2>2. Listed(ObjectOf[doing[t]]) \in Conn \cup {NoConn}
    BY DEF Listed, TypeOK
  <2>3. \/ conn' = conn
        \/ \E c \in Conn : conn' = [conn EXCEPT ![t] = c]
    BY <1>10, <2>2 DEF Link
  <2>4. conn'[t] \in Conn /\ \A u \in Thread \ {t} : conn'[u] = conn[u]
    BY <2>1, <2>3 DEF TypeOK, BusySound
  <2> QED
    BY <2>1, <2>4, GoesOn
<1>11. ASSUME NEW t \in Thread, PopSeq(t) PROVE BusySound'
  <2>1. /\ pc[t] = "pop" /\ conn[t] \in Conn
        /\ num' = [num EXCEPT ![t] = Popped(seqs[conn[t]])]
        /\ UNCHANGED <<doing, conn, outcome>>
        /\ CanPop(seqs[conn[t]])
    BY <1>11 DEF PopSeq, BusySound
  <2>2. seqs[conn[t]] \in Seq(SeqNum)
    BY <2>1 DEF TypeOK
  <2>3. Popped(seqs[conn[t]]) \in SeqNum
    BY <2>1, <2>2 DEF CanPop, Popped
  <2>4. num'[t] \in SeqNum /\ \A u \in Thread \ {t} : num'[u] = num[u]
    BY <2>1, <2>3 DEF TypeOK
  <2>5. \/ pc' = [pc EXCEPT ![t] = "send"]
        \/ pc' = [pc EXCEPT ![t] = "register"]
    BY <1>11 DEF PopSeq, Goto
  <2> QED
    BY <2>1, <2>4, <2>5, GoesOn
<1>12. ASSUME NEW t \in Thread, Register(t) PROVE BusySound'
  BY <1>12, GoesOn DEF Register, Goto, BusySound
<1>13. ASSUME NEW t \in Thread, SendRequest(t) PROVE BusySound'
  <2>1. CASE Finish(t, "returned")
    BY <1>13, <2>1, FinishBusy DEF SendRequest
  <2>2. CASE Goto(t, "wait") /\ UNCHANGED <<doing, conn, num, outcome>>
    BY <1>13, <2>2, GoesOn DEF SendRequest, Goto, BusySound
  <2> QED
    BY <1>13, <2>1, <2>2 DEF SendRequest
<1>14. ASSUME NEW t \in Thread, TakeResult(t) PROVE BusySound'
  BY <1>14, FinishBusy DEF TakeResult
<1>15. ASSUME NEW t \in Thread, WaitTimeout(t) PROVE BusySound'
  BY <1>15, FinishBusy DEF WaitTimeout
<1>16. ASSUME NEW t \in Thread, FindSurplus(t) \/ CloseStep(t) PROVE BusySound'
  <2>1. /\ pc[t] \in {"find", "mark", "erase", "return"}
        /\ UNCHANGED <<doing, conn, num, outcome>>
    BY <1>16 DEF FindSurplus, CloseStep, MarkClosed, EraseEntry, ReturnUid
  <2>2. PICK place \in {"pop", "mark", "erase", "return"} : pc' = [pc EXCEPT ![t] = place]
    BY <1>16, Constants DEF FindSurplus, CloseStep, MarkClosed, EraseEntry, ReturnUid, Goto
  <2>3. conn'[t] \in Conn
    BY <2>1 DEF BusySound
  <2> QED
    BY <2>1, <2>2, <2>3, GoesOn
<1> QED
  BY <1>1, <1>2, <1>3, <1>4, <1>5, <1>6, <1>7, <1>8, <1>9, <1>10, <1>11, <1>12, <1>13,
     <1>14, <1>15, <1>16, OnlyElsewhere DEF Next, ThreadStep

(* A task at the end of the queue.                                           *)
LEMMA AppendTask ==
    ASSUME TypeOK, NEW task, respQ' = Append(respQ, task)
    PROVE  /\ Len(respQ) \in Nat /\ Len(respQ') = Len(respQ) + 1
           /\ respQ'[Len(respQ) + 1] = task
           /\ \A i \in 1..Len(respQ) : respQ'[i] = respQ[i]
           /\ \A i \in 1..Len(respQ') : i \in 1..Len(respQ) \/ i = Len(respQ) + 1
BY DEF TypeOK

LEMMA IsAddConn ==
    ASSUME TypeOK, NEW i \in 1..Len(respQ), IsAdd(i)
    PROVE  respQ[i].conn \in Conn
<1>1. respQ[i] \in NetTask \cup AddTask
  BY DEF TypeOK
<1> QED
  BY <1>1 DEF IsAdd, NetTask, AddTask

LEMMA AddsStep ==
    ASSUME CInv, [Next]_vars
    PROVE  AddsSound'
<1> USE DEF CInv
<1>1. CASE UNCHANGED <<respQ, stage, adding>>
  BY <1>1 DEF AddsSound, IsAdd
<1>2. ASSUME NEW t \in Thread, Build(t) PROVE AddsSound'
  <2>1. PICK c \in Conn :
          /\ stage[c] = "none" /\ stage' = [stage EXCEPT ![c] = "task"]
          /\ respQ' = Append(respQ, [type |-> "add", conn |-> c])
          /\ adding' = adding
    BY <1>2 DEF Build
  <2>2. stage'[c] = "task" /\ \A d \in Conn \ {c} : stage'[d] = stage[d]
    BY <2>1 DEF TypeOK
  <2>3. adding # c
    BY <2>1, Constants DEF EntriesSound
  <2>4. \A i \in 1..Len(respQ) : IsAdd(i) => respQ[i].conn \in Conn \ {c}
    BY <2>1, IsAddConn DEF AddsSound
  <2>5. /\ respQ'[Len(respQ) + 1].conn = c
        /\ \A i \in 1..Len(respQ) : respQ'[i] = respQ[i]
        /\ \A i \in 1..Len(respQ') : i \in 1..Len(respQ) \/ i = Len(respQ) + 1
    BY <2>1, AppendTask
  <2>6. ASSUME NEW i \in 1..Len(respQ'), respQ'[i].type = "add"
        PROVE  /\ stage'[respQ'[i].conn] = "task"
               /\ respQ'[i].conn # adding
               /\ \A j \in 1..Len(respQ') :
                    respQ'[j].type = "add" /\ respQ'[j].conn = respQ'[i].conn => i = j
    <3>1. CASE i \in 1..Len(respQ)
      BY <2>2, <2>4, <2>5, <2>6, <3>1 DEF AddsSound, IsAdd
    <3>2. CASE i = Len(respQ) + 1
      BY <2>2, <2>3, <2>4, <2>5, <2>6, <3>2 DEF AddsSound, IsAdd
    <3> QED
      BY <2>5, <3>1, <3>2
  <2> QED
    BY <2>1, <2>6 DEF AddsSound, IsAdd
<1>3. ASSUME NEW x \in Closer, MarkClosed(x) PROVE AddsSound'
  <2>1. /\ closing[x] \in Conn /\ stage[closing[x]] # "task"
        /\ stage' = [stage EXCEPT ![closing[x]] = "closed"]
        /\ UNCHANGED <<respQ, adding>>
    BY <1>3 DEF MarkClosed, ClosersSound, CloserSound, Added, netVars
  <2>2. \A c \in Conn : stage[c] = "task" => stage'[c] = "task"
    BY <2>1 DEF TypeOK
  <2> QED
    BY <2>1, <2>2, IsAddConn DEF AddsSound, IsAdd
<1>4. ASSUME NEW t \in Thread, SendRequest(t) PROVE AddsSound'
  <2>1. PICK task : task.type = "net" /\ respQ' = Append(respQ, task)
    BY <1>4 DEF SendRequest
  <2>2. UNCHANGED <<stage, adding>>
    BY <1>4 DEF SendRequest, connVars
  <2>3. \A i \in 1..Len(respQ') : respQ'[i].type = "add" =>
            i \in 1..Len(respQ) /\ respQ'[i] = respQ[i]
    BY <2>1, AppendTask
  <2> QED
    BY <2>2, <2>3 DEF AddsSound, IsAdd
<1>5. CASE AddUid
  <2> DEFINE c == Head(respQ).conn
  <2>1. /\ 1 \in 1..Len(respQ) /\ c = respQ[1].conn /\ c \in Conn /\ IsAdd(1)
        /\ Len(respQ) \in Nat /\ Len(respQ') = Len(respQ) - 1
        /\ \A i \in 1..Len(respQ') : i + 1 \in 1..Len(respQ) /\ respQ'[i] = respQ[i + 1]
    BY <1>5, QueueHead DEF AddUid, IsAdd, TypeOK
  <2>2. \/ adding' = c /\ stage' = stage
        \/ adding' = adding /\ stage' = [stage EXCEPT ![c] = "dropped"]
    BY <1>5 DEF AddUid
  <2>3. adding = NoConn /\ NoConn \notin Conn
    BY <1>5, Constants DEF AddUid, NextTask, Idling
  <2>4. \A d \in Conn \ {c} : stage'[d] = stage[d]
    BY <2>2 DEF TypeOK
  <2>5. ASSUME NEW i \in 1..Len(respQ'), respQ'[i].type = "add"
        PROVE  /\ IsAdd(i + 1) /\ respQ'[i] = respQ[i + 1]
               /\ respQ'[i].conn \in Conn \ {c}
    <3>1. i + 1 \in 1..Len(respQ) /\ i + 1 # 1 /\ respQ'[i] = respQ[i + 1] /\ IsAdd(i + 1)
      BY <2>1, <2>5 DEF IsAdd
    <3> QED
      BY <2>1, <3>1, IsAddConn DEF AddsSound
  <2>6. ASSUME NEW i \in 1..Len(respQ'), respQ'[i].type = "add"
        PROVE  /\ stage'[respQ'[i].conn] = "task"
               /\ respQ'[i].conn # adding'
    <3>1. i + 1 \in 1..Len(respQ)
      BY <2>1
    <3> QED
      BY <2>2, <2>3, <2>4, <2>5, <2>6, <3>1 DEF AddsSound
  <2>7. ASSUME NEW i \in 1..Len(respQ'), respQ'[i].type = "add",
               NEW j \in 1..Len(respQ'), respQ'[j].type = "add",
               respQ'[i].conn = respQ'[j].conn
        PROVE  i = j
    <3>1. i + 1 \in 1..Len(respQ) /\ j + 1 \in 1..Len(respQ)
      BY <2>1
    <3>2. IsAdd(i + 1) /\ IsAdd(j + 1) /\ respQ[i + 1].conn = respQ[j + 1].conn
      BY <2>5, <2>7
    <3>3. i + 1 = j + 1
      BY <3>1, <3>2 DEF AddsSound
    <3> QED
      BY <3>3
  <2> QED
    BY <2>6, <2>7 DEF AddsSound, IsAdd
<1>6. CASE AddEntry
  <2>1. /\ adding \in Conn /\ respQ' = respQ /\ adding' = NoConn
        /\ stage' = [stage EXCEPT ![adding] = "open"]
    BY <1>6 DEF AddEntry, TypeOK
  <2>2. \A d \in Conn \ {adding} : stage'[d] = stage[d]
    BY <2>1 DEF TypeOK
  <2>3. \A i \in 1..Len(respQ) : IsAdd(i) => respQ[i].conn \in Conn \ {adding, NoConn}
    BY IsAddConn, Constants DEF AddsSound
  <2> QED
    BY <2>1, <2>2, <2>3 DEF AddsSound, IsAdd
<1>7. CASE SendTask
  <2>1. /\ Len(respQ) \in Nat /\ Len(respQ') = Len(respQ) - 1
        /\ \A i \in 1..Len(respQ') : i + 1 \in 1..Len(respQ) /\ respQ'[i] = respQ[i + 1]
    BY <1>7, QueueHead DEF SendTask, TypeOK
  <2>2. UNCHANGED <<stage, adding>>
    BY <1>7 DEF SendTask, connVars
  <2>3. ASSUME NEW i \in 1..Len(respQ'), respQ'[i].type = "add"
        PROVE  IsAdd(i + 1) /\ i + 1 \in 1..Len(respQ) /\ respQ'[i] = respQ[i + 1]
    BY <2>1, <2>3 DEF IsAdd
  <2>4. ASSUME NEW i \in 1..Len(respQ'), respQ'[i].type = "add",
               NEW j \in 1..Len(respQ'), respQ'[j].type = "add",
               respQ'[i].conn = respQ'[j].conn
        PROVE  i = j
    <3>1. i + 1 = j + 1
      BY <2>3, <2>4 DEF AddsSound
    <3> QED
      BY <3>1
  <2> QED
    BY <2>2, <2>3, <2>4 DEF AddsSound, IsAdd
<1>8. ASSUME NEW t \in Thread,
             \/ Begin(t) \/ Lookup(t) \/ BuildFails(t) \/ CheckUid(t) \/ LockUid(t)
             \/ WokenForUid(t) \/ UidTimeout(t) \/ Link(t) \/ FindSurplus(t) \/ PopSeq(t)
             \/ Register(t) \/ TakeResult(t) \/ WaitTimeout(t)
      PROVE  UNCHANGED <<respQ, stage, adding>>
  BY <1>8 DEF Begin, Lookup, BuildFails, CheckUid, LockUid, WokenForUid, UidTimeout, Link,
              FindSurplus, PopSeq, Register, TakeResult, WaitTimeout, netVars, connVars
<1>9. ASSUME NEW x \in Closer, EraseEntry(x) \/ ReturnUid(x)
      PROVE  UNCHANGED <<respQ, stage, adding>>
  BY <1>9 DEF EraseEntry, ReturnUid, connVars
<1>10. ASSUME \/ UNCHANGED vars
              \/ \E c \in Conn : Receive(c) \/ Serve(c)
              \/ \E u \in Uid : LoseConnection(u)
       PROVE  UNCHANGED <<respQ, stage, adding>>
  BY <1>10 DEF vars, Receive, Serve, LoseConnection, netVars, connVars
<1> QED
  BY <1>1, <1>2, <1>3, <1>4, <1>5, <1>6, <1>7, <1>8, <1>9, <1>10, Constants
     DEF Next, ThreadStep, NetStep, CloseStep

LEMMA EntriesStep ==
    ASSUME CInv, [Next]_vars
    PROVE  EntriesSound'
<1> USE DEF CInv
<1>1. CASE UNCHANGED <<stage, table, uid, adding>>
  BY <1>1 DEF EntriesSound
<1>2. ASSUME NEW t \in Thread, Build(t) PROVE EntriesSound'
  <2>1. PICK c \in Conn : stage[c] = "none" /\ stage' = [stage EXCEPT ![c] = "task"]
    BY <1>2 DEF Build
  <2>2. UNCHANGED <<table, uid, adding>>
    BY <1>2 DEF Build
  <2>3. stage'[c] = "task" /\ \A d \in Conn \ {c} : stage'[d] = stage[d]
    BY <2>1 DEF TypeOK
  <2> QED
    BY <2>1, <2>2, <2>3 DEF EntriesSound, TypeOK
<1>3. ASSUME NEW x \in Closer, MarkClosed(x) PROVE EntriesSound'
  <2> DEFINE c == closing[x]
  <2>1. /\ c \in Conn /\ stage[c] \in {"open", "closed"}
        /\ stage' = [stage EXCEPT ![c] = "closed"]
        /\ UNCHANGED <<table, uid, adding>>
    BY <1>3 DEF MarkClosed, ClosersSound, CloserSound, Added, netVars
  <2>2. stage'[c] = "closed" /\ \A d \in Conn \ {c} : stage'[d] = stage[d]
    BY <2>1 DEF TypeOK
  <2> QED
    BY <2>1, <2>2 DEF EntriesSound, TypeOK
<1>4. ASSUME NEW x \in Closer, EraseEntry(x) PROVE EntriesSound'
  <2>1. /\ table' = [table EXCEPT ![uid[closing[x]]] = NoConn]
        /\ UNCHANGED <<stage, uid, adding>>
    BY <1>4 DEF EraseEntry, connVars
  <2>2. \A u \in Uid : table'[u] = NoConn \/ table'[u] = table[u]
    BY <2>1 DEF TypeOK
  <2> QED
    BY <2>1, <2>2 DEF EntriesSound
<1>5. CASE AddUid
  <2> DEFINE c == Head(respQ).conn
  <2>1. /\ c \in Conn /\ stage[c] = "task" /\ adding = NoConn /\ table' = table
        /\ NoConn \notin Conn
    BY <1>5, QueueHead, Constants DEF AddUid, NextTask, Idling, AddsSound, IsAdd
  <2>2. CASE CanPop(uids)
    <3>1. uid' = [uid EXCEPT ![c] = Popped(uids)] /\ adding' = c /\ stage' = stage
      BY <1>5, <2>2 DEF AddUid
    <3>2. Popped(uids) \in Uid
      BY <2>2 DEF CanPop, Popped, TypeOK
    <3>3. uid'[c] \in Uid /\ \A d \in Conn \ {c} : uid'[d] = uid[d]
      BY <2>1, <3>1, <3>2 DEF TypeOK
    <3> QED
      BY <2>1, <3>1, <3>3 DEF EntriesSound
  <2>3. CASE ~CanPop(uids)
    <3>1. UNCHANGED <<uid, adding>> /\ stage' = [stage EXCEPT ![c] = "dropped"]
      BY <1>5, <2>3 DEF AddUid
    <3>2. stage'[c] = "dropped" /\ \A d \in Conn \ {c} : stage'[d] = stage[d]
      BY <2>1, <3>1 DEF TypeOK
    <3> QED
      BY <2>1, <3>1, <3>2 DEF EntriesSound, TypeOK
  <2> QED
    BY <2>2, <2>3
<1>6. CASE AddEntry
  <2>1. /\ adding \in Conn /\ uid[adding] \in Uid /\ adding' = NoConn
        /\ table' = [table EXCEPT ![uid[adding]] = adding]
        /\ stage' = [stage EXCEPT ![adding] = "open"]
        /\ uid' = uid
    BY <1>6 DEF AddEntry, EntriesSound, TypeOK
  <2>2. /\ \A v \in Uid : table'[v] = adding \/ table'[v] = table[v]
        /\ stage'[adding] = "open"
        /\ \A d \in Conn \ {adding} : stage'[d] = stage[d]
    BY <2>1 DEF TypeOK
  <2> QED
    BY <2>1, <2>2 DEF EntriesSound, TypeOK
<1>7. ASSUME NEW t \in Thread,
             \/ Begin(t) \/ Lookup(t) \/ BuildFails(t) \/ CheckUid(t) \/ LockUid(t)
             \/ WokenForUid(t) \/ UidTimeout(t) \/ Link(t) \/ FindSurplus(t) \/ PopSeq(t)
             \/ Register(t) \/ TakeResult(t) \/ WaitTimeout(t) \/ SendRequest(t)
      PROVE  UNCHANGED <<stage, table, uid, adding>>
  BY <1>7 DEF Begin, Lookup, BuildFails, CheckUid, LockUid, WokenForUid, UidTimeout, Link,
              FindSurplus, PopSeq, Register, TakeResult, WaitTimeout, SendRequest, netVars,
              connVars
<1>8. ASSUME \/ UNCHANGED vars \/ SendTask
             \/ \E c \in Conn : Receive(c) \/ Serve(c)
             \/ \E x \in Closer : ReturnUid(x)
             \/ \E u \in Uid : LoseConnection(u)
      PROVE  UNCHANGED <<stage, table, uid, adding>>
  BY <1>8 DEF vars, SendTask, Receive, Serve, ReturnUid, LoseConnection, netVars, connVars
<1> QED
  BY <1>1, <1>2, <1>3, <1>4, <1>5, <1>6, <1>7, <1>8, Constants
     DEF Next, ThreadStep, NetStep, CloseStep

(* A connection is given a uid once.                                         *)
LEMMA UidKept ==
    ASSUME CInv, [Next]_vars
    PROVE  \A c \in Conn : uid[c] # NoUid => uid'[c] = uid[c]
<1>1. CASE uid' = uid
  BY <1>1
<1>2. CASE AddUid /\ uid' # uid
  <2>1. uid' = [uid EXCEPT ![Head(respQ).conn] = Popped(uids)]
    BY <1>2 DEF AddUid
  <2>2. PICK c \in Conn : c = Head(respQ).conn /\ stage[c] = "task" /\ c # adding
    BY <1>2, QueueHead DEF CInv, AddUid, NextTask, AddsSound, IsAdd
  <2>3. uid[c] = NoUid
    BY <2>2 DEF CInv, EntriesSound
  <2> QED
    BY <2>1, <2>2, <2>3 DEF CInv, TypeOK
<1>3. ASSUME NEW t \in Thread, Begin(t) \/ ThreadStep(t), ~CloseStep(t) PROVE uid' = uid
  BY <1>3 DEF Begin, ThreadStep, Lookup, Build, BuildFails, CheckUid, LockUid, WokenForUid,
       UidTimeout, Link, FindSurplus, PopSeq, Register, SendRequest, TakeResult,
       WaitTimeout, connVars
<1>4. ASSUME \/ UNCHANGED vars \/ AddEntry \/ SendTask
             \/ \E x \in Closer : CloseStep(x)
             \/ \E c \in Conn : Receive(c) \/ Serve(c)
             \/ \E u \in Uid : LoseConnection(u)
      PROVE  uid' = uid
  BY <1>4 DEF vars, AddEntry, SendTask, CloseStep, MarkClosed, EraseEntry, ReturnUid,
       Receive, Serve, LoseConnection, connVars
<1> QED
  BY <1>1, <1>2, <1>3, <1>4, Constants DEF Next, NetStep

(* A connection that was added keeps its uid and does not go back.           *)
LEMMA AddedKept ==
    ASSUME CInv, [Next]_vars, NEW c, Added(c)
    PROVE  Added(c)' /\ uid'[c] = uid[c]
<1>0. TypeOK /\ AddsSound /\ EntriesSound /\ ClosersSound /\ c \in Conn
  BY DEF CInv, Added
<1>1. uid'[c] = uid[c]
  BY <1>0, UidKept, Constants DEF Added
<1>2. stage'[c] \in {"open", "closed"}
  <2>1. CASE AddUid
    <3>1. Head(respQ).conn \in Conn /\ stage[Head(respQ).conn] = "task"
      BY <1>0, <2>1, QueueHead DEF AddUid, AddsSound, IsAdd
    <3>2. stage' = stage \/ stage' = [stage EXCEPT ![Head(respQ).conn] = "dropped"]
      BY <2>1 DEF AddUid
    <3> QED
      BY <1>0, <3>1, <3>2 DEF Added, TypeOK
  <2>2. ASSUME NEW t \in Thread, Build(t) PROVE stage'[c] \in {"open", "closed"}
    BY <1>0, <2>2 DEF Build, Added, TypeOK
  <2>3. CASE AddEntry
    BY <1>0, <2>3 DEF AddEntry, Added, TypeOK
  <2>4. ASSUME NEW x \in Closer, MarkClosed(x) PROVE stage'[c] \in {"open", "closed"}
    <3>1. stage' = [stage EXCEPT ![closing[x]] = "closed"]
      BY <2>4 DEF MarkClosed
    <3> QED
      BY <1>0, <3>1 DEF Added, TypeOK
  <2>5. CASE stage' = stage
    BY <2>5 DEF Added
  <2>6. ASSUME NEW t \in Thread,
               \/ Begin(t) \/ Lookup(t) \/ BuildFails(t) \/ CheckUid(t) \/ LockUid(t)
               \/ WokenForUid(t) \/ UidTimeout(t) \/ Link(t) \/ FindSurplus(t) \/ PopSeq(t)
               \/ Register(t) \/ TakeResult(t) \/ WaitTimeout(t) \/ SendRequest(t)
        PROVE  stage' = stage
    BY <2>6 DEF Begin, Lookup, BuildFails, CheckUid, LockUid, WokenForUid, UidTimeout, Link,
                FindSurplus, PopSeq, Register, TakeResult, WaitTimeout, SendRequest, connVars
  <2>7. ASSUME \/ UNCHANGED vars \/ SendTask
               \/ \E d \in Conn : Receive(d) \/ Serve(d)
               \/ \E x \in Closer : EraseEntry(x) \/ ReturnUid(x)
               \/ \E u \in Uid : LoseConnection(u)
        PROVE  stage' = stage
    BY <2>7 DEF vars, SendTask, Receive, Serve, EraseEntry, ReturnUid, LoseConnection, connVars
  <2> QED
    BY <2>1, <2>2, <2>3, <2>4, <2>5, <2>6, <2>7, Constants
       DEF Next, ThreadStep, NetStep, CloseStep
<1> QED
  BY <1>0, <1>1, <1>2 DEF Added

(* What the table leads to can be closed.                                    *)
LEMMA TableAdded ==
    ASSUME TypeOK, EntriesSound, UidsKept, NEW u \in Uid, table[u] # NoConn
    PROVE  Added(table[u])
BY DEF TypeOK, EntriesSound, UidsKept, Added

(* Who acts in a step: the others stay where they are.                       *)
Acts(x) ==
    \/ x \in Thread /\ (Begin(x) \/ ThreadStep(x))
    \/ x = Net /\ (CloseStep(x) \/ \E u \in Uid : LoseConnection(u))
Stays(x) == pc'[x] = pc[x] /\ closing'[x] = closing[x]
LEMMA ActsOf ==
    ASSUME TypeOK, [Next]_vars, NEW x \in Closer
    PROVE  Stays(x) \/ Acts(x)
<1>1. CASE \/ UNCHANGED vars \/ AddUid \/ AddEntry \/ SendTask
           \/ \E c \in Conn : Receive(c) \/ Serve(c)
  BY <1>1 DEF Stays, vars, AddUid, AddEntry, SendTask, Receive, Serve, threadVars, netVars
<1>2. ASSUME NEW y \in Closer, CloseStep(y) \/ (y \in Thread /\ FindSurplus(y))
      PROVE  x = y \/ Stays(x)
  <2>1. \E p : pc' = [pc EXCEPT ![y] = p]
    BY <1>2 DEF CloseStep, FindSurplus, MarkClosed, EraseEntry, ReturnUid, Goto
  <2>2. closing' = closing \/ \E c : closing' = [closing EXCEPT ![y] = c]
    BY <1>2 DEF CloseStep, FindSurplus, MarkClosed, EraseEntry, ReturnUid, netVars
  <2> QED
    BY <2>1, <2>2 DEF TypeOK, Stays
<1>3. ASSUME NEW u \in Uid, LoseConnection(u) PROVE x = Net \/ Stays(x)
  BY <1>3, Constants DEF LoseConnection, Goto, TypeOK, Stays
<1>4. ASSUME NEW t \in Thread, Link(t) PROVE x = t \/ Stays(x)
  <2>1. \E p : pc' = [pc EXCEPT ![t] = p]
    BY <1>4 DEF Link, Goto
  <2>2. closing' = closing \/ \E c : closing' = [closing EXCEPT ![t] = c]
    BY <1>4 DEF Link
  <2> QED
    BY <2>1, <2>2, Constants DEF TypeOK, Stays
<1>5. ASSUME NEW t \in Thread,
             \/ Begin(t) \/ Lookup(t) \/ Build(t) \/ BuildFails(t) \/ CheckUid(t)
             \/ LockUid(t) \/ WokenForUid(t) \/ UidTimeout(t) \/ PopSeq(t) \/ Register(t)
             \/ SendRequest(t) \/ TakeResult(t) \/ WaitTimeout(t)
      PROVE  x = t \/ Stays(x)
  <2>1. \E p : pc' = [pc EXCEPT ![t] = p]
    BY <1>5 DEF Begin, Lookup, Build, BuildFails, CheckUid, LockUid, WokenForUid,
       UidTimeout, PopSeq, Register, SendRequest, TakeResult, WaitTimeout, Goto, Finish
  <2>2. closing' = closing
    BY <1>5 DEF Begin, Lookup, Build, BuildFails, CheckUid, LockUid, WokenForUid,
       UidTimeout, PopSeq, Register, SendRequest, TakeResult, WaitTimeout, netVars
  <2> QED
    BY <2>1, <2>2, Constants DEF TypeOK, Stays
<1> QED
  BY <1>1, <1>2, <1>3, <1>4, <1>5, Constants DEF Acts, Next, ThreadStep, NetStep

LEMMA ClosersStep ==
    ASSUME CInv, [Next]_vars
    PROVE  ClosersSound'
<1>0. TypeOK /\ BusySound /\ EntriesSound /\ ClosersSound /\ UidsKept
  BY DEF CInv
<1> SUFFICES ASSUME NEW x \in Closer PROVE CloserSound(x)'
  BY DEF ClosersSound
<1>1. CloserSound(x)
  BY <1>0 DEF ClosersSound
<1>2. \A c : Added(c) => Added(c)'
  BY AddedKept
<1>3. CASE Stays(x)
  <2>1. Added(closing[x]) => Added(closing[x])'
    <3> SUFFICES ASSUME Added(closing[x]) PROVE Added(closing[x])'
      OBVIOUS
    <3>1. PICK c : c = closing[x]
      OBVIOUS
    <3>2. Added(c)'
      BY <1>2, <3>1
    <3> QED
      BY <1>3, <3>1, <3>2 DEF Added, Stays
  <2> QED
    BY <1>1, <1>3, <2>1 DEF CloserSound, Stays
<1>4. ASSUME NEW p, pc' = [pc EXCEPT ![x] = p], p \notin Closing, x # Net \/ p = "idle"
      PROVE  CloserSound(x)'
  <2>1. pc'[x] = p
    BY <1>0, <1>4 DEF TypeOK
  <2> QED
    BY <1>4, <2>1 DEF CloserSound, Closing
<1>5. CASE x \in Thread /\ Link(x)
  <2>1. CASE pc' = [pc EXCEPT ![x] = "pop"]
    BY <1>4, <1>5, <2>1, Constants DEF Closing
  <2>2. CASE /\ pc' = [pc EXCEPT ![x] = "find"]
             /\ closing' = [closing EXCEPT ![x] = conn[x]]
    <3>1. pc'[x] = "find" /\ closing'[x] = conn[x] /\ conn[x] \in Conn
      BY <1>0, <1>5, <2>2 DEF TypeOK, BusySound, Link
    <3> QED
      BY <1>5, <3>1, Constants DEF CloserSound
  <2> QED
    BY <1>5, <2>1, <2>2 DEF Link, Goto
<1>6. CASE x \in Thread /\ FindSurplus(x)
  <2> DEFINE u == uid[closing[x]]
             c == IF u \in Uid THEN table[u] ELSE NoConn
  <2>1. /\ closing' = [closing EXCEPT ![x] = c]
        /\ pc' = [pc EXCEPT ![x] = IF c # NoConn THEN "mark" ELSE "pop"]
    BY <1>6 DEF FindSurplus, Goto
  <2>2. CASE c = NoConn
    BY <1>4, <1>6, <2>1, <2>2, Constants DEF Closing
  <2>3. CASE c # NoConn
    <3>1. pc'[x] = "mark" /\ closing'[x] = c
      BY <1>0, <2>1, <2>3 DEF TypeOK
    <3>2. PICK d : d = c
      OBVIOUS
    <3>3. Added(d)
      BY <1>0, <2>3, <3>2, TableAdded
    <3>4. Added(d)'
      BY <1>2, <3>3
    <3>5. Added(closing[x])'
      BY <3>1, <3>2, <3>4 DEF Added
    <3> QED
      BY <3>1, <3>5 DEF CloserSound
  <2> QED
    BY <2>2, <2>3
<1>7. CASE MarkClosed(x) \/ EraseEntry(x)
  <2>1. \E p \in {"erase", "return"} : pc' = [pc EXCEPT ![x] = p]
    BY <1>7 DEF MarkClosed, EraseEntry, Goto
  <2>2. closing' = closing /\ pc[x] \in {"mark", "erase"}
    BY <1>7 DEF MarkClosed, EraseEntry, netVars
  <2>3. PICK d : d = closing[x] /\ Added(d)
    BY <1>1, <2>2 DEF CloserSound
  <2>4. Added(d)'
    BY <1>2, <2>3
  <2>5. Added(closing[x])'
    BY <2>2, <2>3, <2>4 DEF Added
  <2> QED
    <3>1. pc'[x] \in {"erase", "return"}
      BY <1>0, <2>1 DEF TypeOK
    <3> QED
      BY <2>5, <3>1 DEF CloserSound
<1>8. CASE ReturnUid(x)
  <2>1. CASE x = Net
    <3>1. pc' = [pc EXCEPT ![x] = "idle"]
      BY <1>8, <2>1 DEF ReturnUid, Goto
    <3> QED
      BY <1>4, <3>1 DEF Closing
  <2>2. CASE x # Net
    <3>1. pc' = [pc EXCEPT ![x] = "pop"]
      BY <1>8, <2>2 DEF ReturnUid, Goto
    <3> QED
      BY <1>4, <2>2, <3>1 DEF Closing
  <2> QED
    BY <2>1, <2>2
<1>9. ASSUME NEW u \in Uid, LoseConnection(u), x = Net PROVE CloserSound(x)'
  <2>1. table[u] # NoConn /\ pc'[x] = "mark" /\ closing'[x] = table[u]
    BY <1>0, <1>9 DEF LoseConnection, Goto, TypeOK
  <2>2. PICK d : d = table[u] /\ Added(d)
    BY <1>0, <2>1, TableAdded
  <2>3. Added(d)'
    BY <1>2, <2>2
  <2>4. Added(closing[x])'
    BY <2>1, <2>2, <2>3 DEF Added
  <2> QED
    BY <2>1, <2>4 DEF CloserSound
<1>10. ASSUME x \in Thread,
              \/ Begin(x) \/ Lookup(x) \/ Build(x) \/ BuildFails(x) \/ CheckUid(x)
              \/ LockUid(x) \/ WokenForUid(x) \/ UidTimeout(x) \/ PopSeq(x) \/ Register(x)
              \/ SendRequest(x) \/ TakeResult(x) \/ WaitTimeout(x)
       PROVE  CloserSound(x)'
  <2>1. \E p : p \notin Closing /\ pc' = [pc EXCEPT ![x] = p]
    BY <1>10 DEF Begin, Lookup, Build, BuildFails, CheckUid, LockUid, WokenForUid, Closing,
       UidTimeout, PopSeq, Register, SendRequest, TakeResult, WaitTimeout, Goto, Finish
  <2> QED
    BY <1>4, <1>10, <2>1, Constants
<1> QED
  BY <1>0, <1>3, <1>5, <1>6, <1>7, <1>8, <1>9, <1>10, ActsOf DEF Acts, ThreadStep, CloseStep

(* A uid that is being given back stays so until it is.                      *)
LEMMA ReturningKept ==
    ASSUME CInv, [Next]_vars, NEW u \in Uid, NEW x \in Returning(u), ~ReturnUid(x)
    PROVE  x \in Returning(u)'
<1>0. TypeOK /\ ClosersSound /\ x \in Closer /\ pc[x] = "return" /\ uid[closing[x]] = u
  BY DEF CInv, Returning
<1>1. Stays(x)
  <2>1. ~Acts(x)
    BY <1>0 DEF Acts, ThreadStep, CloseStep, Begin, Lookup, Build, BuildFails, CheckUid,
       LockUid, WokenForUid, UidTimeout, Link, FindSurplus, PopSeq, Register, SendRequest,
       TakeResult, WaitTimeout, MarkClosed, EraseEntry, LoseConnection, Idling
  <2> QED
    BY <1>0, <2>1, ActsOf
<1>2. PICK c : c = closing[x] /\ Added(c)
  BY <1>0 DEF ClosersSound, CloserSound
<1>3. uid'[c] = uid[c]
  BY <1>2, AddedKept
<1> QED
  BY <1>0, <1>1, <1>2, <1>3 DEF Returning, Stays

LEMMA UidsStep ==
    ASSUME CInv, [Next]_vars
    PROVE  UidsKept'
<1>0. TypeOK /\ AddsSound /\ EntriesSound /\ ClosersSound /\ UidsKept
  BY DEF CInv
<1> DEFINE In(u, ids) == \E i \in 1..Len(ids) : ids[i] = u
           Kept(u) == \/ In(u, uids) \/ table[u] # NoConn
                      \/ adding # NoConn /\ uid[adding] = u
                      \/ Returning(u) # {}
<1>1. \A u \in Uid : Kept(u) /\ (table[u] # NoConn => uid[table[u]] = u)
  BY <1>0 DEF UidsKept
<1>2. ASSUME NEW u \in Uid, ~(\E x \in Returning(u) : ReturnUid(x))
      PROVE  Returning(u) # {} => Returning(u)' # {}
  BY <1>2, ReturningKept
<1>3. CASE UNCHANGED <<table, uids, uid, adding>> /\ ~(\E x \in Closer : ReturnUid(x))
  <2>1. \A u \in Uid : Returning(u) # {} => Returning(u)' # {}
    BY <1>2, <1>3 DEF Returning
  <2> QED
    BY <1>1, <1>3, <2>1 DEF UidsKept
<1>4. ASSUME NEW x \in Closer, EraseEntry(x) PROVE UidsKept'
  <2> DEFINE v == uid[closing[x]]
  <2>1. /\ v \in Uid /\ table' = [table EXCEPT ![v] = NoConn]
        /\ UNCHANGED <<uids, uid, adding, closing>>
        /\ pc' = [pc EXCEPT ![x] = "return"]
        /\ pc[x] = "erase"
    BY <1>0, <1>4 DEF EraseEntry, Goto, connVars, ClosersSound, CloserSound, Added
  <2>2. /\ table'[v] = NoConn /\ \A u \in Uid \ {v} : table'[u] = table[u]
        /\ pc'[x] = "return"
    BY <1>0, <2>1 DEF TypeOK
  <2>3. x \in Returning(v)'
    BY <2>1, <2>2 DEF Returning
  <2>4. \A u \in Uid : Returning(u) # {} => Returning(u)' # {}
    <3>1. ~(\E y \in Closer : ReturnUid(y))
      <4> SUFFICES ASSUME NEW y \in Closer, ReturnUid(y) PROVE FALSE
        OBVIOUS
      <4>1. pc[y] = "return" /\ pc'[y] \in {"idle", "pop"}
        BY <1>0 DEF ReturnUid, Goto, TypeOK
      <4> QED
        BY <1>0, <2>1, <4>1 DEF TypeOK
    <3> QED
      BY <1>2, <3>1 DEF Returning
  <2> QED
    BY <1>1, <2>1, <2>2, <2>3, <2>4 DEF UidsKept
<1>5. ASSUME NEW x \in Closer, ReturnUid(x) PROVE UidsKept'
  <2> DEFINE v == uid[closing[x]]
  <2>1. /\ v \in Uid /\ uids' = AfterPush(uids, v)
        /\ UNCHANGED <<table, uid, adding>>
        /\ pc[x] = "return"
    BY <1>0, <1>5 DEF ReturnUid, connVars, ClosersSound, CloserSound, Added
  <2>2. /\ In(v, uids')
        /\ \A u \in Uid : In(u, uids) => In(u, uids')
    <3>1. uids \in Seq(Uid)
      BY <1>0 DEF TypeOK
    <3>2. /\ Len(uids') = Len(uids) + 1 /\ Len(uids) \in Nat
          /\ uids'[Len(uids) + 1] = v
          /\ \A i \in 1..Len(uids) : uids'[i] = uids[i]
      BY <2>1, <3>1 DEF AfterPush
    <3>3. Len(uids) + 1 \in 1..Len(uids') /\ \A i \in 1..Len(uids) : i \in 1..Len(uids')
      BY <3>2
    <3> QED
      BY <3>2, <3>3
  <2>3. ASSUME NEW u \in Uid \ {v} PROVE Returning(u) # {} => Returning(u)' # {}
    <3>1. ~(\E y \in Returning(u) : ReturnUid(y))
      <4> SUFFICES ASSUME NEW y \in Returning(u), ReturnUid(y) PROVE FALSE
        OBVIOUS
      <4>1. y \in Closer /\ y # x
        BY <2>3 DEF Returning
      <4>2. pc[y] = "return" /\ pc'[y] \in {"idle", "pop"}
        BY <1>0, <4>1 DEF ReturnUid, Goto, TypeOK
      <4>3. \E p : pc' = [pc EXCEPT ![x] = p]
        BY <1>5 DEF ReturnUid, Goto
      <4> QED
        BY <1>0, <4>1, <4>2, <4>3 DEF TypeOK
    <3> QED
      BY <1>2, <3>1
  <2> HIDE DEF v, In
  <2> QED
    BY <1>1, <2>1, <2>2, <2>3 DEF UidsKept, In
<1>6. CASE AddUid
  <2> DEFINE c == Head(respQ).conn
  <2>1. /\ c \in Conn /\ stage[c] = "task" /\ adding = NoConn /\ table' = table
        /\ NoConn \notin Conn
    BY <1>0, <1>6, QueueHead, Constants DEF AddUid, NextTask, Idling, AddsSound, IsAdd
  <2>2. \A u \in Uid : Returning(u) # {} => Returning(u)' # {}
    <3>1. ~(\E y \in Closer : ReturnUid(y))
      <4> SUFFICES ASSUME NEW y \in Closer, ReturnUid(y) PROVE FALSE
        OBVIOUS
      <4>1. pc[y] = "return" /\ pc'[y] \in {"idle", "pop"}
        BY <1>0 DEF ReturnUid, Goto, TypeOK
      <4>2. pc' = pc
        BY <1>6 DEF AddUid, threadVars
      <4> QED
        BY <4>1, <4>2
    <3> QED
      BY <1>2, <3>1 DEF Returning
  <2>3. CASE CanPop(uids)
    <3>1. /\ uid' = [uid EXCEPT ![c] = Head(uids)]
          /\ uids' = Tail(uids) /\ adding' = c
      BY <1>6, <2>3 DEF AddUid, Popped, AfterPop
    <3>2. uids \in Seq(Uid) /\ uids # <<>>
      BY <1>0, <2>3 DEF TypeOK, CanPop
    <3>3. uid'[c] = Head(uids) /\ \A d \in Conn \ {c} : uid'[d] = uid[d]
      BY <1>0, <2>1, <3>1 DEF TypeOK
    <3>4. \A u \in Uid : In(u, uids) => In(u, uids') \/ u = Head(uids)
      <4> SUFFICES ASSUME NEW u \in Uid, NEW i \in 1..Len(uids), uids[i] = u,
                          u # Head(uids)
                   PROVE  In(u, uids')
        OBVIOUS
      <4>1. Head(uids) = uids[1] /\ Len(uids') = Len(uids) - 1 /\ Len(uids) \in Nat
        BY <3>1, <3>2
      <4>2. i # 1
        BY <4>1
      <4>3. i - 1 \in 1..Len(uids') /\ uids'[i - 1] = uids[i]
        BY <3>1, <3>2, <4>1, <4>2
      <4> QED
        BY <4>3
    <3>5. \A u \in Uid : table[u] # NoConn => table[u] \in Conn \ {c}
      BY <1>0, <2>1 DEF EntriesSound, TypeOK
    <3> HIDE DEF In, c
    <3>6. \A u \in Uid : table'[u] # NoConn => uid'[table'[u]] = u
      BY <1>1, <2>1, <3>3, <3>5
    <3>7. adding' # NoConn
      BY <2>1, <3>1
    <3>8. ASSUME NEW u \in Uid
          PROVE  \/ In(u, uids') \/ table'[u] # NoConn
                 \/ adding' # NoConn /\ uid'[adding'] = u
                 \/ Returning(u)' # {}
      <4>1. Kept(u)
        BY <1>1
      <4> QED
        BY <2>1, <2>2, <3>1, <3>3, <3>4, <3>7, <4>1
    <3> QED
      BY <3>6, <3>8 DEF UidsKept, In
  <2>4. CASE ~CanPop(uids)
    <3>1. UNCHANGED <<uid, uids, adding>>
      BY <1>6, <2>4 DEF AddUid
    <3> QED
      BY <1>1, <2>1, <2>2, <3>1 DEF UidsKept
  <2> QED
    BY <2>3, <2>4
<1>7. CASE AddEntry
  <2>1. /\ adding \in Conn /\ uid[adding] \in Uid /\ adding' = NoConn
        /\ table' = [table EXCEPT ![uid[adding]] = adding]
        /\ UNCHANGED <<pc, uids, uid>>
        /\ NoConn \notin Conn
    BY <1>0, <1>7, Constants DEF AddEntry, EntriesSound, TypeOK, threadVars
  <2>2. /\ table'[uid[adding]] = adding
        /\ \A v \in Uid \ {uid[adding]} : table'[v] = table[v]
    BY <1>0, <2>1 DEF TypeOK
  <2>3. \A u \in Uid : Returning(u) # {} => Returning(u)' # {}
    <3>1. ~(\E y \in Closer : ReturnUid(y))
      <4> SUFFICES ASSUME NEW y \in Closer, ReturnUid(y) PROVE FALSE
        OBVIOUS
      <4>1. pc[y] = "return" /\ pc'[y] \in {"idle", "pop"}
        BY <1>0 DEF ReturnUid, Goto, TypeOK
      <4> QED
        BY <2>1, <4>1
    <3> QED
      BY <1>2, <3>1 DEF Returning
  <2> QED
    BY <1>1, <2>1, <2>2, <2>3 DEF UidsKept
<1>8. ASSUME NEW t \in Thread,
             \/ Begin(t) \/ Lookup(t) \/ Build(t) \/ BuildFails(t) \/ CheckUid(t)
             \/ LockUid(t) \/ WokenForUid(t) \/ UidTimeout(t) \/ Link(t) \/ FindSurplus(t)
             \/ PopSeq(t) \/ Register(t) \/ TakeResult(t) \/ WaitTimeout(t)
             \/ SendRequest(t)
      PROVE  UNCHANGED <<table, uids, uid, adding>>
  BY <1>8 DEF Begin, Lookup, Build, BuildFails, CheckUid, LockUid, WokenForUid, UidTimeout,
     Link, FindSurplus, PopSeq, Register, TakeResult, WaitTimeout, SendRequest, netVars,
     connVars
<1>9. ASSUME \/ UNCHANGED vars \/ SendTask
             \/ \E c \in Conn : Receive(c) \/ Serve(c)
             \/ \E x \in Closer : MarkClosed(x)
             \/ \E u \in Uid : LoseConnection(u)
      PROVE  UNCHANGED <<table, uids, uid, adding>>
  BY <1>9 DEF vars, SendTask, Receive, Serve, MarkClosed, LoseConnection, netVars, connVars
<1> HIDE DEF In
<1> QED
  BY <1>3, <1>4, <1>5, <1>6, <1>7, <1>8, <1>9, Constants
     DEF Next, ThreadStep, NetStep, CloseStep

-----------------------------------------------------------------------------
(* Sequence numbers.  What matters of a step is how it moves the numbers of  *)
(* a connection between the list, the wait queue and the hands of threads.   *)

LEMMA KnownSame ==
    ASSUME \A c \in Conn : Known(c)' = Known(c)
    PROVE  AllSpent' = AllSpent
<1>1. \A c \in Conn : Spent(c) = SeqNum \ Known(c)
  BY DEF Spent, Known, Free
<1>2. \A c \in Conn : Spent(c)' = SeqNum \ Known(c)'
  BY DEF Spent, Known, Free
<1>3. \A c \in Conn : Spent(c)' = Spent(c)
  BY <1>1, <1>2
<1> QED
  BY <1>3 DEF AllSpent

(* The numbers in hand change only with the place of a thread.               *)
LEMMA HoldingSame ==
    ASSUME NEW t \in Thread,
           \A u \in Thread \ {t} : /\ pc'[u] = pc[u] /\ doing'[u] = doing[u]
                                   /\ conn'[u] = conn[u] /\ num'[u] = num[u],
           pc[t] # "register", pc[t] = "send" => doing[t] \notin Oneway,
           pc'[t] \notin {"register", "send"}
    PROVE  \A c, s : Holding(c, s)' = Holding(c, s)
BY DEF Holding

LEMMA NumbersSame ==
    ASSUME TypeOK, SeqsSound, UNCHANGED <<seqs, waiting>>,
           \A c, s : Holding(c, s)' = Holding(c, s),
           \A t \in Thread : pc'[t] = "register" => pc[t] = "register" /\ doing'[t] = doing[t]
    PROVE  SeqsSound' /\ AllSpent' = AllSpent
<1>1. \A c \in Conn : Free(c)' = Free(c) /\ Registered(c)' = Registered(c)
  BY DEF Free, Registered
<1>2. \A c \in Conn : Held(c)' = Held(c)
  BY DEF Held
<1>3. SeqsSound'
  BY <1>1, <1>2 DEF SeqsSound
<1>4. \A c \in Conn : Spent(c)' = Spent(c)
  BY <1>1, <1>2 DEF Spent
<1> QED
  BY <1>3, <1>4 DEF AllSpent

(* The calls without response that returned.                                 *)
LEMMA ReturnedSame ==
    ASSUME \/ UNCHANGED outcome
           \/ \E t \in Thread, result \in {"answered", "timeout", "refused"} :
                  TypeOK /\ BusySound /\ pc[t] # "idle" /\ Finish(t, result)
           \/ \E t \in Thread : TypeOK /\ Begin(t)
    PROVE  Returned' = Returned
<1>0. Oneway \subseteq Call
  BY Constants
<1>1. CASE UNCHANGED outcome
  BY <1>1 DEF Returned
<1>2. ASSUME NEW t \in Thread, NEW result \in {"answered", "timeout", "refused"},
             TypeOK, BusySound, pc[t] # "idle", Finish(t, result)
      PROVE  Returned' = Returned
  <2>1. \A k \in Call : outcome'[k] = IF k = doing[t] THEN result ELSE outcome[k]
    BY <1>2, FinishEffect
  <2>2. outcome[doing[t]] = "pending"
    BY <1>2 DEF BusySound
  <2> QED
    BY <1>0, <2>1, <2>2 DEF Returned
<1>3. ASSUME NEW t \in Thread, TypeOK, Begin(t)
      PROVE  Returned' = Returned
  <2>1. PICK k \in Call : outcome[k] = "idle" /\ outcome' = [outcome EXCEPT ![k] = "pending"]
    BY <1>3 DEF Begin
  <2>2. \A l \in Call : outcome'[l] = IF l = k THEN "pending" ELSE outcome[l]
    BY <1>3, <2>1 DEF TypeOK
  <2> QED
    BY <1>0, <2>1, <2>2 DEF Returned
<1> QED
  BY <1>1, <1>2, <1>3

LEMMA SpentSame ==
    ASSUME SpentSound, AllSpent' = AllSpent, Returned' = Returned
    PROVE  SpentSound'
BY DEF SpentSound

(* A number goes from the list into the hands of a thread.                   *)
LEMMA PopSeqNumbers ==
    ASSUME CInv, NEW t \in Thread, PopSeq(t),
           NEW c \in Conn, c = conn[t], NEW s, s = Popped(seqs[c])
    PROVE  SeqsSound' /\ AllSpent' = AllSpent
<1>1. TypeOK /\ BusySound /\ SeqsSound
  BY DEF CInv
<1>2. pc[t] = "pop"
  BY DEF PopSeq
<1>3. /\ CanPop(seqs[c])
      /\ num' = [num EXCEPT ![t] = s]
      /\ seqs' = [seqs EXCEPT ![c] = AfterPop(seqs[c])]
      /\ UNCHANGED <<doing, conn, waiting>>
      /\ pc' = [pc EXCEPT ![t] = IF doing[t] \in Oneway THEN "send" ELSE "register"]
  BY DEF PopSeq, Goto
<1>4. seqs[c] \in Seq(SeqNum) /\ Holds(seqs[c], Free(c))
  BY <1>1 DEF TypeOK, SeqsSound
<1>5. s \in Free(c) /\ s \in SeqNum /\ Holds(AfterPop(seqs[c]), Free(c) \ {s})
  BY <1>3, <1>4, PopHolds
<1>6. seqs'[c] = AfterPop(seqs[c]) /\ \A d \in Conn \ {c} : seqs'[d] = seqs[d]
  BY <1>1, <1>3 DEF TypeOK
<1>7. Free(c)' = Free(c) \ {s} /\ Holds(seqs[c], Free(c))'
  <2>1. {AfterPop(seqs[c])[i] : i \in 1..Len(AfterPop(seqs[c]))} = Free(c) \ {s}
    BY <1>5, HoldsIs
  <2>2. Free(c)' = Free(c) \ {s}
    BY <1>6, <2>1 DEF Free
  <2> QED
    BY <1>5, <1>6, <2>2 DEF Holds
<1>8. \A d \in Conn \ {c} : Free(d)' = Free(d) /\ Holds(seqs[d], Free(d))'
  <2>1. \A d \in Conn \ {c} : Free(d)' = Free(d)
    BY <1>6 DEF Free
  <2>2. \A d \in Conn \ {c} : Holds(seqs[d], Free(d))'
    BY <1>1, <1>6, <2>1 DEF SeqsSound, Holds
  <2> QED
    BY <2>1, <2>2
<1>9. \A d \in Conn : Registered(d)' = Registered(d)
  BY <1>3 DEF Registered
<1>10. /\ pc'[t] = (IF doing[t] \in Oneway THEN "send" ELSE "register") /\ num'[t] = s
       /\ \A u \in Thread \ {t} : pc'[u] = pc[u] /\ num'[u] = num[u]
  BY <1>1, <1>3, Constants DEF TypeOK
<1>11. \A d, x : Holding(d, x)' = IF d = c /\ x = s THEN Holding(d, x) \cup {t}
                                  ELSE Holding(d, x)
  <2>1. ASSUME NEW d, NEW x, d = c /\ x = s
        PROVE  Holding(d, x)' = Holding(d, x) \cup {t}
    BY <1>2, <1>3, <1>10, <2>1 DEF Holding
  <2>2. ASSUME NEW d, NEW x, ~(d = c /\ x = s)
        PROVE  Holding(d, x)' = Holding(d, x)
    BY <1>2, <1>3, <1>10, <2>2 DEF Holding
  <2> QED
    BY <2>1, <2>2
<1>12. s \notin Registered(c) \cup Held(c) /\ Holding(c, s) = {}
  BY <1>1, <1>5 DEF SeqsSound, Held
<1>13. /\ Held(c)' = Held(c) \cup {s}
       /\ \A d \in Conn \ {c} : Held(d)' = Held(d)
  BY <1>5, <1>11 DEF Held
<1>14. \A d \in Conn : Known(d)' = Known(d)
  BY <1>5, <1>7, <1>8, <1>9, <1>13 DEF Known
<1>15. SeqsSound'
  <2>1. \A u \in Thread : pc'[u] = "register" => doing'[u] \notin Oneway
    BY <1>1, <1>3, <1>10 DEF SeqsSound
  <2>2. \A d \in Conn : Holds(seqs[d], Free(d))'
    BY <1>7, <1>8
  <2>3. \A d \in Conn : /\ Free(d)' \cap (Registered(d)' \cup Held(d)') = {}
                        /\ Registered(d)' \cap Held(d)' = {}
    BY <1>1, <1>7, <1>8, <1>9, <1>12, <1>13 DEF SeqsSound
  <2>4. \A d \in Conn, x \in SeqNum : \A u, v \in Holding(d, x)' : u = v
    BY <1>1, <1>11, <1>12 DEF SeqsSound
  <2> QED
    BY <2>1, <2>2, <2>3, <2>4 DEF SeqsSound
<1> QED
  BY <1>14, <1>15, KnownSame

(* The number in the hands of a thread is registered.                        *)
LEMMA RegisterNumbers ==
    ASSUME CInv, NEW t \in Thread, Register(t),
           NEW c \in Conn, c = conn[t], NEW s \in SeqNum, s = num[t]
    PROVE  SeqsSound' /\ AllSpent' = AllSpent
<1>1. TypeOK /\ BusySound /\ SeqsSound
  BY DEF CInv
<1>2. pc[t] = "register" /\ doing[t] \in Call \ Oneway
  BY <1>1 DEF Register, BusySound, SeqsSound
<1>3. /\ waiting' = [waiting EXCEPT ![c][s] = doing[t]]
      /\ UNCHANGED <<doing, conn, num, seqs>>
      /\ pc' = [pc EXCEPT ![t] = "send"]
  BY DEF Register, Goto
<1>4. /\ pc'[t] = "send"
      /\ \A u \in Thread \ {t} : pc'[u] = pc[u]
  BY <1>1, <1>3, Constants DEF TypeOK
<1>5. \A d \in Conn : Free(d)' = Free(d)
  BY <1>3 DEF Free
<1>6. \A d \in Conn, x \in SeqNum :
          waiting'[d][x] = IF d = c /\ x = s THEN doing[t] ELSE waiting[d][x]
  BY <1>1, <1>3 DEF TypeOK
<1>7. /\ Registered(c)' = Registered(c) \cup {s}
      /\ \A d \in Conn \ {c} : Registered(d)' = Registered(d)
  BY <1>2, <1>6, Constants DEF Registered
<1>8. t \in Holding(c, s) /\ \A u \in Holding(c, s) : u = t
  BY <1>1, <1>2 DEF Holding, SeqsSound
<1>9. \A d, x : Holding(d, x)' = Holding(d, x) \ {t}
  BY <1>2, <1>3, <1>4 DEF Holding
<1>10. \A d, x : ~(d = c /\ x = s) => t \notin Holding(d, x)
  BY DEF Holding
<1>11. /\ Held(c)' = Held(c) \ {s} /\ s \in Held(c)
       /\ \A d \in Conn \ {c} : Held(d)' = Held(d)
  <2>1. Holding(c, s)' = {} /\ Holding(c, s) # {}
    BY <1>8, <1>9
  <2>2. \A d, x : ~(d = c /\ x = s) => Holding(d, x)' = Holding(d, x)
    BY <1>9, <1>10
  <2> QED
    BY <2>1, <2>2 DEF Held
<1>12. \A d \in Conn : Known(d)' = Known(d)
  BY <1>5, <1>7, <1>11 DEF Known
<1>13. SeqsSound'
  <2>1. \A u \in Thread : pc'[u] = "register" => doing'[u] \notin Oneway
    BY <1>1, <1>3, <1>4 DEF SeqsSound
  <2>2. \A d \in Conn : Holds(seqs[d], Free(d))'
    BY <1>1, <1>3, <1>5 DEF SeqsSound, Holds
  <2>3. \A d \in Conn : /\ Free(d)' \cap (Registered(d)' \cup Held(d)') = {}
                        /\ Registered(d)' \cap Held(d)' = {}
    BY <1>1, <1>5, <1>7, <1>11 DEF SeqsSound
  <2>4. \A d \in Conn, x \in SeqNum : \A u, v \in Holding(d, x)' : u = v
    BY <1>1, <1>9 DEF SeqsSound
  <2> QED
    BY <2>1, <2>2, <2>3, <2>4 DEF SeqsSound
<1> QED
  BY <1>12, <1>13, KnownSame

(* The number of an answered call goes back to the list.                     *)
LEMMA ReceiveNumbers ==
    ASSUME CInv, NEW c \in Conn, Receive(c),
           NEW s \in SeqNum, s = Head(replies[c]).seq, waiting[c][s] # NoCall
    PROVE  SeqsSound' /\ AllSpent' = AllSpent
<1>1. TypeOK /\ BusySound /\ SeqsSound
  BY DEF CInv
<1>2. /\ waiting' = [waiting EXCEPT ![c][s] = NoCall]
      /\ seqs' = [seqs EXCEPT ![c] = AfterPush(seqs[c], s)]
      /\ UNCHANGED <<pc, doing, conn, num>>
  BY DEF Receive, Unregistered
<1>3. seqs[c] \in Seq(SeqNum) /\ Holds(seqs[c], Free(c))
  BY <1>1 DEF TypeOK, SeqsSound
<1>4. s \in Registered(c) /\ s \notin Free(c) /\ s \notin Held(c)
  BY <1>1 DEF Registered, SeqsSound
<1>5. Holds(AfterPush(seqs[c], s), Free(c) \cup {s})
  BY <1>3, <1>4, PushHolds
<1>6. seqs'[c] = AfterPush(seqs[c], s) /\ \A d \in Conn \ {c} : seqs'[d] = seqs[d]
  BY <1>1, <1>2 DEF TypeOK
<1>7. Free(c)' = Free(c) \cup {s} /\ Holds(seqs[c], Free(c))'
  <2>1. {AfterPush(seqs[c], s)[i] : i \in 1..Len(AfterPush(seqs[c], s))} = Free(c) \cup {s}
    BY <1>5, HoldsIs
  <2>2. Free(c)' = Free(c) \cup {s}
    BY <1>6, <2>1, SMTT(40) DEF Free
  <2> QED
    BY <1>5, <1>6, <2>2 DEF Holds
<1>8. \A d \in Conn \ {c} : Free(d)' = Free(d) /\ Holds(seqs[d], Free(d))'
  <2>1. \A d \in Conn \ {c} : Free(d)' = Free(d)
    BY <1>6 DEF Free
  <2>2. \A d \in Conn \ {c} : Holds(seqs[d], Free(d))'
    BY <1>1, <1>6, <2>1 DEF SeqsSound, Holds
  <2> QED
    BY <2>1, <2>2
<1>9. \A d \in Conn, x \in SeqNum :
          waiting'[d][x] = IF d = c /\ x = s THEN NoCall ELSE waiting[d][x]
  BY <1>1, <1>2 DEF TypeOK
<1>10. /\ Registered(c)' = Registered(c) \ {s}
       /\ \A d \in Conn \ {c} : Registered(d)' = Registered(d)
  BY <1>9 DEF Registered
<1>11. \A d, x : Holding(d, x)' = Holding(d, x)
  BY <1>2 DEF Holding
<1>12. \A d \in Conn : Held(d)' = Held(d)
  BY <1>11 DEF Held
<1>13. \A d \in Conn : Known(d)' = Known(d)
  BY <1>4, <1>7, <1>8, <1>10, <1>12 DEF Known
<1>14. SeqsSound'
  <2>1. \A u \in Thread : pc'[u] = "register" => doing'[u] \notin Oneway
    BY <1>1, <1>2 DEF SeqsSound
  <2>2. \A d \in Conn : Holds(seqs[d], Free(d))'
    BY <1>7, <1>8
  <2>3. \A d \in Conn : /\ Free(d)' \cap (Registered(d)' \cup Held(d)') = {}
                        /\ Registered(d)' \cap Held(d)' = {}
    BY <1>1, <1>4, <1>7, <1>8, <1>10, <1>12 DEF SeqsSound
  <2>4. \A d \in Conn, x \in SeqNum : \A u, v \in Holding(d, x)' : u = v
    BY <1>1, <1>11 DEF SeqsSound
  <2> QED
    BY <2>1, <2>2, <2>3, <2>4 DEF SeqsSound
<1> QED
  BY <1>13, <1>14, KnownSame

(* The number of a call without response is gone when the request is sent.   *)
LEMMA SpendNumbers ==
    ASSUME CInv, NEW t \in Thread, SendRequest(t), doing[t] \in Oneway,
           NEW c \in Conn, c = conn[t], NEW s \in SeqNum, s = num[t],
           NEW k \in Oneway, k = doing[t]
    PROVE  SeqsSound' /\ SpentSound'
<1>1. TypeOK /\ BusySound /\ SeqsSound /\ SpentSound
  BY DEF CInv
<1>2. pc[t] = "send" /\ outcome[k] = "pending" /\ k \in Call
  BY <1>1, Constants DEF SendRequest, BusySound
<1>3. Finish(t, "returned") /\ UNCHANGED <<seqs, waiting>>
  BY DEF SendRequest, connVars
<1>4. /\ pc'[t] = "idle"
      /\ \A u \in Thread \ {t} : /\ pc'[u] = pc[u] /\ doing'[u] = doing[u]
                                 /\ conn'[u] = conn[u] /\ num'[u] = num[u]
      /\ \A l \in Call : outcome'[l] = IF l = k THEN "returned" ELSE outcome[l]
  BY <1>1, <1>3, FinishEffect
<1>5. \A d \in Conn : Free(d)' = Free(d) /\ Registered(d)' = Registered(d)
  BY <1>3 DEF Free, Registered
<1>6. t \in Holding(c, s) /\ \A u \in Holding(c, s) : u = t
  BY <1>1, <1>2 DEF Holding, SeqsSound
<1>7. \A d, x : Holding(d, x)' = Holding(d, x) \ {t}
  BY <1>2, <1>4 DEF Holding
<1>8. \A d, x : ~(d = c /\ x = s) => t \notin Holding(d, x)
  BY DEF Holding
<1>9. /\ Held(c)' = Held(c) \ {s} /\ s \in Held(c)
      /\ \A d \in Conn \ {c} : Held(d)' = Held(d)
  <2>1. Holding(c, s)' = {} /\ Holding(c, s) # {}
    BY <1>6, <1>7
  <2>2. \A d, x : ~(d = c /\ x = s) => Holding(d, x)' = Holding(d, x)
    BY <1>7, <1>8
  <2> QED
    BY <2>1, <2>2 DEF Held
<1>10. SeqsSound'
  <2>1. \A u \in Thread : pc'[u] = "register" => doing'[u] \notin Oneway
    BY <1>1, <1>4 DEF SeqsSound
  <2>2. \A d \in Conn : Holds(seqs[d], Free(d))'
    BY <1>1, <1>3, <1>5 DEF SeqsSound, Holds
  <2>3. \A d \in Conn : /\ Free(d)' \cap (Registered(d)' \cup Held(d)') = {}
                        /\ Registered(d)' \cap Held(d)' = {}
    BY <1>1, <1>5, <1>9 DEF SeqsSound
  <2>4. \A d \in Conn, x \in SeqNum : \A u, v \in Holding(d, x)' : u = v
    BY <1>1, <1>7 DEF SeqsSound
  <2> QED
    BY <2>1, <2>2, <2>3, <2>4 DEF SeqsSound
<1>11. AllSpent' = AllSpent \cup {<<c, s>>} /\ <<c, s>> \notin AllSpent
  <2>1. \A d \in Conn : Spent(d) = SeqNum \ Known(d)
    BY DEF Spent, Known, Free
  <2>2. \A d \in Conn : Spent(d)' = SeqNum \ Known(d)'
    BY DEF Spent, Known, Free
  <2>3. s \notin Free(c) \cup Registered(c)
    BY <1>1, <1>9 DEF SeqsSound
  <2>4. Known(c)' = Known(c) \ {s} /\ s \in Known(c)
    BY <1>5, <1>9, <2>3 DEF Known
  <2>5. \A d \in Conn \ {c} : Known(d)' = Known(d)
    BY <1>5, <1>9 DEF Known
  <2>6. Spent(c)' = Spent(c) \cup {s} /\ s \notin Spent(c)
    BY <2>1, <2>2, <2>4
  <2>7. \A d \in Conn \ {c} : Spent(d)' = Spent(d)
    BY <2>1, <2>2, <2>5
  <2>8. \A d \in Conn, x \in SeqNum :
            x \in Spent(d)' <=> x \in Spent(d) \/ (d = c /\ x = s)
    BY <2>6, <2>7
  <2>9. \A p \in Conn \X SeqNum :
            /\ p \in AllSpent <=> p[2] \in Spent(p[1])
            /\ p \in AllSpent' <=> p[2] \in Spent(p[1])'
    BY DEF AllSpent
  <2>10. \A p \in Conn \X SeqNum : p = <<c, s>> <=> p[1] = c /\ p[2] = s
    OBVIOUS
  <2>11. \A p \in Conn \X SeqNum : p[1] \in Conn /\ p[2] \in SeqNum
    OBVIOUS
  <2>12. \A p \in Conn \X SeqNum : p \in AllSpent' <=> p \in AllSpent \/ p = <<c, s>>
    BY <2>8, <2>9, <2>10, <2>11
  <2>13. AllSpent \subseteq Conn \X SeqNum /\ AllSpent' \subseteq Conn \X SeqNum
    BY DEF AllSpent
  <2>14. <<c, s>> \in Conn \X SeqNum
    OBVIOUS
  <2>15. <<c, s>> \notin AllSpent
    BY <2>6, <2>9, <2>14
  <2> QED
    BY <2>12, <2>13, <2>14, <2>15
<1>12. Returned' = Returned \cup {k} /\ k \notin Returned
  BY <1>2, <1>4, Constants DEF Returned
<1>13. SpentSound'
  <2>1. /\ IsFiniteSet(AllSpent') /\ Cardinality(AllSpent') = Cardinality(AllSpent) + 1
    BY <1>1, <1>11, FS_AddElement DEF SpentSound
  <2>2. /\ IsFiniteSet(Returned') /\ Cardinality(Returned') = Cardinality(Returned) + 1
    BY <1>1, <1>12, FS_AddElement DEF SpentSound
  <2> QED
    BY <1>1, <2>1, <2>2 DEF SpentSound
<1> QED
  BY <1>10, <1>13

LEMMA NumbersStep ==
    ASSUME CInv, [Next]_vars
    PROVE  SeqsSound' /\ SpentSound'
<1>1. TypeOK /\ BusySound /\ SeqsSound /\ SpentSound
  BY DEF CInv
<1>2. ASSUME NEW t \in Thread, Begin(t)
      PROVE  SeqsSound' /\ SpentSound'
  <2>1. /\ pc[t] = "idle" /\ UNCHANGED <<conn, num, seqs, waiting>>
        /\ pc' = [pc EXCEPT ![t] = "lookup"]
    BY <1>2 DEF Begin, Goto, connVars
  <2>2. PICK k \in Call : doing' = [doing EXCEPT ![t] = k]
    BY <1>2 DEF Begin
  <2>3. /\ pc'[t] = "lookup"
        /\ \A u \in Thread \ {t} : pc'[u] = pc[u] /\ doing'[u] = doing[u]
    BY <1>1, <2>1, <2>2, Constants DEF TypeOK
  <2>4. \A c, s : Holding(c, s)' = Holding(c, s)
    BY <2>1, <2>3, HoldingSame
  <2>5. SeqsSound' /\ AllSpent' = AllSpent
    BY <1>1, <2>1, <2>3, <2>4, NumbersSame
  <2> QED
    BY <1>1, <1>2, <2>5, ReturnedSame, SpentSame
<1>3. ASSUME NEW t \in Thread, NEW place, pc[t] # "idle",
             place \notin {"register", "send"},
             pc[t] # "register", pc[t] = "send" => doing[t] \notin Oneway,
             pc' = [pc EXCEPT ![t] = place],
             \A u \in Thread \ {t} : conn'[u] = conn[u] /\ num'[u] = num[u],
             UNCHANGED <<doing, outcome, seqs, waiting>>
      PROVE  SeqsSound' /\ SpentSound'
  <2>1. pc'[t] = place /\ \A u \in Thread \ {t} : pc'[u] = pc[u]
    BY <1>1, <1>3, Constants DEF TypeOK
  <2>2. \A c, s : Holding(c, s)' = Holding(c, s)
    BY <1>3, <2>1, HoldingSame
  <2>3. SeqsSound' /\ AllSpent' = AllSpent
    BY <1>1, <1>3, <2>1, <2>2, NumbersSame
  <2> QED
    BY <1>1, <1>3, <2>3, ReturnedSame, SpentSame
<1>4. ASSUME NEW t \in Thread, NEW result \in {"answered", "timeout", "refused"},
             pc[t] \notin {"idle", "register", "send"}, Finish(t, result),
             UNCHANGED <<seqs, waiting>>
      PROVE  SeqsSound' /\ SpentSound'
  <2>1. /\ pc'[t] = "idle"
        /\ \A u \in Thread \ {t} : /\ pc'[u] = pc[u] /\ doing'[u] = doing[u]
                                   /\ conn'[u] = conn[u] /\ num'[u] = num[u]
    BY <1>1, <1>4, FinishEffect
  <2>2. \A c, s : Holding(c, s)' = Holding(c, s)
    BY <1>4, <2>1, HoldingSame
  <2>3. SeqsSound' /\ AllSpent' = AllSpent
    BY <1>1, <1>4, <2>1, <2>2, NumbersSame
  <2>4. Returned' = Returned
    BY <1>1, <1>4, ReturnedSame
  <2> QED
    BY <1>1, <2>3, <2>4, SpentSame
<1>5. ASSUME Elsewhere, UNCHANGED <<seqs, waiting>>
      PROVE  SeqsSound' /\ SpentSound'
  <2>1. \A c, s : Holding(c, s)' = Holding(c, s)
    BY <1>5 DEF Elsewhere, Holding
  <2>2. SeqsSound' /\ AllSpent' = AllSpent
    BY <1>1, <1>5, <2>1, NumbersSame DEF Elsewhere
  <2> QED
    BY <1>1, <1>5, <2>2, ReturnedSame, SpentSame DEF Elsewhere
<1>6. ASSUME NEW t \in Thread, PopSeq(t)
      PROVE  SeqsSound' /\ SpentSound'
  <2>1. conn[t] \in Conn /\ UNCHANGED outcome
    BY <1>1, <1>6 DEF PopSeq, BusySound
  <2>2. SeqsSound' /\ AllSpent' = AllSpent
    BY <1>6, <2>1, PopSeqNumbers
  <2> QED
    BY <1>1, <2>1, <2>2, ReturnedSame, SpentSame
<1>7. ASSUME NEW t \in Thread, Register(t)
      PROVE  SeqsSound' /\ SpentSound'
  <2>1. conn[t] \in Conn /\ num[t] \in SeqNum /\ UNCHANGED outcome
    BY <1>1, <1>7 DEF Register, BusySound
  <2>2. SeqsSound' /\ AllSpent' = AllSpent
    BY <1>7, <2>1, RegisterNumbers
  <2> QED
    BY <1>1, <2>1, <2>2, ReturnedSame, SpentSame
<1>8. ASSUME NEW c \in Conn, Receive(c)
      PROVE  SeqsSound' /\ SpentSound'
  <2> DEFINE s == Head(replies[c]).seq
  <2>1. s \in SeqNum /\ UNCHANGED <<pc, doing, conn, num, outcome>>
    <3>1. replies[c] \in Seq(Message) /\ replies[c] # <<>>
      BY <1>1, <1>8 DEF Receive, TypeOK
    <3>2. Head(replies[c]) \in Message
      BY <3>1
    <3> QED
      BY <1>8, <3>2 DEF Receive, Message
  <2>2. CASE waiting[c][s] # NoCall
    <3>1. SeqsSound' /\ AllSpent' = AllSpent
      BY <1>8, <2>1, <2>2, ReceiveNumbers
    <3> QED
      BY <1>1, <2>1, <3>1, ReturnedSame, SpentSame
  <2>3. CASE waiting[c][s] = NoCall
    <3>1. UNCHANGED <<waiting, seqs>>
      BY <1>8, <2>3 DEF Receive
    <3> QED
      BY <1>5, <2>1, <3>1 DEF Elsewhere
  <2> QED
    BY <2>2, <2>3
<1>9. ASSUME NEW t \in Thread, SendRequest(t)
      PROVE  SeqsSound' /\ SpentSound'
  <2>1. conn[t] \in Conn /\ num[t] \in SeqNum /\ pc[t] = "send"
    BY <1>1, <1>9 DEF SendRequest, BusySound
  <2>2. CASE doing[t] \in Oneway
    BY <1>9, <2>1, <2>2, SpendNumbers
  <2>3. CASE doing[t] \notin Oneway
    <3>1. pc' = [pc EXCEPT ![t] = "wait"] /\ UNCHANGED <<doing, conn, num, outcome>>
      BY <1>9, <2>3 DEF SendRequest, Goto
    <3>2. UNCHANGED <<seqs, waiting>>
      BY <1>9 DEF SendRequest, connVars
    <3> QED
      BY <1>3, <2>1, <2>3, <3>1, <3>2
  <2> QED
    BY <2>2, <2>3
<1>10. ASSUME NEW t \in Thread, Lookup(t)
       PROVE  SeqsSound' /\ SpentSound'
  <2>1. /\ pc[t] = "lookup" /\ UNCHANGED <<doing, num, outcome, seqs, waiting>>
        /\ \A u \in Thread \ {t} : conn'[u] = conn[u]
    BY <1>1, <1>10 DEF Lookup, connVars, TypeOK
  <2>2. \/ pc' = [pc EXCEPT ![t] = "pop"]
        \/ pc' = [pc EXCEPT ![t] = "build"]
    BY <1>10 DEF Lookup, Goto
  <2> QED
    BY <1>3, <2>1, <2>2
<1>11. ASSUME NEW t \in Thread, Build(t)
       PROVE  SeqsSound' /\ SpentSound'
  <2>1. /\ pc[t] = "build" /\ UNCHANGED <<doing, num, outcome, seqs, waiting>>
        /\ pc' = [pc EXCEPT ![t] = "check"]
        /\ \A u \in Thread \ {t} : conn'[u] = conn[u]
    BY <1>1, <1>11 DEF Build, Goto, TypeOK
  <2> QED
    BY <1>3, <2>1
<1>12. ASSUME NEW t \in Thread, CheckUid(t)
       PROVE  SeqsSound' /\ SpentSound'
  <2>1. pc[t] = "check" /\ UNCHANGED <<doing, conn, num, outcome, seqs, waiting>>
    BY <1>12 DEF CheckUid, connVars
  <2>2. \/ pc' = [pc EXCEPT ![t] = "link"]
        \/ pc' = [pc EXCEPT ![t] = "lock"]
    BY <1>12 DEF CheckUid, Goto
  <2> QED
    BY <1>3, <2>1, <2>2
<1>13. ASSUME NEW t \in Thread, LockUid(t)
       PROVE  SeqsSound' /\ SpentSound'
  <2>1. pc[t] = "lock" /\ UNCHANGED <<seqs, waiting>>
    BY <1>13 DEF LockUid, connVars
  <2>2. CASE pc' = [pc EXCEPT ![t] = "wait_uid"] /\ UNCHANGED <<doing, conn, num, outcome>>
    BY <1>3, <2>1, <2>2
  <2>3. CASE Finish(t, "refused")
    BY <1>4, <2>1, <2>3
  <2> QED
    BY <1>13, <2>2, <2>3 DEF LockUid, Goto
<1>14. ASSUME NEW t \in Thread, WokenForUid(t)
       PROVE  SeqsSound' /\ SpentSound'
  <2>1. /\ pc[t] = "wait_uid" /\ UNCHANGED <<doing, conn, num, outcome, seqs, waiting>>
        /\ pc' = [pc EXCEPT ![t] = "link"]
    BY <1>14 DEF WokenForUid, Goto, connVars
  <2> QED
    BY <1>3, <2>1
<1>15. ASSUME NEW t \in Thread, Link(t)
       PROVE  SeqsSound' /\ SpentSound'
  <2>1. /\ pc[t] = "link" /\ UNCHANGED <<doing, num, outcome, seqs, waiting>>
        /\ \A u \in Thread \ {t} : conn'[u] = conn[u]
    BY <1>1, <1>15 DEF Link, connVars, TypeOK
  <2>2. \/ pc' = [pc EXCEPT ![t] = "pop"]
        \/ pc' = [pc EXCEPT ![t] = "find"]
    BY <1>15 DEF Link, Goto
  <2> QED
    BY <1>3, <2>1, <2>2
<1>16. ASSUME NEW t \in Thread, BuildFails(t) \/ UidTimeout(t)
       PROVE  SeqsSound' /\ SpentSound'
  <2>1. /\ pc[t] \in {"build", "wait_uid"} /\ Finish(t, "refused")
        /\ UNCHANGED <<seqs, waiting>>
    BY <1>16 DEF BuildFails, UidTimeout, connVars
  <2> QED
    BY <1>4, <2>1
<1>17. ASSUME NEW t \in Thread, TakeResult(t)
       PROVE  SeqsSound' /\ SpentSound'
  <2>1. pc[t] = "wait" /\ Finish(t, "answered") /\ UNCHANGED <<seqs, waiting>>
    BY <1>17 DEF TakeResult, connVars
  <2> QED
    BY <1>4, <2>1
<1>18. ASSUME NEW t \in Thread, WaitTimeout(t)
       PROVE  SeqsSound' /\ SpentSound'
  <2>1. pc[t] = "wait" /\ Finish(t, "timeout") /\ UNCHANGED <<seqs, waiting>>
    BY <1>18 DEF WaitTimeout, SeqsAfterTimeout
  <2> QED
    BY <1>4, <2>1
<1>19. ASSUME \/ UNCHANGED vars \/ AddUid \/ AddEntry \/ SendTask \/ CloseStep(Net)
              \/ \E u \in Uid : LoseConnection(u)
              \/ \E c \in Conn : Serve(c)
       PROVE  SeqsSound' /\ SpentSound'
  <2>1. UNCHANGED <<seqs, waiting>>
    BY <1>19 DEF vars, AddUid, AddEntry, SendTask, CloseStep, MarkClosed, EraseEntry,
                 ReturnUid, LoseConnection, Serve, connVars
  <2>2. Elsewhere
    BY <1>1, <1>19, OnlyElsewhere DEF NetStep
  <2> QED
    BY <1>5, <2>1, <2>2
<1>20. ASSUME NEW t \in Thread, FindSurplus(t) \/ CloseStep(t)
       PROVE  SeqsSound' /\ SpentSound'
  <2>1. /\ pc[t] \in {"find", "mark", "erase", "return"}
        /\ UNCHANGED <<doing, conn, num, outcome, seqs, waiting>>
    BY <1>20 DEF FindSurplus, CloseStep, MarkClosed, EraseEntry, ReturnUid, connVars
  <2>2. PICK place \in {"pop", "mark", "erase", "return"} : pc' = [pc EXCEPT ![t] = place]
    BY <1>20, Constants DEF FindSurplus, CloseStep, MarkClosed, EraseEntry, ReturnUid, Goto
  <2> QED
    BY <1>3, <2>1, <2>2
<1> QED
  BY <1>2, <1>6, <1>7, <1>8, <1>9, <1>10, <1>11, <1>12, <1>13, <1>14, <1>15, <1>16, <1>17,
     <1>18, <1>19, <1>20 DEF Next, ThreadStep, NetStep

-----------------------------------------------------------------------------
LEMMA CInvStep == CInv /\ [Next]_vars => CInv'
BY TypeStep, BusyStep, AddsStep, EntriesStep, ClosersStep, UidsStep, NumbersStep DEF CInv

(* The inductive invariant of the client.                                    *)
THEOREM ClientInvariant == Spec => []CInv
BY ClientInit, CInvStep, PTL DEF Spec

(* Every variable keeps its type, for any number of threads, calls,          *)
(* connections, uids and sequence numbers.                                   *)
THEOREM ClientTypeCorrect == Spec => []TypeOK
<1>1. CInv => TypeOK
  BY DEF CInv
<1> QED
  BY <1>1, ClientInvariant, PTL

(* No uid is lost to the client, however a caller that closes the connection *)
(* it built in vain (ClientNetThread.cpp:115) interleaves with the network   *)
(* thread, and the table finds a connection under the uid it has.            *)
THEOREM ClientUidsKept == Spec => []UidsKept
<1>1. CInv => UidsKept
  BY DEF CInv
<1> QED
  BY <1>1, ClientInvariant, PTL

(* Timeouts, late answers and lost connections neither double nor lose a     *)
(* sequence number; a call without response (ClientConnection::call_func     *)
(* pops one and nobody pushes it) always does.                               *)
THEOREM ClientSeqsConserved == Spec => []SeqsConserved
<1>1. CInv => SeqsConserved
  <2> SUFFICES ASSUME CInv PROVE SeqsConserved
    OBVIOUS
  <2>1. TypeOK /\ SeqsSound /\ SpentSound
    BY DEF CInv
  <2>2. ASSUME NEW c \in Conn
        PROVE  Holds(seqs[c], SeqNum \ (Registered(c) \cup Held(c) \cup Spent(c)))
    <3>1. Free(c) \subseteq SeqNum
      BY <2>1 DEF TypeOK, Free
    <3>2. Spent(c) = SeqNum \ (Free(c) \cup Registered(c) \cup Held(c))
      BY DEF Spent, Free
    <3>3. SeqNum \ (Registered(c) \cup Held(c) \cup Spent(c)) = Free(c)
      BY <2>1, <3>1, <3>2 DEF SeqsSound
    <3> QED
      BY <2>1, <3>3 DEF SeqsSound
  <2>3. ASSUME NEW c \in Conn, NEW s \in Held(c)
        PROVE  Cardinality(Holding(c, s)) = 1
    <3>1. s \in SeqNum /\ Holding(c, s) # {}
      BY DEF Held
    <3>2. PICK t : t \in Holding(c, s)
      BY <3>1
    <3>3. Holding(c, s) = {t}
      BY <2>1, <3>1, <3>2 DEF SeqsSound
    <3> QED
      BY <3>3, FS_Singleton
  <2>4. \A c \in Conn : Registered(c) \cap Held(c) = {}
    BY <2>1 DEF SeqsSound
  <2>5. Cardinality(AllSpent) = Cardinality({k \in Oneway : outcome[k] = "returned"})
    BY <2>1 DEF SpentSound, Returned
  <2> QED
    BY <2>2, <2>3, <2>4, <2>5 DEF SeqsConserved
<1> QED
  BY <1>1, ClientInvariant, PTL
-----------------------------------------------------------------------------
(* A request is in one place and runs from there once.                       *)
IsNet(i) == i \in 1..Len(respQ) /\ respQ[i].type = "net"
Sent(k) ==
    \/ outcome[k] \in {"answered", "timeout", "returned"}
    \/ outcome[k] = "pending" /\ \E t \in Thread : pc[t] = "wait" /\ doing[t] = k
RequestsSound ==
    /\ \A i \in 1..Len(respQ) : IsNet(i) =>
         LET k == respQ[i].msg.call IN
         /\ Sent(k) /\ ran[k] = 0
         /\ \A c \in Conn : \A msg \in wire[c] : msg.call # k
         /\ \A j \in 1..Len(respQ) : IsNet(j) /\ respQ[j].msg.call = k => i = j
    /\ \A c \in Conn : \A msg \in wire[c] :
         /\ Sent(msg.call) /\ ran[msg.call] = 0
         /\ \A d \in Conn : \A m \in wire[d] : m.call = msg.call => c = d /\ m = msg
    /\ \A k \in Call : ran[k] = 0 \/ (ran[k] = 1 /\ Sent(k))

(* A response is to a call that ran, and comes once; what a promise is given *)
(* is a response, and only a call with a promise that was given one ends     *)
(* with an answer.                                                           *)
AnswersSound ==
    /\ \A c \in Conn : \A i \in 1..Len(replies[c]) :
         LET k == replies[c][i].call IN
         /\ k \notin Oneway /\ ran[k] = 1
         /\ \A d \in Conn : \A j \in 1..Len(replies[d]) :
              replies[d][j].call = k => c = d /\ i = j
    /\ \A k \in Call : value[k] # NoCall => value[k] \notin Oneway /\ ran[value[k]] = 1
    /\ \A k \in Call : outcome[k] = "answered" => value[k] # NoCall

(* A call is registered at one place, from Register until it is given a      *)
(* response, if ever.                                                        *)
Entered(k) ==
    /\ k \in Call \ Oneway
    /\ \/ outcome[k] \in {"answered", "timeout"}
       \/ /\ outcome[k] = "pending"
          /\ \E t \in Thread : pc[t] \in {"send", "wait"} /\ doing[t] = k
RegisteredSound ==
    /\ \A c \in Conn, s \in SeqNum, k \in Call : waiting[c][s] = k =>
         /\ Entered(k) /\ value[k] = NoCall
         /\ \A d \in Conn, r \in SeqNum : waiting[d][r] = k => d = c /\ r = s
    /\ \A k \in Call : value[k] # NoCall => Entered(k)
    /\ \A t \in Thread : pc[t] = "wait" => doing[t] \notin Oneway

(* While no uid has named two connections, a call that expects a response    *)
(* stays registered until its own response comes.                            *)
Awaited(c, msg) == msg.call \in Oneway \/ waiting[c][msg.seq] = msg.call
SendersSound == \A t \in Thread :
    pc[t] = "send" => Awaited(conn[t], [seq |-> num[t], call |-> doing[t]])
MessagesSound ==
    /\ \A i \in 1..Len(respQ) : IsNet(i) /\ respQ[i].uid \in Uid =>
         \E c \in Conn : uid[c] = respQ[i].uid /\ Awaited(c, respQ[i].msg)
    /\ \A c \in Conn : \A msg \in wire[c] : Awaited(c, msg)
    /\ \A c \in Conn : \A i \in 1..Len(replies[c]) : Awaited(c, replies[c][i])
OwnSound == UidTwice \/ (SendersSound /\ MessagesSound /\ OwnAnswers)

ServiceInv == CInv /\ RequestsSound /\ AnswersSound /\ RegisteredSound /\ OwnSound

LEMMA ServiceInit == Init => ServiceInv
<1> SUFFICES ASSUME Init PROVE ServiceInv
  OBVIOUS
<1>1. CInv
  BY ClientInit
<1>2. \A k : ~Sent(k) \/ k \notin Call
  BY DEF Init, Sent
<1>3. RequestsSound
  BY DEF Init, RequestsSound, IsNet
<1>4. AnswersSound
  BY DEF Init, AnswersSound
<1>5. RegisteredSound
  BY Constants DEF Init, RegisteredSound
<1>6. OwnSound
  BY Constants DEF Init, OwnSound, SendersSound, MessagesSound, OwnAnswers, IsNet
<1> QED
  BY <1>1, <1>3, <1>4, <1>5, <1>6 DEF ServiceInv

LEMMA OthersSame ==
    ASSUME TypeOK, NEW t \in Thread, Begin(t) \/ ThreadStep(t)
    PROVE  \A u \in Thread \ {t} : /\ pc'[u] = pc[u] /\ doing'[u] = doing[u]
                                   /\ conn'[u] = conn[u] /\ num'[u] = num[u]
<1> DEFINE same == \A u \in Thread \ {t} : /\ pc'[u] = pc[u] /\ doing'[u] = doing[u]
                                           /\ conn'[u] = conn[u] /\ num'[u] = num[u]
<1>1. ASSUME NEW result \in {"answered", "timeout", "refused", "returned"}, Finish(t, result)
      PROVE  same
  BY <1>1, FinishEffect
<1>2. ASSUME NEW place, Goto(t, place), UNCHANGED <<doing, conn, num>> PROVE same
  BY <1>2, Constants DEF Goto, TypeOK
<1>3. CASE Begin(t)
  BY <1>3, Constants DEF Begin, Goto, TypeOK
<1>4. CASE Lookup(t)
  <2>1. /\ \E place : Goto(t, place)
        /\ \E c : conn' = [conn EXCEPT ![t] = c]
        /\ UNCHANGED <<doing, num>>
    <3>1. conn' = conn => conn' = [conn EXCEPT ![t] = conn[t]]
      BY DEF TypeOK
    <3> QED
      BY <1>4, <3>1 DEF Lookup
  <2> QED
    BY <2>1, Constants DEF Goto, TypeOK
<1>5. CASE Build(t)
  BY <1>5, Constants DEF Build, Goto, TypeOK
<1>6. CASE BuildFails(t)
  BY <1>1, <1>6 DEF BuildFails
<1>7. CASE CheckUid(t)
  BY <1>2, <1>7 DEF CheckUid
<1>8. CASE LockUid(t)
  BY <1>1, <1>2, <1>8 DEF LockUid
<1>9. CASE WokenForUid(t)
  BY <1>2, <1>9 DEF WokenForUid
<1>10. CASE UidTimeout(t)
  BY <1>1, <1>10 DEF UidTimeout
<1>11. CASE Link(t)
  <2>1. /\ Goto(t, "pop") \/ Goto(t, "find")
        /\ UNCHANGED <<doing, num>>
        /\ conn' = conn \/ \E c : conn' = [conn EXCEPT ![t] = c]
    BY <1>11 DEF Link
  <2> QED
    BY <2>1, Constants DEF Goto, TypeOK
<1>12. CASE PopSeq(t)
  BY <1>12, Constants DEF PopSeq, Goto, TypeOK
<1>13. CASE Register(t)
  BY <1>2, <1>13 DEF Register
<1>14. CASE SendRequest(t)
  BY <1>1, <1>2, <1>14 DEF SendRequest
<1>15. CASE TakeResult(t)
  BY <1>1, <1>15 DEF TakeResult
<1>16. CASE WaitTimeout(t)
  BY <1>1, <1>16 DEF WaitTimeout
<1>17. CASE FindSurplus(t) \/ CloseStep(t)
  <2>1. (\E place : Goto(t, place)) /\ UNCHANGED <<doing, conn, num>>
    BY <1>17 DEF FindSurplus, CloseStep, MarkClosed, EraseEntry, ReturnUid
  <2> QED
    BY <1>2, <2>1
<1> QED
  BY <1>3, <1>4, <1>5, <1>6, <1>7, <1>8, <1>9, <1>10, <1>11, <1>12, <1>13, <1>14, <1>15,
     <1>16, <1>17 DEF ThreadStep

(* Where a call stands.                                                      *)
LEMMA NetIs ==
    ASSUME TypeOK
    PROVE  /\ \A i : IsNet(i) => /\ respQ[i] \in NetTask /\ respQ[i].msg.call \in Call
                                 /\ respQ[i].msg.seq \in SeqNum
           /\ \A c \in Conn : \A msg \in wire[c] : msg.call \in Call /\ msg.seq \in SeqNum
           /\ \A c \in Conn : /\ replies[c] \in Seq(Message)
                              /\ \A i \in 1..Len(replies[c]) :
                                     replies[c][i].call \in Call /\ replies[c][i].seq \in SeqNum
<1>1. ASSUME NEW i, IsNet(i) PROVE respQ[i] \in NetTask
  <2>1. respQ[i] \in NetTask \cup AddTask
    BY <1>1 DEF TypeOK, IsNet
  <2> QED
    BY <1>1, <2>1 DEF IsNet, AddTask
<1>2. ASSUME NEW c \in Conn PROVE wire[c] \subseteq Message /\ replies[c] \in Seq(Message)
  BY DEF TypeOK
<1>3. ASSUME NEW c \in Conn, NEW i \in 1..Len(replies[c]) PROVE replies[c][i] \in Message
  BY <1>2
<1> QED
  BY <1>1, <1>2, <1>3 DEF NetTask, Message

LEMMA NotSent ==
    ASSUME CInv, NEW t \in Thread, pc[t] \notin {"idle", "wait"}
    PROVE  doing[t] \in Call /\ ~Sent(doing[t]) /\ outcome[doing[t]] = "pending"
BY DEF Sent, CInv, BusySound

(* A thread goes on, or its call is over; one that waits does nothing else.  *)
LEMMA StepOf ==
    ASSUME NEW t \in Thread, ThreadStep(t)
    PROVE  /\ pc[t] # "idle"
           /\ \/ outcome' = outcome /\ pc[t] # "wait"
              \/ \E result \in {"answered", "timeout", "refused", "returned"} :
                   /\ Finish(t, result)
                   /\ pc[t] = "wait" => result \in {"answered", "timeout"}
                   /\ result = "refused" => pc[t] \in {"build", "lock", "wait_uid"}
                   /\ result = "returned" => pc[t] = "send" /\ doing[t] \in Oneway
                   /\ result = "timeout" => pc[t] = "wait"
                   /\ result = "answered" => pc[t] = "wait" /\ value[doing[t]] # NoCall
<1>1. CASE \/ Lookup(t) \/ Build(t) \/ CheckUid(t) \/ WokenForUid(t) \/ Link(t)
           \/ FindSurplus(t) \/ CloseStep(t) \/ PopSeq(t) \/ Register(t)
  BY <1>1 DEF Lookup, Build, CheckUid, WokenForUid, Link, FindSurplus, CloseStep, MarkClosed,
              EraseEntry, ReturnUid, PopSeq, Register
<1>2. CASE BuildFails(t) \/ LockUid(t) \/ UidTimeout(t)
  BY <1>2 DEF BuildFails, LockUid, UidTimeout
<1>3. CASE SendRequest(t) \/ TakeResult(t) \/ WaitTimeout(t)
  BY <1>3 DEF SendRequest, TakeResult, WaitTimeout
<1> QED
  BY <1>1, <1>2, <1>3 DEF ThreadStep

LEMMA OutcomeStep ==
    ASSUME TypeOK, [Next]_vars
    PROVE  (\E t \in Thread : Begin(t) \/ ThreadStep(t)) \/ Elsewhere
BY OnlyElsewhere DEF Next

LEMMA SentKept ==
    ASSUME CInv, [Next]_vars, NEW k \in Call, Sent(k)
    PROVE  Sent(k)'
<1>0. TypeOK /\ BusySound
  BY DEF CInv
<1>1. CASE Elsewhere
  BY <1>1 DEF Elsewhere, Sent
<1>2. ASSUME NEW t \in Thread, Begin(t) PROVE Sent(k)'
  <2>1. PICK l \in Call : /\ pc[t] = "idle" /\ outcome[l] = "idle"
                          /\ outcome' = [outcome EXCEPT ![l] = "pending"]
    BY <1>2 DEF Begin
  <2>2. k # l
    BY <2>1 DEF Sent
  <2>3. outcome'[k] = outcome[k]
    BY <1>0, <2>1, <2>2 DEF TypeOK
  <2>4. \A u \in Thread : pc[u] = "wait" => pc'[u] = "wait" /\ doing'[u] = doing[u]
    BY <1>0, <1>2, <2>1, OthersSame
  <2> QED
    BY <2>3, <2>4 DEF Sent
<1>3. ASSUME NEW t \in Thread, ThreadStep(t) PROVE Sent(k)'
  <2>1. \A u \in Thread \ {t} : pc'[u] = pc[u] /\ doing'[u] = doing[u]
    BY <1>0, <1>3, OthersSame
  <2>2. pc[t] # "idle"
    BY <1>3, StepOf
  <2>3. CASE outcome' = outcome /\ pc[t] # "wait"
    BY <2>1, <2>3 DEF Sent
  <2>4. ASSUME NEW result \in {"answered", "timeout", "refused", "returned"},
               Finish(t, result), pc[t] = "wait" => result \in {"answered", "timeout"}
        PROVE  Sent(k)'
    <3>1. \A l \in Call : outcome'[l] = IF l = doing[t] THEN result ELSE outcome[l]
      BY <1>0, <2>4, FinishEffect
    <3>2. CASE k = doing[t]
      <4>1. pc[t] = "wait"
        BY <2>2, <3>2, NotSent
      <4> QED
        BY <2>4, <3>1, <3>2, <4>1 DEF Sent
    <3>3. CASE k # doing[t]
      BY <2>1, <3>1, <3>3 DEF Sent
    <3> QED
      BY <3>2, <3>3
  <2> QED
    BY <1>3, <2>3, <2>4, StepOf
<1> QED
  BY <1>0, <1>1, <1>2, <1>3, OutcomeStep

(* Requests that only move up in the queue.                                  *)
LEMMA RequestsKept ==
    ASSUME CInv, RequestsSound, [Next]_vars, UNCHANGED <<ran, wire>>, NEW n \in Nat,
           \A i \in 1..Len(respQ') : IsNet(i)' => IsNet(i + n) /\ respQ'[i] = respQ[i + n]
    PROVE  RequestsSound'
<1>0. TypeOK
  BY DEF CInv
<1>1. ASSUME NEW i \in 1..Len(respQ'), IsNet(i)', NEW k, k = respQ'[i].msg.call
      PROVE  /\ Sent(k)' /\ ran'[k] = 0
             /\ \A c \in Conn : \A msg \in wire'[c] : msg.call # k
             /\ \A j \in 1..Len(respQ') : IsNet(j)' /\ respQ'[j].msg.call = k => i = j
  <2>1. i + n \in 1..Len(respQ) /\ IsNet(i + n) /\ k = respQ[i + n].msg.call
    BY <1>1 DEF IsNet
  <2>2. /\ Sent(k) /\ ran[k] = 0 /\ k \in Call
        /\ \A c \in Conn : \A msg \in wire[c] : msg.call # k
        /\ \A j \in 1..Len(respQ) : IsNet(j) /\ respQ[j].msg.call = k => i + n = j
    BY <1>0, <2>1, NetIs DEF RequestsSound
  <2>3. ASSUME NEW j \in 1..Len(respQ'), IsNet(j)', respQ'[j].msg.call = k PROVE i = j
    <3>1. j + n \in 1..Len(respQ) /\ IsNet(j + n) /\ respQ[j + n].msg.call = k
      BY <2>3 DEF IsNet
    <3>2. i + n = j + n
      BY <2>2, <3>1
    <3> QED
      BY <3>2
  <2> QED
    BY <2>2, <2>3, SentKept
<1>2. ASSUME NEW c \in Conn, NEW msg \in wire'[c]
      PROVE  /\ Sent(msg.call)' /\ ran'[msg.call] = 0
             /\ \A d \in Conn : \A m \in wire'[d] : m.call = msg.call => c = d /\ m = msg
  BY <1>0, NetIs, SentKept DEF RequestsSound
<1>3. ASSUME NEW k \in Call PROVE ran'[k] = 0 \/ (ran'[k] = 1 /\ Sent(k)')
  BY SentKept DEF RequestsSound
<1> QED
  BY <1>1, <1>2, <1>3 DEF RequestsSound

(* A call without a request anywhere gets one.                               *)
LEMMA SendRequests ==
    ASSUME CInv, RequestsSound, NEW t \in Thread, SendRequest(t), [Next]_vars
    PROVE  RequestsSound'
<1>0. TypeOK /\ BusySound
  BY DEF CInv
<1>k. PICK k \in Call : k = doing[t]
  BY NotSent DEF SendRequest
<1>1. PICK task : /\ respQ' = Append(respQ, task) /\ task.type = "net"
                  /\ task.msg.call = k
  BY <1>k DEF SendRequest
<1>2. pc[t] = "send" /\ UNCHANGED <<ran, wire>>
  BY DEF SendRequest, connVars, wireVars
<1>3. ~Sent(k) /\ outcome[k] = "pending"
  BY <1>2, <1>k, NotSent
<1>4. Sent(k)'
  <2>1. CASE k \in Oneway
    <3>1. Finish(t, "returned")
      BY <1>k, <2>1 DEF SendRequest
    <3>2. outcome'[k] = "returned"
      BY <1>0, <1>k, <3>1, FinishEffect
    <3> QED
      BY <3>2 DEF Sent
  <2>2. CASE k \notin Oneway
    <3>1. Goto(t, "wait") /\ UNCHANGED <<doing, outcome>>
      BY <1>k, <2>2 DEF SendRequest
    <3>2. pc'[t] = "wait" /\ outcome'[k] = "pending"
      BY <1>0, <1>3, <3>1, Constants DEF Goto, TypeOK
    <3> QED
      BY <1>k, <3>1, <3>2 DEF Sent
  <2> QED
    BY <2>1, <2>2
<1>5. /\ \A i \in 1..Len(respQ) : IsNet(i) => respQ[i].msg.call # k
      /\ \A c \in Conn : \A msg \in wire[c] : msg.call # k
      /\ ran[k] = 0
  BY <1>3 DEF RequestsSound
<1>6. /\ Len(respQ) \in Nat /\ Len(respQ') = Len(respQ) + 1
      /\ respQ'[Len(respQ) + 1] = task
      /\ \A i \in 1..Len(respQ) : respQ'[i] = respQ[i]
      /\ \A i \in 1..Len(respQ') : i \in 1..Len(respQ) \/ i = Len(respQ) + 1
  BY <1>0, <1>1, AppendTask
<1>7. ASSUME NEW i \in 1..Len(respQ'), IsNet(i)', i \in 1..Len(respQ)
      PROVE  IsNet(i) /\ respQ'[i].msg.call = respQ[i].msg.call /\ respQ[i].msg.call \in Call
  BY <1>0, <1>6, <1>7, NetIs DEF IsNet
<1>8. ASSUME NEW i \in 1..Len(respQ'), IsNet(i)', NEW l, l = respQ'[i].msg.call
      PROVE  /\ Sent(l)' /\ ran'[l] = 0
             /\ \A c \in Conn : \A msg \in wire'[c] : msg.call # l
             /\ \A j \in 1..Len(respQ') : IsNet(j)' /\ respQ'[j].msg.call = l => i = j
  <2>1. CASE i \in 1..Len(respQ)
    <3>1. IsNet(i) /\ l = respQ[i].msg.call /\ l \in Call /\ l # k
      BY <1>5, <1>7, <1>8, <2>1
    <3>2. /\ Sent(l) /\ ran[l] = 0
          /\ \A c \in Conn : \A msg \in wire[c] : msg.call # l
          /\ \A j \in 1..Len(respQ) : IsNet(j) /\ respQ[j].msg.call = l => i = j
      BY <2>1, <3>1 DEF RequestsSound
    <3>3. ASSUME NEW j \in 1..Len(respQ'), IsNet(j)', respQ'[j].msg.call = l PROVE i = j
      <4>1. j \in 1..Len(respQ)
        BY <1>1, <1>6, <3>1, <3>3
      <4> QED
        BY <1>7, <3>2, <3>3, <4>1
    <3> QED
      BY <1>2, <3>1, <3>2, <3>3, SentKept
  <2>2. CASE i = Len(respQ) + 1
    <3>1. l = k
      BY <1>1, <1>6, <1>8, <2>2
    <3>2. ASSUME NEW j \in 1..Len(respQ'), IsNet(j)', respQ'[j].msg.call = l PROVE i = j
      <4>1. j \notin 1..Len(respQ)
        BY <1>5, <1>7, <3>1, <3>2
      <4> QED
        BY <1>6, <2>2, <4>1
    <3> QED
      BY <1>2, <1>4, <1>5, <3>1, <3>2
  <2> QED
    BY <1>6, <2>1, <2>2
<1>9. ASSUME NEW c \in Conn, NEW msg \in wire'[c]
      PROVE  /\ Sent(msg.call)' /\ ran'[msg.call] = 0
             /\ \A d \in Conn : \A m \in wire'[d] : m.call = msg.call => c = d /\ m = msg
  BY <1>0, <1>2, NetIs, SentKept DEF RequestsSound
<1>10. ASSUME NEW l \in Call PROVE ran'[l] = 0 \/ (ran'[l] = 1 /\ Sent(l)')
  BY <1>2, SentKept DEF RequestsSound
<1> QED
  BY <1>8, <1>9, <1>10 DEF RequestsSound

(* A request goes from the queue to the server.                              *)
LEMMA TaskRequests ==
    ASSUME CInv, RequestsSound, SendTask, [Next]_vars
    PROVE  RequestsSound'
<1> DEFINE u == Head(respQ).uid
           msg == Head(respQ).msg
           c == table[u]
<1>0. TypeOK
  BY DEF CInv
<1>1. /\ 1 \in 1..Len(respQ) /\ Len(respQ) \in Nat /\ Head(respQ) = respQ[1] /\ IsNet(1)
      /\ \A i \in 1..Len(respQ') : i + 1 \in 1..Len(respQ) /\ respQ'[i] = respQ[i + 1]
      /\ ran' = ran
  BY <1>0, QueueHead DEF SendTask, IsNet, TypeOK
<1>2. \A i \in 1..Len(respQ') : IsNet(i)' => IsNet(i + 1) /\ respQ'[i] = respQ[i + 1]
  BY <1>1 DEF IsNet
<1>3. CASE wire' = wire
  BY <1>1, <1>2, <1>3, RequestsKept
<1>4. CASE wire' # wire
  <2>1. u \in Uid /\ c \in Conn /\ wire' = [wire EXCEPT ![c] = wire[c] \cup {msg}]
    BY <1>0, <1>4 DEF SendTask, TypeOK
  <2>2. /\ wire'[c] = wire[c] \cup {msg}
        /\ \A d \in Conn \ {c} : wire'[d] = wire[d]
    BY <1>0, <2>1 DEF TypeOK
  <2>3. /\ Sent(msg.call) /\ ran[msg.call] = 0 /\ msg.call \in Call
        /\ \A d \in Conn : \A m \in wire[d] : m.call # msg.call
        /\ \A j \in 1..Len(respQ) : IsNet(j) /\ respQ[j].msg.call = msg.call => 1 = j
    BY <1>0, <1>1, NetIs DEF RequestsSound
  <2>4. ASSUME NEW i \in 1..Len(respQ'), IsNet(i)', NEW k, k = respQ'[i].msg.call
        PROVE  /\ Sent(k)' /\ ran'[k] = 0
               /\ \A d \in Conn : \A m \in wire'[d] : m.call # k
               /\ \A j \in 1..Len(respQ') : IsNet(j)' /\ respQ'[j].msg.call = k => i = j
    <3>1. i + 1 \in 1..Len(respQ) /\ IsNet(i + 1) /\ k = respQ[i + 1].msg.call /\ i \in Nat /\ i # 0
      BY <1>1, <1>2, <2>4
    <3>2. /\ Sent(k) /\ ran[k] = 0 /\ k \in Call
          /\ \A d \in Conn : \A m \in wire[d] : m.call # k
          /\ \A j \in 1..Len(respQ) : IsNet(j) /\ respQ[j].msg.call = k => i + 1 = j
      BY <1>0, <3>1, NetIs DEF RequestsSound
    <3>3. k # msg.call
      BY <1>1, <2>3, <3>1
    <3>4. ASSUME NEW j \in 1..Len(respQ'), IsNet(j)', respQ'[j].msg.call = k PROVE i = j
      <4>1. j + 1 \in 1..Len(respQ) /\ IsNet(j + 1) /\ respQ[j + 1].msg.call = k
        BY <1>1, <1>2, <3>4
      <4>2. i + 1 = j + 1
        BY <3>2, <4>1
      <4> QED
        BY <4>2
    <3> QED
      BY <1>1, <2>2, <3>2, <3>3, <3>4, SentKept, ZenonT(40)
  <2>5. ASSUME NEW d \in Conn, NEW m \in wire'[d]
        PROVE  (d = c /\ m = msg) \/ (m \in wire[d] /\ m.call # msg.call)
    BY <2>2, <2>3
  <2>6. ASSUME NEW d \in Conn, NEW m \in wire'[d]
        PROVE  /\ Sent(m.call)' /\ ran'[m.call] = 0
               /\ \A e \in Conn : \A n \in wire'[e] : n.call = m.call => d = e /\ n = m
    <3>1. Sent(m.call) /\ ran[m.call] = 0 /\ m.call \in Call
      BY <1>0, <2>3, <2>5, NetIs DEF RequestsSound
    <3>2. ASSUME NEW e \in Conn, NEW n \in wire'[e], n.call = m.call PROVE d = e /\ n = m
      BY <2>5, <3>2 DEF RequestsSound
    <3> QED
      BY <1>1, <3>1, <3>2, SentKept
  <2>7. ASSUME NEW k \in Call PROVE ran'[k] = 0 \/ (ran'[k] = 1 /\ Sent(k)')
    BY <1>1, SentKept DEF RequestsSound
  <2> QED
    BY <2>4, <2>6, <2>7 DEF RequestsSound
<1> QED
  BY <1>3, <1>4

(* A server takes a request, and runs it or not.                             *)
LEMMA ServeRequests ==
    ASSUME CInv, RequestsSound, NEW c \in Conn, Serve(c), [Next]_vars
    PROVE  RequestsSound'
<1>0. TypeOK /\ respQ' = respQ
  BY DEF CInv, Serve, netVars
<1>1. PICK msg \in wire[c] :
        /\ wire' = [wire EXCEPT ![c] = wire[c] \ {msg}]
        /\ \/ ran' = ran
           \/ ran' = [ran EXCEPT ![msg.call] = ran[msg.call] + 1]
  BY DEF Serve
<1>2. /\ msg.call \in Call /\ Sent(msg.call) /\ ran[msg.call] = 0
      /\ \A d \in Conn : \A m \in wire[d] : m.call = msg.call => c = d /\ m = msg
  BY <1>0, NetIs DEF RequestsSound
<1>3. /\ \A k \in Call : k # msg.call => ran'[k] = ran[k]
      /\ ran'[msg.call] \in {0, 1}
  BY <1>0, <1>1, <1>2 DEF TypeOK
<1>4. ASSUME NEW d \in Conn, NEW m \in wire'[d] PROVE m \in wire[d] /\ m.call # msg.call
  <2>1. m \in wire[d] /\ ~(d = c /\ m = msg)
    BY <1>0, <1>1 DEF TypeOK
  <2> QED
    BY <1>2, <2>1
<1>5. ASSUME NEW i \in 1..Len(respQ'), IsNet(i)', NEW k, k = respQ'[i].msg.call
      PROVE  /\ Sent(k)' /\ ran'[k] = 0
             /\ \A d \in Conn : \A m \in wire'[d] : m.call # k
             /\ \A j \in 1..Len(respQ') : IsNet(j)' /\ respQ'[j].msg.call = k => i = j
  <2>1. i \in 1..Len(respQ) /\ IsNet(i) /\ k = respQ[i].msg.call
    BY <1>0, <1>5 DEF IsNet
  <2>2. /\ Sent(k) /\ ran[k] = 0 /\ k \in Call
        /\ \A d \in Conn : \A m \in wire[d] : m.call # k
        /\ \A j \in 1..Len(respQ) : IsNet(j) /\ respQ[j].msg.call = k => i = j
    BY <1>0, <2>1, NetIs DEF RequestsSound
  <2>3. k # msg.call
    BY <1>1, <2>2
  <2>4. \A j \in 1..Len(respQ') : IsNet(j)' /\ respQ'[j].msg.call = k => i = j
    BY <1>0, <2>2 DEF IsNet
  <2> QED
    BY <1>3, <1>4, <2>2, <2>3, <2>4, SentKept
<1>6. ASSUME NEW d \in Conn, NEW m \in wire'[d]
      PROVE  /\ Sent(m.call)' /\ ran'[m.call] = 0
             /\ \A e \in Conn : \A n \in wire'[e] : n.call = m.call => d = e /\ n = m
  <2>1. m \in wire[d] /\ m.call # msg.call
    BY <1>4, <1>6
  <2>2. Sent(m.call) /\ ran[m.call] = 0 /\ m.call \in Call
    BY <1>0, <2>1, NetIs DEF RequestsSound
  <2>3. ASSUME NEW e \in Conn, NEW n \in wire'[e], n.call = m.call PROVE d = e /\ n = m
    BY <1>4, <2>1, <2>3 DEF RequestsSound
  <2> QED
    BY <1>3, <2>1, <2>2, <2>3, SentKept
<1>7. ASSUME NEW k \in Call PROVE ran'[k] = 0 \/ (ran'[k] = 1 /\ Sent(k)')
  BY <1>2, <1>3, SentKept DEF RequestsSound
<1> QED
  BY <1>5, <1>6, <1>7 DEF RequestsSound

LEMMA RequestsStep ==
    ASSUME CInv, RequestsSound, [Next]_vars
    PROVE  RequestsSound'
<1>0. TypeOK
  BY DEF CInv
<1>1. CASE UNCHANGED <<respQ, ran, wire>>
  <2>1. \A i \in 1..Len(respQ') : IsNet(i)' => IsNet(i + 0) /\ respQ'[i] = respQ[i + 0]
    BY <1>1 DEF IsNet
  <2> QED
    BY <1>1, <2>1, RequestsKept
<1>2. ASSUME NEW t \in Thread, Build(t) PROVE RequestsSound'
  <2>1. PICK c \in Conn : respQ' = Append(respQ, [type |-> "add", conn |-> c])
    BY <1>2 DEF Build
  <2>2. UNCHANGED <<ran, wire>>
    BY <1>2 DEF Build, wireVars
  <2>3. \A i \in 1..Len(respQ') : IsNet(i)' => IsNet(i + 0) /\ respQ'[i] = respQ[i + 0]
    BY <1>0, <2>1, AppendTask DEF IsNet
  <2> QED
    BY <2>2, <2>3, RequestsKept
<1>3. CASE AddUid
  <2>1. NextTask /\ UNCHANGED <<ran, wire>>
    BY <1>3 DEF AddUid, wireVars
  <2>2. \A i \in 1..Len(respQ') : IsNet(i)' => IsNet(i + 1) /\ respQ'[i] = respQ[i + 1]
    BY <1>0, <2>1, QueueHead DEF IsNet
  <2> QED
    BY <2>1, <2>2, RequestsKept
<1>4. ASSUME NEW t \in Thread,
             \/ Begin(t) \/ Lookup(t) \/ BuildFails(t) \/ CheckUid(t) \/ LockUid(t)
             \/ WokenForUid(t) \/ UidTimeout(t) \/ PopSeq(t) \/ Register(t)
             \/ TakeResult(t) \/ WaitTimeout(t) \/ Link(t) \/ FindSurplus(t)
      PROVE  UNCHANGED <<respQ, ran, wire>>
  BY <1>4 DEF Begin, Lookup, BuildFails, CheckUid, LockUid, WokenForUid, UidTimeout, PopSeq,
              Register, TakeResult, WaitTimeout, Link, FindSurplus, netVars, wireVars
<1>5. ASSUME \/ UNCHANGED vars \/ AddEntry
             \/ \E c \in Conn : Receive(c)
             \/ \E x \in Closer : CloseStep(x)
             \/ \E u \in Uid : LoseConnection(u)
      PROVE  UNCHANGED <<respQ, ran, wire>>
  BY <1>5 DEF vars, AddEntry, Receive, CloseStep, MarkClosed, EraseEntry, ReturnUid,
              LoseConnection, netVars, wireVars
<1> QED
  BY <1>1, <1>2, <1>3, <1>4, <1>5, SendRequests, TaskRequests, ServeRequests, Constants
     DEF Next, ThreadStep, NetStep

-----------------------------------------------------------------------------
(* Responses.                                                                *)
LEMMA AnsweredIs ==
    ASSUME CInv, [Next]_vars, NEW k \in Call, outcome'[k] = "answered"
    PROVE  outcome[k] = "answered" \/ value[k] # NoCall
<1>0. TypeOK
  BY DEF CInv
<1>1. ASSUME NEW t \in Thread, Begin(t) PROVE outcome[k] = "answered"
  BY <1>0, <1>1 DEF Begin, TypeOK
<1>2. ASSUME NEW t \in Thread, ThreadStep(t) PROVE outcome[k] = "answered" \/ value[k] # NoCall
  <2>1. CASE outcome' = outcome
    BY <2>1
  <2>2. ASSUME NEW result \in {"answered", "timeout", "refused", "returned"},
               Finish(t, result), result = "answered" => value[doing[t]] # NoCall
        PROVE  outcome[k] = "answered" \/ value[k] # NoCall
    BY <1>0, <2>2, FinishEffect
  <2> QED
    BY <1>2, <2>1, <2>2, StepOf
<1>3. CASE Elsewhere
  BY <1>3 DEF Elsewhere
<1> QED
  BY <1>0, <1>1, <1>2, <1>3, OutcomeStep

(* Responses that move up, or are lost behind one another.                   *)
LEMMA AnswersKept ==
    ASSUME CInv, AnswersSound, [Next]_vars, ran' = ran, NEW n \in [Conn -> Nat],
           \A c \in Conn : \A i \in 1..Len(replies'[c]) :
               i + n[c] \in 1..Len(replies[c]) /\ replies'[c][i] = replies[c][i + n[c]],
           \A k \in Call : \/ value'[k] = value[k]
                           \/ /\ value'[k] \in Call \ Oneway
                              /\ ran[value'[k]] = 1
    PROVE  AnswersSound'
<1>1. ASSUME NEW c \in Conn, NEW i \in 1..Len(replies'[c]), NEW k, k = replies'[c][i].call
      PROVE  /\ k \notin Oneway /\ ran'[k] = 1
             /\ \A d \in Conn : \A j \in 1..Len(replies'[d]) :
                  replies'[d][j].call = k => c = d /\ i = j
  <2>1. i + n[c] \in 1..Len(replies[c]) /\ k = replies[c][i + n[c]].call
    BY <1>1
  <2>2. /\ k \notin Oneway /\ ran[k] = 1
        /\ \A d \in Conn : \A j \in 1..Len(replies[d]) :
             replies[d][j].call = k => c = d /\ i + n[c] = j
    BY <2>1 DEF AnswersSound
  <2>3. ASSUME NEW d \in Conn, NEW j \in 1..Len(replies'[d]), replies'[d][j].call = k
        PROVE  c = d /\ i = j
    <3>1. j + n[d] \in 1..Len(replies[d]) /\ replies[d][j + n[d]].call = k
      BY <2>3
    <3>2. c = d /\ i + n[c] = j + n[d]
      BY <2>2, <3>1
    <3>3. n[c] \in Nat
      OBVIOUS
    <3> QED
      BY <3>2, <3>3
  <2> QED
    BY <1>1, <2>2, <2>3
<1>2. ASSUME NEW k \in Call, value'[k] # NoCall
      PROVE  value'[k] \notin Oneway /\ ran'[value'[k]] = 1
  BY <1>2 DEF AnswersSound
<1>3. ASSUME NEW k \in Call, outcome'[k] = "answered" PROVE value'[k] # NoCall
  <2>1. value[k] # NoCall
    BY <1>3, AnsweredIs DEF AnswersSound
  <2> QED
    BY <2>1, Constants
<1>4. ASSUME NEW c \in Conn, NEW i \in 1..Len(replies'[c])
      PROVE  LET k == replies'[c][i].call IN
             /\ k \notin Oneway /\ ran'[k] = 1
             /\ \A d \in Conn : \A j \in 1..Len(replies'[d]) :
                  replies'[d][j].call = k => c = d /\ i = j
  BY <1>1, <1>4, SMTT(40)
<1> QED
  BY <1>2, <1>3, <1>4, ZenonT(40) DEF AnswersSound

(* A function that ran makes the only response to its call.                  *)
LEMMA ServeAnswers ==
    ASSUME CInv, RequestsSound, AnswersSound, NEW c \in Conn, Serve(c), [Next]_vars
    PROVE  AnswersSound'
<1>0. TypeOK /\ UNCHANGED <<value, outcome>>
  BY DEF CInv, Serve, threadVars
<1>1. PICK msg \in wire[c] :
        IF dest[c] = ObjectOf[msg.call]
        THEN /\ ran' = [ran EXCEPT ![msg.call] = @ + 1]
             /\ replies' = IF msg.call \in Oneway \/ stage[c] # "open" THEN replies
                           ELSE [replies EXCEPT ![c] = Append(@, msg)]
        ELSE UNCHANGED <<ran, replies>>
  BY DEF Serve
<1>2. msg.call \in Call /\ ran[msg.call] = 0
  BY <1>0, NetIs DEF RequestsSound
<1>3. /\ \A d \in Conn : \A i \in 1..Len(replies[d]) : replies[d][i].call # msg.call
      /\ \A k \in Call : value[k] # NoCall => value[k] \in Call /\ value[k] # msg.call
  BY <1>0, <1>2 DEF AnswersSound, TypeOK
<1>4. CASE UNCHANGED <<ran, replies>>
  BY <1>0, <1>4 DEF AnswersSound
<1>5. CASE ran' = [ran EXCEPT ![msg.call] = @ + 1]
  <2>1. ran'[msg.call] = 1 /\ \A k \in Call : k # msg.call => ran'[k] = ran[k]
    BY <1>0, <1>2, <1>5 DEF TypeOK
  <2>2. /\ \A d \in Conn : replies[d] \in Seq(Message) /\ Len(replies[d]) \in Nat
        /\ \A d \in Conn : \A i \in 1..Len(replies[d]) : replies[d][i].call \in Call
    BY <1>0, NetIs
  <2>3. ASSUME NEW k \in Call, value'[k] # NoCall
        PROVE  value'[k] \notin Oneway /\ ran'[value'[k]] = 1
    BY <1>0, <1>3, <2>1, <2>3 DEF AnswersSound
  <2>4. \A k \in Call : outcome'[k] = "answered" => value'[k] # NoCall
    BY <1>0 DEF AnswersSound
  <2>5. CASE replies' = replies
    BY <1>0, <1>3, <2>1, <2>2, <2>3, <2>4, <2>5 DEF AnswersSound
  <2>6. CASE msg.call \notin Oneway /\ replies' = [replies EXCEPT ![c] = Append(@, msg)]
    <3>1. /\ replies'[c] = Append(replies[c], msg)
          /\ \A d \in Conn \ {c} : replies'[d] = replies[d]
      BY <1>0, <2>6 DEF TypeOK
    <3>2. /\ \A i \in 1..Len(replies'[c]) :
               \/ i \in 1..Len(replies[c]) /\ replies'[c][i] = replies[c][i]
               \/ i = Len(replies[c]) + 1 /\ replies'[c][i] = msg
      BY <2>2, <3>1
    <3>3. ASSUME NEW d \in Conn, NEW i \in 1..Len(replies'[d])
          PROVE  \/ i \in 1..Len(replies[d]) /\ replies'[d][i] = replies[d][i]
                 \/ d = c /\ i = Len(replies[c]) + 1 /\ replies'[d][i] = msg
      BY <3>1, <3>2
    <3>4. ASSUME NEW d \in Conn, NEW i \in 1..Len(replies'[d]), NEW k, k = replies'[d][i].call
          PROVE  /\ k \notin Oneway /\ ran'[k] = 1
                 /\ \A e \in Conn : \A j \in 1..Len(replies'[e]) :
                      replies'[e][j].call = k => d = e /\ i = j
      <4>1. CASE i \in 1..Len(replies[d]) /\ replies'[d][i] = replies[d][i]
        <5>1. k \in Call /\ k # msg.call
          BY <1>3, <2>2, <3>4, <4>1
        <5>2. /\ k \notin Oneway /\ ran[k] = 1
              /\ \A e \in Conn : \A j \in 1..Len(replies[e]) :
                   replies[e][j].call = k => d = e /\ i = j
          BY <3>4, <4>1 DEF AnswersSound
        <5>3. \A e \in Conn : \A j \in 1..Len(replies'[e]) :
                   replies'[e][j].call = k => d = e /\ i = j
          BY <3>3, <5>1, <5>2
        <5> QED
          BY <1>0, <2>1, <5>1, <5>2, <5>3
      <4>2. CASE d = c /\ i = Len(replies[c]) + 1 /\ replies'[d][i] = msg
        <5>1. \A e \in Conn : \A j \in 1..Len(replies'[e]) :
                   replies'[e][j].call = msg.call => e = c /\ j = Len(replies[c]) + 1
          BY <1>3, <3>3
        <5> QED
          BY <1>0, <1>3, <2>1, <2>6, <3>4, <4>2, <5>1
      <4> QED
        BY <3>3, <4>1, <4>2
    <3> QED
      BY <2>3, <2>4, <3>4 DEF AnswersSound
  <2> QED
    BY <1>1, <1>5, <2>5, <2>6
<1> QED
  BY <1>1, <1>4, <1>5

(* What a promise is given is a response.                                    *)
LEMMA ReceiveAnswers ==
    ASSUME CInv, AnswersSound, NEW c \in Conn, Receive(c), [Next]_vars
    PROVE  AnswersSound'
<1>0. TypeOK /\ ran' = ran /\ replies[c] # <<>>
  BY DEF CInv, Receive
<1>1. PICK msg : msg = Head(replies[c])
  OBVIOUS
<1>2. /\ 1 \in 1..Len(replies[c]) /\ msg = replies[c][1]
      /\ replies' = [replies EXCEPT ![c] = Tail(replies[c])]
      /\ replies[c] \in Seq(Message)
  BY <1>0, <1>1, NetIs DEF Receive
<1>3. msg.call \in Call \ Oneway /\ ran[msg.call] = 1
  BY <1>0, <1>2, NetIs DEF AnswersSound
<1>4. value' = value \/ \E k : value' = [value EXCEPT ![k] = msg.call]
  BY <1>1 DEF Receive
<1>7. PICK n \in [Conn -> Nat] : n = [d \in Conn |-> IF d = c THEN 1 ELSE 0]
  OBVIOUS
<1>8. ASSUME NEW d \in Conn, NEW i \in 1..Len(replies'[d])
      PROVE  /\ i + n[d] \in 1..Len(replies[d]) /\ replies'[d][i] = replies[d][i + n[d]]
  <2>1. CASE d = c
    <3>1. replies'[c] = Tail(replies[c]) /\ n[c] = 1
      BY <1>0, <1>2, <1>7 DEF TypeOK
    <3>2. i + 1 \in 1..Len(replies[c]) /\ replies'[c][i] = replies[c][i + 1] /\ i + 1 # 1
      <4>1. PICK q \in Seq(Message) : q = replies[c] /\ q # <<>>
        BY <1>0, <1>2
      <4>2. i \in 1..Len(Tail(q))
        BY <1>8, <2>1, <3>1, <4>1
      <4>3. i + 1 \in 1..Len(q) /\ Tail(q)[i] = q[i + 1] /\ i + 1 # 1
        BY <4>1, <4>2
      <4> QED
        BY <3>1, <4>1, <4>3
    <3> QED
      BY <2>1, <3>1, <3>2
  <2>2. CASE d # c
    <3>1. replies'[d] = replies[d] /\ n[d] = 0
      BY <1>0, <1>2, <1>7, <2>2 DEF TypeOK
    <3> QED
      BY <1>8, <2>2, <3>1
  <2> QED
    BY <2>1, <2>2
<1>9. \A d \in Conn : \A i \in 1..Len(replies'[d]) :
          i + n[d] \in 1..Len(replies[d]) /\ replies'[d][i] = replies[d][i + n[d]]
  BY <1>8
<1>10. \A k \in Call : \/ value'[k] = value[k]
                       \/ value'[k] \in Call \ Oneway /\ ran[value'[k]] = 1
  BY <1>0, <1>3, <1>4 DEF TypeOK
<1> QED
  BY <1>0, <1>9, <1>10, AnswersKept

LEMMA AnswersStep ==
    ASSUME CInv, RequestsSound, AnswersSound, [Next]_vars
    PROVE  AnswersSound'
<1>0. TypeOK
  BY DEF CInv
<1>z. PICK n \in [Conn -> Nat] : n = [d \in Conn |-> 0]
  OBVIOUS
<1>1. CASE UNCHANGED <<replies, ran, value>>
  <2>1. \A c \in Conn : \A i \in 1..Len(replies'[c]) :
           i + n[c] \in 1..Len(replies[c]) /\ replies'[c][i] = replies[c][i + n[c]]
    BY <1>1, <1>z
  <2> QED
    BY <1>1, <2>1, AnswersKept
<1>2. ASSUME NEW x \in Closer, MarkClosed(x) PROVE AnswersSound'
  <2>0. PICK c \in Conn : c = closing[x]
    BY <1>2 DEF MarkClosed, CInv, ClosersSound, CloserSound, Added
  <2>1. UNCHANGED <<ran, value>>
    BY <1>2 DEF MarkClosed
  <2>2. PICK m \in 0..Len(replies[c]) :
          replies' = [replies EXCEPT ![c] = SubSeq(replies[c], 1, m)]
    BY <1>2, <2>0 DEF MarkClosed
  <2>3. /\ replies'[c] = SubSeq(replies[c], 1, m) /\ replies[c] \in Seq(Message)
        /\ \A d \in Conn \ {c} : replies'[d] = replies[d]
    BY <1>0, <2>2 DEF TypeOK
  <2>4. \A i \in 1..Len(replies'[c]) : i \in 1..Len(replies[c]) /\ replies'[c][i] = replies[c][i]
    BY <2>3
  <2>5. \A d \in Conn : \A i \in 1..Len(replies'[d]) :
           i + n[d] \in 1..Len(replies[d]) /\ replies'[d][i] = replies[d][i + n[d]]
    BY <1>z, <2>3, <2>4
  <2> QED
    BY <2>1, <2>5, AnswersKept
<1>3. ASSUME NEW t \in Thread, Begin(t) \/ ThreadStep(t), ~CloseStep(t)
      PROVE  UNCHANGED <<replies, ran, value>>
  BY <1>3 DEF Begin, ThreadStep, Lookup, Build, BuildFails, CheckUid, LockUid, WokenForUid,
              UidTimeout, Link, FindSurplus, PopSeq, Register, SendRequest, TakeResult,
              WaitTimeout, wireVars
<1>4. ASSUME \/ UNCHANGED vars \/ AddUid \/ AddEntry \/ SendTask
             \/ \E x \in Closer : EraseEntry(x) \/ ReturnUid(x)
             \/ \E u \in Uid : LoseConnection(u)
      PROVE  UNCHANGED <<replies, ran, value>>
  BY <1>4 DEF vars, AddUid, AddEntry, SendTask, EraseEntry, ReturnUid, LoseConnection,
              threadVars, wireVars
<1> QED
  BY <1>1, <1>2, <1>3, <1>4, ServeAnswers, ReceiveAnswers, Constants
     DEF Next, NetStep, CloseStep

-----------------------------------------------------------------------------
(* Calls that are registered, and calls whose promise was given a response.  *)
LEMMA PlainPlace ==
    ASSUME TypeOK, NEW t \in Thread,
           \/ Begin(t) \/ Lookup(t) \/ Build(t) \/ BuildFails(t) \/ CheckUid(t) \/ LockUid(t)
           \/ WokenForUid(t) \/ UidTimeout(t) \/ Link(t) \/ FindSurplus(t) \/ CloseStep(t)
           \/ TakeResult(t) \/ WaitTimeout(t)
    PROVE  pc'[t] \notin {"send", "wait"}
<1>1. ASSUME NEW place, Goto(t, place), place \notin {"send", "wait"}
      PROVE  pc'[t] \notin {"send", "wait"}
  BY <1>1, Constants DEF Goto, TypeOK
<1>2. CASE \/ Begin(t) \/ Lookup(t) \/ Build(t) \/ CheckUid(t) \/ WokenForUid(t) \/ Link(t)
           \/ FindSurplus(t)
  BY <1>1, <1>2 DEF Begin, Lookup, Build, CheckUid, WokenForUid, Link, FindSurplus
<1>3. CASE BuildFails(t) \/ LockUid(t) \/ UidTimeout(t) \/ TakeResult(t) \/ WaitTimeout(t)
  BY <1>1, <1>3 DEF BuildFails, LockUid, UidTimeout, TakeResult, WaitTimeout, Finish
<1>4. CASE CloseStep(t)
  BY <1>1, <1>4 DEF CloseStep, MarkClosed, EraseEntry, ReturnUid
<1> QED
  BY <1>2, <1>3, <1>4

LEMMA SendsFrom ==
    ASSUME NEW t \in Thread, ThreadStep(t), pc[t] = "send"
    PROVE  SendRequest(t)
BY DEF ThreadStep, Lookup, Build, BuildFails, CheckUid, LockUid, WokenForUid, UidTimeout, Link,
       FindSurplus, CloseStep, MarkClosed, EraseEntry, ReturnUid, PopSeq, Register, TakeResult,
       WaitTimeout

LEMMA EnteredKept ==
    ASSUME CInv, [Next]_vars, NEW k, Entered(k)
    PROVE  Entered(k)'
<1>0. TypeOK /\ BusySound /\ k \in Call \ Oneway
  BY DEF CInv, Entered
<1>1. CASE Elsewhere
  BY <1>1 DEF Elsewhere, Entered
<1>2. ASSUME NEW t \in Thread, Begin(t) PROVE Entered(k)'
  <2>1. PICK l \in Call : /\ pc[t] = "idle" /\ outcome[l] = "idle"
                          /\ outcome' = [outcome EXCEPT ![l] = "pending"]
    BY <1>2 DEF Begin
  <2>2. k # l
    BY <2>1 DEF Entered
  <2>3. outcome'[k] = outcome[k]
    BY <1>0, <2>1, <2>2 DEF TypeOK
  <2>4. \A u \in Thread : pc[u] \in {"send", "wait"} => pc'[u] = pc[u] /\ doing'[u] = doing[u]
    BY <1>0, <1>2, <2>1, OthersSame
  <2> QED
    BY <2>3, <2>4 DEF Entered
<1>3. ASSUME NEW t \in Thread, ThreadStep(t) PROVE Entered(k)'
  <2>1. \A u \in Thread \ {t} : pc'[u] = pc[u] /\ doing'[u] = doing[u]
    BY <1>0, <1>3, OthersSame
  <2>2. pc[t] # "idle" /\ outcome[doing[t]] = "pending"
        /\ \A u \in Thread \ {t} : doing[u] # doing[t]
    BY <1>0, <1>3, StepOf DEF BusySound
  <2>3. CASE outcome' = outcome /\ pc[t] # "wait"
    <3>1. CASE pc[t] = "send" /\ doing[t] = k
      <4>1. SendRequest(t) /\ doing[t] \notin Oneway
        BY <1>0, <1>3, <3>1, SendsFrom
      <4>2. Goto(t, "wait") /\ UNCHANGED doing
        BY <4>1 DEF SendRequest
      <4>3. pc'[t] = "wait"
        BY <1>0, <4>2, Constants DEF Goto, TypeOK
      <4> QED
        BY <1>0, <2>2, <2>3, <3>1, <4>2, <4>3 DEF Entered
    <3>2. CASE ~(pc[t] = "send" /\ doing[t] = k)
      BY <2>1, <2>3, <3>2 DEF Entered
    <3> QED
      BY <3>1, <3>2
  <2>4. ASSUME NEW result \in {"answered", "timeout", "refused", "returned"},
               Finish(t, result), pc[t] = "wait" => result \in {"answered", "timeout"},
               result = "refused" => pc[t] # "send",
               result = "returned" => doing[t] \in Oneway,
               result \in {"timeout", "answered"} => pc[t] # "send"
        PROVE  Entered(k)'
    <3>1. \A l \in Call : outcome'[l] = IF l = doing[t] THEN result ELSE outcome[l]
      BY <1>0, <2>4, FinishEffect
    <3>2. CASE k = doing[t]
      <4>1. pc[t] \in {"send", "wait"}
        BY <2>2, <3>2 DEF Entered
      <4>2. pc[t] = "wait"
        BY <1>0, <2>4, <3>2, <4>1
      <4>3. outcome'[k] = result /\ result \in {"answered", "timeout"}
        BY <1>0, <2>4, <3>1, <3>2, <4>2
      <4> QED
        BY <1>0, <4>3 DEF Entered
    <3>3. CASE k # doing[t]
      <4>1. outcome'[k] = outcome[k]
        BY <1>0, <3>1, <3>3
      <4> QED
        BY <2>1, <3>3, <4>1 DEF Entered
    <3> QED
      BY <3>2, <3>3
  <2> QED
    BY <1>3, <2>3, <2>4, StepOf
<1> QED
  BY <1>0, <1>1, <1>2, <1>3, OutcomeStep

(* Only a call that expects a response waits for one.                        *)
LEMMA WaitsStep ==
    ASSUME CInv, RegisteredSound, [Next]_vars
    PROVE  \A t \in Thread : pc'[t] = "wait" => doing'[t] \notin Oneway
<1>0. TypeOK /\ \A t \in Thread : pc[t] = "wait" => doing[t] \notin Oneway
  BY DEF CInv, RegisteredSound
<1>1. CASE Elsewhere
  BY <1>0, <1>1 DEF Elsewhere
<1>2. ASSUME NEW t \in Thread, Begin(t) \/ ThreadStep(t),
             pc'[t] = "wait" => doing'[t] \notin Oneway
      PROVE  \A u \in Thread : pc'[u] = "wait" => doing'[u] \notin Oneway
  <2>1. \A u \in Thread \ {t} : pc'[u] = pc[u] /\ doing'[u] = doing[u]
    BY <1>0, <1>2, OthersSame
  <2> QED
    BY <1>0, <1>2, <2>1
<1>3. ASSUME NEW t \in Thread, SendRequest(t)
      PROVE  pc'[t] = "wait" => doing'[t] \notin Oneway
  <2>1. CASE doing[t] \in Oneway
    BY <1>0, <1>3, <2>1, FinishEffect DEF SendRequest
  <2>2. CASE doing[t] \notin Oneway
    BY <1>3, <2>2 DEF SendRequest
  <2> QED
    BY <2>1, <2>2
<1>4. ASSUME NEW t \in Thread, PopSeq(t) \/ Register(t)
      PROVE  pc'[t] # "wait"
  BY <1>0, <1>4, Constants DEF PopSeq, Register, Goto, TypeOK
<1>5. ASSUME NEW t \in Thread, Begin(t) \/ ThreadStep(t)
      PROVE  pc'[t] = "wait" => doing'[t] \notin Oneway
  BY <1>0, <1>3, <1>4, <1>5, PlainPlace DEF ThreadStep
<1> QED
  BY <1>0, <1>1, <1>2, <1>5, OutcomeStep

LEMMA RegisterRegistered ==
    ASSUME CInv, RegisteredSound, [Next]_vars, NEW t \in Thread, Register(t)
    PROVE  RegisteredSound'
<1>0. TypeOK /\ BusySound /\ SeqsSound
  BY DEF CInv
<1>1. PICK c \in Conn, s \in SeqNum, k \in Call :
        /\ c = conn[t] /\ s = num[t] /\ k = doing[t] /\ k \notin Oneway
        /\ outcome[k] = "pending" /\ k # NoCall
        /\ \A u \in Thread \ {t} : doing[u] # k
  BY <1>0, Constants DEF Register, BusySound, SeqsSound
<1>2. /\ pc[t] = "register" /\ pc' = [pc EXCEPT ![t] = "send"]
      /\ waiting' = [waiting EXCEPT ![c][s] = k]
      /\ UNCHANGED <<doing, outcome, value>>
  BY <1>1 DEF Register, Goto
<1>3. ~Entered(k)
  BY <1>1, <1>2 DEF Entered
<1>4. value[k] = NoCall /\ \A d \in Conn, r \in SeqNum : waiting[d][r] # k
  BY <1>1, <1>3 DEF RegisteredSound
<1>5. Entered(k)'
  <2>1. pc'[t] = "send"
    BY <1>0, <1>2, Constants DEF TypeOK
  <2> QED
    BY <1>1, <1>2, <2>1 DEF Entered
<1>6. \A d \in Conn, r \in SeqNum :
          waiting'[d][r] = IF d = c /\ r = s THEN k ELSE waiting[d][r]
  BY <1>0, <1>2 DEF TypeOK
<1>7. ASSUME NEW d \in Conn, NEW r \in SeqNum, NEW l \in Call, waiting'[d][r] = l
      PROVE  /\ Entered(l)' /\ value'[l] = NoCall
             /\ \A e \in Conn, q \in SeqNum : waiting'[e][q] = l => e = d /\ q = r
  <2>1. CASE d = c /\ r = s
    BY <1>2, <1>4, <1>5, <1>6, <1>7, <2>1
  <2>2. CASE ~(d = c /\ r = s)
    <3>1. waiting[d][r] = l /\ l # k
      BY <1>4, <1>6, <1>7, <2>2
    <3>2. /\ Entered(l) /\ value[l] = NoCall
          /\ \A e \in Conn, q \in SeqNum : waiting[e][q] = l => e = d /\ q = r
      BY <3>1 DEF RegisteredSound
    <3>3. Entered(l)'
      BY <3>2, EnteredKept
    <3> QED
      BY <1>2, <1>6, <3>1, <3>2, <3>3
  <2> QED
    BY <2>1, <2>2
<1>8. ASSUME NEW l \in Call, value'[l] # NoCall PROVE Entered(l)'
  BY <1>2, <1>8, EnteredKept DEF RegisteredSound
<1> QED
  BY <1>7, <1>8, WaitsStep DEF RegisteredSound

LEMMA ReceiveRegistered ==
    ASSUME CInv, RegisteredSound, [Next]_vars, NEW c \in Conn, Receive(c)
    PROVE  RegisteredSound'
<1>0. TypeOK
  BY DEF CInv
<1>1. PICK s \in SeqNum, m \in Call :
        /\ s = Head(replies[c]).seq /\ m = Head(replies[c]).call
        /\ \/ UNCHANGED <<value, waiting>>
           \/ /\ waiting[c][s] # NoCall
              /\ value' = [value EXCEPT ![waiting[c][s]] = m]
              /\ waiting' = [waiting EXCEPT ![c][s] = NoCall]
  <2>1. Head(replies[c]) \in Message
    BY <1>0, NetIs DEF Receive
  <2> QED
    BY <2>1 DEF Receive, Unregistered, Message
<1>2. CASE UNCHANGED <<value, waiting>>
  BY <1>2, EnteredKept, WaitsStep DEF RegisteredSound
<1>3. CASE /\ waiting[c][s] # NoCall
           /\ value' = [value EXCEPT ![waiting[c][s]] = m]
           /\ waiting' = [waiting EXCEPT ![c][s] = NoCall]
  <2>1. PICK k \in Call :
          /\ k = waiting[c][s] /\ Entered(k)
          /\ \A d \in Conn, r \in SeqNum : waiting[d][r] = k => d = c /\ r = s
    <3>1. waiting[c][s] \in Call
      BY <1>0, <1>3 DEF TypeOK
    <3> QED
      BY <3>1 DEF RegisteredSound
  <2>2. \A d \in Conn, r \in SeqNum :
            waiting'[d][r] = IF d = c /\ r = s THEN NoCall ELSE waiting[d][r]
    BY <1>0, <1>3 DEF TypeOK
  <2>3. \A l \in Call : l # k => value'[l] = value[l]
    BY <1>0, <1>3, <2>1 DEF TypeOK
  <2>4. ASSUME NEW d \in Conn, NEW r \in SeqNum, NEW l \in Call, waiting'[d][r] = l
        PROVE  /\ Entered(l)' /\ value'[l] = NoCall
               /\ \A e \in Conn, q \in SeqNum : waiting'[e][q] = l => e = d /\ q = r
    <3>1. ~(d = c /\ r = s) /\ waiting[d][r] = l
      BY <2>2, <2>4, Constants
    <3>2. l # k
      BY <2>1, <3>1
    <3>3. /\ Entered(l) /\ value[l] = NoCall
          /\ \A e \in Conn, q \in SeqNum : waiting[e][q] = l => e = d /\ q = r
      BY <3>1 DEF RegisteredSound
    <3>4. Entered(l)' /\ value'[l] = NoCall
      BY <2>3, <3>2, <3>3, EnteredKept
    <3>5. \A e \in Conn, q \in SeqNum : waiting'[e][q] = l => e = d /\ q = r
      BY <2>2, <3>3, Constants
    <3> QED
      BY <3>4, <3>5
  <2>5. ASSUME NEW l \in Call, value'[l] # NoCall PROVE Entered(l)'
    <3>1. Entered(l)
      BY <2>1, <2>3, <2>5 DEF RegisteredSound
    <3> QED
      BY <3>1, EnteredKept
  <2> QED
    BY <2>4, <2>5, WaitsStep DEF RegisteredSound
<1> QED
  BY <1>1, <1>2, <1>3

LEMMA RegisteredStep ==
    ASSUME CInv, RegisteredSound, [Next]_vars
    PROVE  RegisteredSound'
<1>1. CASE UNCHANGED <<value, waiting>>
  BY <1>1, EnteredKept, WaitsStep DEF RegisteredSound
<1>2. ASSUME NEW t \in Thread, Begin(t) \/ ThreadStep(t), ~Register(t)
      PROVE  UNCHANGED <<value, waiting>>
  BY <1>2 DEF Begin, ThreadStep, Lookup, Build, BuildFails, CheckUid, LockUid, WokenForUid,
       UidTimeout, Link, FindSurplus, CloseStep, MarkClosed, EraseEntry, ReturnUid, PopSeq,
       SendRequest, TakeResult, WaitTimeout, connVars
<1>3. ASSUME \/ UNCHANGED vars \/ AddUid \/ AddEntry \/ SendTask \/ CloseStep(Net)
             \/ \E u \in Uid : LoseConnection(u)
             \/ \E c \in Conn : Serve(c)
      PROVE  UNCHANGED <<value, waiting>>
  BY <1>3 DEF vars, AddUid, AddEntry, SendTask, CloseStep, MarkClosed, EraseEntry, ReturnUid,
       LoseConnection, Serve, threadVars, connVars
<1> QED
  BY <1>1, <1>2, <1>3, RegisterRegistered, ReceiveRegistered DEF Next, NetStep

-----------------------------------------------------------------------------
(* Which calls stay registered.                                              *)
LEMMA RegisterKeeps ==
    ASSUME CInv, NEW t \in Thread, Register(t),
           NEW c \in Conn, NEW s \in SeqNum, NEW k \in Call,
           Awaited(c, [seq |-> s, call |-> k])
    PROVE  Awaited(c, [seq |-> s, call |-> k])'
<1>0. TypeOK /\ BusySound /\ SeqsSound
  BY DEF CInv
<1>1. /\ pc[t] = "register" /\ conn[t] \in Conn /\ num[t] \in SeqNum /\ doing[t] \in Call
      /\ waiting' = [waiting EXCEPT ![conn[t]][num[t]] = doing[t]]
  BY <1>0 DEF Register, BusySound
<1>2. t \in Holding(conn[t], num[t])
  BY <1>1 DEF Holding
<1>3. num[t] \notin Registered(conn[t])
  BY <1>0, <1>1, <1>2 DEF SeqsSound, Held
<1>4. waiting[conn[t]][num[t]] = NoCall
  BY <1>1, <1>3 DEF Registered
<1>5. CASE k \in Oneway
  BY <1>5 DEF Awaited
<1>6. CASE k \notin Oneway
  <2>1. waiting[c][s] = k
    BY <1>6 DEF Awaited
  <2>2. ~(c = conn[t] /\ s = num[t])
    BY <1>4, <2>1, Constants
  <2>3. waiting'[c][s] = waiting[c][s]
    BY <1>0, <1>1, <2>2 DEF TypeOK
  <2> QED
    BY <2>1, <2>3 DEF Awaited
<1> QED
  BY <1>5, <1>6

(* The response that comes is to the call that is registered.                *)
LEMMA ReceiveKeeps ==
    ASSUME CInv, AnswersSound, MessagesSound, NEW b \in Conn, Receive(b)
    PROVE  \E msg \in Message :
             /\ 1 \in 1..Len(replies[b]) /\ msg = replies[b][1]
             /\ msg.call \in Call /\ ran[msg.call] = 1
             /\ \A d \in Conn : \A j \in 1..Len(replies[d]) :
                  replies[d][j].call = msg.call => d = b /\ j = 1
             /\ replies' = [replies EXCEPT ![b] = Tail(replies[b])]
             /\ \A c \in Conn, s \in SeqNum, k \in Call :
                  k # msg.call /\ Awaited(c, [seq |-> s, call |-> k])
                      => Awaited(c, [seq |-> s, call |-> k])'
<1>0. TypeOK
  BY DEF CInv
<1>1. PICK msg : msg = Head(replies[b])
  OBVIOUS
<1>2. /\ 1 \in 1..Len(replies[b]) /\ msg = replies[b][1] /\ msg \in Message
      /\ replies' = [replies EXCEPT ![b] = Tail(replies[b])]
  BY <1>0, <1>1, NetIs DEF Receive
<1>3. /\ msg.call \in Call /\ msg.seq \in SeqNum /\ msg.call \notin Oneway
      /\ ran[msg.call] = 1
      /\ \A d \in Conn : \A j \in 1..Len(replies[d]) :
           replies[d][j].call = msg.call => d = b /\ j = 1
  BY <1>0, <1>2, NetIs DEF AnswersSound
<1>4. waiting[b][msg.seq] = msg.call
  BY <1>2, <1>3 DEF MessagesSound, Awaited
<1>5. waiting' = [waiting EXCEPT ![b][msg.seq] = NoCall]
  BY <1>1, <1>3, <1>4, Constants DEF Receive, Unregistered
<1>6. ASSUME NEW c \in Conn, NEW s \in SeqNum, NEW k \in Call,
             k # msg.call, Awaited(c, [seq |-> s, call |-> k])
      PROVE  Awaited(c, [seq |-> s, call |-> k])'
  <2>1. CASE k \in Oneway
    BY <2>1 DEF Awaited
  <2>2. CASE waiting[c][s] = k
    <3>1. ~(c = b /\ s = msg.seq)
      BY <1>4, <1>6, <2>2
    <3>2. waiting'[c][s] = waiting[c][s]
      BY <1>0, <1>3, <1>5, <3>1 DEF TypeOK
    <3> QED
      BY <2>2, <3>2 DEF Awaited
  <2> QED
    BY <1>6, <2>1, <2>2 DEF Awaited
<1> QED
  BY <1>2, <1>3, <1>6

LEMMA SendersStep ==
    ASSUME CInv, RequestsSound, AnswersSound, SendersSound, MessagesSound, [Next]_vars
    PROVE  SendersSound'
<1>0. TypeOK /\ BusySound
  BY DEF CInv
<1>s. ASSUME NEW u \in Thread, pc[u] = "send"
      PROVE  conn[u] \in Conn /\ num[u] \in SeqNum /\ doing[u] \in Call
  BY <1>0, <1>s DEF BusySound
<1>1. ASSUME NEW t \in Thread, Begin(t) \/ ThreadStep(t), waiting' = waiting,
             pc'[t] = "send" => doing'[t] \in Oneway
      PROVE  SendersSound'
  <2>1. \A u \in Thread \ {t} : /\ pc'[u] = pc[u] /\ doing'[u] = doing[u]
                                /\ conn'[u] = conn[u] /\ num'[u] = num[u]
    BY <1>0, <1>1, OthersSame
  <2> QED
    BY <1>1, <2>1 DEF SendersSound, Awaited
<1>2. ASSUME NEW t \in Thread,
             \/ Begin(t) \/ Lookup(t) \/ Build(t) \/ BuildFails(t) \/ CheckUid(t) \/ LockUid(t)
             \/ WokenForUid(t) \/ UidTimeout(t) \/ Link(t) \/ FindSurplus(t) \/ CloseStep(t)
             \/ TakeResult(t) \/ WaitTimeout(t)
      PROVE  SendersSound'
  <2>1. waiting' = waiting
    BY <1>2 DEF Begin, Lookup, Build, BuildFails, CheckUid, LockUid, WokenForUid, UidTimeout,
                Link, FindSurplus, CloseStep, MarkClosed, EraseEntry, ReturnUid, TakeResult,
                WaitTimeout, connVars
  <2>2. pc'[t] \notin {"send", "wait"}
    BY <1>0, <1>2, PlainPlace
  <2> QED
    BY <1>1, <1>2, <2>1, <2>2 DEF ThreadStep
<1>3. ASSUME NEW t \in Thread, PopSeq(t) PROVE SendersSound'
  <2>1. /\ UNCHANGED <<waiting, doing>>
        /\ pc'[t] \in {"send", "register"} /\ (pc'[t] = "send" => doing[t] \in Oneway)
    BY <1>0, <1>3, Constants DEF PopSeq, Goto, TypeOK
  <2> QED
    BY <1>1, <1>3, <2>1 DEF ThreadStep
<1>4. ASSUME NEW t \in Thread, SendRequest(t) PROVE SendersSound'
  <2>1. waiting' = waiting /\ pc'[t] # "send"
    BY <1>0, <1>4, Constants DEF SendRequest, Finish, Goto, TypeOK, connVars
  <2> QED
    BY <1>1, <1>4, <2>1 DEF ThreadStep
<1>5. ASSUME NEW t \in Thread, Register(t) PROVE SendersSound'
  <2>1. /\ pc[t] = "register" /\ conn[t] \in Conn /\ num[t] \in SeqNum
        /\ UNCHANGED <<doing, conn, num>>
        /\ waiting' = [waiting EXCEPT ![conn[t]][num[t]] = doing[t]]
        /\ pc' = [pc EXCEPT ![t] = "send"]
    BY <1>0, <1>5 DEF Register, BusySound, Goto
  <2>2. pc'[t] = "send" /\ waiting'[conn[t]][num[t]] = doing[t]
    BY <1>0, <2>1, Constants DEF TypeOK
  <2>3. \A u \in Thread \ {t} : pc'[u] = pc[u]
    BY <1>0, <2>1, Constants DEF TypeOK
  <2>4. ASSUME NEW u \in Thread, pc'[u] = "send"
        PROVE  Awaited(conn[u], [seq |-> num[u], call |-> doing[u]])'
    <3>1. CASE u = t
      BY <2>1, <2>2, <3>1 DEF Awaited
    <3>2. CASE u # t
      <4>1. pc[u] = "send"
        BY <2>3, <2>4, <3>2
      <4>2. PICK c \in Conn, s \in SeqNum, k \in Call : c = conn[u] /\ s = num[u] /\ k = doing[u]
        BY <1>s, <4>1
      <4>3. Awaited(c, [seq |-> s, call |-> k])
        BY <4>1, <4>2 DEF SendersSound
      <4>4. Awaited(c, [seq |-> s, call |-> k])'
        BY <1>5, <4>3, RegisterKeeps
      <4> QED
        BY <2>1, <4>2, <4>4 DEF Awaited
    <3> QED
      BY <3>1, <3>2
  <2> QED
    BY <2>4 DEF SendersSound
<1>6. ASSUME NEW b \in Conn, Receive(b) PROVE SendersSound'
  <2>1. UNCHANGED <<pc, doing, conn, num>>
    BY <1>6 DEF Receive
  <2>2. PICK msg \in Message :
          /\ ran[msg.call] = 1 /\ msg.call \in Call
          /\ \A c \in Conn, s \in SeqNum, k \in Call :
               k # msg.call /\ Awaited(c, [seq |-> s, call |-> k])
                   => Awaited(c, [seq |-> s, call |-> k])'
    BY <1>6, ReceiveKeeps
  <2>3. ASSUME NEW u \in Thread, pc'[u] = "send"
        PROVE  Awaited(conn[u], [seq |-> num[u], call |-> doing[u]])'
    <3>1. PICK c \in Conn, s \in SeqNum, k \in Call : c = conn[u] /\ s = num[u] /\ k = doing[u]
      BY <1>s, <2>1, <2>3
    <3>2. Awaited(c, [seq |-> s, call |-> k])
      BY <2>1, <2>3, <3>1 DEF SendersSound
    <3>3. k # msg.call
      <4>1. ~Sent(k)
        BY <2>1, <2>3, <3>1, NotSent
      <4>2. Sent(msg.call)
        BY <2>2 DEF RequestsSound
      <4> QED
        BY <4>1, <4>2
    <3>4. Awaited(c, [seq |-> s, call |-> k])'
      BY <2>2, <3>2, <3>3
    <3> QED
      BY <2>1, <3>1, <3>4 DEF Awaited
  <2> QED
    BY <2>1, <2>3 DEF SendersSound
<1>7. ASSUME Elsewhere, waiting' = waiting
      PROVE  SendersSound'
  BY <1>7 DEF Elsewhere, SendersSound, Awaited
<1>8. ASSUME \/ UNCHANGED vars \/ AddUid \/ AddEntry \/ SendTask \/ CloseStep(Net)
             \/ \E u \in Uid : LoseConnection(u)
             \/ \E c \in Conn : Serve(c)
      PROVE  Elsewhere /\ waiting' = waiting
  <2>1. waiting' = waiting
    BY <1>8 DEF vars, AddUid, AddEntry, SendTask, CloseStep, MarkClosed, EraseEntry,
                ReturnUid, LoseConnection, Serve, connVars
  <2> QED
    BY <1>0, <1>8, <2>1, OnlyElsewhere DEF NetStep
<1> QED
  BY <1>2, <1>3, <1>4, <1>5, <1>6, <1>7, <1>8 DEF Next, ThreadStep, NetStep

-----------------------------------------------------------------------------
(* Messages that were awaited and are still, as long as their calls are      *)
(* registered.                                                               *)
LEMMA OnceTwice ==
    ASSUME CInv, [Next]_vars, UidTwice
    PROVE  UidTwice'
BY UidKept DEF UidTwice

LEMMA MessagesKept ==
    ASSUME CInv, [Next]_vars, NEW gone,
           \A c \in Conn, s \in SeqNum, k \in Call :
               k # gone /\ Awaited(c, [seq |-> s, call |-> k])
                   => Awaited(c, [seq |-> s, call |-> k])',
           \A i \in 1..Len(respQ') : IsNet(i)' =>
               /\ respQ'[i].msg \in Message /\ respQ'[i].msg.call # gone
               /\ respQ'[i].uid \in Uid =>
                    \E c \in Conn : uid[c] = respQ'[i].uid /\ Awaited(c, respQ'[i].msg),
           \A c \in Conn : \A msg \in wire'[c] :
               msg \in Message /\ msg.call # gone /\ Awaited(c, msg),
           \A c \in Conn : \A i \in 1..Len(replies'[c]) :
               /\ replies'[c][i] \in Message /\ replies'[c][i].call # gone
               /\ Awaited(c, replies'[c][i])
    PROVE  MessagesSound'
<1>1. ASSUME NEW c \in Conn, NEW msg \in Message, msg.call # gone, Awaited(c, msg)
      PROVE  msg.call \in Oneway \/ waiting'[c][msg.seq] = msg.call
  <2>1. PICK s \in SeqNum, k \in Call : s = msg.seq /\ k = msg.call
    BY DEF Message
  <2>2. Awaited(c, [seq |-> s, call |-> k])
    BY <1>1, <2>1 DEF Awaited
  <2>3. Awaited(c, [seq |-> s, call |-> k])'
    BY <1>1, <2>1, <2>2
  <2> QED
    BY <2>1, <2>3 DEF Awaited
<1>2. ASSUME NEW i \in 1..Len(respQ'), IsNet(i)', respQ'[i].uid \in Uid
      PROVE  \E c \in Conn : uid'[c] = respQ'[i].uid /\ Awaited(c, respQ[i].msg)'
  <2>1. PICK c \in Conn : uid[c] = respQ'[i].uid /\ Awaited(c, respQ'[i].msg)
    BY <1>2
  <2>2. uid[c] # NoUid
    BY <1>2, <2>1, Constants
  <2>3. uid'[c] = respQ'[i].uid
    BY <2>1, <2>2, UidKept
  <2> QED
    BY <1>1, <1>2, <2>1, <2>3 DEF Awaited
<1>3. \A c \in Conn : \A msg \in wire'[c] :
          msg.call \in Oneway \/ waiting'[c][msg.seq] = msg.call
  BY <1>1
<1>4. \A c \in Conn : \A i \in 1..Len(replies'[c]) : Awaited(c, replies[c][i])'
  BY <1>1 DEF Awaited
<1> QED
  BY <1>2, <1>3, <1>4 DEF MessagesSound, Awaited

(* What is known of the messages that are on their way.                      *)
LEMMA OnTheWay ==
    ASSUME TypeOK, MessagesSound
    PROVE  /\ \A i \in 1..Len(respQ) : IsNet(i) =>
                /\ respQ[i].msg \in Message
                /\ respQ[i].uid \in Uid =>
                     \E c \in Conn : uid[c] = respQ[i].uid /\ Awaited(c, respQ[i].msg)
           /\ \A c \in Conn : \A msg \in wire[c] : msg \in Message /\ Awaited(c, msg)
           /\ \A c \in Conn : \A i \in 1..Len(replies[c]) :
                replies[c][i] \in Message /\ Awaited(c, replies[c][i])
<1>1. \A i \in 1..Len(respQ) : IsNet(i) => respQ[i].msg \in Message
  BY NetIs DEF NetTask
<1>2. \A c \in Conn : wire[c] \subseteq Message /\ replies[c] \in Seq(Message)
  BY DEF TypeOK
<1>3. \A c \in Conn : \A i \in 1..Len(replies[c]) : replies[c][i] \in Message
  BY <1>2
<1> QED
  BY <1>1, <1>2, <1>3 DEF MessagesSound

(* The call of a message is not NoCall.                                      *)
LEMMA IsCall == \A msg \in Message : msg.call # NoCall
BY Constants DEF Message

(* No message leaves where it is but up the queue, and calls stay            *)
(* registered.                                                               *)
LEMMA MessagesMoved ==
    ASSUME CInv, MessagesSound, [Next]_vars,
           \/ waiting' = waiting
           \/ \E t \in Thread : Register(t),
           \A i \in 1..Len(respQ') : IsNet(i)' =>
               \/ \E j \in 1..Len(respQ) : IsNet(j) /\ respQ'[i] = respQ[j]
               \/ /\ respQ'[i].msg \in Message
                  /\ \E c \in Conn : uid[c] = respQ'[i].uid /\ Awaited(c, respQ'[i].msg),
           \A c \in Conn : \A msg \in wire'[c] :
               msg \in wire[c] \/ (msg \in Message /\ Awaited(c, msg)),
           \A c \in Conn : \A i \in 1..Len(replies'[c]) :
               \/ \E j \in 1..Len(replies[c]) : replies'[c][i] = replies[c][j]
               \/ replies'[c][i] \in Message /\ Awaited(c, replies'[c][i])
    PROVE  MessagesSound'
<1>0. TypeOK
  BY DEF CInv
<1>1. ASSUME NEW c \in Conn, NEW s \in SeqNum, NEW k \in Call, k # NoCall,
             Awaited(c, [seq |-> s, call |-> k])
      PROVE  Awaited(c, [seq |-> s, call |-> k])'
  <2>1. CASE waiting' = waiting
    BY <1>1, <2>1 DEF Awaited
  <2>2. CASE \E t \in Thread : Register(t)
    BY <1>1, <2>2, RegisterKeeps
  <2> QED
    BY <2>1, <2>2
<1>2. ASSUME NEW i \in 1..Len(respQ'), IsNet(i)'
      PROVE  /\ respQ'[i].msg \in Message /\ respQ'[i].msg.call # NoCall
             /\ respQ'[i].uid \in Uid =>
                  \E c \in Conn : uid[c] = respQ'[i].uid /\ Awaited(c, respQ'[i].msg)
  <2>1. ASSUME NEW j \in 1..Len(respQ), IsNet(j), respQ'[i] = respQ[j]
        PROVE  /\ respQ'[i].msg \in Message
               /\ respQ'[i].uid \in Uid =>
                    \E c \in Conn : uid[c] = respQ'[i].uid /\ Awaited(c, respQ'[i].msg)
    BY <1>0, <2>1, OnTheWay
  <2>2. /\ respQ'[i].msg \in Message
        /\ respQ'[i].uid \in Uid =>
             \E c \in Conn : uid[c] = respQ'[i].uid /\ Awaited(c, respQ'[i].msg)
    BY <1>2, <2>1
  <2> QED
    BY <2>2, IsCall
<1>3. \A c \in Conn : \A msg \in wire'[c] :
          msg \in Message /\ msg.call # NoCall /\ Awaited(c, msg)
  BY <1>0, OnTheWay, IsCall
<1>4. \A c \in Conn : \A i \in 1..Len(replies'[c]) :
          /\ replies'[c][i] \in Message /\ replies'[c][i].call # NoCall
          /\ Awaited(c, replies'[c][i])
  <2>1. ASSUME NEW c \in Conn, NEW i \in 1..Len(replies'[c])
        PROVE  replies'[c][i] \in Message /\ Awaited(c, replies'[c][i])
    BY <1>0, OnTheWay
  <2> QED
    BY <2>1, IsCall
<1> QED
  BY <1>1, <1>2, <1>3, <1>4, MessagesKept

LEMMA SendMessages ==
    ASSUME CInv, SendersSound, MessagesSound, [Next]_vars,
           NEW t \in Thread, SendRequest(t)
    PROVE  MessagesSound'
<1>0. TypeOK /\ BusySound
  BY DEF CInv
<1>1. pc[t] = "send" /\ conn[t] \in Conn /\ num[t] \in SeqNum /\ doing[t] \in Call
  BY <1>0 DEF SendRequest, BusySound
<1>2. PICK msg \in Message : msg = [seq |-> num[t], call |-> doing[t]]
  BY <1>1 DEF Message
<1>3. PICK task : /\ task = [type |-> "net", uid |-> uid[conn[t]], msg |-> msg]
                  /\ respQ' = Append(respQ, task)
  BY <1>2 DEF SendRequest
<1>4. Awaited(conn[t], msg)
  BY <1>1, <1>2 DEF SendersSound
<1>5. ASSUME NEW i \in 1..Len(respQ'), IsNet(i)'
      PROVE  \/ \E j \in 1..Len(respQ) : IsNet(j) /\ respQ'[i] = respQ[j]
             \/ /\ respQ'[i].msg \in Message
                /\ \E c \in Conn : uid[c] = respQ'[i].uid /\ Awaited(c, respQ'[i].msg)
  <2>1. CASE i \in 1..Len(respQ) /\ respQ'[i] = respQ[i]
    BY <1>5, <2>1 DEF IsNet
  <2>2. CASE respQ'[i] = task
    BY <1>1, <1>3, <1>4, <2>2
  <2> QED
    BY <1>0, <1>3, <1>5, <2>1, <2>2, AppendTask
<1>6. UNCHANGED <<waiting, wire, replies>>
  BY DEF SendRequest, connVars, wireVars
<1> QED
  BY <1>5, <1>6, MessagesMoved

(* The connection a request goes out on is the one it was made for.          *)
LEMMA TaskMessages ==
    ASSUME CInv, ~UidTwice, MessagesSound, [Next]_vars, SendTask
    PROVE  MessagesSound'
<1>0. TypeOK /\ UidsKept
  BY DEF CInv
<1>1. /\ 1 \in 1..Len(respQ) /\ Head(respQ) = respQ[1] /\ IsNet(1)
      /\ \A i \in 1..Len(respQ') : i + 1 \in 1..Len(respQ) /\ respQ'[i] = respQ[i + 1]
  BY <1>0, QueueHead DEF SendTask, IsNet
<1>2. \A i \in 1..Len(respQ') : IsNet(i)' =>
          \E j \in 1..Len(respQ) : IsNet(j) /\ respQ'[i] = respQ[j]
  BY <1>1 DEF IsNet
<1>3. UNCHANGED <<waiting, replies>>
  BY DEF SendTask, connVars
<1>4. PICK u : u = Head(respQ).uid
  OBVIOUS
<1>5. PICK msg \in Message : msg = Head(respQ).msg
  BY <1>0, <1>1, OnTheWay
<1>6. ASSUME NEW c \in Conn, NEW m \in wire'[c]
      PROVE  m \in wire[c] \/ (m \in Message /\ Awaited(c, m))
  <2>1. CASE wire' = wire
    BY <1>6, <2>1
  <2>2. CASE wire' # wire
    <3>1. /\ u \in Uid /\ table[u] \in Conn
          /\ wire' = [wire EXCEPT ![table[u]] = wire[table[u]] \cup {msg}]
      BY <1>0, <1>4, <1>5, <2>2 DEF SendTask, TypeOK
    <3>2. PICK d \in Conn : uid[d] = u /\ Awaited(d, msg)
      BY <1>0, <1>1, <1>4, <1>5, <3>1, OnTheWay
    <3>3. d = table[u]
      <4>1. uid[table[u]] = u /\ u # NoUid
        BY <1>0, <3>1, Constants DEF UidsKept
      <4> QED
        BY <3>1, <3>2, <4>1 DEF UidTwice
    <3> QED
      BY <1>0, <1>6, <3>1, <3>2, <3>3 DEF TypeOK
  <2> QED
    BY <2>1, <2>2
<1>7. \A c \in Conn : \A i \in 1..Len(replies'[c]) :
          \E j \in 1..Len(replies[c]) : replies'[c][i] = replies[c][j]
  BY <1>3
<1> QED
  BY <1>2, <1>3, <1>6, <1>7, MessagesMoved

LEMMA ServeMessages ==
    ASSUME CInv, MessagesSound, [Next]_vars, NEW c \in Conn, Serve(c)
    PROVE  MessagesSound'
<1>0. TypeOK
  BY DEF CInv
<1>1. PICK msg \in wire[c] :
        /\ wire' = [wire EXCEPT ![c] = wire[c] \ {msg}]
        /\ replies' = replies \/ replies' = [replies EXCEPT ![c] = Append(replies[c], msg)]
  BY DEF Serve
<1>2. msg \in Message /\ Awaited(c, msg)
  BY <1>0, OnTheWay
<1>3. UNCHANGED <<respQ, waiting>>
  BY DEF Serve, netVars, connVars
<1>4. \A d \in Conn : wire'[d] \subseteq wire[d]
  BY <1>0, <1>1 DEF TypeOK
<1>5. ASSUME NEW d \in Conn, NEW i \in 1..Len(replies'[d])
      PROVE  \/ \E j \in 1..Len(replies[d]) : replies'[d][i] = replies[d][j]
             \/ replies'[d][i] \in Message /\ Awaited(d, replies'[d][i])
  <2>1. CASE replies'[d] = replies[d]
    BY <1>5, <2>1
  <2>2. CASE replies'[d] # replies[d]
    <3>1. d = c /\ replies'[d] = Append(replies[d], msg) /\ replies[d] \in Seq(Message)
      BY <1>0, <1>1, <2>2 DEF TypeOK
    <3>2. \/ i \in 1..Len(replies[d]) /\ replies'[d][i] = replies[d][i]
          \/ replies'[d][i] = msg
      BY <1>5, <3>1
    <3> QED
      BY <1>2, <3>1, <3>2
  <2> QED
    BY <2>1, <2>2
<1>6. \A i \in 1..Len(respQ') : IsNet(i)' =>
          \E j \in 1..Len(respQ) : IsNet(j) /\ respQ'[i] = respQ[j]
  BY <1>3 DEF IsNet
<1> QED
  BY <1>3, <1>4, <1>5, <1>6, MessagesMoved

(* The call a response is to is on its way no more.                          *)
LEMMA ReceiveMessages ==
    ASSUME CInv, RequestsSound, AnswersSound, MessagesSound, [Next]_vars,
           NEW b \in Conn, Receive(b)
    PROVE  MessagesSound'
<1>0. TypeOK
  BY DEF CInv
<1>1. PICK msg \in Message :
        /\ 1 \in 1..Len(replies[b]) /\ msg = replies[b][1]
        /\ msg.call \in Call /\ ran[msg.call] = 1
        /\ \A d \in Conn : \A j \in 1..Len(replies[d]) :
             replies[d][j].call = msg.call => d = b /\ j = 1
        /\ replies' = [replies EXCEPT ![b] = Tail(replies[b])]
        /\ \A c \in Conn, s \in SeqNum, k \in Call :
             k # msg.call /\ Awaited(c, [seq |-> s, call |-> k])
                 => Awaited(c, [seq |-> s, call |-> k])'
  BY ReceiveKeeps
<1>2. UNCHANGED <<respQ, wire>>
  BY DEF Receive, netVars
<1>3. ASSUME NEW i \in 1..Len(respQ'), IsNet(i)'
      PROVE  /\ respQ'[i].msg \in Message /\ respQ'[i].msg.call # msg.call
             /\ respQ'[i].uid \in Uid =>
                  \E c \in Conn : uid[c] = respQ'[i].uid /\ Awaited(c, respQ'[i].msg)
  <2>1. i \in 1..Len(respQ) /\ IsNet(i)
    BY <1>2, <1>3 DEF IsNet
  <2>2. ran[respQ[i].msg.call] = 0
    BY <2>1 DEF RequestsSound
  <2>3. respQ'[i].msg.call # msg.call
    BY <1>1, <1>2, <2>2
  <2> QED
    BY <1>0, <1>2, <2>1, <2>3, OnTheWay
<1>4. ASSUME NEW c \in Conn, NEW m \in wire'[c]
      PROVE  m \in Message /\ m.call # msg.call /\ Awaited(c, m)
  <2>1. ran[m.call] = 0
    BY <1>2, <1>4 DEF RequestsSound
  <2> QED
    BY <1>0, <1>1, <1>2, <1>4, <2>1, OnTheWay
<1>5. ASSUME NEW c \in Conn, NEW i \in 1..Len(replies'[c])
      PROVE  /\ replies'[c][i] \in Message /\ replies'[c][i].call # msg.call
             /\ Awaited(c, replies'[c][i])
  <2>1. PICK j \in 1..Len(replies[c]) :
          replies'[c][i] = replies[c][j] /\ ~(c = b /\ j = 1)
    <3>1. CASE c = b
      <4>1. PICK q \in Seq(Message) : q = replies[b] /\ q # <<>>
        BY <1>0, <1>1, NetIs
      <4>2. replies'[b] = Tail(q)
        BY <1>0, <1>1, <4>1 DEF TypeOK
      <4>3. i \in 1..Len(Tail(q))
        BY <1>5, <3>1, <4>2
      <4>4. i + 1 \in 1..Len(q) /\ Tail(q)[i] = q[i + 1] /\ i + 1 # 1
        BY <4>1, <4>3
      <4> QED
        BY <3>1, <4>1, <4>2, <4>4
    <3>2. CASE c # b
      <4>1. replies'[c] = replies[c]
        BY <1>0, <1>1, <3>2 DEF TypeOK
      <4> QED
        BY <1>5, <3>2, <4>1
    <3> QED
      BY <3>1, <3>2
  <2>2. replies[c][j].call # msg.call
    BY <1>1, <2>1
  <2> QED
    BY <1>0, <2>1, <2>2, OnTheWay
<1> QED
  BY <1>1, <1>3, <1>4, <1>5, MessagesKept

LEMMA MessagesStep ==
    ASSUME CInv, ~UidTwice, RequestsSound, AnswersSound, SendersSound, MessagesSound,
           [Next]_vars
    PROVE  MessagesSound'
<1>0. TypeOK
  BY DEF CInv
<1>1. ASSUME UNCHANGED <<wire, replies>>,
             waiting' = waiting \/ \E t \in Thread : Register(t),
             \A i \in 1..Len(respQ') : IsNet(i)' =>
                 \E j \in 1..Len(respQ) : IsNet(j) /\ respQ'[i] = respQ[j]
      PROVE  MessagesSound'
  <2>1. \A c \in Conn : \A i \in 1..Len(replies'[c]) :
            \E j \in 1..Len(replies[c]) : replies'[c][i] = replies[c][j]
    BY <1>1
  <2>2. \A c \in Conn : \A msg \in wire'[c] : msg \in wire[c]
    BY <1>1
  <2> QED
    BY <1>1, <2>1, <2>2, MessagesMoved
<1>2. ASSUME UNCHANGED respQ
      PROVE  \A i \in 1..Len(respQ') : IsNet(i)' =>
                 \E j \in 1..Len(respQ) : IsNet(j) /\ respQ'[i] = respQ[j]
  BY <1>2 DEF IsNet
<1>3. ASSUME NEW t \in Thread, Build(t) PROVE MessagesSound'
  <2>1. PICK c \in Conn : respQ' = Append(respQ, [type |-> "add", conn |-> c])
    BY <1>3 DEF Build
  <2>2. UNCHANGED <<wire, replies, waiting>>
    BY <1>3 DEF Build, wireVars
  <2>3. \A i \in 1..Len(respQ') : IsNet(i)' => IsNet(i) /\ respQ'[i] = respQ[i]
    BY <1>0, <2>1, AppendTask DEF IsNet
  <2>4. \A i \in 1..Len(respQ') : IsNet(i)' =>
            \E j \in 1..Len(respQ) : IsNet(j) /\ respQ'[i] = respQ[j]
    BY <2>3 DEF IsNet
  <2> QED
    BY <1>1, <2>2, <2>4
<1>4. CASE AddUid
  <2>1. NextTask /\ UNCHANGED <<wire, replies, waiting>>
    BY <1>4 DEF AddUid, wireVars
  <2>2. \A i \in 1..Len(respQ') : IsNet(i)' => IsNet(i + 1) /\ respQ'[i] = respQ[i + 1]
    BY <1>0, <2>1, QueueHead DEF IsNet
  <2>3. \A i \in 1..Len(respQ') : IsNet(i)' =>
            \E j \in 1..Len(respQ) : IsNet(j) /\ respQ'[i] = respQ[j]
    BY <2>2 DEF IsNet
  <2> QED
    BY <1>1, <2>1, <2>3
<1>5. ASSUME NEW x \in Closer, MarkClosed(x) PROVE MessagesSound'
  <2>0. PICK c \in Conn : c = closing[x]
    BY <1>5 DEF MarkClosed, CInv, ClosersSound, CloserSound, Added
  <2>1. UNCHANGED <<respQ, wire, waiting>>
    BY <1>5 DEF MarkClosed, netVars
  <2>2. PICK m \in 0..Len(replies[c]) :
          replies' = [replies EXCEPT ![c] = SubSeq(replies[c], 1, m)]
    BY <1>5, <2>0 DEF MarkClosed
  <2>3. /\ replies'[c] = SubSeq(replies[c], 1, m) /\ replies[c] \in Seq(Message)
        /\ \A d \in Conn \ {c} : replies'[d] = replies[d]
    BY <1>0, <2>2 DEF TypeOK
  <2>4. \A i \in 1..Len(replies'[c]) : i \in 1..Len(replies[c]) /\ replies'[c][i] = replies[c][i]
    BY <2>3
  <2>5. \A d \in Conn : \A i \in 1..Len(replies'[d]) :
            \E j \in 1..Len(replies[d]) : replies'[d][i] = replies[d][j]
    BY <2>3, <2>4
  <2>6. \A d \in Conn : \A msg \in wire'[d] : msg \in wire[d]
    BY <2>1
  <2> QED
    BY <1>2, <2>1, <2>5, <2>6, MessagesMoved
<1>6. ASSUME NEW t \in Thread,
             \/ Begin(t) \/ Lookup(t) \/ BuildFails(t) \/ CheckUid(t) \/ LockUid(t)
             \/ WokenForUid(t) \/ UidTimeout(t) \/ Link(t) \/ FindSurplus(t) \/ PopSeq(t)
             \/ TakeResult(t) \/ WaitTimeout(t)
      PROVE  UNCHANGED <<respQ, wire, replies, waiting>>
  BY <1>6 DEF Begin, Lookup, BuildFails, CheckUid, LockUid, WokenForUid, UidTimeout, Link,
              FindSurplus, PopSeq, TakeResult, WaitTimeout, netVars, connVars, wireVars
<1>7. ASSUME \/ UNCHANGED vars \/ AddEntry
             \/ \E x \in Closer : EraseEntry(x) \/ ReturnUid(x)
             \/ \E u \in Uid : LoseConnection(u)
      PROVE  UNCHANGED <<respQ, wire, replies, waiting>>
  BY <1>7 DEF vars, AddEntry, EraseEntry, ReturnUid, LoseConnection, netVars, connVars,
              wireVars
<1>8. ASSUME NEW t \in Thread, Register(t) PROVE MessagesSound'
  <2>1. UNCHANGED <<respQ, wire, replies>>
    BY <1>8 DEF Register, netVars, wireVars
  <2> QED
    BY <1>1, <1>2, <1>8, <2>1
<1>9. CASE UNCHANGED <<respQ, wire, replies, waiting>>
  BY <1>1, <1>2, <1>9
<1> QED
  BY <1>3, <1>4, <1>5, <1>6, <1>7, <1>8, <1>9, SendMessages, TaskMessages, ServeMessages,
     ReceiveMessages, Constants DEF Next, ThreadStep, NetStep, CloseStep

LEMMA OwnStep ==
    ASSUME CInv, AnswersSound, MessagesSound, OwnAnswers, [Next]_vars
    PROVE  OwnAnswers'
<1>0. TypeOK
  BY DEF CInv
<1>1. CASE value' = value
  BY <1>1 DEF OwnAnswers
<1>2. ASSUME NEW c \in Conn, Receive(c) PROVE OwnAnswers'
  <2>1. PICK msg \in Message : msg = Head(replies[c]) /\ msg = replies[c][1]
                               /\ 1 \in 1..Len(replies[c])
    BY <1>0, <1>2, NetIs DEF Receive
  <2>2. msg.call \in Call \ Oneway /\ waiting[c][msg.seq] = msg.call
    BY <1>0, <2>1, NetIs DEF AnswersSound, MessagesSound, Awaited
  <2>3. value' = [value EXCEPT ![msg.call] = msg.call]
    BY <1>2, <2>1, <2>2, Constants DEF Receive
  <2> QED
    BY <1>0, <2>2, <2>3 DEF OwnAnswers, TypeOK
<1>3. ASSUME NEW t \in Thread, Begin(t) \/ ThreadStep(t) PROVE value' = value
  BY <1>3 DEF Begin, ThreadStep, Lookup, Build, BuildFails, CheckUid, LockUid, WokenForUid,
       UidTimeout, Link, FindSurplus, CloseStep, MarkClosed, EraseEntry, ReturnUid, PopSeq,
       Register, SendRequest, TakeResult, WaitTimeout
<1>4. ASSUME \/ UNCHANGED vars \/ AddUid \/ AddEntry \/ SendTask \/ CloseStep(Net)
             \/ \E u \in Uid : LoseConnection(u)
             \/ \E c \in Conn : Serve(c)
      PROVE  value' = value
  BY <1>4 DEF vars, AddUid, AddEntry, SendTask, CloseStep, MarkClosed, EraseEntry, ReturnUid,
       LoseConnection, Serve, threadVars
<1> QED
  BY <1>1, <1>2, <1>3, <1>4 DEF Next, NetStep

LEMMA ServiceInvStep ==
    ASSUME ServiceInv, [Next]_vars
    PROVE  ServiceInv'
<1> USE DEF ServiceInv
<1>1. CInv'
  BY CInvStep
<1>2. RequestsSound' /\ AnswersSound' /\ RegisteredSound'
  BY RequestsStep, AnswersStep, RegisteredStep
<1>3. OwnSound'
  <2>1. CASE UidTwice
    BY <2>1, OnceTwice DEF OwnSound
  <2>2. CASE ~UidTwice
    <3>1. SendersSound /\ MessagesSound /\ OwnAnswers
      BY <2>2 DEF OwnSound
    <3>2. SendersSound' /\ MessagesSound' /\ OwnAnswers'
      BY <2>2, <3>1, SendersStep, MessagesStep, OwnStep
    <3> QED
      BY <3>2 DEF OwnSound
  <2> QED
    BY <2>1, <2>2
<1> QED
  BY <1>1, <1>2, <1>3

(* The inductive invariant of the calls on their way: uids may be used again *)
(* and callers may close what they built in vain.                            *)
THEOREM ServiceInvariant == Spec => []ServiceInv
<1>1. ServiceInv /\ [Next]_vars => ServiceInv'
  BY ServiceInvStep
<1> QED
  BY <1>1, ServiceInit, PTL DEF Spec

-----------------------------------------------------------------------------
(* A call has the outcome its thread took away, and an answer that is not    *)
(* its own counts for a timeout.                                             *)
Status == [k \in Call |-> Result(k)]
Seen == [k \in Call |->
    IF outcome[k] = "answered" /\ value[k] # k THEN "timeout" ELSE outcome[k]]

LEMMA StatusIs ==
    ASSUME ServiceInv
    PROVE  Status = Seen
<1>1. ASSUME NEW k \in Call, outcome[k] = "answered", value[k] # k
      PROVE  UidTwice
  BY <1>1 DEF ServiceInv, OwnSound, OwnAnswers, AnswersSound
<1> QED
  BY <1>1 DEF Status, Seen, Result

LEMMA BeginServed ==
    ASSUME ServiceInv, NEW t \in Thread, Begin(t), Status = Seen, Status' = Seen'
    PROVE  \E k \in Call : Service!Begin(k)
<1>1. PICK k \in Call : outcome[k] = "idle" /\ outcome' = [outcome EXCEPT ![k] = "pending"]
  BY DEF Begin
<1>2. UNCHANGED <<ran, value>>
  BY DEF Begin, wireVars
<1>3. Seen[k] = "idle" /\ Seen' = [Seen EXCEPT ![k] = "pending"]
  BY <1>1, <1>2 DEF Seen, ServiceInv, CInv, TypeOK
<1> QED
  BY <1>2, <1>3 DEF Service!Begin, Status

(* The end of a call is the one its thread is entitled to.                   *)
LEMMA FinishServed ==
    ASSUME ServiceInv, NEW t \in Thread, ThreadStep(t), Status = Seen, Status' = Seen',
           UNCHANGED <<ran, value>>
    PROVE  \/ UNCHANGED <<Status, ran>>
           \/ \E k \in Call : \/ Service!Answer(k) \/ Service!Timeout(k)
                              \/ Service!Refuse(k) \/ Service!Return(k)
<1>0. /\ TypeOK /\ BusySound /\ AnswersSound /\ RequestsSound /\ RegisteredSound
      /\ pc[t] # "idle"
  BY StepOf DEF ServiceInv, CInv
<1>1. PICK k \in Call : k = doing[t] /\ outcome[k] = "pending"
  BY <1>0 DEF BusySound
<1>2. CASE outcome' = outcome
  BY <1>2 DEF Seen
<1>3. CASE outcome' # outcome
  <2>1. PICK result \in {"answered", "timeout", "refused", "returned"} :
          /\ Finish(t, result)
          /\ result = "refused" => pc[t] \in {"build", "lock", "wait_uid"}
          /\ result = "returned" => pc[t] = "send" /\ doing[t] \in Oneway
          /\ result = "timeout" => pc[t] = "wait"
          /\ result = "answered" => pc[t] = "wait" /\ value[doing[t]] # NoCall
    BY <1>3, StepOf
  <2>2. outcome' = [outcome EXCEPT ![k] = result]
    BY <1>1, <2>1 DEF Finish
  <2>p. Seen[k] = "pending"
    BY <1>1 DEF Seen
  <2>s. ASSUME result # "answered" \/ value[k] = k
        PROVE  Seen' = [Seen EXCEPT ![k] = result]
    BY <1>0, <2>2, <2>s DEF Seen, TypeOK
  <2>3. CASE result = "answered" /\ value[k] = k
    <3>1. k \notin Oneway /\ ran[k] = 1
      BY <1>0, <1>1, <2>1, <2>3 DEF AnswersSound
    <3> QED
      BY <2>p, <2>s, <2>3, <3>1 DEF Service!Answer, Status
  <2>4. CASE result = "answered" /\ value[k] # k
    <3>1. k \notin Oneway
      BY <1>0, <1>1, <2>1, <2>4 DEF RegisteredSound
    <3>2. Seen' = [Seen EXCEPT ![k] = "timeout"]
      BY <1>0, <2>2, <2>4 DEF Seen, TypeOK
    <3> QED
      BY <2>p, <3>1, <3>2 DEF Service!Timeout, Status
  <2>5. CASE result = "timeout"
    <3>1. k \notin Oneway
      BY <1>0, <1>1, <2>1, <2>5 DEF RegisteredSound
    <3> QED
      BY <2>p, <2>s, <2>5, <3>1 DEF Service!Timeout, Status
  <2>6. CASE result = "refused"
    <3>1. ~Sent(k)
      BY <1>1, <2>1, <2>6, NotSent DEF ServiceInv
    <3>2. ran[k] = 0
      BY <1>0, <3>1 DEF RequestsSound
    <3> QED
      BY <2>p, <2>s, <2>6, <3>2 DEF Service!Refuse, Status
  <2>7. CASE result = "returned"
    BY <1>1, <2>1, <2>p, <2>s, <2>7 DEF Service!Return, Status
  <2> QED
    BY <2>3, <2>4, <2>5, <2>6, <2>7
<1> QED
  BY <1>2, <1>3

(* A function runs for a call that was sent and had not run.                 *)
LEMMA ServeServed ==
    ASSUME ServiceInv, NEW c \in Conn, Serve(c), Status = Seen, Status' = Seen'
    PROVE  UNCHANGED <<Status, ran>> \/ \E k \in Call : Service!Run(k)
<1>0. TypeOK /\ BusySound /\ RequestsSound /\ AnswersSound
  BY DEF ServiceInv, CInv
<1>1. PICK msg \in wire[c] : ran' = ran \/ ran' = [ran EXCEPT ![msg.call] = ran[msg.call] + 1]
  BY DEF Serve
<1>2. PICK k \in Call : k = msg.call /\ Sent(k) /\ ran[k] = 0
  BY <1>0, NetIs DEF RequestsSound
<1>3. Seen' = Seen
  BY DEF Serve, threadVars, Seen
<1>4. ~(outcome[k] = "answered" /\ value[k] = k)
  BY <1>0, <1>2, Constants DEF AnswersSound
<1>5. Seen[k] \in {"pending", "timeout", "returned"}
  BY <1>2, <1>4 DEF Sent, Seen
<1>6. CASE ran' = ran
  BY <1>3, <1>6
<1>7. CASE ran' = [ran EXCEPT ![k] = ran[k] + 1]
  <2>1. ran' = [ran EXCEPT ![k] = 1]
    BY <1>2, <1>7
  <2> QED
    BY <1>2, <1>3, <1>5, <2>1 DEF Service!Run, Status
<1> QED
  BY <1>1, <1>2, <1>6, <1>7

(* A promise that is given a response is not one its caller has taken.       *)
LEMMA ReceiveServed ==
    ASSUME ServiceInv, NEW c \in Conn, Receive(c)
    PROVE  UNCHANGED <<Seen, ran>>
<1>0. TypeOK /\ AnswersSound /\ RegisteredSound /\ UNCHANGED <<outcome, ran>>
  BY DEF ServiceInv, CInv, Receive
<1>1. PICK s \in SeqNum : s = Head(replies[c]).seq
  BY <1>0, NetIs DEF Receive, Message
<1>2. CASE value' = value
  BY <1>0, <1>2 DEF Seen
<1>3. CASE value' # value
  <2>1. PICK k \in Call : /\ k = waiting[c][s]
                          /\ value' = [value EXCEPT ![k] = Head(replies[c]).call]
    BY <1>0, <1>1, <1>3 DEF Receive, TypeOK
  <2>2. outcome[k] # "answered"
    BY <1>0, <2>1 DEF RegisteredSound, AnswersSound
  <2>3. \A l \in Call : l # k => value'[l] = value[l]
    BY <1>0, <2>1 DEF TypeOK
  <2> QED
    BY <1>0, <2>2, <2>3 DEF Seen
<1> QED
  BY <1>2, <1>3

LEMMA ServiceStep ==
    ASSUME ServiceInv, [Next]_vars
    PROVE  [Service!Next]_<<Status, ran>>
<1>1. ServiceInv'
  BY ServiceInvStep
<1>2. Status = Seen
  BY StatusIs
<1>3. Status' = Seen'
  <2>1. ASSUME NEW k \in Call, outcome'[k] = "answered", value'[k] # k
        PROVE  UidTwice'
    BY <1>1, <2>1 DEF ServiceInv, OwnSound, OwnAnswers, AnswersSound
  <2> QED
    BY <2>1 DEF Status, Seen, Result
<1>4. ASSUME NEW t \in Thread, Begin(t) PROVE Service!Next
  BY <1>2, <1>3, <1>4, BeginServed DEF Service!Next
<1>5. ASSUME NEW t \in Thread, ThreadStep(t) PROVE Service!Next \/ UNCHANGED <<Status, ran>>
  <2>1. UNCHANGED <<ran, value>>
    BY <1>5 DEF ThreadStep, Lookup, Build, BuildFails, CheckUid, LockUid, WokenForUid,
         UidTimeout, Link, FindSurplus, CloseStep, MarkClosed, EraseEntry, ReturnUid, PopSeq,
         Register, SendRequest, TakeResult, WaitTimeout, wireVars
  <2> QED
    BY <1>2, <1>3, <1>5, <2>1, FinishServed DEF Service!Next
<1>6. ASSUME NEW c \in Conn, Serve(c) PROVE Service!Next \/ UNCHANGED <<Status, ran>>
  BY <1>2, <1>3, <1>6, ServeServed DEF Service!Next
<1>7. ASSUME NEW c \in Conn, Receive(c) PROVE UNCHANGED <<Status, ran>>
  BY <1>2, <1>3, <1>7, ReceiveServed
<1>8. ASSUME \/ UNCHANGED vars \/ AddUid \/ AddEntry \/ SendTask \/ CloseStep(Net)
             \/ \E u \in Uid : LoseConnection(u)
      PROVE  UNCHANGED <<Status, ran>>
  <2>1. UNCHANGED <<outcome, value, ran>>
    BY <1>8 DEF vars, AddUid, AddEntry, SendTask, CloseStep, MarkClosed, EraseEntry,
         ReturnUid, LoseConnection, threadVars, wireVars
  <2>2. Seen' = Seen
    BY <2>1 DEF Seen
  <2> QED
    BY <1>2, <1>3, <2>1, <2>2
<1> QED
  BY <1>4, <1>5, <1>6, <1>7, <1>8 DEF Next, NetStep

(* ObjectProxy::involve keeps its promise with every call of every thread:   *)
(* the function ran once for a call that is answered, at most once for one   *)
(* that times out, and never for one that was refused.  The response is the  *)
(* one to the call, unless a uid has named two connections, when a response  *)
(* to another call (the run client_mixup) counts for no more than a timeout. *)
THEOREM CallsAreServed == Spec => CallsServed
<1>1. Init => Service!Init
  <2> SUFFICES ASSUME Init PROVE Service!Init
    OBVIOUS
  <2>1. Status = Seen /\ Seen = [k \in Call |-> "idle"]
    BY ServiceInit, StatusIs DEF Seen, Init
  <2> QED
    BY <2>1 DEF Init, Service!Init, Status
<1>2. ServiceInv /\ [Next]_vars => [Service!Next]_<<Status, ran>>
  BY ServiceStep
<1> QED
  BY ServiceInvariant, <1>1, <1>2, PTL DEF Spec, CallsServed, Service!Spec, Status

(* The promise of a call is given the response to that call and no other     *)
(* (ClientConnection::processHrpc), until a uid names a second connection:   *)
(* the uid by which sendRequest addresses a request is the only way a call   *)
(* gets to a stranger.                                                       *)
THEOREM AnswersAreOwn == Spec => [](OwnAnswers \/ UidTwice)
<1>1. ServiceInv => OwnAnswers \/ UidTwice
  BY DEF ServiceInv, OwnSound
<1> QED
  BY <1>1, ServiceInvariant, PTL
==============================================================================
