-------------------------- MODULE HrpcServer_proofs --------------------------
(* For every number of network threads, handle threads, connections, uids    *)
(* and requests: the inductive invariant IInv of HrpcServer, hence type      *)
(* correctness, the conservation of uids and the agreement of table,         *)
(* connections and epoll; then the rounds of the network threads.            *)
EXTENDS HrpcServer, UidGenerator_proofs, SequenceTheorems

-----------------------------------------------------------------------------
(* What a network thread holds when it acts on a connection.                 *)

(* The connection of a readEvent is in the table under its own uid.          *)
LEMMA ReadingInTable ==
    ASSUME IInv, NEW n \in Net, pc[n] \in {"recv", "extract", "send"}
    PROVE  /\ reading[n].conn \in Conn
           /\ stage[reading[n].conn] = "open"
           /\ uid[reading[n].conn] \in Uid
           /\ table[n][uid[reading[n].conn]] = reading[n].conn
BY DEF IInv, WorkSound, ReadingSound, TableSound

(* An entry of the table holds a connection that knows its uid.              *)
LEMMA EntryKnowsItsUid ==
    ASSUME IInv, NEW n \in Net, NEW u \in Uid, table[n][u] # NoConn
    PROVE  /\ table[n][u] \in Conn
           /\ uid[table[n][u]] = u
           /\ home[table[n][u]] = n
           /\ stage[table[n][u]] = "open"
BY DEF IInv, TypeOK, NetTypeOK, TableSound

(* Every step that closes a connection closes an entry of the own table.     *)
LEMMA ErrorCloses ==
    ASSUME IInv, NEW n \in Net, ErrorEvent(n)
    PROVE  \E u \in Uid : table[n][u] # NoConn /\ CloseConnection(n, u)
<1>1. PICK e \in events[n] : /\ ConnEventAt(n, e)
                             /\ table[n][e.uid] # NoConn
                             /\ CloseConnection(n, e.uid)
  BY DEF ErrorEvent
<1>2. e \in ConnEvent
  BY <1>1 DEF ConnEventAt, IInv, TypeOK, NetTypeOK
<1>3. e.uid \in Uid
  BY <1>2 DEF ConnEvent
<1> QED
  BY <1>1, <1>3

LEMMA ReadDoneCloses ==
    ASSUME IInv, NEW n \in Net, ReadDone(n), reading[n].close
    PROVE  \E u \in Uid : table[n][u] # NoConn /\ CloseConnection(n, u)
<1>1. pc[n] = "extract" /\ CloseConnection(n, uid[reading[n].conn])
  BY DEF ReadDone
<1>2. NoConn \notin Conn
  BY ServerAssumption DEF ServerAssumption
<1> QED
  BY <1>1, <1>2, ReadingInTable

LEMMA WriteCloses ==
    ASSUME IInv, NEW n \in Net, WriteEvent(n), Broken(reading[n].conn)
    PROVE  \E u \in Uid : table[n][u] # NoConn /\ CloseConnection(n, u)
<1>1. pc[n] = "send" /\ CloseConnection(n, uid[reading[n].conn])
  BY DEF WriteEvent
<1>2. NoConn \notin Conn
  BY ServerAssumption DEF ServerAssumption
<1> QED
  BY <1>1, <1>2, ReadingInTable

(* The task a network thread is about to work on.                            *)
LEMMA HeadTask ==
    ASSUME IInv, NEW n \in Net, NextTask(n)
    PROVE  /\ batch[n] \in Seq(Task)
           /\ 1 \in 1..Len(batch[n])
           /\ Head(batch[n]) = batch[n][1]
           /\ Head(batch[n]) \in Task
           /\ Tail(batch[n]) \in Seq(Task)
<1>1. batch[n] \in Seq(Task) /\ batch[n] # <<>>
  BY DEF NextTask, IInv, TypeOK, NetTypeOK
<1> QED
  BY <1>1

LEMMA HeadNetTask ==
    ASSUME IInv, NEW n \in Net, NextTask(n), Head(batch[n]).type = "net"
    PROVE  /\ Head(batch[n]).uid \in Uid
           /\ Head(batch[n]).pkg \in Package
BY HeadTask DEF Task, NetTask, AddTask

LEMMA HeadAddTask ==
    ASSUME IInv, NEW n \in Net, NextTask(n), Head(batch[n]).type = "add"
    PROVE  /\ Head(batch[n]).conn \in Conn
           /\ stage[Head(batch[n]).conn] = "task"
           /\ home[Head(batch[n]).conn] = n
<1>1. Head(batch[n]).conn \in Conn
  BY HeadTask DEF Task, NetTask, AddTask
<1>2. 1 \in Adds(batch[n])
  BY HeadTask DEF Adds
<1> QED
  BY <1>1, <1>2, HeadTask DEF IInv, WorkSound, AddsSound, AddsFresh

LEMMA NetTaskCloses ==
    ASSUME IInv, NEW n \in Net, NetTaskStep(n)
    PROVE  \/ \E u \in Uid : table[n][u] # NoConn /\ CloseConnection(n, u)
           \/ UNCHANGED <<stage, table, uids>>
<1> DEFINE u == Head(batch[n]).uid
           c == table[n][u]
<1>1. NextTask(n) /\ Head(batch[n]).type = "net" /\ c # NoConn
  BY DEF NetTaskStep
<1>2. u \in Uid
  BY <1>1, HeadNetTask
<1>3. uid[c] = u
  BY <1>1, <1>2, EntryKnowsItsUid
<1>4. CloseConnection(n, uid[c]) \/ UNCHANGED <<stage, table, uids>>
  BY DEF NetTaskStep
<1> QED
  BY <1>1, <1>2, <1>3, <1>4

-----------------------------------------------------------------------------
(* Type correctness, one lemma for each group of variables.                  *)

(* sendData moves what fits: both buffers keep their types and the kernel's  *)
(* buffer its bound.                                                         *)
LEMMA SendDataType ==
    ASSUME PeersTypeOK, ConnsTypeOK, NEW c \in Conn, NEW buf \in Seq(Package),
           SendData(c, buf)
    PROVE  /\ kbuf' \in [Conn -> Seq(Package)]
           /\ \A d \in Conn : Len(kbuf'[d]) <= SockCap
           /\ sendBuf' \in [Conn -> Seq(Package)]
<1> DEFINE m == Fitting(c, buf)
<1>1. kbuf[c] \in Seq(Package) /\ Len(kbuf[c]) <= SockCap /\ SockCap \in Nat
  BY ServerAssumption DEF ServerAssumption, PeersTypeOK
<1>2. m \in 0..Len(buf) /\ Len(kbuf[c]) + m <= SockCap
  <2>1. Len(buf) \in Nat /\ Len(kbuf[c]) \in Nat
    BY <1>1
  <2>2. m = IF Len(buf) <= SockCap - Len(kbuf[c]) THEN Len(buf)
            ELSE SockCap - Len(kbuf[c])
    BY DEF Fitting
  <2> HIDE DEF m
  <2>3. CASE Len(buf) <= SockCap - Len(kbuf[c])
    <3>1. m = Len(buf)
      BY <2>2, <2>3
    <3> QED
      BY <1>1, <2>1, <2>3, <3>1
  <2>4. CASE ~(Len(buf) <= SockCap - Len(kbuf[c]))
    <3>1. m = SockCap - Len(kbuf[c])
      BY <2>2, <2>4
    <3> QED
      BY <1>1, <2>1, <2>4, <3>1
  <2> QED
    BY <2>3, <2>4
<1>3. SubSeq(buf, 1, m) \in Seq(Package) /\ Len(SubSeq(buf, 1, m)) = m
  BY <1>2
<1>4. SubSeq(buf, m + 1, Len(buf)) \in Seq(Package)
  BY <1>2
<1> HIDE DEF m
<1>5. /\ kbuf[c] \o SubSeq(buf, 1, m) \in Seq(Package)
      /\ Len(kbuf[c] \o SubSeq(buf, 1, m)) <= SockCap
  <2>1. Len(kbuf[c] \o SubSeq(buf, 1, m)) = Len(kbuf[c]) + Len(SubSeq(buf, 1, m))
    BY <1>1, <1>3, ConcatProperties
  <2>2. kbuf[c] \o SubSeq(buf, 1, m) \in Seq(Package)
    BY <1>1, <1>3, ConcatProperties
  <2> QED
    BY <1>2, <1>3, <2>1, <2>2
<1>6. /\ kbuf' = [kbuf EXCEPT ![c] = kbuf[c] \o SubSeq(buf, 1, m)]
      /\ sendBuf' = [sendBuf EXCEPT ![c] = SubSeq(buf, m + 1, Len(buf))]
  BY DEF SendData, m
<1> QED
  <2>1. kbuf \in [Conn -> Seq(Package)] /\ sendBuf \in [Conn -> Seq(Package)]
    BY DEF PeersTypeOK, ConnsTypeOK
  <2>2. \A d \in Conn : kbuf'[d] =
            IF d = c THEN kbuf[c] \o SubSeq(buf, 1, m) ELSE kbuf[d]
    BY <1>6, <2>1
  <2>3. \A d \in Conn : Len(kbuf'[d]) <= SockCap
    BY <1>5, <2>2 DEF PeersTypeOK
  <2>4. kbuf' \in [Conn -> Seq(Package)]
    BY <1>5, <1>6, <2>1
  <2>5. sendBuf' \in [Conn -> Seq(Package)]
    BY <1>4, <1>6, <2>1
  <2> QED
    BY <2>3, <2>4, <2>5

LEMMA PeersType ==
    ASSUME IInv, Next
    PROVE  PeersTypeOK'
<1>1. PeersTypeOK /\ ConnsTypeOK /\ NetTypeOK
  BY DEF IInv, TypeOK
<1>2. ASSUME NEW c \in Conn, PeerStep(c)
      PROVE  PeersTypeOK'
  <2>1. CASE PeerConnect(c)
    BY <1>1, <2>1 DEF PeerConnect, PeersTypeOK
  <2>2. CASE PeerSend(c)
    <3>1. sent[c] \in 0..MaxReq /\ sent[c] < MaxReq /\ MaxReq \in Nat
      BY <1>1, <2>2, ServerAssumption DEF PeerSend, ServerAssumption, PeersTypeOK
    <3>2. /\ [conn |-> c, k |-> sent[c] + 1] \in Request
          /\ sent[c] + 1 \in 0..MaxReq
      BY <3>1 DEF Request
    <3>3. Append(inbound[c], [conn |-> c, k |-> sent[c] + 1]) \in Seq(Request)
      BY <1>1, <3>2 DEF PeersTypeOK
    <3> QED
      BY <1>1, <2>2, <3>2, <3>3 DEF PeerSend, PeersTypeOK
  <2>3. CASE PeerEnd(c)
    BY <1>1, <2>3 DEF PeerEnd, PeersTypeOK
  <2>4. CASE PeerRecv(c)
    <3>1. kbuf[c] \in Seq(Package) /\ kbuf[c] # <<>> /\ Len(kbuf[c]) <= SockCap
      BY <1>1, <2>4 DEF PeerRecv, PeersTypeOK
    <3>2. /\ Tail(kbuf[c]) \in Seq(Package)
          /\ Len(Tail(kbuf[c])) <= SockCap
          /\ Head(kbuf[c]) \in Package
      BY <3>1, ServerAssumption DEF ServerAssumption
    <3>3. /\ kbuf' = [kbuf EXCEPT ![c] = Tail(kbuf[c])]
          /\ got' = [got EXCEPT ![c] = Append(got[c], Head(kbuf[c]))]
          /\ UNCHANGED <<peer, sent, inbound, backlog>>
      BY <2>4 DEF PeerRecv
    <3>4. kbuf \in [Conn -> Seq(Package)] /\ got \in [Conn -> Seq(Package)]
      BY <1>1 DEF PeersTypeOK
    <3>5. kbuf' \in [Conn -> Seq(Package)] /\ got' \in [Conn -> Seq(Package)]
      BY <3>2, <3>3, <3>4
    <3>6. \A d \in Conn : Len(kbuf'[d]) <= SockCap
      BY <1>1, <3>2, <3>3, <3>4 DEF PeersTypeOK
    <3> QED
      BY <1>1, <3>3, <3>5, <3>6 DEF PeersTypeOK
  <2> QED
    BY <1>2, <2>1, <2>2, <2>3, <2>4 DEF PeerStep
<1>3. ASSUME NEW n \in Net, Accept(n)
      PROVE  PeersTypeOK'
  BY <1>1, <1>3 DEF Accept, PeersTypeOK
<1>4. ASSUME NEW n \in Net, RecvData(n)
      PROVE  PeersTypeOK'
  <2>1. reading[n].conn \in Conn
    BY <1>4, ReadingInTable DEF RecvData
  <2>2. inbound' = [inbound EXCEPT ![reading[n].conn] = <<>>]
    BY <1>4 DEF RecvData
  <2>3. inbound' \in [Conn -> Seq(Request)]
    BY <1>1, <2>1, <2>2 DEF PeersTypeOK
  <2>4. UNCHANGED <<peer, sent, kbuf, got, backlog>>
    BY <1>4 DEF RecvData
  <2> QED
    BY <1>1, <2>3, <2>4 DEF PeersTypeOK
<1>5. ASSUME NEW n \in Net, WriteEvent(n)
      PROVE  PeersTypeOK'
  <2> DEFINE c == reading[n].conn
  <2>1. c \in Conn /\ sendBuf[c] \in Seq(Package)
    BY <1>1, <1>5, ReadingInTable DEF WriteEvent, ConnsTypeOK
  <2>2. UNCHANGED kbuf \/ SendData(c, sendBuf[c])
    BY <1>5 DEF WriteEvent
  <2>3. /\ kbuf' \in [Conn -> Seq(Package)]
        /\ \A d \in Conn : Len(kbuf'[d]) <= SockCap
    BY <1>1, <2>1, <2>2, SendDataType DEF PeersTypeOK
  <2> QED
    BY <1>1, <1>5, <2>3 DEF WriteEvent, PeersTypeOK
<1>6. ASSUME NEW n \in Net, NetTaskStep(n)
      PROVE  PeersTypeOK'
  <2> DEFINE task == Head(batch[n])
             c == table[n][task.uid]
  <2>1. NextTask(n) /\ task.type = "net" /\ c # NoConn
    BY <1>6 DEF NetTaskStep
  <2>2. c \in Conn /\ <<task.pkg>> \in Seq(Package)
    BY <2>1, HeadNetTask, EntryKnowsItsUid
  <2>3. UNCHANGED kbuf \/ SendData(c, <<task.pkg>>)
    BY <1>6 DEF NetTaskStep
  <2>4. /\ kbuf' \in [Conn -> Seq(Package)]
        /\ \A d \in Conn : Len(kbuf'[d]) <= SockCap
    BY <1>1, <2>2, <2>3, SendDataType DEF PeersTypeOK
  <2> QED
    BY <1>1, <2>1, <2>4 DEF NextTask, PeersTypeOK
<1>7. ASSUME NEW n \in Net,
             \/ EpollWait(n) \/ AcceptEvent(n) \/ AcceptEnd(n)
             \/ ErrorEvent(n) \/ DataEvent(n) \/ ExtractPackage(n)
             \/ ReadDone(n) \/ SwapResponses(n) \/ RoundDone(n)
             \/ AddTaskStep(n) \/ DropTaskStep(n)
      PROVE  UNCHANGED <<peer, sent, inbound, kbuf, got, backlog>>
  BY <1>7 DEF EpollWait, AcceptEvent, AcceptEnd, ErrorEvent, DataEvent,
    ConnEventAt, ExtractPackage, ReadDone, SwapResponses, RoundDone,
    AddTaskStep, DropTaskStep, NextTask, kernelVars
<1>8. ASSUME NEW h \in Handle, HandleStep(h)
      PROVE  UNCHANGED <<peer, sent, inbound, kbuf, got, backlog>>
  BY <1>8 DEF HandleStep, TakeRequests, LockConnection, Distribute,
    SendResponse, kernelVars
<1>9. CASE UNCHANGED <<peer, sent, inbound, kbuf, got, backlog>>
  BY <1>1, <1>9 DEF PeersTypeOK
<1> QED
  BY <1>2, <1>3, <1>4, <1>5, <1>6, <1>7, <1>8, <1>9 DEF Next, NetStep

(* closeConnection, addConnection and mod keep the types of what they write. *)
LEMMA CloseType ==
    ASSUME EpollTypeOK, ConnsTypeOK, NetTypeOK,
           NEW n \in Net, NEW u \in Uid, table[n][u] # NoConn,
           CloseConnection(n, u)
    PROVE  /\ stage' \in
                [Conn -> {"none", "task", "open", "closed", "dropped"}]
           /\ interest' \in [Conn -> {"none", "in", "inout"}]
           /\ ready' \in [Conn -> BOOLEAN]
           /\ table' \in [Net -> [Uid -> Conn \cup {NoConn}]]
           /\ uids' \in [Net -> Seq(Uid)]
<1>1. uids[n] \in Seq(Uid)
  BY DEF NetTypeOK
<1>2. AfterPush(uids[n], u) \in Seq(Uid)
  BY <1>1 DEF AfterPush
<1>3. uids' \in [Net -> Seq(Uid)]
  BY <1>2 DEF CloseConnection, NetTypeOK
<1>4. table' \in [Net -> [Uid -> Conn \cup {NoConn}]]
  BY DEF CloseConnection, NetTypeOK
<1>5. table[n][u] \in Conn
  BY DEF NetTypeOK
<1> QED
  BY <1>3, <1>4, <1>5 DEF CloseConnection, EpollTypeOK, ConnsTypeOK

LEMMA AddType ==
    ASSUME EpollTypeOK, ConnsTypeOK, NetTypeOK,
           NEW n \in Net, NEW c \in Conn, AddConnection(n, c)
    PROVE  /\ stage' \in
                [Conn -> {"none", "task", "open", "closed", "dropped"}]
           /\ interest' \in [Conn -> {"none", "in", "inout"}]
           /\ ready' \in [Conn -> BOOLEAN]
           /\ uid' \in [Conn -> Uid \cup {NoUid}]
           /\ table' \in [Net -> [Uid -> Conn \cup {NoConn}]]
           /\ uids' \in [Net -> Seq(Uid)]
<1>1. uids[n] \in Seq(Uid)
  BY DEF NetTypeOK
<1>2. CASE CanPop(uids[n])
  <2>1. Popped(uids[n]) \in Uid /\ AfterPop(uids[n]) \in Seq(Uid)
    BY <1>1, <1>2 DEF CanPop, Popped, AfterPop
  <2>2. uids' \in [Net -> Seq(Uid)]
    BY <1>2, <2>1 DEF AddConnection, NetTypeOK
  <2>3. table' \in [Net -> [Uid -> Conn \cup {NoConn}]]
    <3> DEFINE u == Popped(uids[n])
    <3>1. table' = [table EXCEPT ![n][u] = c]
      BY <1>2 DEF AddConnection
    <3>2. table \in [Net -> [Uid -> Conn \cup {NoConn}]]
      BY DEF NetTypeOK
    <3> HIDE DEF u
    <3> QED
      BY <3>1, <3>2
  <2>4. uid' \in [Conn -> Uid \cup {NoUid}]
    BY <1>2, <2>1 DEF AddConnection, ConnsTypeOK
  <2>5. Readable(c) \in BOOLEAN
    BY DEF Readable
  <2> QED
    BY <1>2, <2>2, <2>3, <2>4, <2>5
    DEF AddConnection, EpollTypeOK, ConnsTypeOK
<1>3. CASE ~CanPop(uids[n])
  BY <1>3 DEF AddConnection, EpollTypeOK, ConnsTypeOK, NetTypeOK
<1> QED
  BY <1>2, <1>3

LEMMA RearmType ==
    ASSUME EpollTypeOK, NEW c \in Conn, NEW mask \in {"in", "inout"},
           Rearm(c, mask)
    PROVE  /\ interest' \in [Conn -> {"none", "in", "inout"}]
           /\ ready' \in [Conn -> BOOLEAN]
<1>1. ready[c] \in BOOLEAN
  BY DEF EpollTypeOK
<1> QED
  BY <1>1 DEF Rearm, EpollTypeOK, Readable

LEMMA EpollType ==
    ASSUME IInv, Next
    PROVE  EpollTypeOK'
<1>1. EpollTypeOK /\ ConnsTypeOK /\ NetTypeOK
  BY DEF IInv, TypeOK
<1>2. ASSUME NEW c \in Conn, PeerStep(c)
      PROVE  EpollTypeOK'
  <2>1. CASE PeerConnect(c)
    BY <1>1, <2>1 DEF PeerConnect, EpollTypeOK
  <2>2. CASE PeerSend(c)
    BY <1>1, <2>2 DEF PeerSend, EpollTypeOK
  <2>3. CASE PeerEnd(c)
    BY <1>1, <2>3 DEF PeerEnd, EpollTypeOK
  <2>4. CASE PeerRecv(c)
    BY <1>1, <2>4 DEF PeerRecv, EpollTypeOK
  <2> QED
    BY <1>2, <2>1, <2>2, <2>3, <2>4 DEF PeerStep
<1>3. ASSUME NEW n \in Net, EpollWait(n)
      PROVE  EpollTypeOK'
  BY <1>1, <1>3 DEF EpollWait, EpollTypeOK
<1>4. ASSUME NEW n \in Net, AcceptEnd(n)
      PROVE  EpollTypeOK'
  <2>1. MaxAcceptErrors \in Nat
    BY ServerAssumption DEF ServerAssumption
  <2>2. acceptErrors' = acceptErrors \/
            (acceptErrors < MaxAcceptErrors /\ acceptErrors' = acceptErrors + 1)
    BY <1>4 DEF AcceptEnd
  <2>3. acceptErrors' \in 0..MaxAcceptErrors
    BY <1>1, <2>1, <2>2 DEF EpollTypeOK
  <2>4. UNCHANGED <<listenReady, interest, ready>>
    BY <1>4 DEF AcceptEnd
  <2> QED
    BY <1>1, <2>3, <2>4 DEF EpollTypeOK
<1>5. ASSUME NEW n \in Net, NEW u \in Uid, table[n][u] # NoConn,
             CloseConnection(n, u), UNCHANGED <<listenReady, acceptErrors>>
      PROVE  EpollTypeOK'
  BY <1>1, <1>5, CloseType DEF EpollTypeOK
<1>6. ASSUME NEW n \in Net, AddTaskStep(n)
      PROVE  EpollTypeOK'
  <2>1. Head(batch[n]).conn \in Conn
    BY <1>6, HeadAddTask DEF AddTaskStep
  <2>2. AddConnection(n, Head(batch[n]).conn)
    BY <1>6 DEF AddTaskStep
  <2> QED
    BY <1>1, <1>6, <2>1, <2>2, AddType DEF AddTaskStep, NextTask, EpollTypeOK
<1>7. ASSUME NEW n \in Net, WriteEvent(n)
      PROVE  EpollTypeOK'
  <2> DEFINE c == reading[n].conn
  <2>1. c \in Conn
    BY <1>7, ReadingInTable DEF WriteEvent
  <2>2. UNCHANGED <<listenReady, acceptErrors>>
    BY <1>7 DEF WriteEvent
  <2>3. CASE Broken(c)
    BY <1>5, <1>7, <2>2, <2>3, WriteCloses
  <2>4. CASE ~Broken(c)
    <3>1. Rearm(c, "in") \/ UNCHANGED <<interest, ready>>
      BY <1>7, <2>4 DEF WriteEvent
    <3> QED
      BY <1>1, <2>1, <2>2, <3>1, RearmType DEF EpollTypeOK
  <2> QED
    BY <2>3, <2>4
<1>8. ASSUME NEW n \in Net, NetTaskStep(n)
      PROVE  EpollTypeOK'
  <2> DEFINE u == Head(batch[n]).uid
             c == table[n][u]
  <2>1. NextTask(n) /\ Head(batch[n]).type = "net" /\ c # NoConn
    BY <1>8 DEF NetTaskStep
  <2>2. u \in Uid /\ c \in Conn /\ uid[c] = u
    BY <2>1, HeadNetTask, EntryKnowsItsUid
  <2>3. UNCHANGED <<listenReady, acceptErrors>>
    BY <2>1 DEF NextTask
  <2>4. \/ CloseConnection(n, uid[c])
        \/ Rearm(c, "inout")
        \/ UNCHANGED <<interest, ready>>
    BY <1>8 DEF NetTaskStep
  <2> QED
    BY <1>1, <1>5, <2>1, <2>2, <2>3, <2>4, RearmType DEF EpollTypeOK
<1>9. ASSUME NEW n \in Net, ReadDone(n)
      PROVE  EpollTypeOK'
  <2>1. UNCHANGED <<listenReady, acceptErrors>>
    BY <1>9 DEF ReadDone
  <2>2. CASE reading[n].close
    BY <1>5, <1>9, <2>1, <2>2, ReadDoneCloses
  <2>3. CASE ~reading[n].close
    BY <1>1, <1>9, <2>1, <2>3 DEF ReadDone, EpollTypeOK
  <2> QED
    BY <2>2, <2>3
<1>10. ASSUME NEW n \in Net, ErrorEvent(n)
       PROVE  EpollTypeOK'
  <2>1. UNCHANGED <<listenReady, acceptErrors>>
    BY <1>10 DEF ErrorEvent, ConnEventAt
  <2> QED
    BY <1>5, <1>10, <2>1, ErrorCloses
<1>11. ASSUME NEW n \in Net,
              \/ AcceptEvent(n) \/ Accept(n) \/ DataEvent(n) \/ RecvData(n)
              \/ ExtractPackage(n) \/ SwapResponses(n) \/ RoundDone(n)
              \/ DropTaskStep(n)
       PROVE  UNCHANGED <<listenReady, interest, ready, acceptErrors>>
  BY <1>11 DEF AcceptEvent, Accept, DataEvent, ConnEventAt, RecvData,
    ExtractPackage, SwapResponses, RoundDone, DropTaskStep, NextTask, kernelVars
<1>12. ASSUME NEW h \in Handle, HandleStep(h)
       PROVE  UNCHANGED <<listenReady, interest, ready, acceptErrors>>
  BY <1>12 DEF HandleStep, TakeRequests, LockConnection, Distribute,
    SendResponse, kernelVars
<1>13. CASE UNCHANGED <<listenReady, interest, ready, acceptErrors>>
  BY <1>1, <1>13 DEF EpollTypeOK
<1> QED
  BY <1>2, <1>3, <1>4, <1>6, <1>7, <1>8, <1>9, <1>10, <1>11, <1>12, <1>13
  DEF Next, NetStep

LEMMA ConnsType ==
    ASSUME IInv, Next
    PROVE  ConnsTypeOK'
<1>1. PeersTypeOK /\ EpollTypeOK /\ ConnsTypeOK /\ NetTypeOK
  BY DEF IInv, TypeOK
<1>2. ASSUME NEW n \in Net, Accept(n)
      PROVE  ConnsTypeOK'
  <2>1. backlog \in Seq(Conn) /\ backlog # <<>>
    BY <1>1, <1>2 DEF Accept, PeersTypeOK
  <2>2. Head(backlog) \in Conn
    BY <2>1
  <2>3. hash % NumNet \in Net
    BY <1>1, ServerAssumption DEF ServerAssumption, NetTypeOK, Net
  <2> QED
    BY <1>1, <1>2, <2>2, <2>3 DEF Accept, ConnsTypeOK
<1>3. ASSUME NEW n \in Net, NEW u \in Uid, table[n][u] # NoConn,
             CloseConnection(n, u), UNCHANGED <<home, uid, recvBuf>>,
             sendBuf' \in [Conn -> Seq(Package)]
      PROVE  ConnsTypeOK'
  BY <1>1, <1>3, CloseType DEF ConnsTypeOK
<1>4. ASSUME NEW n \in Net, ErrorEvent(n)
      PROVE  ConnsTypeOK'
  <2>1. UNCHANGED <<home, uid, recvBuf, sendBuf>>
    BY <1>4 DEF ErrorEvent, ConnEventAt
  <2> QED
    BY <1>1, <1>3, <1>4, <2>1, ErrorCloses DEF ConnsTypeOK
<1>5. ASSUME NEW n \in Net, RecvData(n)
      PROVE  ConnsTypeOK'
  <2> DEFINE c == reading[n].conn
  <2>1. c \in Conn
    BY <1>5, ReadingInTable DEF RecvData
  <2>2. inbound[c] \in Seq(Request) /\ recvBuf[c] \in Seq(Request)
    BY <1>1, <2>1 DEF PeersTypeOK, ConnsTypeOK
  <2>3. PICK m \in KeptLengths(c) :
            recvBuf' = [recvBuf EXCEPT ![c] = recvBuf[c] \o SubSeq(inbound[c], 1, m)]
    BY <1>5 DEF RecvData
  <2>4. m \in 0..Len(inbound[c])
    BY <2>2 DEF KeptLengths
  <2>5. SubSeq(inbound[c], 1, m) \in Seq(Request)
    BY <2>2, <2>4
  <2>6. recvBuf[c] \o SubSeq(inbound[c], 1, m) \in Seq(Request)
    BY <2>2, <2>5, ConcatProperties
  <2>7. UNCHANGED <<stage, home, uid, sendBuf>>
    BY <1>5 DEF RecvData
  <2> QED
    BY <1>1, <2>1, <2>3, <2>6, <2>7 DEF ConnsTypeOK
<1>6. ASSUME NEW n \in Net, ExtractPackage(n)
      PROVE  ConnsTypeOK'
  <2> DEFINE c == reading[n].conn
  <2>1. c \in Conn
    BY <1>6, ReadingInTable DEF ExtractPackage
  <2>2. recvBuf[c] \in Seq(Request) /\ recvBuf[c] # <<>>
    BY <1>1, <1>6, <2>1 DEF ExtractPackage, ConnsTypeOK
  <2>3. Tail(recvBuf[c]) \in Seq(Request)
    BY <2>2
  <2> QED
    BY <1>1, <1>6, <2>1, <2>3 DEF ExtractPackage, ConnsTypeOK
<1>7. ASSUME NEW n \in Net, ReadDone(n)
      PROVE  ConnsTypeOK'
  <2>1. UNCHANGED <<home, uid, recvBuf, sendBuf>>
    BY <1>7 DEF ReadDone
  <2>2. CASE reading[n].close
    BY <1>1, <1>3, <1>7, <2>1, <2>2, ReadDoneCloses DEF ConnsTypeOK
  <2>3. CASE ~reading[n].close
    BY <1>1, <1>7, <2>1, <2>3 DEF ReadDone, ConnsTypeOK
  <2> QED
    BY <2>2, <2>3
<1>8. ASSUME NEW n \in Net, WriteEvent(n)
      PROVE  ConnsTypeOK'
  <2> DEFINE c == reading[n].conn
  <2>1. c \in Conn /\ sendBuf[c] \in Seq(Package)
    BY <1>1, <1>8, ReadingInTable DEF WriteEvent, ConnsTypeOK
  <2>2. UNCHANGED <<home, uid, recvBuf>>
    BY <1>8 DEF WriteEvent
  <2>3. CASE Broken(c)
    <3>1. UNCHANGED sendBuf
      BY <1>8, <2>3 DEF WriteEvent
    <3> QED
      BY <1>1, <1>3, <1>8, <2>2, <2>3, <3>1, WriteCloses DEF ConnsTypeOK
  <2>4. CASE ~Broken(c)
    <3>1. SendData(c, sendBuf[c]) /\ UNCHANGED stage
      BY <1>8, <2>4 DEF WriteEvent
    <3> QED
      BY <1>1, <2>1, <2>2, <3>1, SendDataType DEF ConnsTypeOK
  <2> QED
    BY <2>3, <2>4
<1>9. ASSUME NEW n \in Net, AddTaskStep(n)
      PROVE  ConnsTypeOK'
  <2>1. Head(batch[n]).conn \in Conn
    BY <1>9, HeadAddTask DEF AddTaskStep
  <2>2. AddConnection(n, Head(batch[n]).conn)
    BY <1>9 DEF AddTaskStep
  <2> QED
    BY <1>1, <1>9, <2>1, <2>2, AddType DEF AddTaskStep, NextTask, ConnsTypeOK
<1>10. ASSUME NEW n \in Net, NetTaskStep(n)
       PROVE  ConnsTypeOK'
  <2> DEFINE task == Head(batch[n])
             c == table[n][task.uid]
  <2>1. NextTask(n) /\ task.type = "net" /\ c # NoConn
    BY <1>10 DEF NetTaskStep
  <2>2. task.uid \in Uid /\ task.pkg \in Package
    BY <2>1, HeadNetTask
  <2>3. c \in Conn /\ uid[c] = task.uid
    BY <2>1, <2>2, EntryKnowsItsUid
  <2>4. UNCHANGED <<home, uid, recvBuf>>
    BY <1>10, <2>1 DEF NetTaskStep, NextTask
  <2>5. sendBuf[c] \in Seq(Package) /\ <<task.pkg>> \in Seq(Package)
    BY <1>1, <2>2, <2>3 DEF ConnsTypeOK
  <2>6. CASE /\ sendBuf' = [sendBuf EXCEPT ![c] = PushData(sendBuf[c], task.pkg)]
             /\ UNCHANGED stage
    <3>1. PushData(sendBuf[c], task.pkg) \in Seq(Package)
      BY <2>2, <2>5 DEF PushData
    <3> QED
      BY <1>1, <2>3, <2>4, <2>6, <3>1 DEF ConnsTypeOK
  <2>7. CASE /\ sendBuf' = [sendBuf EXCEPT ![c] = <<task.pkg>>]
             /\ CloseConnection(n, uid[c])
    <3>1. sendBuf' \in [Conn -> Seq(Package)]
      BY <1>1, <2>5, <2>7 DEF ConnsTypeOK
    <3> QED
      BY <1>3, <2>1, <2>2, <2>3, <2>4, <2>7, <3>1
  <2>8. CASE SendData(c, <<task.pkg>>) /\ UNCHANGED stage
    BY <1>1, <2>3, <2>4, <2>5, <2>8, SendDataType DEF ConnsTypeOK
  <2> QED
    BY <1>10, <2>6, <2>7, <2>8 DEF NetTaskStep
<1>11. ASSUME NEW n \in Net,
              \/ EpollWait(n) \/ AcceptEvent(n) \/ AcceptEnd(n) \/ DataEvent(n)
              \/ SwapResponses(n) \/ RoundDone(n) \/ DropTaskStep(n)
       PROVE  UNCHANGED connVars
  BY <1>11 DEF EpollWait, AcceptEvent, AcceptEnd, DataEvent, ConnEventAt,
    SwapResponses, RoundDone, DropTaskStep, NextTask, connVars
<1>12. ASSUME NEW h \in Handle, HandleStep(h)
       PROVE  UNCHANGED connVars
  BY <1>12 DEF HandleStep, TakeRequests, LockConnection, Distribute, SendResponse
<1>13. ASSUME NEW c \in Conn, PeerStep(c)
       PROVE  UNCHANGED connVars
  BY <1>13 DEF PeerStep, PeerConnect, PeerSend, PeerEnd, PeerRecv
<1>14. CASE UNCHANGED connVars
  BY <1>1, <1>14 DEF connVars, ConnsTypeOK
<1> QED
  BY <1>2, <1>4, <1>5, <1>6, <1>7, <1>8, <1>9, <1>10, <1>11, <1>12, <1>13,
    <1>14 DEF Next, NetStep

LEMMA NetType ==
    ASSUME IInv, Next
    PROVE  NetTypeOK'
<1>1. PeersTypeOK /\ EpollTypeOK /\ ConnsTypeOK /\ NetTypeOK /\ HandlesTypeOK
  BY DEF IInv, TypeOK
<1>2. ASSUME NEW n \in Net, EpollWait(n)
      PROVE  NetTypeOK'
  <2>1. ASSUME NEW c \in Pending(n)
        PROVE  Event(c) \in ConnEvent
    <3>1. c \in Conn /\ interest[c] # "none"
      BY <2>1 DEF Pending
    <3>2. uid[c] \in Uid
      BY <3>1 DEF IInv, TableSound
    <3>3. Broken(c) \in BOOLEAN /\ Readable(c) \in BOOLEAN /\ Writable(c) \in BOOLEAN
      BY DEF Broken, Readable, Writable
    <3> QED
      BY <3>2, <3>3 DEF Event, ConnEvent
  <2> DEFINE evs == {Event(c) : c \in Pending(n)} \cup
                        (IF Listening(n) THEN {ListenEvent} ELSE {})
  <2>2. evs \in SUBSET (ConnEvent \cup {ListenEvent})
    BY <2>1
  <2>3. events' = [events EXCEPT ![n] = evs] /\ pc' = [pc EXCEPT ![n] = "events"]
    BY <1>2 DEF EpollWait
  <2>4. UNCHANGED <<hash, reading, respQ, batch, table, uids>>
    BY <1>2 DEF EpollWait
  <2> HIDE DEF evs
  <2> QED
    BY <1>1, <2>2, <2>3, <2>4 DEF NetTypeOK
<1>3. ASSUME NEW n \in Net, AcceptEvent(n)
      PROVE  NetTypeOK'
  BY <1>1, <1>3 DEF AcceptEvent, NetTypeOK
<1>4. ASSUME NEW n \in Net, Accept(n)
      PROVE  NetTypeOK'
  <2> DEFINE c == Head(backlog)
             dest == hash % NumNet
             task == [type |-> "add", conn |-> c]
  <2>1. c \in Conn
    BY <1>1, <1>4 DEF Accept, PeersTypeOK
  <2>2. dest \in Net /\ hash \in Nat
    BY <1>1, ServerAssumption DEF ServerAssumption, NetTypeOK, Net
  <2>3. task \in Task
    BY <2>1 DEF Task, AddTask
  <2>4. respQ' = [respQ EXCEPT ![dest] = Append(respQ[dest], task)]
    BY <1>4 DEF Accept
  <2>5. UNCHANGED <<pc, events, reading, batch, table, uids>>
    BY <1>4 DEF Accept
  <2>6. hash' \in Nat
    BY <1>4, <2>2 DEF Accept
  <2> HIDE DEF dest, task
  <2>7. Append(respQ[dest], task) \in Seq(Task)
    BY <1>1, <2>2, <2>3 DEF NetTypeOK
  <2> QED
    BY <1>1, <2>2, <2>4, <2>5, <2>6, <2>7 DEF NetTypeOK
<1>5. ASSUME NEW n \in Net, AcceptEnd(n)
      PROVE  NetTypeOK'
  BY <1>1, <1>5 DEF AcceptEnd, NetTypeOK
<1>6. ASSUME NEW n \in Net, NEW u \in Uid, table[n][u] # NoConn,
             CloseConnection(n, u), UNCHANGED <<hash, respQ>>,
             events' \in [Net -> SUBSET (ConnEvent \cup {ListenEvent})],
             batch' \in [Net -> Seq(Task)],
             pc' = pc \/ pc' = [pc EXCEPT ![n] = "events"]
                 \/ pc' = [pc EXCEPT ![n] = "ended"],
             UNCHANGED reading \/ reading' = [reading EXCEPT ![n] = NotReading]
      PROVE  NetTypeOK'
  <2>1. NotReading \in [conn : Conn \cup {NoConn}, close : BOOLEAN, out : BOOLEAN]
    BY DEF NotReading
  <2>2. /\ table' \in [Net -> [Uid -> Conn \cup {NoConn}]]
        /\ uids' \in [Net -> Seq(Uid)]
    BY <1>1, <1>6, CloseType
  <2>3. reading' \in [Net -> [conn : Conn \cup {NoConn}, close : BOOLEAN,
                              out : BOOLEAN]]
    BY <1>1, <1>6, <2>1 DEF NetTypeOK
  <2>4. pc' \in [Net -> {"wait", "events", "accept", "recv", "extract", "send",
                         "tasks", "ended"}]
    BY <1>1, <1>6 DEF NetTypeOK
  <2> QED
    BY <1>1, <1>6, <2>2, <2>3, <2>4 DEF NetTypeOK
<1>7. ASSUME NEW n \in Net, ErrorEvent(n)
      PROVE  NetTypeOK'
  <2>1. UNCHANGED <<hash, respQ, batch, pc, reading>>
    BY <1>7 DEF ErrorEvent, ConnEventAt
  <2>2. events' \in [Net -> SUBSET (ConnEvent \cup {ListenEvent})]
    BY <1>1, <1>7 DEF ErrorEvent, ConnEventAt, NetTypeOK
  <2> QED
    BY <1>1, <1>6, <1>7, <2>1, <2>2, ErrorCloses DEF NetTypeOK
<1>8. ASSUME NEW n \in Net, DataEvent(n)
      PROVE  NetTypeOK'
  <2>1. PICK e \in events[n] :
            /\ ConnEventAt(n, e)
            /\ table[n][e.uid] # NoConn
            /\ pc' = [pc EXCEPT ![n] = IF e.in THEN "recv" ELSE "send"]
            /\ reading' = [reading EXCEPT ![n] =
                    [conn |-> table[n][e.uid], close |-> FALSE,
                     out |-> WritesToo(e)]]
            /\ UNCHANGED <<table, uids>>
    BY <1>8 DEF DataEvent
  <2>2. e \in ConnEvent
    BY <1>1, <2>1 DEF ConnEventAt, NetTypeOK
  <2>3. e.uid \in Uid /\ WritesToo(e) \in BOOLEAN
    BY <2>2 DEF ConnEvent, WritesToo
  <2>4. [conn |-> table[n][e.uid], close |-> FALSE, out |-> WritesToo(e)]
            \in [conn : Conn \cup {NoConn}, close : BOOLEAN, out : BOOLEAN]
    BY <1>1, <2>3 DEF NetTypeOK
  <2>5. events' = [events EXCEPT ![n] = events[n] \ {e}]
        /\ UNCHANGED <<hash, respQ, batch>>
    BY <2>1 DEF ConnEventAt
  <2>6. events' \in [Net -> SUBSET (ConnEvent \cup {ListenEvent})]
    BY <1>1, <2>5 DEF NetTypeOK
  <2>7. reading' \in [Net -> [conn : Conn \cup {NoConn}, close : BOOLEAN,
                              out : BOOLEAN]]
    BY <1>1, <2>1, <2>4 DEF NetTypeOK
  <2>8. pc' \in [Net -> {"wait", "events", "accept", "recv", "extract", "send",
                         "tasks", "ended"}]
    BY <1>1, <2>1 DEF NetTypeOK
  <2> QED
    BY <1>1, <2>1, <2>5, <2>6, <2>7, <2>8 DEF NetTypeOK
<1>9. ASSUME NEW n \in Net, RecvData(n)
      PROVE  NetTypeOK'
  <2>1. reading' = [reading EXCEPT ![n].close = StreamEnded(reading[n].conn)]
        /\ StreamEnded(reading[n].conn) \in BOOLEAN
    BY <1>9 DEF RecvData, StreamEnded
  <2>2. reading' \in [Net -> [conn : Conn \cup {NoConn}, close : BOOLEAN,
                              out : BOOLEAN]]
    BY <1>1, <2>1 DEF NetTypeOK
  <2> QED
    BY <1>1, <1>9, <2>2 DEF RecvData, NetTypeOK
<1>10. ASSUME NEW n \in Net, ReadDone(n)
       PROVE  NetTypeOK'
  <2>1. UNCHANGED <<hash, respQ, batch, events>>
    BY <1>10 DEF ReadDone
  <2>2. CASE reading[n].close
    <3>1. /\ reading' = [reading EXCEPT ![n] = NotReading]
          /\ \/ pc' = [pc EXCEPT ![n] = "events"]
             \/ pc' = [pc EXCEPT ![n] = "ended"]
      BY <1>10, <2>2 DEF ReadDone
    <3>2. PICK u \in Uid : table[n][u] # NoConn /\ CloseConnection(n, u)
      BY <1>10, <2>2, ReadDoneCloses
    <3>3. /\ events' \in [Net -> SUBSET (ConnEvent \cup {ListenEvent})]
          /\ batch' \in [Net -> Seq(Task)]
      BY <1>1, <2>1 DEF NetTypeOK
    <3> QED
      BY <1>6, <2>1, <3>1, <3>2, <3>3
  <2>3. CASE ~reading[n].close
    <3>1. NotReading \in [conn : Conn \cup {NoConn}, close : BOOLEAN, out : BOOLEAN]
      BY DEF NotReading
    <3>2. /\ reading' = reading \/ reading' = [reading EXCEPT ![n] = NotReading]
          /\ \/ pc' = [pc EXCEPT ![n] = "events"]
             \/ pc' = [pc EXCEPT ![n] = "send"]
          /\ UNCHANGED <<table, uids>>
      BY <1>1, <1>10, <2>3 DEF ReadDone, NetTypeOK
    <3>3. reading' \in [Net -> [conn : Conn \cup {NoConn}, close : BOOLEAN,
                                out : BOOLEAN]]
      BY <1>1, <3>1, <3>2 DEF NetTypeOK
    <3>4. pc' \in [Net -> {"wait", "events", "accept", "recv", "extract", "send",
                           "tasks", "ended"}]
      BY <1>1, <3>2 DEF NetTypeOK
    <3> QED
      BY <1>1, <2>1, <3>2, <3>3, <3>4 DEF NetTypeOK
  <2> QED
    BY <2>2, <2>3
<1>11. ASSUME NEW n \in Net, WriteEvent(n)
       PROVE  NetTypeOK'
  <2>1. /\ UNCHANGED <<hash, respQ, batch, events>>
        /\ reading' = [reading EXCEPT ![n] = NotReading]
        /\ pc' = [pc EXCEPT ![n] = "events"]
    BY <1>11 DEF WriteEvent
  <2>2. CASE Broken(reading[n].conn)
    <3>1. PICK u \in Uid : table[n][u] # NoConn /\ CloseConnection(n, u)
      BY <1>11, <2>2, WriteCloses
    <3>2. /\ events' \in [Net -> SUBSET (ConnEvent \cup {ListenEvent})]
          /\ batch' \in [Net -> Seq(Task)]
      BY <1>1, <2>1 DEF NetTypeOK
    <3> QED
      BY <1>6, <2>1, <3>1, <3>2
  <2>3. CASE ~Broken(reading[n].conn)
    <3>1. NotReading \in [conn : Conn \cup {NoConn}, close : BOOLEAN, out : BOOLEAN]
      BY DEF NotReading
    <3>2. UNCHANGED <<table, uids>>
      BY <1>11, <2>3 DEF WriteEvent
    <3> QED
      BY <1>1, <2>1, <3>1, <3>2 DEF NetTypeOK
  <2> QED
    BY <2>2, <2>3
<1>12. ASSUME NEW n \in Net, SwapResponses(n)
       PROVE  NetTypeOK'
  BY <1>1, <1>12 DEF SwapResponses, NetTypeOK
<1>13. ASSUME NEW n \in Net, RoundDone(n)
       PROVE  NetTypeOK'
  BY <1>1, <1>13 DEF RoundDone, NetTypeOK
<1>14. ASSUME NEW n \in Net, NextTask(n)
       PROVE  /\ batch' \in [Net -> Seq(Task)]
              /\ UNCHANGED <<hash, pc, events, reading, respQ>>
  <2>1. /\ batch' = [batch EXCEPT ![n] = Tail(batch[n])]
        /\ UNCHANGED <<hash, pc, events, reading, respQ>>
    BY <1>14 DEF NextTask
  <2>2. Tail(batch[n]) \in Seq(Task)
    BY <1>14, HeadTask
  <2> QED
    BY <1>1, <2>1, <2>2 DEF NetTypeOK
<1>15. ASSUME NEW n \in Net, AddTaskStep(n)
       PROVE  NetTypeOK'
  <2>1. Head(batch[n]).conn \in Conn
    BY <1>15, HeadAddTask DEF AddTaskStep
  <2>2. AddConnection(n, Head(batch[n]).conn) /\ NextTask(n)
    BY <1>15 DEF AddTaskStep
  <2> QED
    BY <1>1, <1>14, <2>1, <2>2, AddType DEF NetTypeOK
<1>16. ASSUME NEW n \in Net, NetTaskStep(n) \/ DropTaskStep(n)
       PROVE  NetTypeOK'
  <2>1. NextTask(n)
    BY <1>16 DEF NetTaskStep, DropTaskStep
  <2>2. /\ batch' \in [Net -> Seq(Task)]
        /\ UNCHANGED <<hash, pc, events, reading, respQ>>
    BY <1>14, <2>1
  <2>3. \/ \E u \in Uid : table[n][u] # NoConn /\ CloseConnection(n, u)
        \/ UNCHANGED <<table, uids>>
    BY <1>16, NetTaskCloses DEF DropTaskStep
  <2>4. CASE UNCHANGED <<table, uids>>
    BY <1>1, <2>2, <2>4 DEF NetTypeOK
  <2>5. CASE \E u \in Uid : table[n][u] # NoConn /\ CloseConnection(n, u)
    <3>1. events' \in [Net -> SUBSET (ConnEvent \cup {ListenEvent})]
      BY <1>1, <2>2 DEF NetTypeOK
    <3> QED
      BY <1>6, <2>2, <2>5, <3>1
  <2> QED
    BY <2>3, <2>4, <2>5
<1>17. ASSUME NEW h \in Handle, HandleStep(h)
       PROVE  NetTypeOK'
  <2>1. CASE SendResponse(h)
    <3> DEFINE c == cur[h].conn
               task == [type |-> "net", uid |-> uid[c], pkg |-> cur[h]]
    <3>1. cur[h] \in Request /\ uid[c] \in Uid
      BY <2>1 DEF SendResponse, IInv, WorkSound, RequestsSound
    <3>2. c \in Conn /\ cur[h] \in Package
      BY <3>1 DEF Request, Package
    <3>3. task \in Task
      BY <3>1, <3>2 DEF Task, NetTask
    <3>4. home[c] \in Net
      BY <1>1, <3>2 DEF ConnsTypeOK
    <3>5. /\ respQ' = [respQ EXCEPT ![home[c]] = Append(respQ[home[c]], task)]
          /\ UNCHANGED <<hash, pc, events, reading, batch, table, uids>>
      BY <2>1 DEF SendResponse
    <3> HIDE DEF task
    <3>6. Append(respQ[home[c]], task) \in Seq(Task)
      BY <1>1, <3>3, <3>4 DEF NetTypeOK
    <3> QED
      BY <1>1, <3>4, <3>5, <3>6 DEF NetTypeOK
  <2>2. CASE TakeRequests(h) \/ LockConnection(h) \/ Distribute(h)
    BY <1>1, <2>2 DEF TakeRequests, LockConnection, Distribute, netVars, NetTypeOK
  <2> QED
    BY <1>17, <2>1, <2>2 DEF HandleStep
<1>18. ASSUME NEW c \in Conn, PeerStep(c)
       PROVE  NetTypeOK'
  <2>1. UNCHANGED netVars
    BY <1>18 DEF PeerStep, PeerConnect, PeerSend, PeerEnd, PeerRecv
  <2> QED
    BY <1>1, <2>1 DEF netVars, NetTypeOK
<1>19. ASSUME NEW n \in Net, ExtractPackage(n)
       PROVE  NetTypeOK'
  BY <1>1, <1>19 DEF ExtractPackage, netVars, NetTypeOK
<1> QED
  BY <1>2, <1>3, <1>4, <1>5, <1>7, <1>8, <1>9, <1>10, <1>11, <1>12, <1>13,
    <1>15, <1>16, <1>17, <1>18, <1>19 DEF Next, NetStep

LEMMA HandlesType ==
    ASSUME IInv, Next
    PROVE  HandlesTypeOK'
<1>1. ConnsTypeOK /\ HandlesTypeOK
  BY DEF IInv, TypeOK
<1>2. ASSUME NEW h \in Handle, HandleStep(h)
      PROVE  HandlesTypeOK'
  <2>1. CASE TakeRequests(h)
    BY <1>1, <2>1 DEF TakeRequests, LeftInQueue, HandlesTypeOK
  <2>2. CASE LockConnection(h)
    <3>1. rq[h] \in Seq(Request) /\ rq[h] # <<>>
      BY <1>1, <2>2 DEF LockConnection, HandlesTypeOK
    <3>2. Head(rq[h]) \in Request /\ Tail(rq[h]) \in Seq(Request)
      BY <3>1
    <3>3. rq' \in [Handle -> Seq(Request)]
      BY <1>1, <2>2, <3>2 DEF LockConnection, HandlesTypeOK
    <3> QED
      BY <1>1, <2>2, <3>2, <3>3 DEF LockConnection, HandlesTypeOK
  <2>3. CASE Distribute(h)
    BY <1>1, <2>3 DEF Distribute, HandlesTypeOK
  <2>4. CASE SendResponse(h)
    BY <1>1, <2>4 DEF SendResponse, HandlesTypeOK
  <2> QED
    BY <1>2, <2>1, <2>2, <2>3, <2>4 DEF HandleStep
<1>3. ASSUME NEW n \in Net, ExtractPackage(n)
      PROVE  HandlesTypeOK'
  <2> DEFINE c == reading[n].conn
  <2>1. c \in Conn
    BY <1>3, ReadingInTable DEF ExtractPackage
  <2>2. recvBuf[c] \in Seq(Request) /\ recvBuf[c] # <<>>
    BY <1>1, <1>3, <2>1 DEF ExtractPackage, ConnsTypeOK
  <2>3. Head(recvBuf[c]) \in Request
    BY <2>2
  <2>4. Append(reqQ, Head(recvBuf[c])) \in Seq(Request)
    BY <1>1, <2>3 DEF HandlesTypeOK
  <2> QED
    BY <1>1, <1>3, <2>4 DEF ExtractPackage, HandlesTypeOK
<1>4. ASSUME NEW n \in Net, NetStep(n), ~ExtractPackage(n)
      PROVE  UNCHANGED handleVars
  BY <1>4 DEF NetStep, EpollWait, AcceptEvent, Accept, AcceptEnd, ErrorEvent,
    DataEvent, ConnEventAt, RecvData, ReadDone, WriteEvent, SwapResponses,
    RoundDone, AddTaskStep, NetTaskStep, DropTaskStep, NextTask
<1>5. ASSUME NEW c \in Conn, PeerStep(c)
      PROVE  UNCHANGED handleVars
  BY <1>5 DEF PeerStep, PeerConnect, PeerSend, PeerEnd, PeerRecv
<1>6. CASE UNCHANGED handleVars
  BY <1>1, <1>6 DEF handleVars, HandlesTypeOK
<1> QED
  BY <1>2, <1>3, <1>4, <1>5, <1>6 DEF Next

LEMMA TypeStep ==
    ASSUME IInv, Next
    PROVE  TypeOK'
BY PeersType, EpollType, ConnsType, NetType, HandlesType DEF TypeOK

-----------------------------------------------------------------------------
(* Uids and tables.  A step closes an entry, adds one, accepts a connection  *)
(* that has none yet, or leaves tables and uids alone.                       *)

FreeUids(n) == {u \in Uid : table[n][u] = NoConn}

LEMMA CloseUids ==
    ASSUME IInv, NEW n \in Net, NEW u \in Uid, table[n][u] # NoConn,
           CloseConnection(n, u)
    PROVE  UidsConserved'
<1>1. /\ table' = [table EXCEPT ![n] = [table[n] EXCEPT ![u] = NoConn]]
      /\ uids' = [uids EXCEPT ![n] = AfterPush(uids[n], u)]
      /\ table \in [Net -> [Uid -> Conn \cup {NoConn}]]
      /\ uids \in [Net -> Seq(Uid)]
  BY DEF CloseConnection, IInv, TypeOK, NetTypeOK
<1>2. \A p \in Net : Holds(uids[p], FreeUids(p))
  BY DEF IInv, UidsConserved, FreeUids
<1>3. Holds(AfterPush(uids[n], u), FreeUids(n) \cup {u})
  BY <1>1, <1>2, PushHolds DEF FreeUids
<1>4. {v \in Uid : table'[n][v] = NoConn} = FreeUids(n) \cup {u}
  BY <1>1 DEF FreeUids
<1>5. ASSUME NEW p \in Net
      PROVE  Holds(uids'[p], {v \in Uid : table'[p][v] = NoConn})
  <2>1. CASE p = n
    BY <1>1, <1>3, <1>4, <2>1
  <2>2. CASE p # n
    BY <1>1, <1>2, <2>2 DEF FreeUids
  <2> QED
    BY <2>1, <2>2
<1> QED
  BY <1>5 DEF UidsConserved, Holds

LEMMA CloseTable ==
    ASSUME IInv, NEW n \in Net, NEW u \in Uid, table[n][u] # NoConn,
           CloseConnection(n, u), UNCHANGED <<home, uid>>
    PROVE  TableSound'
<1> DEFINE c == table[n][u]
<1>1. /\ table' = [table EXCEPT ![n] = [table[n] EXCEPT ![u] = NoConn]]
      /\ stage' = [stage EXCEPT ![c] = "closed"]
      /\ interest' = [interest EXCEPT ![c] = "none"]
  BY DEF CloseConnection
<1>2. /\ table \in [Net -> [Uid -> Conn \cup {NoConn}]]
      /\ stage \in [Conn -> {"none", "task", "open", "closed", "dropped"}]
      /\ interest \in [Conn -> {"none", "in", "inout"}]
      /\ home \in [Conn -> Net]
  BY DEF IInv, TypeOK, NetTypeOK, ConnsTypeOK, EpollTypeOK
<1>3. c \in Conn /\ uid[c] = u /\ home[c] = n
  BY EntryKnowsItsUid
<1>4. ASSUME NEW p \in Net, NEW v \in Uid, table'[p][v] # NoConn
      PROVE  /\ uid'[table'[p][v]] = v /\ home'[table'[p][v]] = p
             /\ stage'[table'[p][v]] = "open"
  <2>1. table'[p][v] = table[p][v] /\ ~(p = n /\ v = u)
    BY <1>1, <1>2, <1>4
  <2>2. table[p][v] \in Conn /\ uid[table[p][v]] = v /\ home[table[p][v]] = p
        /\ stage[table[p][v]] = "open"
    BY <1>4, <2>1, EntryKnowsItsUid
  <2>3. table[p][v] # c
    BY <1>3, <2>1, <2>2
  <2> QED
    BY <1>1, <1>2, <2>1, <2>2, <2>3
<1>5. ASSUME NEW d \in Conn, stage'[d] = "open"
      PROVE  uid'[d] \in Uid /\ table'[home'[d]][uid'[d]] = d
  <2>1. d # c /\ stage[d] = "open"
    BY <1>1, <1>2, <1>3, <1>5
  <2>2. uid[d] \in Uid /\ table[home[d]][uid[d]] = d /\ home[d] \in Net
    BY <1>2, <2>1 DEF IInv, TableSound
  <2> QED
    BY <1>1, <1>2, <2>1, <2>2
<1>6. \A d \in Conn : interest'[d] # "none" <=> stage'[d] = "open"
  BY <1>1, <1>2, <1>3 DEF IInv, TableSound
<1> QED
  BY <1>4, <1>5, <1>6 DEF TableSound

LEMMA AddUids ==
    ASSUME IInv, NEW n \in Net, NEW c \in Conn, AddConnection(n, c)
    PROVE  UidsConserved'
<1> DEFINE u == Popped(uids[n])
<1>1. /\ table \in [Net -> [Uid -> Conn \cup {NoConn}]]
      /\ uids \in [Net -> Seq(Uid)]
      /\ NoConn \notin Conn
  BY ServerAssumption DEF IInv, TypeOK, NetTypeOK, ServerAssumption
<1>2. \A p \in Net : Holds(uids[p], FreeUids(p))
  BY DEF IInv, UidsConserved, FreeUids
<1>3. CASE CanPop(uids[n])
  <2>1. /\ table' = [table EXCEPT ![n] = [table[n] EXCEPT ![u] = c]]
        /\ uids' = [uids EXCEPT ![n] = AfterPop(uids[n])]
    BY <1>3 DEF AddConnection
  <2>2. /\ u \in FreeUids(n) /\ u \in Uid
        /\ Holds(AfterPop(uids[n]), FreeUids(n) \ {u})
    BY <1>1, <1>2, <1>3, PopHolds
  <2> HIDE DEF u
  <2>3. {v \in Uid : table'[n][v] = NoConn} = FreeUids(n) \ {u}
    BY <1>1, <2>1, <2>2 DEF FreeUids
  <2>4. ASSUME NEW p \in Net
        PROVE  Holds(uids'[p], {v \in Uid : table'[p][v] = NoConn})
    <3>1. CASE p = n
      BY <1>1, <2>1, <2>2, <2>3, <3>1
    <3>2. CASE p # n
      BY <1>1, <1>2, <2>1, <3>2 DEF FreeUids
    <3> QED
      BY <3>1, <3>2
  <2> QED
    BY <2>4 DEF UidsConserved, Holds
<1>4. CASE ~CanPop(uids[n])
  BY <1>4 DEF AddConnection, IInv, UidsConserved, Holds
<1> QED
  BY <1>3, <1>4

LEMMA AddTable ==
    ASSUME IInv, NEW n \in Net, NEW c \in Conn, AddConnection(n, c),
           stage[c] = "task", home[c] = n, UNCHANGED home
    PROVE  TableSound'
<1> DEFINE u == Popped(uids[n])
<1>1. /\ table \in [Net -> [Uid -> Conn \cup {NoConn}]]
      /\ stage \in [Conn -> {"none", "task", "open", "closed", "dropped"}]
      /\ interest \in [Conn -> {"none", "in", "inout"}]
      /\ home \in [Conn -> Net]
      /\ uid \in [Conn -> Uid \cup {NoUid}]
      /\ uids \in [Net -> Seq(Uid)]
      /\ NoConn \notin Conn
  BY ServerAssumption
  DEF IInv, TypeOK, NetTypeOK, ConnsTypeOK, EpollTypeOK, ServerAssumption
<1>2. ASSUME NEW p \in Net, NEW v \in Uid, table[p][v] # NoConn
      PROVE  table[p][v] # c
  BY <1>2, EntryKnowsItsUid
<1>3. CASE CanPop(uids[n])
  <2>1. /\ table' = [table EXCEPT ![n] = [table[n] EXCEPT ![u] = c]]
        /\ stage' = [stage EXCEPT ![c] = "open"]
        /\ interest' = [interest EXCEPT ![c] = "in"]
        /\ uid' = [uid EXCEPT ![c] = u]
    BY <1>3 DEF AddConnection
  <2>2. u \in FreeUids(n) /\ u \in Uid
    BY <1>1, <1>3, PopHolds DEF IInv, UidsConserved, FreeUids
  <2> HIDE DEF u
  <2>3. ASSUME NEW p \in Net, NEW v \in Uid, table'[p][v] # NoConn
        PROVE  /\ uid'[table'[p][v]] = v /\ home'[table'[p][v]] = p
               /\ stage'[table'[p][v]] = "open"
    <3>1. CASE p = n /\ v = u
      BY <1>1, <2>1, <2>2, <3>1
    <3>2. CASE ~(p = n /\ v = u)
      <4>1. table'[p][v] = table[p][v]
        BY <1>1, <2>1, <3>2
      <4>2. /\ table[p][v] \in Conn /\ uid[table[p][v]] = v
            /\ home[table[p][v]] = p /\ stage[table[p][v]] = "open"
        BY <2>3, <4>1, EntryKnowsItsUid
      <4> QED
        BY <1>1, <2>1, <4>1, <4>2
    <3> QED
      BY <3>1, <3>2
  <2>4. ASSUME NEW d \in Conn, stage'[d] = "open"
        PROVE  uid'[d] \in Uid /\ table'[home'[d]][uid'[d]] = d
    <3>1. CASE d = c
      BY <1>1, <2>1, <2>2, <3>1
    <3>2. CASE d # c
      <4>1. uid[d] \in Uid /\ table[home[d]][uid[d]] = d /\ home[d] \in Net
        BY <1>1, <2>1, <2>4, <3>2 DEF IInv, TableSound
      <4>2. ~(home[d] = n /\ uid[d] = u)
        BY <1>1, <2>2, <4>1 DEF FreeUids
      <4> QED
        BY <1>1, <2>1, <3>2, <4>1, <4>2
    <3> QED
      BY <3>1, <3>2
  <2>5. \A d \in Conn : interest'[d] # "none" <=> stage'[d] = "open"
    BY <1>1, <2>1 DEF IInv, TableSound
  <2> QED
    BY <2>3, <2>4, <2>5 DEF TableSound
<1>4. CASE ~CanPop(uids[n])
  <2>1. /\ stage' = [stage EXCEPT ![c] = "dropped"]
        /\ UNCHANGED <<interest, uid, table>>
    BY <1>4 DEF AddConnection
  <2> QED
    BY <1>1, <1>2, <2>1, EntryKnowsItsUid DEF IInv, TableSound
<1> QED
  BY <1>3, <1>4

(* A step that leaves tables and connections alone, and does not start or    *)
(* stop to watch one.                                                        *)
LEMMA QuietTable ==
    ASSUME IInv, UNCHANGED <<table, uids, stage, uid, home>>,
           \A d \in Conn : interest'[d] # "none" <=> interest[d] # "none"
    PROVE  UidsConserved' /\ TableSound'
<1>1. UidsConserved'
  BY DEF IInv, UidsConserved, Holds
<1>2. TableSound'
  BY DEF IInv, TableSound
<1> QED
  BY <1>1, <1>2

(* The connection at the head of the backlog has no task and no uid yet.     *)
LEMMA HeadOfBacklog ==
    ASSUME IInv, NEW n \in Net, Accept(n)
    PROVE  /\ backlog \in Seq(Conn)
           /\ 1 \in 1..Len(backlog)
           /\ Head(backlog) = backlog[1]
           /\ Head(backlog) \in Conn
           /\ stage[Head(backlog)] = "none"
           /\ hash % NumNet \in Net
<1>1. backlog \in Seq(Conn) /\ backlog # <<>>
  BY DEF Accept, IInv, TypeOK, PeersTypeOK
<1>2. /\ 1 \in 1..Len(backlog)
      /\ Head(backlog) = backlog[1]
      /\ Head(backlog) \in Conn
  BY <1>1
<1>3. stage[backlog[1]] = "none"
  BY <1>2 DEF IInv, WorkSound, BacklogSound
<1>4. hash % NumNet \in Net
  BY ServerAssumption DEF ServerAssumption, IInv, TypeOK, NetTypeOK, Net
<1> QED
  BY <1>1, <1>2, <1>3, <1>4

LEMMA AcceptTable ==
    ASSUME IInv, NEW n \in Net, Accept(n)
    PROVE  UidsConserved' /\ TableSound'
<1> DEFINE c == Head(backlog)
           dest == hash % NumNet
<1>1. /\ stage' = [stage EXCEPT ![c] = "task"]
      /\ home' = [home EXCEPT ![c] = dest]
      /\ UNCHANGED <<table, uids, uid, interest>>
  BY DEF Accept
<1>2. c \in Conn /\ stage[c] = "none" /\ dest \in Net
  BY HeadOfBacklog
<1>3. /\ stage \in [Conn -> {"none", "task", "open", "closed", "dropped"}]
      /\ home \in [Conn -> Net]
  BY DEF IInv, TypeOK, ConnsTypeOK
<1> HIDE DEF c, dest
<1>4. UidsConserved'
  <2>1. UNCHANGED <<table, uids>>
    BY <1>1
  <2> QED
    BY <2>1 DEF IInv, UidsConserved, Holds
<1>5. ASSUME NEW p \in Net, NEW v \in Uid, table'[p][v] # NoConn
      PROVE  /\ uid'[table'[p][v]] = v /\ home'[table'[p][v]] = p
             /\ stage'[table'[p][v]] = "open"
  <2>1. /\ table[p][v] \in Conn /\ uid[table[p][v]] = v
        /\ home[table[p][v]] = p /\ stage[table[p][v]] = "open"
    BY <1>1, <1>5, EntryKnowsItsUid
  <2> QED
    BY <1>1, <1>2, <1>3, <2>1
<1>6. ASSUME NEW d \in Conn, stage'[d] = "open"
      PROVE  uid'[d] \in Uid /\ table'[home'[d]][uid'[d]] = d
  <2>1. d # c /\ stage[d] = "open"
    BY <1>1, <1>2, <1>3, <1>6
  <2> QED
    BY <1>1, <1>2, <1>3, <2>1 DEF IInv, TableSound
<1>7. \A d \in Conn : interest'[d] # "none" <=> stage'[d] = "open"
  BY <1>1, <1>2, <1>3 DEF IInv, TableSound
<1> QED
  BY <1>4, <1>5, <1>6, <1>7 DEF TableSound

(* mod is only called for a connection of the table.                         *)
LEMMA RearmKeepsWatch ==
    ASSUME IInv, NEW c \in Conn, stage[c] = "open", NEW mask \in {"in", "inout"},
           Rearm(c, mask)
    PROVE  \A d \in Conn : interest'[d] # "none" <=> interest[d] # "none"
BY DEF IInv, TableSound, Rearm, TypeOK, EpollTypeOK

LEMMA TableStep ==
    ASSUME IInv, Next
    PROVE  UidsConserved' /\ TableSound'
<1>1. ASSUME NEW n \in Net, NEW u \in Uid, table[n][u] # NoConn,
             CloseConnection(n, u), UNCHANGED <<home, uid>>
      PROVE  UidsConserved' /\ TableSound'
  BY <1>1, CloseUids, CloseTable
<1>2. ASSUME NEW n \in Net, Accept(n)
      PROVE  UidsConserved' /\ TableSound'
  BY <1>2, AcceptTable
<1>3. ASSUME NEW n \in Net, AddTaskStep(n)
      PROVE  UidsConserved' /\ TableSound'
  <2>1. /\ NextTask(n)
        /\ AddConnection(n, Head(batch[n]).conn)
        /\ Head(batch[n]).type = "add"
    BY <1>3 DEF AddTaskStep
  <2>2. UNCHANGED home
    BY <2>1 DEF NextTask
  <2> QED
    BY <2>1, <2>2, HeadAddTask, AddUids, AddTable
<1>4. ASSUME NEW n \in Net, ErrorEvent(n)
      PROVE  UidsConserved' /\ TableSound'
  <2>1. UNCHANGED <<home, uid>>
    BY <1>4 DEF ErrorEvent, ConnEventAt
  <2> QED
    BY <1>1, <1>4, <2>1, ErrorCloses
<1>5. ASSUME NEW n \in Net, ReadDone(n)
      PROVE  UidsConserved' /\ TableSound'
  <2>1. UNCHANGED <<home, uid>>
    BY <1>5 DEF ReadDone
  <2>2. CASE reading[n].close
    BY <1>1, <1>5, <2>1, <2>2, ReadDoneCloses
  <2>3. CASE ~reading[n].close
    <3>1. UNCHANGED <<stage, interest, table, uids>>
      BY <1>5, <2>3 DEF ReadDone
    <3> QED
      BY <2>1, <3>1, QuietTable
  <2> QED
    BY <2>2, <2>3
<1>6. ASSUME NEW n \in Net, WriteEvent(n)
      PROVE  UidsConserved' /\ TableSound'
  <2> DEFINE c == reading[n].conn
  <2>1. UNCHANGED <<home, uid>>
    BY <1>6 DEF WriteEvent
  <2>2. CASE Broken(c)
    BY <1>1, <1>6, <2>1, <2>2, WriteCloses
  <2>3. CASE ~Broken(c)
    <3>1. /\ Rearm(c, "in") \/ UNCHANGED interest
          /\ UNCHANGED <<stage, table, uids>>
      BY <1>6, <2>3 DEF WriteEvent
    <3>2. c \in Conn /\ stage[c] = "open"
      BY <1>6, ReadingInTable DEF WriteEvent
    <3>3. \A d \in Conn : interest'[d] # "none" <=> interest[d] # "none"
      BY <3>1, <3>2, RearmKeepsWatch
    <3> QED
      BY <2>1, <3>1, <3>3, QuietTable
  <2> QED
    BY <2>2, <2>3
<1>7. ASSUME NEW n \in Net, NetTaskStep(n)
      PROVE  UidsConserved' /\ TableSound'
  <2> DEFINE u == Head(batch[n]).uid
             c == table[n][u]
  <2>1. NextTask(n) /\ Head(batch[n]).type = "net" /\ c # NoConn
    BY <1>7 DEF NetTaskStep
  <2>2. u \in Uid
    BY <2>1, HeadNetTask
  <2>3. c \in Conn /\ uid[c] = u /\ stage[c] = "open"
    BY <2>1, <2>2, EntryKnowsItsUid
  <2>4. UNCHANGED <<home, uid>>
    BY <1>7, <2>1 DEF NetTaskStep, NextTask
  <2>5. \/ CloseConnection(n, uid[c])
        \/ /\ Rearm(c, "inout") \/ UNCHANGED interest
           /\ UNCHANGED <<stage, table, uids>>
    BY <1>7 DEF NetTaskStep
  <2>6. CASE CloseConnection(n, uid[c])
    BY <1>1, <2>1, <2>2, <2>3, <2>4, <2>6
  <2>7. CASE /\ Rearm(c, "inout") \/ UNCHANGED interest
             /\ UNCHANGED <<stage, table, uids>>
    <3>1. \A d \in Conn : interest'[d] # "none" <=> interest[d] # "none"
      BY <2>3, <2>7, RearmKeepsWatch
    <3> QED
      BY <2>4, <2>7, <3>1, QuietTable
  <2> QED
    BY <2>5, <2>6, <2>7
<1>8. ASSUME NEW n \in Net,
             \/ EpollWait(n) \/ AcceptEvent(n) \/ AcceptEnd(n) \/ DataEvent(n)
             \/ RecvData(n) \/ ExtractPackage(n) \/ SwapResponses(n)
             \/ RoundDone(n) \/ DropTaskStep(n)
      PROVE  UNCHANGED <<table, uids, stage, uid, home, interest>>
  BY <1>8 DEF EpollWait, AcceptEvent, AcceptEnd, DataEvent, ConnEventAt,
    RecvData, ExtractPackage, SwapResponses, RoundDone, DropTaskStep, NextTask,
    kernelVars, connVars, netVars
<1>9. ASSUME NEW h \in Handle, HandleStep(h)
      PROVE  UNCHANGED <<table, uids, stage, uid, home, interest>>
  BY <1>9 DEF HandleStep, TakeRequests, LockConnection, Distribute,
    SendResponse, kernelVars, connVars, netVars
<1>10. ASSUME NEW c \in Conn, PeerStep(c)
       PROVE  UNCHANGED <<table, uids, stage, uid, home, interest>>
  BY <1>10 DEF PeerStep, PeerConnect, PeerSend, PeerEnd, PeerRecv, connVars,
    netVars
<1>11. CASE UNCHANGED <<table, uids, stage, uid, home, interest>>
  BY <1>11, QuietTable
<1> QED
  BY <1>2, <1>3, <1>4, <1>5, <1>6, <1>7, <1>8, <1>9, <1>10, <1>11
  DEF Next, NetStep

-----------------------------------------------------------------------------
(* What threads hold: ReadingSound.                                          *)

Busy == {"recv", "extract", "send"}      \* the thread works on a connection

(* No step but a close touches the connection a thread works on.             *)
LEMMA QuietReading ==
    ASSUME IInv,
           \A d \in Conn : stage[d] = "open" =>
                stage'[d] = "open" /\ home'[d] = home[d],
           \A p \in Net : pc'[p] \in Busy =>
                pc[p] \in Busy /\ reading'[p].conn = reading[p].conn
    PROVE  ReadingSound'
BY DEF IInv, WorkSound, ReadingSound, Busy

(* A thread closes only a connection of its own, and then works on none.     *)
LEMMA CloseReading ==
    ASSUME IInv, NEW n \in Net, NEW u \in Uid, table[n][u] # NoConn,
           CloseConnection(n, u), UNCHANGED home, pc'[n] \notin Busy,
           \A p \in Net \ {n} : pc'[p] = pc[p] /\ reading'[p] = reading[p]
    PROVE  ReadingSound'
<1> DEFINE c == table[n][u]
<1>1. c \in Conn /\ home[c] = n
  BY EntryKnowsItsUid
<1>2. stage' = [stage EXCEPT ![c] = "closed"]
  BY DEF CloseConnection
<1>3. stage \in [Conn -> {"none", "task", "open", "closed", "dropped"}]
  BY DEF IInv, TypeOK, ConnsTypeOK
<1>4. ASSUME NEW p \in Net, pc'[p] \in Busy
      PROVE  /\ reading'[p].conn \in Conn
             /\ stage'[reading'[p].conn] = "open"
             /\ home'[reading'[p].conn] = p
  <2>1. p # n /\ pc[p] \in Busy /\ reading'[p] = reading[p]
    BY <1>4
  <2>2. /\ reading[p].conn \in Conn /\ stage[reading[p].conn] = "open"
        /\ home[reading[p].conn] = p
    BY <2>1 DEF IInv, WorkSound, ReadingSound, Busy
  <2> HIDE DEF c
  <2>3. reading[p].conn # c
    BY <1>1, <2>1, <2>2
  <2> QED
    BY <1>2, <1>3, <2>1, <2>2, <2>3
<1> QED
  BY <1>4 DEF ReadingSound, Busy

LEMMA ReadingStep ==
    ASSUME IInv, Next
    PROVE  ReadingSound'
<1> DEFINE Kept == \A d \in Conn : stage[d] = "open" =>
                        stage'[d] = "open" /\ home'[d] = home[d]
           Same == \A p \in Net : pc'[p] \in Busy =>
                        pc[p] \in Busy /\ reading'[p].conn = reading[p].conn
<1>1. Kept /\ Same => ReadingSound'
  BY QuietReading
<1>2. /\ stage \in [Conn -> {"none", "task", "open", "closed", "dropped"}]
      /\ home \in [Conn -> Net]
      /\ pc \in [Net -> {"wait", "events", "accept", "recv", "extract", "send",
                         "tasks", "ended"}]
      /\ reading \in [Net -> [conn : Conn \cup {NoConn}, close : BOOLEAN,
                              out : BOOLEAN]]
  BY DEF IInv, TypeOK, ConnsTypeOK, NetTypeOK
<1>3. ASSUME NEW n \in Net, ErrorEvent(n)
      PROVE  ReadingSound'
  <2>1. PICK u \in Uid : table[n][u] # NoConn /\ CloseConnection(n, u)
    BY <1>3, ErrorCloses
  <2>2. pc[n] = "events" /\ UNCHANGED <<pc, reading, home>>
    BY <1>3 DEF ErrorEvent, ConnEventAt
  <2>3. pc'[n] \notin Busy
    BY <2>2 DEF Busy
  <2> QED
    BY <2>1, <2>2, <2>3, CloseReading
<1>4. ASSUME NEW n \in Net, ReadDone(n)
      PROVE  ReadingSound'
  <2>1. CASE reading[n].close
    <3>1. PICK u \in Uid : table[n][u] # NoConn /\ CloseConnection(n, u)
      BY <1>4, <2>1, ReadDoneCloses
    <3>2. /\ \/ pc' = [pc EXCEPT ![n] = "events"]
             \/ pc' = [pc EXCEPT ![n] = "ended"]
          /\ reading' = [reading EXCEPT ![n] = NotReading]
          /\ UNCHANGED home
      BY <1>4, <2>1 DEF ReadDone
    <3>3. /\ pc'[n] \notin Busy
          /\ \A p \in Net \ {n} : pc'[p] = pc[p] /\ reading'[p] = reading[p]
      BY <1>2, <3>2 DEF Busy
    <3> QED
      BY <3>1, <3>2, <3>3, CloseReading
  <2>2. CASE ~reading[n].close
    <3>1. /\ UNCHANGED <<stage, home>>
          /\ pc[n] = "extract"
          /\ pc' = [pc EXCEPT ![n] = IF reading[n].out THEN "send" ELSE "events"]
          /\ reading' = [reading EXCEPT ![n] =
                IF reading[n].out THEN reading[n] ELSE NotReading]
      BY <1>4, <2>2 DEF ReadDone
    <3>2. Same
      BY <1>2, <3>1 DEF Busy
    <3> QED
      BY <1>1, <3>1, <3>2
  <2> QED
    BY <2>1, <2>2
<1>5. ASSUME NEW n \in Net, WriteEvent(n)
      PROVE  ReadingSound'
  <2>1. /\ pc' = [pc EXCEPT ![n] = "events"]
        /\ reading' = [reading EXCEPT ![n] = NotReading]
        /\ UNCHANGED home
    BY <1>5 DEF WriteEvent
  <2>2. /\ pc'[n] \notin Busy
        /\ \A p \in Net \ {n} : pc'[p] = pc[p] /\ reading'[p] = reading[p]
    BY <1>2, <2>1 DEF Busy
  <2>3. CASE Broken(reading[n].conn)
    <3>1. PICK u \in Uid : table[n][u] # NoConn /\ CloseConnection(n, u)
      BY <1>5, <2>3, WriteCloses
    <3> QED
      BY <2>1, <2>2, <3>1, CloseReading
  <2>4. CASE ~Broken(reading[n].conn)
    <3>1. UNCHANGED stage
      BY <1>5, <2>4 DEF WriteEvent
    <3> QED
      BY <1>1, <2>1, <2>2, <3>1
  <2> QED
    BY <2>3, <2>4
<1>6. ASSUME NEW n \in Net, NetTaskStep(n)
      PROVE  ReadingSound'
  <2>1. NextTask(n)
    BY <1>6 DEF NetTaskStep
  <2>2. pc[n] = "tasks" /\ UNCHANGED <<pc, reading, home>>
    BY <2>1 DEF NextTask
  <2>3. pc'[n] \notin Busy
    BY <2>2 DEF Busy
  <2>4. CASE \E u \in Uid : table[n][u] # NoConn /\ CloseConnection(n, u)
    BY <2>2, <2>3, <2>4, CloseReading
  <2>5. CASE UNCHANGED <<stage, table, uids>>
    BY <1>1, <2>2, <2>5
  <2> QED
    BY <1>6, <2>4, <2>5, NetTaskCloses
<1>7. ASSUME NEW n \in Net, Accept(n)
      PROVE  ReadingSound'
  <2> DEFINE c == Head(backlog)
             dest == hash % NumNet
  <2>1. /\ stage' = [stage EXCEPT ![c] = "task"]
        /\ home' = [home EXCEPT ![c] = dest]
        /\ UNCHANGED <<pc, reading>>
    BY <1>7 DEF Accept
  <2>2. c \in Conn /\ stage[c] = "none"
    BY <1>7, HeadOfBacklog
  <2> HIDE DEF c, dest
  <2>3. Kept
    BY <1>2, <2>1, <2>2
  <2> QED
    BY <1>1, <2>1, <2>3
<1>8. ASSUME NEW n \in Net, AddTaskStep(n)
      PROVE  ReadingSound'
  <2> DEFINE c == Head(batch[n]).conn
  <2>1. /\ NextTask(n)
        /\ AddConnection(n, c)
        /\ Head(batch[n]).type = "add"
    BY <1>8 DEF AddTaskStep
  <2>2. UNCHANGED <<home, pc, reading>>
    BY <2>1 DEF NextTask
  <2>3. c \in Conn /\ stage[c] = "task"
    BY <2>1, HeadAddTask
  <2>4. \/ stage' = [stage EXCEPT ![c] = "open"]
        \/ stage' = [stage EXCEPT ![c] = "dropped"]
    BY <2>1 DEF AddConnection
  <2> HIDE DEF c
  <2>5. Kept
    BY <1>2, <2>2, <2>3, <2>4
  <2> QED
    BY <1>1, <2>2, <2>5
<1>9. ASSUME NEW n \in Net, DataEvent(n)
      PROVE  ReadingSound'
  <2>1. PICK e \in events[n] :
            /\ ConnEventAt(n, e)
            /\ table[n][e.uid] # NoConn
            /\ pc' = [pc EXCEPT ![n] = IF e.in THEN "recv" ELSE "send"]
            /\ reading' = [reading EXCEPT ![n] =
                    [conn |-> table[n][e.uid], close |-> FALSE,
                     out |-> WritesToo(e)]]
            /\ UNCHANGED stage
    BY <1>9 DEF DataEvent
  <2>2. e.uid \in Uid
    <3>1. e \in ConnEvent
      BY <2>1 DEF ConnEventAt, IInv, TypeOK, NetTypeOK
    <3> QED
      BY <3>1 DEF ConnEvent
  <2>3. /\ table[n][e.uid] \in Conn /\ stage[table[n][e.uid]] = "open"
        /\ home[table[n][e.uid]] = n
    BY <2>1, <2>2, EntryKnowsItsUid
  <2>4. UNCHANGED home
    BY <2>1 DEF ConnEventAt
  <2>5. ASSUME NEW p \in Net, pc'[p] \in Busy
        PROVE  /\ reading'[p].conn \in Conn
               /\ stage'[reading'[p].conn] = "open"
               /\ home'[reading'[p].conn] = p
    <3>1. CASE p = n
      <4>1. reading'[p].conn = table[n][e.uid]
        BY <1>2, <2>1, <3>1
      <4> QED
        BY <2>1, <2>3, <2>4, <3>1, <4>1
    <3>2. CASE p # n
      <4>1. pc[p] \in Busy /\ reading'[p] = reading[p]
        BY <1>2, <2>1, <2>5, <3>2
      <4> QED
        BY <2>1, <2>4, <4>1 DEF IInv, WorkSound, ReadingSound, Busy
    <3> QED
      BY <3>1, <3>2
  <2> QED
    BY <2>5 DEF ReadingSound, Busy
<1>10. ASSUME NEW n \in Net, RecvData(n)
       PROVE  ReadingSound'
  <2>1. /\ UNCHANGED <<stage, home>>
        /\ pc[n] = "recv"
        /\ pc' = [pc EXCEPT ![n] = "extract"]
        /\ reading' = [reading EXCEPT ![n].close = StreamEnded(reading[n].conn)]
    BY <1>10 DEF RecvData
  <2>2. Same
    BY <1>2, <2>1 DEF Busy
  <2> QED
    BY <1>1, <2>1, <2>2
<1>11. ASSUME NEW n \in Net, EpollWait(n) \/ AcceptEvent(n) \/ AcceptEnd(n)
                             \/ SwapResponses(n) \/ RoundDone(n)
       PROVE  ReadingSound'
  <2>1. /\ UNCHANGED <<stage, home, reading>>
        /\ \E to \in {"events", "accept", "tasks", "wait"} :
                pc' = [pc EXCEPT ![n] = to]
    BY <1>11 DEF EpollWait, AcceptEvent, AcceptEnd, SwapResponses, RoundDone,
      connVars
  <2>2. Same
    BY <1>2, <2>1 DEF Busy
  <2> QED
    BY <1>1, <2>1, <2>2
<1>12. ASSUME NEW n \in Net, ExtractPackage(n) \/ DropTaskStep(n)
       PROVE  UNCHANGED <<stage, home, pc, reading>>
  BY <1>12 DEF ExtractPackage, DropTaskStep, NextTask, netVars
<1>13. ASSUME NEW h \in Handle, HandleStep(h)
       PROVE  UNCHANGED <<stage, home, pc, reading>>
  BY <1>13 DEF HandleStep, TakeRequests, LockConnection, Distribute,
    SendResponse, connVars, netVars
<1>14. ASSUME NEW c \in Conn, PeerStep(c)
       PROVE  UNCHANGED <<stage, home, pc, reading>>
  BY <1>14 DEF PeerStep, PeerConnect, PeerSend, PeerEnd, PeerRecv, connVars,
    netVars
<1>15. CASE UNCHANGED <<stage, home, pc, reading>>
  BY <1>1, <1>15
<1> QED
  BY <1>3, <1>4, <1>5, <1>6, <1>7, <1>8, <1>9, <1>10, <1>11, <1>12, <1>13,
    <1>14, <1>15 DEF Next, NetStep

-----------------------------------------------------------------------------
(* What threads hold: RequestsSound.                                         *)

(* A connection that has had a uid has one for ever.                         *)
LEMMA UidKept ==
    ASSUME IInv, Next
    PROVE  \A d \in Conn : uid[d] \in Uid => uid'[d] \in Uid
<1>1. ASSUME NEW n \in Net, AddTaskStep(n)
      PROVE  \A d \in Conn : uid[d] \in Uid => uid'[d] \in Uid
  <2> DEFINE c == Head(batch[n]).conn
             u == Popped(uids[n])
  <2>1. AddConnection(n, c)
    BY <1>1 DEF AddTaskStep
  <2>2. uid \in [Conn -> Uid \cup {NoUid}]
    BY DEF IInv, TypeOK, ConnsTypeOK
  <2>3. CASE CanPop(uids[n])
    <3>1. uid' = [uid EXCEPT ![c] = u]
      BY <2>1, <2>3 DEF AddConnection
    <3>2. uids[n] \in Seq(Uid) /\ Holds(uids[n], FreeUids(n))
      BY DEF IInv, TypeOK, NetTypeOK, UidsConserved, FreeUids
    <3>3. u \in Uid
      BY <2>3, <3>2, PopHolds
    <3> HIDE DEF c, u
    <3> QED
      BY <2>2, <3>1, <3>3
  <2>4. CASE ~CanPop(uids[n])
    BY <2>1, <2>4 DEF AddConnection
  <2> QED
    BY <2>3, <2>4
<1>2. ASSUME NEW n \in Net, NetStep(n), ~AddTaskStep(n)
      PROVE  UNCHANGED uid
  <2>1. CASE NetTaskStep(n) \/ DropTaskStep(n)
    BY <2>1 DEF NetTaskStep, DropTaskStep
  <2>2. CASE ErrorEvent(n) \/ DataEvent(n)
    BY <2>2 DEF ErrorEvent, DataEvent, ConnEventAt
  <2>3. CASE EpollWait(n) \/ AcceptEvent(n) \/ Accept(n) \/ AcceptEnd(n)
    BY <2>3 DEF EpollWait, AcceptEvent, Accept, AcceptEnd, connVars
  <2>4. CASE RecvData(n) \/ ExtractPackage(n) \/ ReadDone(n) \/ WriteEvent(n)
    BY <2>4 DEF RecvData, ExtractPackage, ReadDone, WriteEvent
  <2>5. CASE SwapResponses(n) \/ RoundDone(n)
    BY <2>5 DEF SwapResponses, RoundDone, connVars
  <2> QED
    BY <1>2, <2>1, <2>2, <2>3, <2>4, <2>5 DEF NetStep
<1>3. ASSUME NEW h \in Handle, HandleStep(h)
      PROVE  UNCHANGED uid
  BY <1>3 DEF HandleStep, TakeRequests, LockConnection, Distribute,
    SendResponse, connVars
<1>4. ASSUME NEW c \in Conn, PeerStep(c)
      PROVE  UNCHANGED uid
  BY <1>4 DEF PeerStep, PeerConnect, PeerSend, PeerEnd, PeerRecv, connVars
<1> QED
  BY <1>1, <1>2, <1>3, <1>4 DEF Next

(* The packages of s were received on c.                                     *)
Own(s, c) == \A i \in 1..Len(s) : s[i].conn = c

LEMMA OwnTail ==
    ASSUME NEW S, NEW s \in Seq(S), s # <<>>, NEW c, Own(s, c)
    PROVE  /\ Head(s).conn = c
           /\ Tail(s) \in Seq(S)
           /\ Own(Tail(s), c)
<1>1. Len(s) \in Nat \ {0} /\ Head(s) = s[1]
  OBVIOUS
<1>2. /\ Tail(s) \in Seq(S)
      /\ Len(Tail(s)) = Len(s) - 1
      /\ \A i \in 1..Len(Tail(s)) : Tail(s)[i] = s[i + 1]
  OBVIOUS
<1>3. ASSUME NEW i \in 1..Len(Tail(s))
      PROVE  Tail(s)[i].conn = c
  <2>1. i + 1 \in 1..Len(s)
    BY <1>1, <1>2
  <2> QED
    BY <1>2, <2>1 DEF Own
<1> QED
  BY <1>1, <1>2, <1>3 DEF Own

LEMMA OwnConcat ==
    ASSUME NEW S, NEW s \in Seq(S), NEW t \in Seq(S), NEW c,
           Own(s, c), Own(t, c), NEW m \in 0..Len(t)
    PROVE  Own(s \o SubSeq(t, 1, m), c)
<1> DEFINE r == SubSeq(t, 1, m)
<1>1. /\ r \in Seq(S)
      /\ Len(r) = m
      /\ \A i \in 1..m : r[i] = t[i]
  OBVIOUS
<1>2. Own(r, c)
  BY <1>1 DEF Own
<1> HIDE DEF r
<1>3. /\ Len(s \o r) = Len(s) + Len(r)
      /\ \A i \in 1..Len(s) + Len(r) :
            (s \o r)[i] = IF i <= Len(s) THEN s[i] ELSE r[i - Len(s)]
  BY <1>1, ConcatProperties
<1>4. ASSUME NEW i \in 1..Len(s \o r)
      PROVE  (s \o r)[i].conn = c
  <2>1. CASE i <= Len(s)
    <3>1. i \in 1..Len(s)
      BY <1>3, <2>1
    <3> QED
      BY <1>3, <2>1, <3>1 DEF Own
  <2>2. CASE ~(i <= Len(s))
    <3>1. i - Len(s) \in 1..Len(r)
      BY <1>1, <1>3, <2>2
    <3> QED
      BY <1>2, <1>3, <2>2, <3>1 DEF Own
  <2> QED
    BY <2>1, <2>2
<1> QED
  BY <1>4 DEF Own, r

(* What the peer sent arrives in the buffers of its own connection only.     *)
LEMMA PackagesStep ==
    ASSUME IInv, Next
    PROVE  \A c \in Conn : Own(inbound'[c], c) /\ Own(recvBuf'[c], c)
<1>1. /\ inbound \in [Conn -> Seq(Request)]
      /\ recvBuf \in [Conn -> Seq(Request)]
      /\ \A c \in Conn : Own(inbound[c], c) /\ Own(recvBuf[c], c)
  BY DEF IInv, TypeOK, PeersTypeOK, ConnsTypeOK, WorkSound, RequestsSound, Own
<1>2. ASSUME NEW c \in Conn, PeerSend(c)
      PROVE  \A d \in Conn : Own(inbound'[d], d) /\ Own(recvBuf'[d], d)
  <2> DEFINE r == [conn |-> c, k |-> sent[c] + 1]
  <2>1. /\ inbound' = [inbound EXCEPT ![c] = Append(inbound[c], r)]
        /\ UNCHANGED recvBuf
    BY <1>2 DEF PeerSend, connVars
  <2>2. r.conn = c
    OBVIOUS
  <2> HIDE DEF r
  <2>3. Own(Append(inbound[c], r), c)
    <3>1. ASSUME NEW i \in 1..Len(Append(inbound[c], r))
          PROVE  Append(inbound[c], r)[i].conn = c
      <4>1. /\ Len(Append(inbound[c], r)) = Len(inbound[c]) + 1
            /\ Len(inbound[c]) \in Nat
        BY <1>1
      <4>2. CASE i = Len(inbound[c]) + 1
        BY <1>1, <2>2, <4>1, <4>2
      <4>3. CASE i # Len(inbound[c]) + 1
        <5>1. i \in 1..Len(inbound[c])
          BY <4>1, <4>3
        <5>2. Append(inbound[c], r)[i] = inbound[c][i]
          BY <1>1, <5>1
        <5> QED
          BY <1>1, <5>1, <5>2 DEF Own
      <4> QED
        BY <4>2, <4>3
    <3> QED
      BY <3>1 DEF Own
  <2> QED
    BY <1>1, <2>1, <2>3
<1>3. ASSUME NEW n \in Net, RecvData(n)
      PROVE  \A d \in Conn : Own(inbound'[d], d) /\ Own(recvBuf'[d], d)
  <2> DEFINE c == reading[n].conn
  <2>1. PICK m \in KeptLengths(c) :
            recvBuf' = [recvBuf EXCEPT ![c] =
                recvBuf[c] \o SubSeq(inbound[c], 1, m)]
    BY <1>3 DEF RecvData
  <2>2. inbound' = [inbound EXCEPT ![c] = <<>>]
    BY <1>3 DEF RecvData
  <2>3. c \in Conn
    BY <1>3, ReadingInTable DEF RecvData
  <2>4. m \in 0..Len(inbound[c])
    <3>1. Len(inbound[c]) \in Nat
      BY <1>1, <2>3
    <3> QED
      BY <2>1, <3>1 DEF KeptLengths
  <2> HIDE DEF c
  <2>5. /\ inbound[c] \in Seq(Request) /\ recvBuf[c] \in Seq(Request)
        /\ Own(inbound[c], c) /\ Own(recvBuf[c], c)
    BY <1>1, <2>3
  <2>6. Own(recvBuf[c] \o SubSeq(inbound[c], 1, m), c)
    BY <2>4, <2>5, OwnConcat
  <2>7. Own(<<>>, c)
    BY DEF Own
  <2> QED
    BY <1>1, <2>1, <2>2, <2>6, <2>7
<1>4. ASSUME NEW n \in Net, ExtractPackage(n)
      PROVE  \A d \in Conn : Own(inbound'[d], d) /\ Own(recvBuf'[d], d)
  <2> DEFINE c == reading[n].conn
  <2>1. /\ recvBuf[c] # <<>>
        /\ recvBuf' = [recvBuf EXCEPT ![c] = Tail(recvBuf[c])]
        /\ UNCHANGED inbound
    BY <1>4 DEF ExtractPackage, kernelVars
  <2>2. c \in Conn
    BY <1>4, ReadingInTable DEF ExtractPackage
  <2> HIDE DEF c
  <2>3. Own(Tail(recvBuf[c]), c)
    BY <1>1, <2>1, <2>2, OwnTail
  <2> QED
    BY <1>1, <2>1, <2>3
<1>5. ASSUME NEW n \in Net, NetStep(n), ~RecvData(n), ~ExtractPackage(n)
      PROVE  UNCHANGED <<inbound, recvBuf>>
  <2>1. CASE AddTaskStep(n) \/ NetTaskStep(n) \/ DropTaskStep(n)
    BY <2>1 DEF AddTaskStep, NetTaskStep, DropTaskStep, NextTask
  <2>2. CASE ErrorEvent(n) \/ DataEvent(n)
    BY <2>2 DEF ErrorEvent, DataEvent, ConnEventAt
  <2>3. CASE EpollWait(n) \/ AcceptEvent(n) \/ Accept(n) \/ AcceptEnd(n)
    BY <2>3 DEF EpollWait, AcceptEvent, Accept, AcceptEnd, kernelVars, connVars
  <2>4. CASE ReadDone(n) \/ WriteEvent(n)
    BY <2>4 DEF ReadDone, WriteEvent
  <2>5. CASE SwapResponses(n) \/ RoundDone(n)
    BY <2>5 DEF SwapResponses, RoundDone, kernelVars, connVars
  <2> QED
    BY <1>5, <2>1, <2>2, <2>3, <2>4, <2>5 DEF NetStep
<1>6. ASSUME NEW h \in Handle, HandleStep(h)
      PROVE  UNCHANGED <<inbound, recvBuf>>
  BY <1>6 DEF HandleStep, TakeRequests, LockConnection, Distribute,
    SendResponse, kernelVars, connVars
<1>7. ASSUME NEW c \in Conn, PeerStep(c), ~PeerSend(c)
      PROVE  UNCHANGED <<inbound, recvBuf>>
  BY <1>7 DEF PeerStep, PeerConnect, PeerEnd, PeerRecv, connVars
<1>8. CASE UNCHANGED <<inbound, recvBuf>>
  BY <1>1, <1>8
<1> QED
  BY <1>2, <1>3, <1>4, <1>5, <1>6, <1>7, <1>8 DEF Next

(* The requests of s come from connections that have had a uid.              *)
Known(s) == \A i \in 1..Len(s) : uid[s[i].conn] \in Uid

(* So they keep it.                                                          *)
LEMMA KnownKept ==
    ASSUME IInv, Next, NEW s \in Seq(Request), Known(s)
    PROVE  \A i \in 1..Len(s) : uid'[s[i].conn] \in Uid
<1>1. ASSUME NEW i \in 1..Len(s)
      PROVE  uid'[s[i].conn] \in Uid
  <2>1. s[i] \in Request /\ uid[s[i].conn] \in Uid
    BY DEF Known
  <2>2. s[i].conn \in Conn
    BY <2>1 DEF Request
  <2> QED
    BY <2>1, <2>2, UidKept
<1> QED
  BY <1>1

LEMMA KnownTail ==
    ASSUME NEW s \in Seq(Request), s # <<>>, Known(s)
    PROVE  /\ Head(s) \in Request
           /\ uid[Head(s).conn] \in Uid
           /\ Tail(s) \in Seq(Request)
           /\ Known(Tail(s))
<1>1. Len(s) \in Nat \ {0} /\ Head(s) = s[1] /\ Head(s) \in Request
  OBVIOUS
<1>2. /\ Tail(s) \in Seq(Request)
      /\ Len(Tail(s)) = Len(s) - 1
      /\ \A i \in 1..Len(Tail(s)) : Tail(s)[i] = s[i + 1]
  OBVIOUS
<1>3. ASSUME NEW i \in 1..Len(Tail(s))
      PROVE  uid[Tail(s)[i].conn] \in Uid
  <2>1. i + 1 \in 1..Len(s)
    BY <1>1, <1>2
  <2> QED
    BY <1>2, <2>1 DEF Known
<1> QED
  BY <1>1, <1>2, <1>3 DEF Known

LEMMA KnownAppend ==
    ASSUME NEW s \in Seq(Request), NEW r \in Request, Known(s),
           uid[r.conn] \in Uid
    PROVE  Append(s, r) \in Seq(Request) /\ Known(Append(s, r))
<1>1. /\ Append(s, r) \in Seq(Request)
      /\ Len(Append(s, r)) = Len(s) + 1
      /\ Len(s) \in Nat
      /\ Append(s, r)[Len(s) + 1] = r
      /\ \A i \in 1..Len(s) : Append(s, r)[i] = s[i]
  OBVIOUS
<1>2. ASSUME NEW i \in 1..Len(Append(s, r))
      PROVE  uid[Append(s, r)[i].conn] \in Uid
  <2>1. CASE i = Len(s) + 1
    BY <1>1, <2>1
  <2>2. CASE i # Len(s) + 1
    <3>1. i \in 1..Len(s)
      BY <1>1, <2>2
    <3> QED
      BY <1>1, <3>1 DEF Known
  <2> QED
    BY <2>1, <2>2
<1> QED
  BY <1>1, <1>2 DEF Known

(* The queues and the hands of the handle threads hold known requests.       *)
LEMMA HandsStep ==
    ASSUME IInv, Next
    PROVE  /\ \A i \in 1..Len(reqQ') : uid'[reqQ'[i].conn] \in Uid
           /\ \A h \in Handle :
                /\ \A i \in 1..Len(rq'[h]) : uid'[rq'[h][i].conn] \in Uid
                /\ hpc'[h] # "idle" =>
                        cur'[h] \in Request /\ uid'[cur'[h].conn] \in Uid
<1> DEFINE InHands == /\ reqQ' \in Seq(Request) /\ Known(reqQ')
                      /\ \A h \in Handle :
                            /\ rq'[h] \in Seq(Request) /\ Known(rq'[h])
                            /\ hpc'[h] # "idle" => cur'[h] \in Request
                                        /\ uid[cur'[h].conn] \in Uid
<1>1. /\ reqQ \in Seq(Request)
      /\ rq \in [Handle -> Seq(Request)]
      /\ cur \in [Handle -> Request \cup {NoReq}]
      /\ hpc \in [Handle -> {"idle", "parse", "send"}]
      /\ Known(reqQ)
      /\ \A h \in Handle : /\ Known(rq[h])
                           /\ hpc[h] # "idle" => /\ cur[h] \in Request
                                                 /\ uid[cur[h].conn] \in Uid
  BY DEF IInv, TypeOK, HandlesTypeOK, WorkSound, RequestsSound, Known
<1>2. ASSUME NEW h \in Handle, TakeRequests(h)
      PROVE  InHands
  <2>1. /\ rq' = [rq EXCEPT ![h] = reqQ]
        /\ reqQ' = <<>>
        /\ UNCHANGED <<cur, hpc>>
    BY <1>2 DEF TakeRequests, LeftInQueue
  <2>2. <<>> \in Seq(Request) /\ Known(<<>>)
    BY DEF Known
  <2> QED
    BY <1>1, <2>1, <2>2
<1>3. ASSUME NEW h \in Handle, LockConnection(h)
      PROVE  InHands
  <2> DEFINE r == Head(rq[h])
             rest == Tail(rq[h])
  <2>1. /\ rq[h] # <<>>
        /\ rq' = [rq EXCEPT ![h] = rest]
        /\ UNCHANGED reqQ
        /\ \/ /\ cur' = [cur EXCEPT ![h] = r]
              /\ hpc' = [hpc EXCEPT ![h] = "parse"]
           \/ UNCHANGED <<cur, hpc>>
    BY <1>3 DEF LockConnection
  <2>2. /\ r \in Request /\ uid[r.conn] \in Uid
        /\ rest \in Seq(Request) /\ Known(rest)
    BY <1>1, <2>1, KnownTail
  <2> HIDE DEF r, rest
  <2> QED
    BY <1>1, <2>1, <2>2
<1>4. ASSUME NEW h \in Handle, Distribute(h) \/ SendResponse(h)
      PROVE  InHands
  <2>1. /\ UNCHANGED <<rq, reqQ>>
        /\ hpc[h] # "idle"
        /\ \/ hpc' = [hpc EXCEPT ![h] = "send"] /\ UNCHANGED cur
           \/ /\ hpc' = [hpc EXCEPT ![h] = "idle"]
              /\ cur' = [cur EXCEPT ![h] = NoReq]
    BY <1>4 DEF Distribute, SendResponse
  <2> QED
    BY <1>1, <2>1
<1>5. ASSUME NEW n \in Net, ExtractPackage(n)
      PROVE  InHands
  <2> DEFINE c == reading[n].conn
             r == Head(recvBuf[c])
  <2>1. /\ recvBuf[c] # <<>>
        /\ reqQ' = Append(reqQ, r)
        /\ UNCHANGED <<rq, cur, hpc>>
    BY <1>5 DEF ExtractPackage
  <2>2. c \in Conn /\ uid[c] \in Uid
    BY <1>5, ReadingInTable DEF ExtractPackage
  <2>3. recvBuf[c] \in Seq(Request) /\ Own(recvBuf[c], c)
    BY <2>2 DEF IInv, TypeOK, ConnsTypeOK, WorkSound, RequestsSound, Own
  <2>4. r \in Request /\ r.conn = c
    BY <2>1, <2>3, OwnTail
  <2> HIDE DEF c, r
  <2>5. reqQ' \in Seq(Request) /\ Known(reqQ')
    BY <1>1, <2>1, <2>2, <2>4, KnownAppend
  <2> QED
    BY <1>1, <2>1, <2>5
<1>6. ASSUME NEW n \in Net, NetStep(n), ~ExtractPackage(n)
      PROVE  UNCHANGED handleVars
  <2>1. CASE AddTaskStep(n) \/ NetTaskStep(n) \/ DropTaskStep(n)
    BY <2>1 DEF AddTaskStep, NetTaskStep, DropTaskStep, NextTask
  <2>2. CASE ErrorEvent(n) \/ DataEvent(n)
    BY <2>2 DEF ErrorEvent, DataEvent, ConnEventAt
  <2>3. CASE EpollWait(n) \/ AcceptEvent(n) \/ Accept(n) \/ AcceptEnd(n)
    BY <2>3 DEF EpollWait, AcceptEvent, Accept, AcceptEnd
  <2>4. CASE RecvData(n) \/ ReadDone(n) \/ WriteEvent(n)
    BY <2>4 DEF RecvData, ReadDone, WriteEvent
  <2>5. CASE SwapResponses(n) \/ RoundDone(n)
    BY <2>5 DEF SwapResponses, RoundDone
  <2> QED
    BY <1>6, <2>1, <2>2, <2>3, <2>4, <2>5 DEF NetStep
<1>7. ASSUME NEW c \in Conn, PeerStep(c)
      PROVE  UNCHANGED handleVars
  BY <1>7 DEF PeerStep, PeerConnect, PeerSend, PeerEnd, PeerRecv
<1>8. ASSUME UNCHANGED handleVars
      PROVE  InHands
  BY <1>1, <1>8 DEF handleVars
<1>9. InHands
  BY <1>2, <1>3, <1>4, <1>5, <1>6, <1>7, <1>8 DEF Next, HandleStep
<1>10. \A i \in 1..Len(reqQ') : uid'[reqQ'[i].conn] \in Uid
  BY <1>9, KnownKept
<1>11. ASSUME NEW h \in Handle
       PROVE  /\ \A i \in 1..Len(rq'[h]) : uid'[rq'[h][i].conn] \in Uid
              /\ hpc'[h] # "idle" =>
                        cur'[h] \in Request /\ uid'[cur'[h].conn] \in Uid
  <2>1. \A i \in 1..Len(rq'[h]) : uid'[rq'[h][i].conn] \in Uid
    BY <1>9, KnownKept
  <2>2. ASSUME hpc'[h] # "idle"
        PROVE  cur'[h] \in Request /\ uid'[cur'[h].conn] \in Uid
    <3>1. cur'[h] \in Request /\ uid[cur'[h].conn] \in Uid
      BY <1>9, <2>2
    <3>2. cur'[h].conn \in Conn
      BY <3>1 DEF Request
    <3> QED
      BY <3>1, <3>2, UidKept
  <2> QED
    BY <2>1, <2>2
<1> QED
  BY <1>10, <1>11

LEMMA RequestsStep ==
    ASSUME IInv, Next
    PROVE  RequestsSound'
BY PackagesStep, HandsStep DEF RequestsSound, Own

-----------------------------------------------------------------------------
(* What threads hold: BacklogSound and AddsSound.                            *)

(* Apart from accept, only what is in a task or open changes its stage, and  *)
(* no connection changes its thread.                                         *)
LEMMA CloseMoves ==
    ASSUME IInv, NEW n \in Net, NEW u \in Uid, table[n][u] # NoConn,
           CloseConnection(n, u)
    PROVE  \A d \in Conn : stage[d] # "open" => stage'[d] = stage[d]
<1>1. table[n][u] \in Conn /\ stage[table[n][u]] = "open"
  BY EntryKnowsItsUid
<1>2. stage \in [Conn -> {"none", "task", "open", "closed", "dropped"}]
  BY DEF IInv, TypeOK, ConnsTypeOK
<1> QED
  BY <1>1, <1>2 DEF CloseConnection

LEMMA StageMoves ==
    ASSUME IInv, Next, ~\E n \in Net : Accept(n) \/ AddTaskStep(n)
    PROVE  /\ UNCHANGED home
           /\ \A d \in Conn : stage[d] # "open" => stage'[d] = stage[d]
<1> DEFINE Goal == /\ UNCHANGED home
                   /\ \A d \in Conn : stage[d] # "open" => stage'[d] = stage[d]
<1>1. ASSUME NEW n \in Net, ErrorEvent(n)
      PROVE  Goal
  <2>1. PICK u \in Uid : table[n][u] # NoConn /\ CloseConnection(n, u)
    BY <1>1, ErrorCloses
  <2>2. UNCHANGED home
    BY <1>1 DEF ErrorEvent, ConnEventAt
  <2> QED
    BY <2>1, <2>2, CloseMoves
<1>2. ASSUME NEW n \in Net, ReadDone(n)
      PROVE  Goal
  <2>1. UNCHANGED home
    BY <1>2 DEF ReadDone
  <2>2. CASE reading[n].close
    <3>1. PICK u \in Uid : table[n][u] # NoConn /\ CloseConnection(n, u)
      BY <1>2, <2>2, ReadDoneCloses
    <3> QED
      BY <2>1, <3>1, CloseMoves
  <2>3. CASE ~reading[n].close
    BY <1>2, <2>1, <2>3 DEF ReadDone
  <2> QED
    BY <2>2, <2>3
<1>3. ASSUME NEW n \in Net, WriteEvent(n)
      PROVE  Goal
  <2>1. UNCHANGED home
    BY <1>3 DEF WriteEvent
  <2>2. CASE Broken(reading[n].conn)
    <3>1. PICK u \in Uid : table[n][u] # NoConn /\ CloseConnection(n, u)
      BY <1>3, <2>2, WriteCloses
    <3> QED
      BY <2>1, <3>1, CloseMoves
  <2>3. CASE ~Broken(reading[n].conn)
    BY <1>3, <2>1, <2>3 DEF WriteEvent
  <2> QED
    BY <2>2, <2>3
<1>4. ASSUME NEW n \in Net, NetTaskStep(n)
      PROVE  Goal
  <2>1. UNCHANGED home
    BY <1>4 DEF NetTaskStep, NextTask
  <2>2. CASE \E u \in Uid : table[n][u] # NoConn /\ CloseConnection(n, u)
    BY <2>1, <2>2, CloseMoves
  <2>3. CASE UNCHANGED <<stage, table, uids>>
    BY <2>1, <2>3
  <2> QED
    BY <1>4, <2>2, <2>3, NetTaskCloses
<1>5. ASSUME NEW n \in Net,
             \/ EpollWait(n) \/ AcceptEvent(n) \/ AcceptEnd(n) \/ DataEvent(n)
             \/ RecvData(n) \/ ExtractPackage(n) \/ SwapResponses(n)
             \/ RoundDone(n) \/ DropTaskStep(n)
      PROVE  UNCHANGED <<stage, home>>
  BY <1>5 DEF EpollWait, AcceptEvent, AcceptEnd, DataEvent, ConnEventAt,
    RecvData, ExtractPackage, SwapResponses, RoundDone, DropTaskStep, NextTask,
    connVars
<1>6. ASSUME NEW h \in Handle, HandleStep(h)
      PROVE  UNCHANGED <<stage, home>>
  BY <1>6 DEF HandleStep, TakeRequests, LockConnection, Distribute,
    SendResponse, connVars
<1>7. ASSUME NEW c \in Conn, PeerStep(c)
      PROVE  UNCHANGED <<stage, home>>
  BY <1>7 DEF PeerStep, PeerConnect, PeerSend, PeerEnd, PeerRecv, connVars
<1>8. CASE UNCHANGED <<stage, home>>
  BY <1>8
<1> QED
  BY <1>1, <1>2, <1>3, <1>4, <1>5, <1>6, <1>7, <1>8 DEF Next, NetStep

(* The stage an add task leaves its connection in.                           *)
LEMMA AddMoves ==
    ASSUME IInv, NEW n \in Net, AddTaskStep(n)
    PROVE  /\ Head(batch[n]).conn \in Conn
           /\ stage[Head(batch[n]).conn] = "task"
           /\ 1 \in Adds(batch[n])
           /\ UNCHANGED home
           /\ batch' = [batch EXCEPT ![n] = Tail(batch[n])]
           /\ UNCHANGED respQ
           /\ \A d \in Conn \ {Head(batch[n]).conn} : stage'[d] = stage[d]
           /\ stage'[Head(batch[n]).conn] # "none"
<1> DEFINE c == Head(batch[n]).conn
<1>1. /\ NextTask(n) /\ AddConnection(n, c) /\ Head(batch[n]).type = "add"
      /\ batch[n] # <<>>
  BY DEF AddTaskStep, NextTask
<1>2. c \in Conn /\ stage[c] = "task"
  BY <1>1, HeadAddTask
<1>3. 1 \in Adds(batch[n])
  BY <1>1, HeadTask DEF Adds
<1>4. /\ UNCHANGED <<home, respQ>>
      /\ batch' = [batch EXCEPT ![n] = Tail(batch[n])]
  BY <1>1 DEF NextTask
<1>5. stage \in [Conn -> {"none", "task", "open", "closed", "dropped"}]
  BY DEF IInv, TypeOK, ConnsTypeOK
<1>6. \/ stage' = [stage EXCEPT ![c] = "open"]
      \/ stage' = [stage EXCEPT ![c] = "dropped"]
  BY <1>1 DEF AddConnection
<1> HIDE DEF c
<1>7. (\A d \in Conn \ {c} : stage'[d] = stage[d]) /\ stage'[c] # "none"
  BY <1>2, <1>5, <1>6
<1> QED
  BY <1>2, <1>3, <1>4, <1>7 DEF c

LEMMA BacklogStep ==
    ASSUME IInv, Next
    PROVE  BacklogSound'
<1>1. /\ backlog \in Seq(Conn)
      /\ peer \in [Conn -> {"idle", "open", "fin", "reset"}]
      /\ stage \in [Conn -> {"none", "task", "open", "closed", "dropped"}]
      /\ home \in [Conn -> Net]
  BY DEF IInv, TypeOK, PeersTypeOK, ConnsTypeOK
<1>2. /\ \A c \in Conn : peer[c] = "idle" => stage[c] = "none"
      /\ \A i \in 1..Len(backlog) :
            /\ backlog[i] \in Conn
            /\ stage[backlog[i]] = "none"
            /\ peer[backlog[i]] # "idle"
            /\ \A j \in 1..Len(backlog) : backlog[i] = backlog[j] => i = j
  BY <1>1 DEF IInv, WorkSound, BacklogSound
<1>3. ASSUME NEW n \in Net, Accept(n)
      PROVE  BacklogSound'
  <2> DEFINE c == Head(backlog)
             rest == Tail(backlog)
  <2>1. /\ backlog # <<>>
        /\ backlog' = rest
        /\ stage' = [stage EXCEPT ![c] = "task"]
        /\ UNCHANGED peer
    BY <1>3 DEF Accept
  <2>2. c \in Conn /\ c = backlog[1] /\ 1 \in 1..Len(backlog)
    BY <1>3, HeadOfBacklog
  <2>3. \A i \in 1..Len(rest) : /\ i + 1 \in 1..Len(backlog)
                                /\ rest[i] = backlog[i + 1]
    BY <1>1, <2>1
  <2>4. peer[c] # "idle"
    BY <1>2, <2>2
  <2>5. \A d \in Conn : peer'[d] = "idle" => stage'[d] = "none"
    BY <1>1, <1>2, <2>1, <2>4
  <2> HIDE DEF rest
  <2>6. ASSUME NEW i \in 1..Len(rest)
        PROVE  /\ stage'[rest[i]] = "none"
               /\ peer'[rest[i]] # "idle"
               /\ \A j \in 1..Len(rest) : rest[i] = rest[j] => i = j
    <3>1. rest[i] # c
      BY <1>2, <2>2, <2>3
    <3> HIDE DEF c
    <3>2. rest[i] \in Conn /\ stage[rest[i]] = "none" /\ peer[rest[i]] # "idle"
      BY <1>2, <2>3
    <3>3. stage'[rest[i]] = "none" /\ peer'[rest[i]] # "idle"
      BY <1>1, <2>1, <3>1, <3>2
    <3>4. ASSUME NEW j \in 1..Len(rest), rest[i] = rest[j]
          PROVE  i = j
      <4>1. i + 1 = j + 1
        BY <1>2, <2>3, <3>4
      <4> QED
        BY <4>1
    <3> QED
      BY <3>3, <3>4
  <2> QED
    BY <2>1, <2>5, <2>6 DEF BacklogSound
<1>4. ASSUME NEW n \in Net, AddTaskStep(n)
      PROVE  BacklogSound'
  <2> DEFINE c == Head(batch[n]).conn
  <2>1. /\ c \in Conn /\ stage[c] = "task"
        /\ \A d \in Conn \ {c} : stage'[d] = stage[d]
    BY <1>4, AddMoves
  <2>2. UNCHANGED <<backlog, peer>>
    BY <1>4 DEF AddTaskStep, NextTask
  <2> HIDE DEF c
  <2> QED
    BY <1>2, <2>1, <2>2 DEF BacklogSound
<1>5. ASSUME NEW c \in Conn, PeerConnect(c)
      PROVE  BacklogSound'
  <2>1. /\ peer[c] = "idle"
        /\ peer' = [peer EXCEPT ![c] = "open"]
        /\ backlog' = Append(backlog, c)
        /\ UNCHANGED stage
    BY <1>5 DEF PeerConnect, connVars
  <2>2. /\ Len(backlog') = Len(backlog) + 1
        /\ Len(backlog) \in Nat
        /\ backlog'[Len(backlog) + 1] = c
        /\ \A i \in 1..Len(backlog) : backlog'[i] = backlog[i]
    BY <1>1, <2>1
  <2>3. \A i \in 1..Len(backlog) : backlog[i] # c
    BY <1>2, <2>1
  <2>4. ASSUME NEW i \in 1..Len(backlog')
        PROVE  /\ stage'[backlog'[i]] = "none"
               /\ peer'[backlog'[i]] # "idle"
    <3>1. CASE i = Len(backlog) + 1
      BY <1>1, <1>2, <2>1, <2>2, <3>1
    <3>2. CASE i \in 1..Len(backlog)
      BY <1>1, <1>2, <2>1, <2>2, <2>3, <3>2
    <3> QED
      BY <2>2, <3>1, <3>2
  <2>5. ASSUME NEW i \in 1..Len(backlog'), NEW j \in 1..Len(backlog'),
               backlog'[i] = backlog'[j]
        PROVE  i = j
    <3>1. i \in 1..Len(backlog) \/ i = Len(backlog) + 1
      BY <2>2
    <3>2. j \in 1..Len(backlog) \/ j = Len(backlog) + 1
      BY <2>2
    <3>3. CASE i \in 1..Len(backlog) /\ j \in 1..Len(backlog)
      BY <1>2, <2>2, <2>5, <3>3
    <3> QED
      BY <2>2, <2>3, <2>5, <3>1, <3>2, <3>3
  <2>6. \A d \in Conn : peer'[d] = "idle" => stage'[d] = "none"
    BY <1>1, <1>2, <2>1
  <2> QED
    BY <2>4, <2>5, <2>6 DEF BacklogSound
<1>6. ASSUME NEW c \in Conn, PeerEnd(c)
      PROVE  BacklogSound'
  <2>1. /\ peer[c] # "idle"
        /\ \/ peer' = [peer EXCEPT ![c] = "fin"]
           \/ peer' = [peer EXCEPT ![c] = "reset"]
        /\ UNCHANGED <<stage, backlog>>
    BY <1>6 DEF PeerEnd, connVars
  <2> QED
    BY <1>1, <1>2, <2>1 DEF BacklogSound
<1>7. ASSUME ~\E n \in Net : Accept(n) \/ AddTaskStep(n),
             UNCHANGED <<peer, backlog>>
      PROVE  BacklogSound'
  <2>1. \A d \in Conn : stage[d] # "open" => stage'[d] = stage[d]
    BY <1>7, StageMoves
  <2> QED
    BY <1>2, <1>7, <2>1 DEF BacklogSound
<1>8. ASSUME NEW n \in Net, NetStep(n), ~Accept(n), ~AddTaskStep(n)
      PROVE  UNCHANGED <<peer, backlog>>
  <2>1. CASE NetTaskStep(n) \/ DropTaskStep(n)
    BY <2>1 DEF NetTaskStep, DropTaskStep, NextTask
  <2>2. CASE ErrorEvent(n) \/ DataEvent(n)
    BY <2>2 DEF ErrorEvent, DataEvent, ConnEventAt
  <2>3. CASE EpollWait(n) \/ AcceptEvent(n) \/ AcceptEnd(n)
    BY <2>3 DEF EpollWait, AcceptEvent, AcceptEnd, kernelVars
  <2>4. CASE RecvData(n) \/ ExtractPackage(n) \/ ReadDone(n) \/ WriteEvent(n)
    BY <2>4 DEF RecvData, ExtractPackage, ReadDone, WriteEvent, kernelVars
  <2>5. CASE SwapResponses(n) \/ RoundDone(n)
    BY <2>5 DEF SwapResponses, RoundDone, kernelVars
  <2> QED
    BY <1>8, <2>1, <2>2, <2>3, <2>4, <2>5 DEF NetStep
<1>9. ASSUME NEW h \in Handle, HandleStep(h)
      PROVE  UNCHANGED <<peer, backlog>>
  BY <1>9 DEF HandleStep, TakeRequests, LockConnection, Distribute,
    SendResponse, kernelVars
<1>10. ASSUME NEW c \in Conn, PeerStep(c), ~PeerConnect(c), ~PeerEnd(c)
       PROVE  UNCHANGED <<peer, backlog>>
  BY <1>10 DEF PeerStep, PeerSend, PeerRecv
<1> QED
  BY <1>3, <1>4, <1>5, <1>6, <1>7, <1>8, <1>9, <1>10 DEF Next

(* The add tasks of a queue that loses its head or gains a response.         *)
LEMMA AddsTail ==
    ASSUME NEW s \in Seq(Task), s # <<>>
    PROVE  \A i \in Adds(Tail(s)) : i + 1 \in Adds(s) /\ Tail(s)[i] = s[i + 1]
<1>1. /\ Len(Tail(s)) = Len(s) - 1
      /\ Len(s) \in Nat
      /\ \A i \in 1..Len(Tail(s)) : Tail(s)[i] = s[i + 1]
  OBVIOUS
<1> QED
  BY <1>1 DEF Adds

LEMMA AddsAppend ==
    ASSUME NEW s \in Seq(Task), NEW t
    PROVE  \A i \in Adds(Append(s, t)) :
                \/ i \in Adds(s) /\ Append(s, t)[i] = s[i]
                \/ i = Len(s) + 1 /\ t.type = "add" /\ Append(s, t)[i] = t
<1>1. /\ Len(Append(s, t)) = Len(s) + 1
      /\ Len(s) \in Nat
      /\ Append(s, t)[Len(s) + 1] = t
      /\ \A i \in 1..Len(s) : Append(s, t)[i] = s[i]
  OBVIOUS
<1> QED
  BY <1>1 DEF Adds

(* The tasks of a thread come from what it had, and their connections have   *)
(* not moved.                                                                *)
LEMMA AddsStep ==
    ASSUME IInv, Next
    PROVE  AddsSound'
<1>1. /\ respQ \in [Net -> Seq(Task)]
      /\ batch \in [Net -> Seq(Task)]
      /\ stage \in [Conn -> {"none", "task", "open", "closed", "dropped"}]
      /\ home \in [Conn -> Net]
  BY DEF IInv, TypeOK, ConnsTypeOK, NetTypeOK
<1>2. ASSUME NEW p \in Net, NEW i \in Adds(respQ[p])
      PROVE  /\ respQ[p][i].conn \in Conn
             /\ stage[respQ[p][i].conn] = "task"
             /\ home[respQ[p][i].conn] = p
             /\ \A j \in Adds(respQ[p]) :
                    respQ[p][i].conn = respQ[p][j].conn => i = j
             /\ \A j \in Adds(batch[p]) : respQ[p][i].conn # batch[p][j].conn
  <2>1. respQ[p][i] \in Task /\ respQ[p][i].type = "add"
    BY <1>1 DEF Adds
  <2>2. respQ[p][i].conn \in Conn
    BY <2>1 DEF Task, NetTask, AddTask
  <2>3. AddsFresh(respQ[p], p)
    BY DEF IInv, WorkSound, AddsSound
  <2> QED
    BY <2>2, <2>3 DEF IInv, WorkSound, AddsSound, AddsFresh
<1>3. ASSUME NEW p \in Net, NEW i \in Adds(batch[p])
      PROVE  /\ batch[p][i].conn \in Conn
             /\ stage[batch[p][i].conn] = "task"
             /\ home[batch[p][i].conn] = p
             /\ \A j \in Adds(batch[p]) :
                    batch[p][i].conn = batch[p][j].conn => i = j
  <2>1. batch[p][i] \in Task /\ batch[p][i].type = "add"
    BY <1>1 DEF Adds
  <2>2. batch[p][i].conn \in Conn
    BY <2>1 DEF Task, NetTask, AddTask
  <2>3. AddsFresh(batch[p], p)
    BY DEF IInv, WorkSound, AddsSound
  <2> QED
    BY <2>2, <2>3 DEF AddsFresh
<1>4. ASSUME NEW n \in Net, Accept(n)
      PROVE  AddsSound'
  <2> DEFINE c == Head(backlog)
             dest == hash % NumNet
             t == [type |-> "add", conn |-> c]
  <2>1. /\ stage' = [stage EXCEPT ![c] = "task"]
        /\ home' = [home EXCEPT ![c] = dest]
        /\ respQ' = [respQ EXCEPT ![dest] = Append(respQ[dest], t)]
        /\ UNCHANGED batch
    BY <1>4 DEF Accept
  <2>2. c \in Conn /\ stage[c] = "none" /\ dest \in Net
    BY <1>4, HeadOfBacklog
  <2>3. t.conn = c
    OBVIOUS
  <2> HIDE DEF c, dest, t
  <2>4. /\ stage'[c] = "task" /\ home'[c] = dest
        /\ \A d \in Conn \ {c} : stage'[d] = stage[d] /\ home'[d] = home[d]
    BY <1>1, <2>1, <2>2
  <2>5. ASSUME NEW p \in Net, NEW i \in Adds(respQ'[p])
        PROVE  \/ i \in Adds(respQ[p]) /\ respQ'[p][i] = respQ[p][i]
               \/ i = Len(respQ[p]) + 1 /\ p = dest /\ respQ'[p][i] = t
    <3>1. CASE p = dest
      <4>1. respQ'[p] = Append(respQ[p], t) /\ respQ[p] \in Seq(Task)
        BY <1>1, <2>1, <2>2, <3>1
      <4>2. i \in Adds(Append(respQ[p], t))
        BY <2>5, <4>1
      <4>3. \/ i \in Adds(respQ[p]) /\ Append(respQ[p], t)[i] = respQ[p][i]
            \/ i = Len(respQ[p]) + 1 /\ Append(respQ[p], t)[i] = t
        BY <4>1, <4>2, AddsAppend
      <4> QED
        BY <3>1, <4>1, <4>3
    <3>2. CASE p # dest
      BY <1>1, <2>1, <2>5, <3>2
    <3> QED
      BY <3>1, <3>2
  <2>6. ASSUME NEW p \in Net
        PROVE  AddsFresh(respQ[p], p)'
    <3>1. ASSUME NEW i \in Adds(respQ'[p])
          PROVE  stage'[respQ'[p][i].conn] = "task"
                    /\ home'[respQ'[p][i].conn] = p
      <4>1. CASE i \in Adds(respQ[p]) /\ respQ'[p][i] = respQ[p][i]
        BY <1>2, <2>2, <2>4, <4>1
      <4>2. CASE p = dest /\ respQ'[p][i] = t
        BY <2>3, <2>4, <4>2
      <4> QED
        BY <2>5, <3>1, <4>1, <4>2
    <3>2. ASSUME NEW i \in Adds(respQ'[p]), NEW j \in Adds(respQ'[p]),
                 respQ'[p][i].conn = respQ'[p][j].conn
          PROVE  i = j
      <4>1. \A k \in Adds(respQ[p]) : respQ[p][k].conn # c
        BY <1>2, <2>2
      <4>2. /\ \/ i \in Adds(respQ[p]) /\ respQ'[p][i] = respQ[p][i]
               \/ i = Len(respQ[p]) + 1 /\ respQ'[p][i] = t
            /\ \/ j \in Adds(respQ[p]) /\ respQ'[p][j] = respQ[p][j]
               \/ j = Len(respQ[p]) + 1 /\ respQ'[p][j] = t
        BY <2>5, <3>2
      <4> QED
        BY <1>2, <2>3, <3>2, <4>1, <4>2
    <3> QED
      BY <3>1, <3>2 DEF AddsFresh, Adds
  <2>7. ASSUME NEW p \in Net
        PROVE  AddsFresh(batch[p], p)'
    <3>1. ASSUME NEW i \in Adds(batch[p])
          PROVE  stage'[batch[p][i].conn] = "task"
                    /\ home'[batch[p][i].conn] = p
      BY <1>3, <2>2, <2>4, <3>1
    <3> QED
      BY <1>3, <2>1, <3>1 DEF AddsFresh, Adds
  <2>8. ASSUME NEW p \in Net, NEW i \in Adds(respQ'[p]), NEW j \in Adds(batch[p])
        PROVE  respQ'[p][i].conn # batch[p][j].conn
    <3>1. CASE i \in Adds(respQ[p]) /\ respQ'[p][i] = respQ[p][i]
      BY <1>2, <2>8, <3>1
    <3>2. CASE respQ'[p][i] = t
      BY <1>3, <2>2, <2>3, <2>8, <3>2
    <3> QED
      BY <2>5, <2>8, <3>1, <3>2
  <2> QED
    BY <2>1, <2>6, <2>7, <2>8 DEF AddsSound, Adds
<1>5. ASSUME UNCHANGED home,
             \A d \in Conn : stage[d] # "open" => stage'[d] = stage[d],
             \A p \in Net : \A i \in Adds(respQ'[p]) :
                    i \in Adds(respQ[p]) /\ respQ'[p][i] = respQ[p][i],
             UNCHANGED batch
      PROVE  AddsSound'
  <2>1. ASSUME NEW p \in Net
        PROVE  AddsFresh(respQ[p], p)'
    <3>1. ASSUME NEW i \in Adds(respQ'[p])
          PROVE  stage'[respQ'[p][i].conn] = "task"
                    /\ home'[respQ'[p][i].conn] = p
      <4>1. /\ respQ'[p][i].conn \in Conn
            /\ stage[respQ'[p][i].conn] = "task"
            /\ home[respQ'[p][i].conn] = p
        BY <1>2, <1>5, <3>1
      <4> QED
        BY <1>5, <4>1
    <3>2. ASSUME NEW i \in Adds(respQ'[p]), NEW j \in Adds(respQ'[p]),
                 respQ'[p][i].conn = respQ'[p][j].conn
          PROVE  i = j
      BY <1>2, <1>5, <3>2
    <3> QED
      BY <3>1, <3>2 DEF AddsFresh, Adds
  <2>2. ASSUME NEW p \in Net
        PROVE  AddsFresh(batch[p], p)'
    <3>1. ASSUME NEW i \in Adds(batch[p])
          PROVE  stage'[batch[p][i].conn] = "task"
                    /\ home'[batch[p][i].conn] = p
      <4>1. /\ batch[p][i].conn \in Conn
            /\ stage[batch[p][i].conn] = "task"
            /\ home[batch[p][i].conn] = p
        BY <1>3, <3>1
      <4> QED
        BY <1>5, <4>1
    <3> QED
      BY <1>3, <1>5, <3>1 DEF AddsFresh, Adds
  <2>3. ASSUME NEW p \in Net, NEW i \in Adds(respQ'[p]), NEW j \in Adds(batch[p])
        PROVE  respQ'[p][i].conn # batch[p][j].conn
    BY <1>2, <1>5, <2>3
  <2> QED
    BY <1>5, <2>1, <2>2, <2>3 DEF AddsSound, Adds
<1>6. ASSUME NEW h \in Handle, SendResponse(h)
      PROVE  AddsSound'
  <2> DEFINE c == cur[h].conn
             t == [type |-> "net", uid |-> uid[c], pkg |-> cur[h]]
  <2>1. /\ respQ' = [respQ EXCEPT ![home[c]] = Append(respQ[home[c]], t)]
        /\ UNCHANGED <<home, stage, batch>>
    BY <1>6 DEF SendResponse, connVars
  <2>2. t.type # "add"
    OBVIOUS
  <2> HIDE DEF c, t
  <2>3. ASSUME NEW p \in Net, NEW i \in Adds(respQ'[p])
        PROVE  i \in Adds(respQ[p]) /\ respQ'[p][i] = respQ[p][i]
    <3>1. CASE p = home[c]
      <4>1. respQ'[p] = Append(respQ[p], t) /\ respQ[p] \in Seq(Task)
        BY <1>1, <2>1, <3>1
      <4>2. i \in Adds(Append(respQ[p], t))
        BY <2>3, <4>1
      <4>3. i \in Adds(respQ[p]) /\ Append(respQ[p], t)[i] = respQ[p][i]
        BY <2>2, <4>1, <4>2, AddsAppend
      <4> QED
        BY <4>1, <4>3
    <3>2. CASE p # home[c]
      BY <1>1, <2>1, <2>3, <3>2
    <3> QED
      BY <3>1, <3>2
  <2> QED
    BY <1>5, <2>1, <2>3
<1>7. ASSUME NEW n \in Net, SwapResponses(n)
      PROVE  AddsSound'
  <2>1. /\ batch' = [batch EXCEPT ![n] = respQ[n]]
        /\ respQ' = [respQ EXCEPT ![n] = <<>>]
        /\ UNCHANGED <<stage, home>>
    BY <1>7 DEF SwapResponses, connVars
  <2>2. ASSUME NEW p \in Net
        PROVE  /\ AddsFresh(respQ[p], p)'
               /\ AddsFresh(batch[p], p)'
               /\ \A i \in Adds(respQ'[p]), j \in Adds(batch'[p]) :
                        respQ'[p][i].conn # batch'[p][j].conn
    <3>1. CASE p = n
      <4>1. batch'[p] = respQ[p] /\ Adds(respQ'[p]) = {}
        BY <1>1, <2>1, <3>1 DEF Adds
      <4>2. AddsFresh(respQ[p], p)'
        BY <4>1 DEF AddsFresh, Adds
      <4>3. AddsFresh(batch[p], p)'
        BY <1>2, <2>1, <4>1 DEF AddsFresh, Adds
      <4> QED
        BY <4>1, <4>2, <4>3
    <3>2. CASE p # n
      <4>1. batch'[p] = batch[p] /\ respQ'[p] = respQ[p]
        BY <1>1, <2>1, <3>2
      <4>2. AddsFresh(respQ[p], p)'
        BY <1>2, <2>1, <4>1 DEF AddsFresh, Adds
      <4>3. AddsFresh(batch[p], p)'
        BY <1>3, <2>1, <4>1 DEF AddsFresh, Adds
      <4> QED
        BY <1>2, <4>1, <4>2, <4>3
    <3> QED
      BY <3>1, <3>2
  <2> QED
    BY <2>2 DEF AddsSound, Adds
<1>8. ASSUME NEW n \in Net, NextTask(n),
             batch' = [batch EXCEPT ![n] = Tail(batch[n])],
             UNCHANGED <<home, respQ>>,
             NEW gone,
             gone = (IF 1 \in Adds(batch[n]) THEN Head(batch[n]).conn ELSE NoConn),
             \A d \in Conn \ {gone} : stage[d] # "open" => stage'[d] = stage[d]
      PROVE  AddsSound'
  <2>1. batch[n] \in Seq(Task) /\ batch[n] # <<>> /\ Head(batch[n]) = batch[n][1]
    BY <1>8, HeadTask DEF NextTask
  <2>2. NoConn \notin Conn
    BY ServerAssumption DEF ServerAssumption
  <2>3. ASSUME NEW p \in Net, NEW i \in Adds(batch'[p])
        PROVE  \E k \in Adds(batch[p]) :
                    /\ batch'[p][i] = batch[p][k]
                    /\ k = (IF p = n THEN i + 1 ELSE i)
    <3>1. CASE p = n
      <4>1. batch'[p] = Tail(batch[n])
        BY <1>1, <1>8, <3>1
      <4>2. i + 1 \in Adds(batch[n]) /\ Tail(batch[n])[i] = batch[n][i + 1]
        BY <2>1, <2>3, <4>1, AddsTail
      <4> QED
        BY <3>1, <4>1, <4>2
    <3>2. CASE p # n
      <4>1. batch'[p] = batch[p]
        BY <1>1, <1>8, <3>2
      <4> QED
        BY <2>3, <3>2, <4>1
    <3> QED
      BY <3>1, <3>2
  <2>4. ASSUME NEW p \in Net, NEW i \in Adds(batch'[p])
        PROVE  /\ stage'[batch'[p][i].conn] = "task"
               /\ home'[batch'[p][i].conn] = p
               /\ \A j \in Adds(batch'[p]) :
                    batch'[p][i].conn = batch'[p][j].conn => i = j
    <3>1. PICK k \in Adds(batch[p]) : /\ batch'[p][i] = batch[p][k]
                                      /\ k = (IF p = n THEN i + 1 ELSE i)
      BY <2>3, <2>4
    <3>2. /\ batch[p][k].conn \in Conn
          /\ stage[batch[p][k].conn] = "task"
          /\ home[batch[p][k].conn] = p
      BY <1>3
    <3>3. batch[p][k].conn # gone
      <4>1. CASE 1 \in Adds(batch[n])
        <5>1. gone = batch[n][1].conn /\ home[gone] = n
          BY <1>3, <1>8, <2>1, <4>1
        <5>2. CASE p # n
          BY <3>2, <5>1, <5>2
        <5>3. CASE p = n
          <6>1. i \in Nat \ {0}
            BY <2>4 DEF Adds
          <6>2. k # 1
            BY <3>1, <5>3, <6>1
          <6> QED
            BY <1>3, <4>1, <5>1, <5>3, <6>2
        <5> QED
          BY <5>2, <5>3
      <4>2. CASE 1 \notin Adds(batch[n])
        BY <1>8, <2>2, <3>2, <4>2
      <4> QED
        BY <4>1, <4>2
    <3>4. ASSUME NEW j \in Adds(batch'[p]),
                 batch'[p][i].conn = batch'[p][j].conn
          PROVE  i = j
      <4>1. PICK l \in Adds(batch[p]) : /\ batch'[p][j] = batch[p][l]
                                        /\ l = (IF p = n THEN j + 1 ELSE j)
        BY <2>3, <3>4
      <4>2. k = l
        BY <1>3, <3>1, <3>4, <4>1
      <4>3. i \in Nat /\ j \in Nat
        BY <2>4, <3>4 DEF Adds
      <4> QED
        BY <3>1, <4>1, <4>2, <4>3
    <3> QED
      BY <1>8, <3>1, <3>2, <3>3, <3>4
  <2>5. ASSUME NEW p \in Net, NEW i \in Adds(respQ[p])
        PROVE  /\ stage'[respQ[p][i].conn] = "task"
               /\ home'[respQ[p][i].conn] = p
    <3>1. /\ respQ[p][i].conn \in Conn
          /\ stage[respQ[p][i].conn] = "task"
          /\ home[respQ[p][i].conn] = p
      BY <1>2
    <3>2. respQ[p][i].conn # gone
      <4>1. CASE 1 \in Adds(batch[n])
        <5>1. gone = batch[n][1].conn /\ home[gone] = n
          BY <1>3, <1>8, <2>1, <4>1
        <5> QED
          BY <1>2, <3>1, <4>1, <5>1
      <4>2. CASE 1 \notin Adds(batch[n])
        BY <1>8, <2>2, <3>1, <4>2
      <4> QED
        BY <4>1, <4>2
    <3> QED
      BY <1>8, <3>1, <3>2
  <2>6. ASSUME NEW p \in Net
        PROVE  AddsFresh(respQ[p], p)' /\ AddsFresh(batch[p], p)'
    <3>1. AddsFresh(batch[p], p)'
      BY <2>4 DEF AddsFresh, Adds
    <3>2. AddsFresh(respQ[p], p)'
      BY <1>2, <1>8, <2>5 DEF AddsFresh, Adds
    <3> QED
      BY <3>1, <3>2
  <2>7. ASSUME NEW p \in Net, NEW i \in Adds(respQ[p]), NEW j \in Adds(batch'[p])
        PROVE  respQ[p][i].conn # batch'[p][j].conn
    <3>1. PICK k \in Adds(batch[p]) : batch'[p][j] = batch[p][k]
      BY <2>3, <2>7
    <3> QED
      BY <1>2, <3>1
  <2> QED
    BY <1>8, <2>6, <2>7 DEF AddsSound, Adds
<1>9. ASSUME NEW n \in Net, AddTaskStep(n)
      PROVE  AddsSound'
  <2>1. NextTask(n)
    BY <1>9 DEF AddTaskStep
  <2> QED
    BY <1>8, <1>9, <2>1, AddMoves
<1>10. ASSUME NEW n \in Net, NetTaskStep(n) \/ DropTaskStep(n),
              ~\E p \in Net : Accept(p) \/ AddTaskStep(p)
       PROVE  AddsSound'
  <2>1. NextTask(n)
    BY <1>10 DEF NetTaskStep, DropTaskStep
  <2>2. /\ batch' = [batch EXCEPT ![n] = Tail(batch[n])]
        /\ UNCHANGED <<home, respQ>>
    BY <2>1 DEF NextTask
  <2>3. \A d \in Conn : stage[d] # "open" => stage'[d] = stage[d]
    BY <1>10, StageMoves
  <2> DEFINE gone == IF 1 \in Adds(batch[n]) THEN Head(batch[n]).conn ELSE NoConn
  <2>4. \A d \in Conn \ {gone} : stage[d] # "open" => stage'[d] = stage[d]
    BY <2>3
  <2> QED
    BY <1>8, <2>1, <2>2, <2>4
<1>11. ASSUME ~\E p \in Net : Accept(p) \/ AddTaskStep(p),
              UNCHANGED <<respQ, batch>>
       PROVE  AddsSound'
  <2>1. /\ UNCHANGED home
        /\ \A d \in Conn : stage[d] # "open" => stage'[d] = stage[d]
    BY <1>11, StageMoves
  <2>2. \A p \in Net : \A i \in Adds(respQ'[p]) :
            i \in Adds(respQ[p]) /\ respQ'[p][i] = respQ[p][i]
    BY <1>11
  <2> QED
    BY <1>5, <1>11, <2>1, <2>2
<1>12. ASSUME NEW n \in Net,
              \/ EpollWait(n) \/ AcceptEvent(n) \/ AcceptEnd(n) \/ RoundDone(n)
              \/ ErrorEvent(n) \/ DataEvent(n) \/ RecvData(n)
              \/ ExtractPackage(n) \/ ReadDone(n) \/ WriteEvent(n)
       PROVE  UNCHANGED <<respQ, batch>>
  <2>1. CASE ErrorEvent(n) \/ DataEvent(n)
    BY <2>1 DEF ErrorEvent, DataEvent, ConnEventAt
  <2>2. CASE EpollWait(n) \/ AcceptEvent(n) \/ AcceptEnd(n) \/ RoundDone(n)
    BY <2>2 DEF EpollWait, AcceptEvent, AcceptEnd, RoundDone
  <2>3. CASE RecvData(n) \/ ExtractPackage(n) \/ ReadDone(n) \/ WriteEvent(n)
    BY <2>3 DEF RecvData, ExtractPackage, ReadDone, WriteEvent, netVars
  <2> QED
    BY <1>12, <2>1, <2>2, <2>3
<1>13. ASSUME NEW h \in Handle, TakeRequests(h) \/ LockConnection(h)
                                    \/ Distribute(h)
       PROVE  UNCHANGED <<respQ, batch>>
  BY <1>13 DEF TakeRequests, LockConnection, Distribute, netVars
<1>14. ASSUME NEW c \in Conn, PeerStep(c)
       PROVE  UNCHANGED <<respQ, batch>>
  BY <1>14 DEF PeerStep, PeerConnect, PeerSend, PeerEnd, PeerRecv, netVars
<1> QED
  BY <1>4, <1>6, <1>7, <1>9, <1>10, <1>11, <1>12, <1>13, <1>14
  DEF Next, NetStep, HandleStep

-----------------------------------------------------------------------------
(* The inductive invariant.                                                  *)

LEMMA InitIInv ==
    ASSUME Init
    PROVE  IInv
<1>1. TypeOK
  <2>1. Acceptor \in Net
    BY ServerAssumption DEF ServerAssumption, Net, Acceptor
  <2>2. FullList(MaxUid) \in Seq(Uid)
    <3>1. MaxUid \in Nat
      BY ServerAssumption DEF ServerAssumption
    <3>2. FullList(MaxUid) \in Seq(1..MaxUid)
      BY <3>1, FullListHolds
    <3> QED
      BY <3>2 DEF Uid
  <2>3. PeersTypeOK /\ EpollTypeOK
    <3>1. /\ SockCap \in Nat \ {0}
          /\ 0 \in 0..MaxReq
          /\ 0 \in 0..MaxAcceptErrors
      BY ServerAssumption DEF ServerAssumption
    <3>2. \A c \in Conn : kbuf[c] = <<>>
      BY DEF Init
    <3>3. \A c \in Conn : Len(kbuf[c]) <= SockCap
      BY <3>1, <3>2
    <3>4. PeersTypeOK
      BY <3>1, <3>3 DEF Init, PeersTypeOK
    <3>5. EpollTypeOK
      BY <3>1 DEF Init, EpollTypeOK
    <3> QED
      BY <3>4, <3>5
  <2>4. ConnsTypeOK /\ HandlesTypeOK
    BY <2>1 DEF Init, ConnsTypeOK, HandlesTypeOK
  <2>5. NetTypeOK
    BY <2>2 DEF Init, NetTypeOK, NotReading
  <2> QED
    BY <2>3, <2>4, <2>5 DEF TypeOK
<1>2. UidsConserved
  <2>1. Holds(FullList(MaxUid), Uid)
    BY ServerAssumption, FullListHolds DEF ServerAssumption, Uid
  <2>2. ASSUME NEW n \in Net
        PROVE  /\ uids[n] = FullList(MaxUid)
               /\ {u \in Uid : table[n][u] = NoConn} = Uid
    BY DEF Init
  <2> QED
    BY <2>1, <2>2 DEF UidsConserved
<1>3. TableSound
  BY DEF Init, TableSound
<1>4. WorkSound
  BY DEF Init, WorkSound, ReadingSound, RequestsSound, BacklogSound, AddsSound,
    AddsFresh, Adds
<1> QED
  BY <1>1, <1>2, <1>3, <1>4 DEF IInv

LEMMA NextIInv ==
    ASSUME IInv, [Next]_vars
    PROVE  IInv'
<1>1. CASE Next
  <2>1. TypeOK'
    BY <1>1, TypeStep
  <2>2. UidsConserved' /\ TableSound'
    BY <1>1, TableStep
  <2>3. WorkSound'
    BY <1>1, ReadingStep, RequestsStep, BacklogStep, AddsStep DEF WorkSound
  <2> QED
    BY <2>1, <2>2, <2>3 DEF IInv
<1>2. CASE UNCHANGED vars
  <2>1. UNCHANGED <<kernelVars, connVars, netVars, handleVars>>
    BY <1>2 DEF vars
  <2>2. TypeOK'
    BY <2>1 DEF IInv, TypeOK, PeersTypeOK, EpollTypeOK, ConnsTypeOK, NetTypeOK,
      HandlesTypeOK, kernelVars, connVars, netVars, handleVars
  <2>3. UidsConserved' /\ TableSound'
    <3>1. UNCHANGED <<table, uids, stage, uid, home, interest>>
      BY <2>1 DEF kernelVars, connVars, netVars
    <3> QED
      BY <3>1, QuietTable
  <2>4. WorkSound'
    BY <2>1 DEF IInv, WorkSound, ReadingSound, RequestsSound, BacklogSound,
      AddsSound, AddsFresh, Adds, kernelVars, connVars, netVars, handleVars
  <2> QED
    BY <2>2, <2>3, <2>4 DEF IInv
<1> QED
  BY <1>1, <1>2

(* The types, the free uids, the connection tables and what the threads hold *)
(* agree in every reachable state, for any number of network and handle      *)
(* threads, connections, uids and requests.                                  *)
THEOREM ServerInvariant == Spec => []IInv
<1>1. Init => IInv
  BY InitIInv
<1>2. IInv /\ [Next]_vars => IInv'
  BY NextIInv
<1> QED
  BY <1>1, <1>2, PTL DEF Spec

(* Every variable keeps its type; no socket buffer exceeds its capacity.     *)
THEOREM TypeCorrect == Spec => []TypeOK
<1>1. IInv => TypeOK
  BY DEF IInv
<1> QED
  BY <1>1, ServerInvariant, PTL

(* EpollerServer never leaks a uid and never gives one out twice, over any   *)
(* sequence of accepts, refusals and closes.                                 *)
THEOREM UidsAreConserved == Spec => []UidsConserved
<1>1. IInv => UidsConserved
  BY DEF IInv
<1> QED
  BY <1>1, ServerInvariant, PTL

(* _connections, the uid, owner and close flag of a connection and epoll's   *)
(* registration of its fd always agree.                                      *)
THEOREM TablesAgree == Spec => []TableSound
<1>1. IInv => TableSound
  BY DEF IInv
<1> QED
  BY <1>1, ServerInvariant, PTL
------------------------------------------------------------------------------
(* The rounds of the network threads: events stay fresh while connections of *)
(* the same round are closed, no wakeup is lost under edge triggering, the   *)
(* backlog stays announced, and a peer that closes its side loses no request.*)

(* What closing and adding a connection change, connection by connection.    *)

LEMMA CloseEffects ==
    ASSUME IInv, NEW n \in Net, NEW u \in Uid, table[n][u] # NoConn,
           CloseConnection(n, u), NEW c, c = table[n][u]
    PROVE  /\ c \in Conn /\ stage[c] = "open" /\ home[c] = n /\ uid[c] = u
           /\ stage'[c] = "closed"
           /\ \A d \in Conn \ {c} : /\ stage'[d] = stage[d]
                                    /\ interest'[d] = interest[d]
                                    /\ ready'[d] = ready[d]
           /\ \A p \in Net, v \in Uid : p # n \/ v # u =>
                    table'[p][v] = table[p][v]
<1>1. c \in Conn /\ stage[c] = "open" /\ home[c] = n /\ uid[c] = u
  BY EntryKnowsItsUid
<1>2. /\ stage' = [stage EXCEPT ![c] = "closed"]
      /\ interest' = [interest EXCEPT ![c] = "none"]
      /\ ready' = [ready EXCEPT ![c] = FALSE]
      /\ table' = [table EXCEPT ![n][u] = NoConn]
  BY DEF CloseConnection
<1>3. /\ stage \in [Conn -> {"none", "task", "open", "closed", "dropped"}]
      /\ interest \in [Conn -> {"none", "in", "inout"}]
      /\ ready \in [Conn -> BOOLEAN]
      /\ table \in [Net -> [Uid -> Conn \cup {NoConn}]]
  BY DEF IInv, TypeOK, EpollTypeOK, ConnsTypeOK, NetTypeOK
<1>4. /\ stage'[c] = "closed"
      /\ \A d \in Conn \ {c} : /\ stage'[d] = stage[d]
                               /\ interest'[d] = interest[d]
                               /\ ready'[d] = ready[d]
  BY <1>1, <1>2, <1>3
<1>5. \A p \in Net, v \in Uid : p # n \/ v # u => table'[p][v] = table[p][v]
  BY <1>2, <1>3
<1> QED
  BY <1>1, <1>4, <1>5

(* An add task opens its connection under a uid that was free, or drops it.  *)
LEMMA AddEffects ==
    ASSUME IInv, NEW n \in Net, AddTaskStep(n),
           NEW c, c = Head(batch[n]).conn
    PROVE  /\ c \in Conn /\ stage[c] = "task" /\ home[c] = n
           /\ \A d \in Conn \ {c} : /\ stage'[d] = stage[d]
                                    /\ uid'[d] = uid[d]
                                    /\ interest'[d] = interest[d]
                                    /\ ready'[d] = ready[d]
           /\ \/ /\ stage'[c] = "dropped" /\ uid'[c] = uid[c]
                 /\ UNCHANGED table
              \/ /\ stage'[c] = "open" /\ interest'[c] = "in"
                 /\ ready'[c] = Readable(c)
                 /\ \E u \in Uid : /\ table[n][u] = NoConn
                                   /\ uid'[c] = u
                                   /\ table' = [table EXCEPT ![n][u] = c]
<1>1. NextTask(n) /\ AddConnection(n, c) /\ Head(batch[n]).type = "add"
  BY DEF AddTaskStep
<1>2. c \in Conn /\ stage[c] = "task" /\ home[c] = n
  BY <1>1, HeadAddTask
<1>3. /\ stage \in [Conn -> {"none", "task", "open", "closed", "dropped"}]
      /\ uid \in [Conn -> Uid \cup {NoUid}]
      /\ interest \in [Conn -> {"none", "in", "inout"}]
      /\ ready \in [Conn -> BOOLEAN]
      /\ uids[n] \in Seq(Uid)
  BY DEF IInv, TypeOK, EpollTypeOK, ConnsTypeOK, NetTypeOK
<1>4. CASE CanPop(uids[n])
  <2> DEFINE u == Popped(uids[n])
  <2>1. /\ stage' = [stage EXCEPT ![c] = "open"]
        /\ interest' = [interest EXCEPT ![c] = "in"]
        /\ ready' = [ready EXCEPT ![c] = Readable(c)]
        /\ uid' = [uid EXCEPT ![c] = u]
        /\ table' = [table EXCEPT ![n][u] = c]
    BY <1>1, <1>4 DEF AddConnection
  <2>2. uids[n][1] = u /\ 1 \in 1..Len(uids[n]) /\ u \in Uid
    BY <1>3, <1>4 DEF CanPop, Popped
  <2>3. table[n][u] = NoConn
    BY <2>2 DEF IInv, UidsConserved, Holds
  <2> HIDE DEF u
  <2> QED
    BY <1>2, <1>3, <2>1, <2>2, <2>3
<1>5. CASE ~CanPop(uids[n])
  <2>1. /\ stage' = [stage EXCEPT ![c] = "dropped"]
        /\ UNCHANGED <<interest, ready, uid, table>>
    BY <1>1, <1>5 DEF AddConnection
  <2> QED
    BY <1>2, <1>3, <2>1
<1> QED
  BY <1>4, <1>5

-----------------------------------------------------------------------------
(* RoundSound and EventsAreFresh, thread by thread.                          *)

RoundOf(n) ==
    /\ pc[n] \in {"wait", "tasks"} => events[n] = {}
    /\ pc[n] # "tasks" => batch[n] = <<>>
    /\ \A e \in events[n] \ {ListenEvent} :
        /\ table[n][e.uid] # NoConn
        /\ \A f \in events[n] \ {ListenEvent, e} : f.uid # e.uid
        /\ e.err => peer[table[n][e.uid]] = "reset"
        /\ pc[n] \in Busy => table[n][e.uid] # reading[n].conn

(* An event names the entry of a connection of its thread.                   *)
LEMMA EventNamesEntry ==
    ASSUME IInv, NEW n \in Net, NEW e \in events[n] \ {ListenEvent}
    PROVE  /\ e \in ConnEvent
           /\ e.uid \in Uid
           /\ table[n][e.uid] # NoConn => table[n][e.uid] \in Conn
<1>1. e \in ConnEvent
  BY DEF IInv, TypeOK, NetTypeOK
<1>2. e.uid \in Uid
  BY <1>1 DEF ConnEvent
<1> QED
  BY <1>1, <1>2, EntryKnowsItsUid

(* A thread whose events only get fewer, the others keeping their entries.   *)
LEMMA RoundShrinks ==
    ASSUME IInv, NEW n \in Net, RoundOf(n),
           events'[n] \subseteq events[n],
           \A e \in events'[n] \ {ListenEvent} :
                table'[n][e.uid] = table[n][e.uid],
           \A d \in Conn : peer[d] = "reset" => peer'[d] = "reset",
           pc'[n] \in {"wait", "tasks"} => events'[n] = {},
           pc'[n] # "tasks" => batch'[n] = <<>>,
           pc'[n] \in Busy => \A e \in events'[n] \ {ListenEvent} :
                table[n][e.uid] # reading'[n].conn
    PROVE  RoundOf(n)'
<1>1. \A e \in events'[n] \ {ListenEvent} :
        /\ table[n][e.uid] # NoConn
        /\ table[n][e.uid] \in Conn
        /\ \A f \in events'[n] \ {ListenEvent, e} : f.uid # e.uid
        /\ e.err => peer[table[n][e.uid]] = "reset"
  BY EventNamesEntry DEF RoundOf
<1> QED
  BY <1>1 DEF RoundOf

(* A step of one network thread leaves the rounds of the others alone.       *)
LEMMA OtherThreads ==
    ASSUME IInv, NEW n \in Net, NetStep(n), NEW p \in Net \ {n}
    PROVE  /\ pc'[p] = pc[p] /\ events'[p] = events[p]
           /\ reading'[p] = reading[p] /\ batch'[p] = batch[p]
           /\ table'[p] = table[p]
<1>1. /\ pc \in [Net -> {"wait", "events", "accept", "recv", "extract", "send",
                         "tasks", "ended"}]
      /\ events \in [Net -> SUBSET (ConnEvent \cup {ListenEvent})]
      /\ reading \in [Net -> [conn : Conn \cup {NoConn}, close : BOOLEAN,
                              out : BOOLEAN]]
      /\ batch \in [Net -> Seq(Task)]
      /\ table \in [Net -> [Uid -> Conn \cup {NoConn}]]
  BY DEF IInv, TypeOK, NetTypeOK
<1> DEFINE Rest == /\ pc'[p] = pc[p] /\ events'[p] = events[p]
                   /\ reading'[p] = reading[p] /\ batch'[p] = batch[p]
<1>2. ASSUME NEW u, CloseConnection(n, u)
      PROVE  table'[p] = table[p]
  BY <1>1, <1>2 DEF CloseConnection
<1>3. ASSUME NEW c, AddConnection(n, c)
      PROVE  table'[p] = table[p]
  BY <1>1, <1>3 DEF AddConnection
<1>4. CASE EpollWait(n)
  BY <1>1, <1>4 DEF EpollWait
<1>5. CASE AcceptEvent(n)
  BY <1>1, <1>5 DEF AcceptEvent
<1>6. CASE Accept(n) \/ AcceptEnd(n)
  BY <1>1, <1>6 DEF Accept, AcceptEnd
<1>7. CASE ErrorEvent(n)
  <2>1. PICK e \in events[n] : ConnEventAt(n, e) /\ CloseConnection(n, e.uid)
    BY <1>7 DEF ErrorEvent
  <2>2. /\ events' = [events EXCEPT ![n] = events[n] \ {e}]
        /\ UNCHANGED <<pc, reading, batch>>
    BY <1>7, <2>1 DEF ErrorEvent, ConnEventAt
  <2> QED
    BY <1>1, <1>2, <2>1, <2>2
<1>8. CASE DataEvent(n)
  <2>1. PICK e \in events[n] :
          /\ ConnEventAt(n, e)
          /\ pc' = [pc EXCEPT ![n] = IF e.in THEN "recv" ELSE "send"]
          /\ reading' = [reading EXCEPT ![n] = [conn |-> table[n][e.uid],
                            close |-> FALSE, out |-> WritesToo(e)]]
          /\ UNCHANGED table
    BY <1>8 DEF DataEvent
  <2>2. /\ events' = [events EXCEPT ![n] = events[n] \ {e}]
        /\ UNCHANGED batch
    BY <2>1 DEF ConnEventAt
  <2> QED
    BY <1>1, <2>1, <2>2
<1>9. CASE RecvData(n)
  BY <1>1, <1>9 DEF RecvData
<1>10. CASE ExtractPackage(n)
  BY <1>10 DEF ExtractPackage, netVars
<1>11. CASE ReadDone(n)
  <2>1. UNCHANGED <<events, batch>>
    BY <1>11 DEF ReadDone
  <2>2. reading'[p] = reading[p] /\ pc'[p] = pc[p]
    BY <1>1, <1>11 DEF ReadDone
  <2>3. CloseConnection(n, uid[reading[n].conn]) \/ UNCHANGED table
    BY <1>11 DEF ReadDone
  <2> QED
    BY <1>2, <2>1, <2>2, <2>3
<1>12. CASE WriteEvent(n)
  <2>1. UNCHANGED <<events, batch>>
    BY <1>12 DEF WriteEvent
  <2>2. reading'[p] = reading[p] /\ pc'[p] = pc[p]
    BY <1>1, <1>12 DEF WriteEvent
  <2>3. CloseConnection(n, uid[reading[n].conn]) \/ UNCHANGED table
    BY <1>12 DEF WriteEvent
  <2> QED
    BY <1>2, <2>1, <2>2, <2>3
<1>13. CASE SwapResponses(n) \/ RoundDone(n)
  BY <1>1, <1>13 DEF SwapResponses, RoundDone
<1>14. ASSUME NextTask(n)
       PROVE  Rest
  BY <1>1, <1>14 DEF NextTask
<1>15. CASE AddTaskStep(n)
  BY <1>3, <1>14, <1>15 DEF AddTaskStep
<1>16. CASE NetTaskStep(n)
  <2>1. CloseConnection(n, uid[table[n][Head(batch[n]).uid]]) \/ UNCHANGED table
    BY <1>16 DEF NetTaskStep
  <2>2. NextTask(n)
    BY <1>16 DEF NetTaskStep
  <2> QED
    BY <1>2, <1>14, <2>1, <2>2
<1>17. CASE DropTaskStep(n)
  BY <1>14, <1>17 DEF DropTaskStep
<1> QED
  BY <1>4, <1>5, <1>6, <1>7, <1>8, <1>9, <1>10, <1>11, <1>12, <1>13, <1>15,
    <1>16, <1>17 DEF NetStep

(* Network threads do not change what the peers did; a peer moves forward.   *)
LEMMA NetLeavesPeers ==
    ASSUME NEW n \in Net, NetStep(n)
    PROVE  UNCHANGED peer
<1>1. CASE NetTaskStep(n) \/ DropTaskStep(n) \/ AddTaskStep(n)
  BY <1>1 DEF NetTaskStep, DropTaskStep, AddTaskStep, NextTask
<1>2. CASE ErrorEvent(n) \/ DataEvent(n)
  BY <1>2 DEF ErrorEvent, DataEvent, ConnEventAt
<1>3. CASE EpollWait(n) \/ AcceptEvent(n) \/ Accept(n) \/ AcceptEnd(n)
  BY <1>3 DEF EpollWait, AcceptEvent, Accept, AcceptEnd, kernelVars
<1>4. CASE RecvData(n) \/ ExtractPackage(n) \/ ReadDone(n) \/ WriteEvent(n)
  BY <1>4 DEF RecvData, ExtractPackage, ReadDone, WriteEvent, kernelVars
<1>5. CASE SwapResponses(n) \/ RoundDone(n)
  BY <1>5 DEF SwapResponses, RoundDone, kernelVars
<1> QED
  BY <1>1, <1>2, <1>3, <1>4, <1>5 DEF NetStep

LEMMA PeerMoves ==
    ASSUME IInv, NEW c \in Conn, PeerStep(c)
    PROVE  \A d \in Conn :
            /\ peer[d] = "reset" => peer'[d] = "reset"
            /\ peer[d] = "fin" => peer'[d] \in {"fin", "reset"}
            /\ d # c => peer'[d] = peer[d]
<1>1. peer \in [Conn -> {"idle", "open", "fin", "reset"}]
  BY DEF IInv, TypeOK, PeersTypeOK
<1> QED
  BY <1>1 DEF PeerStep, PeerConnect, PeerSend, PeerEnd, PeerRecv

(* The events of an epoll_wait: one for each connection reported, under its  *)
(* own uid.                                                                  *)
LEMMA WaitRound ==
    ASSUME IInv, NEW n \in Net, EpollWait(n), RoundOf(n)
    PROVE  RoundOf(n)'
<1> DEFINE L == IF Listening(n) THEN {ListenEvent} ELSE {}
<1>1. /\ pc[n] = "wait"
      /\ pc' = [pc EXCEPT ![n] = "events"]
      /\ events' = [events EXCEPT ![n] = {Event(c) : c \in Pending(n)} \cup L]
      /\ UNCHANGED <<table, peer, batch, uid>>
  BY DEF EpollWait, connVars
<1>2. /\ pc \in [Net -> {"wait", "events", "accept", "recv", "extract", "send",
                         "tasks", "ended"}]
      /\ events \in [Net -> SUBSET (ConnEvent \cup {ListenEvent})]
  BY DEF IInv, TypeOK, NetTypeOK
<1>3. pc'[n] = "events"
  BY <1>1, <1>2
<1>4. \A e \in events'[n] \ {ListenEvent} : \E c \in Pending(n) : e = Event(c)
  BY <1>1, <1>2
<1>5. \A c \in Pending(n) : /\ c \in Conn
                            /\ uid[c] \in Uid
                            /\ table[n][uid[c]] = c
                            /\ Event(c).uid = uid[c]
                            /\ Event(c).err => peer[c] = "reset"
  BY DEF Pending, Event, Broken, IInv, TableSound
<1>6. NoConn \notin Conn
  BY ServerAssumption DEF ServerAssumption
<1>7. batch[n] = <<>>
  BY <1>1 DEF RoundOf
<1>8. ASSUME NEW e \in events'[n] \ {ListenEvent}
      PROVE  /\ table'[n][e.uid] # NoConn
             /\ \A f \in events'[n] \ {ListenEvent, e} : f.uid # e.uid
             /\ e.err => peer'[table'[n][e.uid]] = "reset"
  <2>1. PICK c \in Pending(n) : e = Event(c)
    BY <1>4
  <2>2. table[n][e.uid] = c /\ c \in Conn
    BY <1>5, <2>1
  <2>3. ASSUME NEW f \in events'[n] \ {ListenEvent, e}
        PROVE  f.uid # e.uid
    <3>1. PICK d \in Pending(n) : f = Event(d)
      BY <1>4
    <3>2. d # c
      BY <2>1, <3>1
    <3> QED
      BY <1>5, <2>1, <3>1, <3>2
  <2> QED
    BY <1>1, <1>5, <1>6, <2>1, <2>2, <2>3
<1> QED
  BY <1>1, <1>3, <1>7, <1>8 DEF RoundOf, Busy

(* A close makes stale no event but those about its connection.              *)
LEMMA CloseRound ==
    ASSUME IInv, NEW n \in Net, RoundOf(n), NEW u \in Uid,
           table[n][u] # NoConn, CloseConnection(n, u),
           events'[n] \subseteq events[n],
           \A e \in events'[n] \ {ListenEvent} : e.uid # u,
           UNCHANGED peer,
           pc'[n] \in {"wait", "tasks"} => events'[n] = {},
           pc'[n] # "tasks" => batch'[n] = <<>>,
           pc'[n] \notin Busy
    PROVE  RoundOf(n)'
<1>1. \A e \in events'[n] \ {ListenEvent} : table'[n][e.uid] = table[n][e.uid]
  BY EventNamesEntry, CloseEffects
<1> QED
  BY <1>1, RoundShrinks

LEMMA RoundNet ==
    ASSUME IInv, NEW n \in Net, NetStep(n), RoundOf(n)
    PROVE  RoundOf(n)'
<1>1. /\ pc \in [Net -> {"wait", "events", "accept", "recv", "extract", "send",
                         "tasks", "ended"}]
      /\ events \in [Net -> SUBSET (ConnEvent \cup {ListenEvent})]
      /\ reading \in [Net -> [conn : Conn \cup {NoConn}, close : BOOLEAN,
                              out : BOOLEAN]]
      /\ batch \in [Net -> Seq(Task)]
      /\ table \in [Net -> [Uid -> Conn \cup {NoConn}]]
  BY DEF IInv, TypeOK, NetTypeOK
<1>2. /\ pc[n] \in {"wait", "tasks"} => events[n] = {}
      /\ pc[n] # "tasks" => batch[n] = <<>>
      /\ pc[n] \in Busy => \A e \in events[n] \ {ListenEvent} :
                table[n][e.uid] # reading[n].conn
  BY DEF RoundOf
<1>3. CASE AcceptEvent(n) \/ Accept(n) \/ AcceptEnd(n)
  <2>1. /\ events'[n] \subseteq events[n]
        /\ UNCHANGED <<table, peer, batch>>
        /\ pc[n] \in {"events", "accept"}
        /\ pc'[n] \in {"events", "accept"}
    BY <1>1, <1>3 DEF AcceptEvent, Accept, AcceptEnd, kernelVars
  <2> QED
    BY <1>2, <2>1, RoundShrinks DEF Busy
<1>4. CASE ErrorEvent(n)
  <2>1. PICK e \in events[n] : /\ ConnEventAt(n, e)
                               /\ table[n][e.uid] # NoConn
                               /\ CloseConnection(n, e.uid)
    BY <1>4 DEF ErrorEvent
  <2>2. /\ e \in events[n] \ {ListenEvent} /\ pc[n] = "events"
        /\ events'[n] = events[n] \ {e}
        /\ UNCHANGED <<pc, reading, batch, peer>>
    BY <1>1, <1>4, <2>1 DEF ErrorEvent, ConnEventAt
  <2>3. \A f \in events'[n] \ {ListenEvent} : f.uid # e.uid
    BY <2>2 DEF RoundOf
  <2>4. e.uid \in Uid
    BY <2>2, EventNamesEntry
  <2> QED
    BY <1>2, <2>1, <2>2, <2>3, <2>4, CloseRound DEF Busy
<1>5. CASE DataEvent(n)
  <2>1. PICK e \in events[n] :
          /\ ConnEventAt(n, e)
          /\ table[n][e.uid] # NoConn
          /\ pc' = [pc EXCEPT ![n] = IF e.in THEN "recv" ELSE "send"]
          /\ reading' = [reading EXCEPT ![n] = [conn |-> table[n][e.uid],
                            close |-> FALSE, out |-> WritesToo(e)]]
          /\ UNCHANGED table
    BY <1>5 DEF DataEvent
  <2>2. /\ e \in events[n] \ {ListenEvent} /\ pc[n] = "events"
        /\ events'[n] = events[n] \ {e}
        /\ UNCHANGED <<batch, peer>>
        /\ pc'[n] \in {"recv", "send"}
        /\ reading'[n].conn = table[n][e.uid]
    BY <1>1, <2>1 DEF ConnEventAt
  <2>3. ASSUME NEW f \in events'[n] \ {ListenEvent}
        PROVE  table[n][f.uid] # table[n][e.uid]
    <3>1. f.uid # e.uid /\ table[n][f.uid] # NoConn
      BY <2>2 DEF RoundOf
    <3>2. f.uid \in Uid /\ e.uid \in Uid
      BY <2>2, EventNamesEntry
    <3>3. uid[table[n][f.uid]] = f.uid /\ uid[table[n][e.uid]] = e.uid
      BY <2>1, <3>1, <3>2, EntryKnowsItsUid
    <3> QED
      BY <3>1, <3>3
  <2> QED
    BY <1>2, <2>1, <2>2, <2>3, RoundShrinks
<1>6. CASE RecvData(n)
  <2>1. /\ UNCHANGED <<events, table, peer, batch>>
        /\ pc[n] = "recv" /\ pc'[n] = "extract"
        /\ reading'[n].conn = reading[n].conn
    BY <1>1, <1>6 DEF RecvData
  <2> QED
    BY <1>2, <2>1, RoundShrinks DEF Busy
<1>7. CASE ExtractPackage(n)
  <2>1. UNCHANGED <<events, table, peer, batch, pc, reading>>
    BY <1>7 DEF ExtractPackage, netVars, kernelVars
  <2> QED
    BY <1>2, <2>1, RoundShrinks
<1>8. CASE ReadDone(n)
  <2>1. /\ UNCHANGED <<events, peer, batch>>
        /\ pc[n] = "extract"
    BY <1>8 DEF ReadDone
  <2>2. CASE reading[n].close
    <3>1. CloseConnection(n, uid[reading[n].conn])
      BY <1>8, <2>2 DEF ReadDone
    <3>2. pc'[n] \in {"events", "ended"}
      BY <1>1, <1>8, <2>2 DEF ReadDone
    <3>3. /\ uid[reading[n].conn] \in Uid
          /\ table[n][uid[reading[n].conn]] = reading[n].conn
          /\ reading[n].conn # NoConn
      BY <2>1, ReadingInTable, ServerAssumption DEF ServerAssumption
    <3>4. \A e \in events'[n] \ {ListenEvent} : e.uid # uid[reading[n].conn]
      BY <1>2, <2>1, <3>3 DEF Busy
    <3> QED
      BY <1>2, <2>1, <3>1, <3>2, <3>3, <3>4, CloseRound DEF Busy
  <2>3. CASE ~reading[n].close
    <3>1. UNCHANGED table
      BY <1>8, <2>3 DEF ReadDone
    <3>2. pc'[n] \in {"send", "events"}
      BY <1>1, <1>8, <2>3 DEF ReadDone
    <3>3. pc'[n] = "send" => reading'[n] = reading[n]
      BY <1>1, <1>8, <2>3 DEF ReadDone
    <3> QED
      BY <1>2, <2>1, <3>1, <3>2, <3>3, RoundShrinks DEF Busy
  <2> QED
    BY <2>2, <2>3
<1>9. CASE WriteEvent(n)
  <2>1. /\ UNCHANGED <<events, peer, batch>>
        /\ pc[n] = "send" /\ pc'[n] = "events"
    BY <1>1, <1>9 DEF WriteEvent
  <2>2. CASE Broken(reading[n].conn)
    <3>1. CloseConnection(n, uid[reading[n].conn])
      BY <1>9, <2>2 DEF WriteEvent
    <3>2. /\ uid[reading[n].conn] \in Uid
          /\ table[n][uid[reading[n].conn]] = reading[n].conn
          /\ reading[n].conn # NoConn
      BY <2>1, ReadingInTable, ServerAssumption DEF ServerAssumption
    <3>3. \A e \in events'[n] \ {ListenEvent} : e.uid # uid[reading[n].conn]
      BY <1>2, <2>1, <3>2 DEF Busy
    <3> QED
      BY <1>2, <2>1, <3>1, <3>2, <3>3, CloseRound DEF Busy
  <2>3. CASE ~Broken(reading[n].conn)
    <3>1. UNCHANGED table
      BY <1>9, <2>3 DEF WriteEvent
    <3> QED
      BY <1>2, <2>1, <3>1, RoundShrinks DEF Busy
  <2> QED
    BY <2>2, <2>3
<1>10. CASE SwapResponses(n)
  <2>1. /\ UNCHANGED <<events, table, peer>>
        /\ events[n] = {} /\ pc'[n] = "tasks"
    BY <1>1, <1>10 DEF SwapResponses, EventsDone, kernelVars
  <2> QED
    BY <2>1 DEF RoundOf, Busy
<1>11. CASE RoundDone(n)
  <2>1. /\ UNCHANGED <<events, table, peer, batch>>
        /\ pc[n] = "tasks" /\ batch[n] = <<>> /\ pc'[n] = "wait"
    BY <1>1, <1>11 DEF RoundDone, kernelVars
  <2> QED
    BY <1>2, <2>1 DEF RoundOf, Busy
<1>12. CASE AddTaskStep(n) \/ NetTaskStep(n) \/ DropTaskStep(n)
  <2>1. UNCHANGED <<events, pc>> /\ pc[n] = "tasks"
    BY <1>12 DEF AddTaskStep, NetTaskStep, DropTaskStep, NextTask
  <2> QED
    BY <1>2, <2>1 DEF RoundOf, Busy
<1> QED
  BY <1>3, <1>4, <1>5, <1>6, <1>7, <1>8, <1>9, <1>10, <1>11, <1>12, WaitRound
  DEF NetStep

(* Between two rounds no event is left, and each event names its own entry.  *)
LEMMA RoundStep ==
    ASSUME IInv, RoundSound, EventsAreFresh, Next
    PROVE  RoundSound' /\ EventsAreFresh'
<1>1. \A n \in Net : RoundOf(n)
  BY DEF RoundSound, EventsAreFresh, RoundOf, Busy, Broken
<1>2. ASSUME NEW n \in Net
      PROVE  RoundOf(n)'
  <2>1. RoundOf(n)
    BY <1>1
  <2>2. CASE NetStep(n)
    BY <2>1, <2>2, RoundNet
  <2>3. ASSUME NEW p \in Net, NetStep(p), p # n
        PROVE  RoundOf(n)'
    <3>1. /\ pc'[n] = pc[n] /\ events'[n] = events[n]
          /\ reading'[n] = reading[n] /\ batch'[n] = batch[n]
          /\ table'[n] = table[n]
      BY <2>3, OtherThreads
    <3>2. UNCHANGED peer
      BY <2>3, NetLeavesPeers
    <3> QED
      BY <2>1, <3>1, <3>2 DEF RoundOf
  <2>4. ASSUME NEW h \in Handle, HandleStep(h)
        PROVE  RoundOf(n)'
    <3>1. UNCHANGED <<pc, events, reading, batch, table, peer>>
      BY <2>4 DEF HandleStep, TakeRequests, LockConnection, Distribute,
        SendResponse, kernelVars, netVars
    <3> QED
      BY <2>1, <3>1 DEF RoundOf
  <2>5. ASSUME NEW c \in Conn, PeerStep(c)
        PROVE  RoundOf(n)'
    <3>1. UNCHANGED <<pc, events, reading, batch, table>>
      BY <2>5 DEF PeerStep, PeerConnect, PeerSend, PeerEnd, PeerRecv, netVars
    <3>2. \A d \in Conn : peer[d] = "reset" => peer'[d] = "reset"
      BY <2>5, PeerMoves
    <3> QED
      BY <2>1, <3>1, <3>2, RoundShrinks DEF RoundOf
  <2> QED
    BY <2>2, <2>3, <2>4, <2>5 DEF Next
<1> QED
  BY <1>2 DEF RoundSound, EventsAreFresh, RoundOf, Busy, Broken

-----------------------------------------------------------------------------
(* What a network thread leaves alone.                                       *)

(* Only recvData takes input from the kernel, and only readEvent touches the *)
(* receive buffer, both on the open connection the thread works on.          *)
LEMMA InputMoves ==
    ASSUME IInv, NEW n \in Net, NetStep(n), NEW c \in Conn,
           inbound'[c] # inbound[c] \/ recvBuf'[c] # recvBuf[c]
    PROVE  /\ RecvData(n) \/ ExtractPackage(n)
           /\ c = reading[n].conn /\ stage[c] = "open" /\ home[c] = n
           /\ ExtractPackage(n) => inbound'[c] = inbound[c]
<1>1. /\ inbound \in [Conn -> Seq(Request)]
      /\ recvBuf \in [Conn -> Seq(Request)]
  BY DEF IInv, TypeOK, PeersTypeOK, ConnsTypeOK
<1>2. ASSUME NEW x, ConnEventAt(n, x)
      PROVE  UNCHANGED <<inbound, recvBuf>>
  BY <1>2 DEF ConnEventAt
<1>3. CASE NetTaskStep(n) \/ DropTaskStep(n) \/ AddTaskStep(n)
  BY <1>3 DEF NetTaskStep, DropTaskStep, AddTaskStep, NextTask
<1>4. CASE ErrorEvent(n) \/ DataEvent(n)
  BY <1>2, <1>4 DEF ErrorEvent, DataEvent
<1>5. CASE EpollWait(n) \/ AcceptEvent(n) \/ Accept(n) \/ AcceptEnd(n)
  BY <1>5 DEF EpollWait, AcceptEvent, Accept, AcceptEnd, kernelVars, connVars
<1>6. CASE ReadDone(n) \/ WriteEvent(n) \/ SwapResponses(n) \/ RoundDone(n)
  BY <1>6 DEF ReadDone, WriteEvent, SwapResponses, RoundDone, kernelVars,
    connVars
<1>7. CASE RecvData(n)
  <2>1. pc[n] = "recv"
    BY <1>7 DEF RecvData
  <2>2. PICK m \in KeptLengths(reading[n].conn) :
          /\ recvBuf' = [recvBuf EXCEPT ![reading[n].conn] =
                recvBuf[reading[n].conn] \o SubSeq(inbound[reading[n].conn], 1, m)]
          /\ inbound' = [inbound EXCEPT ![reading[n].conn] = <<>>]
    BY <1>7 DEF RecvData
  <2>3. c = reading[n].conn
    BY <1>1, <2>2
  <2>4. stage[c] = "open" /\ home[c] = n
    BY <2>1, <2>3 DEF IInv, WorkSound, ReadingSound
  <2>5. ~ExtractPackage(n)
    BY <2>1 DEF ExtractPackage
  <2> QED
    BY <1>7, <2>3, <2>4, <2>5
<1>8. CASE ExtractPackage(n)
  <2>1. /\ pc[n] = "extract" /\ UNCHANGED inbound
        /\ recvBuf' = [recvBuf EXCEPT ![reading[n].conn] =
                            Tail(recvBuf[reading[n].conn])]
    BY <1>8 DEF ExtractPackage, kernelVars
  <2>2. c = reading[n].conn
    BY <1>1, <2>1
  <2>3. stage[c] = "open" /\ home[c] = n
    BY <2>1, <2>2 DEF IInv, WorkSound, ReadingSound
  <2> QED
    BY <1>8, <2>1, <2>2, <2>3
<1> QED
  BY <1>3, <1>4, <1>5, <1>6, <1>7, <1>8 DEF NetStep

(* Handle threads and peers leave the life of a connection alone.            *)
LEMMA QuietSteps ==
    ASSUME \/ \E h \in Handle : HandleStep(h)
           \/ \E c \in Conn : PeerStep(c)
    PROVE  /\ UNCHANGED <<stage, home, uid, recvBuf, sendBuf>>
           /\ UNCHANGED <<hash, pc, events, reading, batch, table, uids>>
<1>1. ASSUME NEW h \in Handle, HandleStep(h)
      PROVE  /\ UNCHANGED <<stage, home, uid, recvBuf, sendBuf>>
             /\ UNCHANGED <<hash, pc, events, reading, batch, table, uids>>
  BY <1>1 DEF HandleStep, TakeRequests, LockConnection, Distribute,
    SendResponse, connVars, netVars
<1>2. ASSUME NEW c \in Conn, PeerStep(c)
      PROVE  /\ UNCHANGED <<stage, home, uid, recvBuf, sendBuf>>
             /\ UNCHANGED <<hash, pc, events, reading, batch, table, uids>>
  BY <1>2 DEF PeerStep, PeerConnect, PeerSend, PeerEnd, PeerRecv, connVars,
    netVars
<1> QED
  BY <1>1, <1>2

LEMMA HandleLeavesKernel ==
    ASSUME NEW h \in Handle, HandleStep(h)
    PROVE  UNCHANGED <<peer, sent, inbound, kbuf, got, backlog, listenReady,
                       interest, ready, acceptErrors>>
BY DEF HandleStep, TakeRequests, LockConnection, Distribute, SendResponse,
  kernelVars

(* A connection is closed after a reset, or at the end of a readEvent.       *)
LEMMA ClosesHow ==
    ASSUME IInv, RoundSound, EventsAreFresh, CloseSound,
           NEW n \in Net, NetStep(n), NEW c \in Conn,
           stage[c] # "closed", stage'[c] = "closed"
    PROVE  /\ stage[c] = "open"
           /\ \/ peer[c] = "reset"
              \/ peer[c] = "fin" /\ inbound[c] = <<>> /\ recvBuf[c] = <<>>
<1>1. peer \in [Conn -> {"idle", "open", "fin", "reset"}]
  BY DEF IInv, TypeOK, PeersTypeOK
<1>2. stage \in [Conn -> {"none", "task", "open", "closed", "dropped"}]
  BY DEF IInv, TypeOK, ConnsTypeOK
<1>3. ASSUME NEW u \in Uid, table[n][u] # NoConn, CloseConnection(n, u)
      PROVE  c = table[n][u] /\ stage[c] = "open"
  BY <1>3, CloseEffects
<1>4. CASE ErrorEvent(n)
  <2>1. PICK e \in events[n] : /\ ConnEventAt(n, e) /\ e.err
                               /\ table[n][e.uid] # NoConn
                               /\ CloseConnection(n, e.uid)
    BY <1>4 DEF ErrorEvent
  <2>2. e \in events[n] \ {ListenEvent}
    BY <2>1 DEF ConnEventAt
  <2>3. peer[table[n][e.uid]] = "reset"
    BY <2>1, <2>2 DEF RoundSound, Broken
  <2>4. e.uid \in Uid
    BY <2>2, EventNamesEntry
  <2> QED
    BY <1>3, <2>1, <2>3, <2>4
<1>5. CASE ReadDone(n)
  <2> DEFINE d == reading[n].conn
  <2>1. pc[n] = "extract" /\ recvBuf[d] = <<>>
    BY <1>5 DEF ReadDone, ReadFinished
  <2>2. reading[n].close /\ CloseConnection(n, uid[d])
    BY <1>5 DEF ReadDone
  <2>3. /\ d \in Conn /\ uid[d] \in Uid /\ table[n][uid[d]] = d /\ d # NoConn
    BY <2>1, ReadingInTable, ServerAssumption DEF ServerAssumption
  <2>4. peer[d] \in {"fin", "reset"} /\ inbound[d] = <<>>
    BY <2>1, <2>2 DEF CloseSound
  <2>5. c = d /\ stage[c] = "open"
    BY <1>3, <2>2, <2>3
  <2> QED
    BY <2>1, <2>4, <2>5
<1>6. CASE WriteEvent(n)
  <2> DEFINE d == reading[n].conn
  <2>1. pc[n] = "send"
    BY <1>6 DEF WriteEvent
  <2>2. Broken(d) /\ CloseConnection(n, uid[d])
    BY <1>6 DEF WriteEvent
  <2>3. /\ d \in Conn /\ uid[d] \in Uid /\ table[n][uid[d]] = d /\ d # NoConn
    BY <2>1, ReadingInTable, ServerAssumption DEF ServerAssumption
  <2> QED
    BY <1>3, <2>2, <2>3 DEF Broken
<1>7. CASE NetTaskStep(n)
  <2> DEFINE u == Head(batch[n]).uid
             d == table[n][u]
  <2>1. NextTask(n) /\ Head(batch[n]).type = "net" /\ d # NoConn
    BY <1>7 DEF NetTaskStep
  <2>2. u \in Uid
    BY <2>1, HeadNetTask
  <2>3. uid[d] = u
    BY <2>1, <2>2, EntryKnowsItsUid
  <2>4. Broken(d) /\ CloseConnection(n, uid[d])
    BY <1>7 DEF NetTaskStep
  <2> QED
    BY <1>3, <2>1, <2>2, <2>3, <2>4 DEF Broken
<1>8. CASE AddTaskStep(n)
  <2>1. stage'[c] \in {stage[c], "dropped", "open"}
    BY <1>8, AddEffects
  <2> QED
    BY <2>1
<1>9. CASE Accept(n)
  <2>1. stage' = [stage EXCEPT ![Head(backlog)] = "task"]
    BY <1>9 DEF Accept
  <2> QED
    BY <1>2, <2>1
<1>10. CASE \/ EpollWait(n) \/ AcceptEvent(n) \/ AcceptEnd(n) \/ DataEvent(n)
            \/ RecvData(n) \/ ExtractPackage(n) \/ SwapResponses(n)
            \/ RoundDone(n) \/ DropTaskStep(n)
  BY <1>10 DEF EpollWait, AcceptEvent, AcceptEnd, DataEvent, ConnEventAt,
    RecvData, ExtractPackage, SwapResponses, RoundDone, DropTaskStep, NextTask,
    connVars
<1> QED
  BY <1>4, <1>5, <1>6, <1>7, <1>8, <1>9, <1>10 DEF NetStep

(* A closed connection stays closed and keeps its thread.                    *)
LEMMA ClosedForEver ==
    ASSUME IInv, Next, NEW c \in Conn, stage[c] = "closed"
    PROVE  stage'[c] = "closed"
<1>1. ASSUME NEW n \in Net, Accept(n)
      PROVE  stage'[c] = "closed"
  <2>1. /\ stage' = [stage EXCEPT ![Head(backlog)] = "task"]
        /\ stage[Head(backlog)] = "none"
    BY <1>1, HeadOfBacklog DEF Accept
  <2> QED
    BY <2>1 DEF IInv, TypeOK, ConnsTypeOK
<1>2. ASSUME NEW n \in Net, AddTaskStep(n)
      PROVE  stage'[c] = "closed"
  BY <1>2, AddEffects
<1> QED
  BY <1>1, <1>2, StageMoves

LEMMA CloseStep ==
    ASSUME IInv, RoundSound, EventsAreFresh, CloseSound, Next
    PROVE  CloseSound'
<1>1. /\ peer \in [Conn -> {"idle", "open", "fin", "reset"}]
      /\ inbound \in [Conn -> Seq(Request)]
      /\ recvBuf \in [Conn -> Seq(Request)]
      /\ stage \in [Conn -> {"none", "task", "open", "closed", "dropped"}]
  BY DEF IInv, TypeOK, PeersTypeOK, ConnsTypeOK
<1>2. ASSUME NEW c \in Conn, PeerStep(c), NEW d \in Conn,
             peer[d] \in {"fin", "reset"}
      PROVE  /\ inbound'[d] = inbound[d]
             /\ peer'[d] \in {"fin", "reset"}
             /\ peer[d] = "reset" => peer'[d] = "reset"
  <2>1. PeerSend(c) => inbound'[d] = inbound[d]
    BY <1>1, <1>2 DEF PeerSend
  <2>2. PeerConnect(c) \/ PeerEnd(c) \/ PeerRecv(c) => UNCHANGED inbound
    BY DEF PeerConnect, PeerEnd, PeerRecv
  <2>3. peer[d] = "fin" => peer'[d] \in {"fin", "reset"}
    BY <1>2, PeerMoves
  <2>4. peer[d] = "reset" => peer'[d] = "reset"
    BY <1>2, PeerMoves
  <2>5. inbound'[d] = inbound[d]
    BY <1>2, <2>1, <2>2 DEF PeerStep
  <2> QED
    BY <1>2, <2>3, <2>4, <2>5
<1>3. ASSUME NEW n \in Net, pc'[n] = "extract", reading'[n].close
      PROVE  /\ peer'[reading'[n].conn] \in {"fin", "reset"}
             /\ inbound'[reading'[n].conn] = <<>>
  <2> DEFINE c == reading[n].conn
  <2>1. CASE pc[n] = "extract" /\ reading'[n] = reading[n]
    <3>1. peer[c] \in {"fin", "reset"} /\ inbound[c] = <<>>
      BY <1>3, <2>1 DEF CloseSound
    <3>2. c \in Conn /\ home[c] = n
      BY <2>1 DEF IInv, WorkSound, ReadingSound
    <3>3. ASSUME NEW p \in Net, NetStep(p)
          PROVE  peer'[c] = peer[c] /\ inbound'[c] = <<>>
      <4>1. UNCHANGED peer
        BY <3>3, NetLeavesPeers
      <4>2. CASE inbound'[c] # inbound[c]
        <5>1. RecvData(p) /\ c = reading[p].conn /\ home[c] = p
          BY <3>2, <3>3, <4>2, InputMoves
        <5>2. pc[p] = "recv"
          BY <5>1 DEF RecvData
        <5> QED
          BY <2>1, <3>2, <5>1, <5>2
      <4> QED
        BY <3>1, <4>1, <4>2
    <3>4. ASSUME NEW h \in Handle, HandleStep(h)
          PROVE  UNCHANGED <<peer, inbound>>
      BY <3>4, HandleLeavesKernel
    <3>5. ASSUME NEW d \in Conn, PeerStep(d)
          PROVE  peer'[c] \in {"fin", "reset"} /\ inbound'[c] = <<>>
      BY <1>2, <3>1, <3>2, <3>5
    <3> HIDE DEF c
    <3>6. peer'[c] \in {"fin", "reset"} /\ inbound'[c] = <<>>
      BY <3>1, <3>3, <3>4, <3>5 DEF Next
    <3> QED
      BY <2>1, <3>6 DEF c
  <2>2. CASE RecvData(n)
    <3>1. /\ pc[n] = "recv"
          /\ inbound' = [inbound EXCEPT ![c] = <<>>]
          /\ reading' = [reading EXCEPT ![n].close = StreamEnded(c)]
          /\ UNCHANGED peer
      BY <2>2 DEF RecvData
    <3>2. c \in Conn
      BY <3>1 DEF IInv, WorkSound, ReadingSound
    <3>3. reading'[n].conn = c /\ reading'[n].close = StreamEnded(c)
      BY <3>1 DEF IInv, TypeOK, NetTypeOK
    <3>4. inbound'[c] = <<>>
      BY <1>1, <3>1, <3>2
    <3>5. peer'[c] \in {"fin", "reset"}
      BY <1>3, <3>1, <3>3 DEF StreamEnded
    <3> QED
      BY <3>3, <3>4, <3>5
  <2>3. ASSUME NetStep(n)
        PROVE  RecvData(n) \/ (pc[n] = "extract" /\ reading'[n] = reading[n])
    <3>1. /\ pc \in [Net -> {"wait", "events", "accept", "recv", "extract",
                             "send", "tasks", "ended"}]
      BY DEF IInv, TypeOK, NetTypeOK
    <3>2. CASE NetTaskStep(n) \/ DropTaskStep(n) \/ AddTaskStep(n)
      BY <1>3, <3>2 DEF NetTaskStep, DropTaskStep, AddTaskStep, NextTask
    <3>3. CASE ErrorEvent(n)
      BY <1>3, <3>3 DEF ErrorEvent, ConnEventAt
    <3>4. CASE DataEvent(n)
      BY <1>3, <3>1, <3>4 DEF DataEvent
    <3>5. CASE EpollWait(n) \/ AcceptEvent(n) \/ Accept(n) \/ AcceptEnd(n)
      BY <1>3, <3>1, <3>5 DEF EpollWait, AcceptEvent, Accept, AcceptEnd
    <3>6. CASE ReadDone(n)
      BY <1>3, <3>1, <3>6 DEF ReadDone
    <3>7. CASE WriteEvent(n) \/ SwapResponses(n) \/ RoundDone(n)
      BY <1>3, <3>1, <3>7 DEF WriteEvent, SwapResponses, RoundDone
    <3>8. CASE ExtractPackage(n)
      BY <3>8 DEF ExtractPackage, netVars
    <3> QED
      BY <2>3, <3>2, <3>3, <3>4, <3>5, <3>6, <3>7, <3>8 DEF NetStep
  <2>4. ASSUME NEW p \in Net \ {n}, NetStep(p)
        PROVE  pc[n] = "extract" /\ reading'[n] = reading[n]
    BY <1>3, <2>4, OtherThreads
  <2>5. ASSUME (\E h \in Handle : HandleStep(h)) \/ (\E d \in Conn : PeerStep(d))
        PROVE  pc[n] = "extract" /\ reading'[n] = reading[n]
    BY <1>3, <2>5, QuietSteps
  <2> QED
    BY <2>1, <2>2, <2>3, <2>4, <2>5 DEF Next
<1>4. ASSUME NEW c \in Conn, stage'[c] = "closed"
      PROVE  \/ peer'[c] = "reset"
             \/ peer'[c] = "fin" /\ inbound'[c] = <<>> /\ recvBuf'[c] = <<>>
  <2> DEFINE Ended == \/ peer[c] = "reset"
                      \/ /\ peer[c] = "fin" /\ inbound[c] = <<>>
                         /\ recvBuf[c] = <<>>
  <2>1. CASE stage[c] = "closed"
    <3>1. Ended
      BY <2>1 DEF CloseSound
    <3>2. ASSUME NEW p \in Net, NetStep(p)
          PROVE  peer'[c] = peer[c] /\ inbound'[c] = inbound[c]
                 /\ recvBuf'[c] = recvBuf[c]
      BY <2>1, <3>2, InputMoves, NetLeavesPeers
    <3>3. ASSUME NEW h \in Handle, HandleStep(h)
          PROVE  UNCHANGED <<peer, inbound, recvBuf>>
      BY <3>3, HandleLeavesKernel, QuietSteps
    <3>4. ASSUME NEW d \in Conn, PeerStep(d)
          PROVE  /\ inbound'[c] = inbound[c] /\ recvBuf'[c] = recvBuf[c]
                 /\ peer'[c] \in {"fin", "reset"}
                 /\ peer[c] = "reset" => peer'[c] = "reset"
      BY <1>2, <3>1, <3>4, QuietSteps
    <3> QED
      BY <3>1, <3>2, <3>3, <3>4 DEF Next
  <2>2. CASE stage[c] # "closed"
    <3>1. PICK n \in Net : NetStep(n)
      BY <1>4, <2>2, QuietSteps DEF Next
    <3>2. stage[c] = "open" /\ Ended
      BY <1>4, <2>2, <3>1, ClosesHow
    <3>3. UNCHANGED peer
      BY <3>1, NetLeavesPeers
    <3>4. CASE RecvData(n) \/ ExtractPackage(n)
      BY <1>4, <2>2, <3>4 DEF RecvData, ExtractPackage
    <3>5. CASE ~RecvData(n) /\ ~ExtractPackage(n)
      <4>1. inbound'[c] = inbound[c] /\ recvBuf'[c] = recvBuf[c]
        BY <3>1, <3>5, InputMoves
      <4> QED
        BY <3>2, <3>3, <4>1
    <3> QED
      BY <3>4, <3>5
  <2> QED
    BY <2>1, <2>2
<1> QED
  BY <1>3, <1>4 DEF CloseSound

-----------------------------------------------------------------------------
(* The backlog: only an epoll_wait of the acceptor takes the listening fd    *)
(* off the ready list, and it reports it then.                               *)

LEMMA BacklogAnnouncedStep ==
    ASSUME IInv, RoundSound, BacklogAnnounced, Next
    PROVE  BacklogAnnounced'
<1>1. /\ pc \in [Net -> {"wait", "events", "accept", "recv", "extract", "send",
                         "tasks", "ended"}]
      /\ events \in [Net -> SUBSET (ConnEvent \cup {ListenEvent})]
      /\ acceptErrors \in Nat
      /\ Acceptor \in Net
  BY ServerAssumption DEF ServerAssumption, Net, Acceptor, IInv, TypeOK,
    EpollTypeOK, NetTypeOK
<1>2. SUFFICES ASSUME backlog' # <<>>, pc'[Acceptor] # "ended"
               PROVE  \/ listenReady' \/ ListenEvent \in events'[Acceptor]
                      \/ pc'[Acceptor] = "accept" \/ acceptErrors' > 0
  BY DEF BacklogAnnounced
<1> DEFINE Told == \/ listenReady \/ ListenEvent \in events[Acceptor]
                   \/ pc[Acceptor] = "accept" \/ acceptErrors > 0
<1>3. backlog # <<>> /\ pc[Acceptor] # "ended" => Told
  BY DEF BacklogAnnounced
<1>4. CASE \E c \in Conn : PeerStep(c)
  <2>1. UNCHANGED <<pc, events>>
    BY <1>4, QuietSteps
  <2>2. listenReady' \/ UNCHANGED <<backlog, listenReady, acceptErrors>>
    BY <1>4 DEF PeerStep, PeerConnect, PeerSend, PeerEnd, PeerRecv
  <2> QED
    BY <1>2, <1>3, <2>1, <2>2
<1>5. CASE \E h \in Handle : HandleStep(h)
  <2>1. UNCHANGED <<pc, events>>
    BY <1>5, QuietSteps
  <2>2. UNCHANGED <<backlog, listenReady, acceptErrors>>
    BY <1>5, HandleLeavesKernel
  <2> QED
    BY <1>2, <1>3, <2>1, <2>2
<1>6. CASE EpollWait(Acceptor)
  <2>1. /\ pc[Acceptor] = "wait" /\ UNCHANGED <<backlog, acceptErrors>>
        /\ Listening(Acceptor) => ListenEvent \in events'[Acceptor]
    BY <1>1, <1>6 DEF EpollWait
  <2>2. ListenEvent \notin events[Acceptor]
    BY <1>1, <2>1 DEF RoundSound
  <2> QED
    BY <1>2, <1>3, <2>1, <2>2 DEF Listening
<1>7. CASE AcceptEvent(Acceptor)
  BY <1>1, <1>7 DEF AcceptEvent
<1>8. CASE Accept(Acceptor)
  BY <1>8 DEF Accept
<1>9. CASE AcceptEnd(Acceptor)
  BY <1>1, <1>2, <1>9 DEF AcceptEnd, BacklogEmpty
<1>10. ASSUME NEW x, ConnEventAt(Acceptor, x)
       PROVE  /\ ListenEvent \in events[Acceptor] =>
                        ListenEvent \in events'[Acceptor]
              /\ UNCHANGED <<backlog, listenReady, acceptErrors>>
              /\ pc[Acceptor] = "events"
  BY <1>1, <1>10 DEF ConnEventAt
<1>11. CASE ErrorEvent(Acceptor) \/ DataEvent(Acceptor)
  BY <1>2, <1>3, <1>10, <1>11 DEF ErrorEvent, DataEvent
<1>12. CASE \/ RecvData(Acceptor) \/ ReadDone(Acceptor) \/ WriteEvent(Acceptor)
            \/ ExtractPackage(Acceptor)
  <2>1. UNCHANGED <<backlog, listenReady, acceptErrors, events>>
    BY <1>12 DEF RecvData, ReadDone, WriteEvent, ExtractPackage, kernelVars,
      netVars
  <2>2. pc[Acceptor] \notin {"accept", "ended"}
    BY <1>12 DEF RecvData, ReadDone, WriteEvent, ExtractPackage
  <2> QED
    BY <1>2, <1>3, <2>1, <2>2
<1>13. CASE \/ SwapResponses(Acceptor) \/ RoundDone(Acceptor)
            \/ AddTaskStep(Acceptor) \/ NetTaskStep(Acceptor)
            \/ DropTaskStep(Acceptor)
  <2>1. UNCHANGED <<backlog, listenReady, acceptErrors, events>>
    BY <1>13 DEF SwapResponses, RoundDone, AddTaskStep, NetTaskStep,
      DropTaskStep, NextTask, kernelVars
  <2>2. pc[Acceptor] \notin {"accept", "ended"}
    BY <1>13 DEF SwapResponses, RoundDone, AddTaskStep, NetTaskStep,
      DropTaskStep, NextTask
  <2> QED
    BY <1>2, <1>3, <2>1, <2>2
<1>14. ASSUME NEW n \in Net \ {Acceptor}, NetStep(n)
       PROVE  \/ listenReady' \/ ListenEvent \in events'[Acceptor]
              \/ pc'[Acceptor] = "accept" \/ acceptErrors' > 0
  <2>1. pc'[Acceptor] = pc[Acceptor] /\ events'[Acceptor] = events[Acceptor]
    BY <1>1, <1>14, OtherThreads
  <2>2. CASE EpollWait(n)
    <3>1. listenReady' = listenReady /\ UNCHANGED <<backlog, acceptErrors>>
      BY <1>14, <2>2 DEF EpollWait, IInv, TypeOK, EpollTypeOK
    <3> QED
      BY <1>2, <1>3, <2>1, <3>1
  <2>3. CASE Accept(n)
    BY <1>2, <1>3, <2>1, <2>3 DEF Accept
  <2>4. CASE AcceptEnd(n)
    <3>1. /\ UNCHANGED <<backlog, listenReady>>
          /\ acceptErrors > 0 => acceptErrors' > 0
      BY <1>1, <2>4 DEF AcceptEnd
    <3> QED
      BY <1>2, <1>3, <2>1, <3>1
  <2>5. ASSUME ~EpollWait(n), ~Accept(n), ~AcceptEnd(n)
        PROVE  UNCHANGED <<backlog, listenReady, acceptErrors>>
    <3>1. CASE ErrorEvent(n) \/ DataEvent(n)
      BY <3>1 DEF ErrorEvent, DataEvent, ConnEventAt
    <3>2. CASE AcceptEvent(n) \/ SwapResponses(n) \/ RoundDone(n)
      BY <3>2 DEF AcceptEvent, SwapResponses, RoundDone, kernelVars
    <3>3. CASE \/ RecvData(n) \/ ReadDone(n) \/ WriteEvent(n)
               \/ ExtractPackage(n)
      BY <3>3 DEF RecvData, ReadDone, WriteEvent, ExtractPackage, kernelVars
    <3>4. CASE AddTaskStep(n) \/ NetTaskStep(n) \/ DropTaskStep(n)
      BY <3>4 DEF AddTaskStep, NetTaskStep, DropTaskStep, NextTask
    <3> QED
      BY <1>14, <2>5, <3>1, <3>2, <3>3, <3>4 DEF NetStep
  <2> QED
    BY <1>2, <1>3, <2>1, <2>2, <2>3, <2>4, <2>5
<1> QED
  BY <1>1, <1>4, <1>5, <1>6, <1>7, <1>8, <1>9, <1>11, <1>12, <1>13, <1>14
  DEF Next, NetStep

-----------------------------------------------------------------------------
(* Edge triggering: what is known of one connection.                         *)

Unborn == {"none", "task", "dropped"}

Woken(c) ==
    /\ inbound[c] # <<>> => ready[c] \/ ToRead(c)
    /\ peer[c] \in {"fin", "reset"} =>
            \/ ready[c] \/ ToRead(c)
            \/ LET r == reading[home[c]]
               IN  pc[home[c]] = "extract" /\ r.conn = c /\ r.close
    /\ sendBuf[c] # <<>> /\ HasRoom(c) => ready[c] \/ ToWrite(c)

WakeOf(c) ==
    /\ stage[c] \in Unborn => uid[c] = NoUid /\ sendBuf[c] = <<>>
    /\ stage[c] = "open" => (sendBuf[c] # <<>> <=> interest[c] = "inout")
    /\ stage[c] = "open" /\ pc[home[c]] # "ended" => Woken(c)

(* Nothing of the connection itself changes.                                 *)
Same(c) ==
    /\ stage'[c] = stage[c] /\ uid'[c] = uid[c] /\ home'[c] = home[c]
    /\ sendBuf'[c] = sendBuf[c] /\ interest'[c] = interest[c]
    /\ inbound'[c] = inbound[c] /\ kbuf'[c] = kbuf[c]
    /\ ready'[c] = ready[c] /\ peer'[c] = peer[c]

LEMMA ConnTypes ==
    ASSUME IInv
    PROVE  /\ stage \in [Conn -> {"none", "task", "open", "closed", "dropped"}]
           /\ uid \in [Conn -> Uid \cup {NoUid}]
           /\ home \in [Conn -> Net]
           /\ sendBuf \in [Conn -> Seq(Package)]
           /\ kbuf \in [Conn -> Seq(Package)]
           /\ \A c \in Conn : Len(kbuf[c]) <= SockCap
           /\ inbound \in [Conn -> Seq(Request)]
           /\ interest \in [Conn -> {"none", "in", "inout"}]
           /\ ready \in [Conn -> BOOLEAN]
           /\ peer \in [Conn -> {"idle", "open", "fin", "reset"}]
           /\ SockCap \in Nat \ {0}
           /\ NoConn \notin Conn
BY ServerAssumption DEF ServerAssumption, IInv, TypeOK, PeersTypeOK,
  EpollTypeOK, ConnsTypeOK

LEMMA ThreadTypes ==
    ASSUME IInv
    PROVE  /\ pc \in [Net -> {"wait", "events", "accept", "recv", "extract",
                              "send", "tasks", "ended"}]
           /\ events \in [Net -> SUBSET (ConnEvent \cup {ListenEvent})]
           /\ reading \in [Net -> [conn : Conn \cup {NoConn}, close : BOOLEAN,
                                   out : BOOLEAN]]
           /\ batch \in [Net -> Seq(Task)]
           /\ table \in [Net -> [Uid -> Conn \cup {NoConn}]]
BY DEF IInv, TypeOK, NetTypeOK

(* sendData leaves something behind only when the kernel's buffer is full.   *)
LEMMA SendEffects ==
    ASSUME IInv, NEW c \in Conn, NEW buf \in Seq(Package), SendData(c, buf)
    PROVE  /\ \A d \in Conn \ {c} : /\ kbuf'[d] = kbuf[d]
                                    /\ sendBuf'[d] = sendBuf[d]
           /\ sendBuf'[c] # <<>> => ~(Len(kbuf'[c]) < SockCap)
           /\ buf = <<>> => sendBuf'[c] = <<>>
<1> DEFINE m == Fitting(c, buf)
<1>1. /\ kbuf' = [kbuf EXCEPT ![c] = kbuf[c] \o SubSeq(buf, 1, m)]
      /\ sendBuf' = [sendBuf EXCEPT ![c] = SubSeq(buf, m + 1, Len(buf))]
  BY DEF SendData, m
<1>2. /\ kbuf[c] \in Seq(Package) /\ Len(kbuf[c]) <= SockCap
      /\ SockCap \in Nat /\ Len(kbuf[c]) \in Nat /\ Len(buf) \in Nat
  BY ConnTypes
<1>3. m = IF Len(buf) <= SockCap - Len(kbuf[c]) THEN Len(buf)
          ELSE SockCap - Len(kbuf[c])
  BY DEF Fitting
<1> HIDE DEF m
<1>4. /\ kbuf'[c] = kbuf[c] \o SubSeq(buf, 1, m)
      /\ sendBuf'[c] = SubSeq(buf, m + 1, Len(buf))
      /\ \A d \in Conn \ {c} : kbuf'[d] = kbuf[d] /\ sendBuf'[d] = sendBuf[d]
  BY <1>1, ConnTypes
<1>5. CASE Len(buf) <= SockCap - Len(kbuf[c])
  <2>1. m = Len(buf)
    BY <1>3, <1>5
  <2>2. SubSeq(buf, m + 1, Len(buf)) = <<>>
    BY <1>2, <2>1
  <2> QED
    BY <1>4, <2>2
<1>6. CASE ~(Len(buf) <= SockCap - Len(kbuf[c]))
  <2>1. m = SockCap - Len(kbuf[c])
    BY <1>3, <1>6
  <2>7. m \in 0..Len(buf)
    BY <1>2, <1>6, <2>1
  <2>2. SubSeq(buf, 1, m) \in Seq(Package) /\ Len(SubSeq(buf, 1, m)) = m
    BY <2>7
  <2>3. Len(kbuf[c] \o SubSeq(buf, 1, m)) = Len(kbuf[c]) + m
    BY <1>2, <2>2, ConcatProperties
  <2>6. Len(kbuf'[c]) = Len(kbuf[c]) + m
    BY <1>4, <2>3
  <2>4. ~(Len(kbuf'[c]) < SockCap)
    BY <1>2, <2>1, <2>6
  <2>5. buf # <<>>
    BY <1>2, <1>6
  <2> QED
    BY <1>4, <2>4, <2>5
<1> QED
  BY <1>5, <1>6

(* Output buffers change only for the open connection that is written to.    *)
LEMMA OutputMoves ==
    ASSUME IInv, NEW n \in Net, NetStep(n), NEW c \in Conn,
           sendBuf'[c] # sendBuf[c] \/ kbuf'[c] # kbuf[c]
    PROVE  /\ stage[c] = "open" /\ home[c] = n
           /\ \/ WriteEvent(n) /\ c = reading[n].conn
              \/ NetTaskStep(n) /\ c = table[n][Head(batch[n]).uid]
<1>1. CASE DropTaskStep(n) \/ AddTaskStep(n)
  BY <1>1 DEF DropTaskStep, AddTaskStep
<1>2. CASE ErrorEvent(n) \/ DataEvent(n)
  BY <1>2 DEF ErrorEvent, DataEvent, ConnEventAt
<1>3. CASE EpollWait(n) \/ AcceptEvent(n) \/ Accept(n) \/ AcceptEnd(n)
  BY <1>3 DEF EpollWait, AcceptEvent, Accept, AcceptEnd, kernelVars, connVars
<1>4. CASE \/ ReadDone(n) \/ RecvData(n) \/ ExtractPackage(n)
           \/ SwapResponses(n) \/ RoundDone(n)
  BY <1>4 DEF ReadDone, RecvData, ExtractPackage, SwapResponses, RoundDone,
    kernelVars, connVars
<1>5. CASE WriteEvent(n)
  <2> DEFINE d == reading[n].conn
  <2>1. pc[n] = "send" /\ (SendData(d, sendBuf[d]) \/ UNCHANGED <<kbuf, sendBuf>>)
    BY <1>5 DEF WriteEvent
  <2>2. d \in Conn /\ stage[d] = "open" /\ home[d] = n
    BY <2>1 DEF IInv, WorkSound, ReadingSound
  <2>3. sendBuf[d] \in Seq(Package)
    BY <2>2, ConnTypes
  <2>4. c = d
    BY <2>1, <2>2, <2>3, SendEffects
  <2> QED
    BY <1>5, <2>2, <2>4
<1>6. CASE NetTaskStep(n)
  <2> DEFINE task == Head(batch[n])
             d == table[n][task.uid]
  <2>1. NextTask(n) /\ task.type = "net" /\ d # NoConn
    BY <1>6 DEF NetTaskStep
  <2>2. task.uid \in Uid /\ <<task.pkg>> \in Seq(Package)
    BY <2>1, HeadNetTask
  <2>3. d \in Conn /\ stage[d] = "open" /\ home[d] = n
    BY <2>1, <2>2, EntryKnowsItsUid
  <2>4. \/ \E b : sendBuf' = [sendBuf EXCEPT ![d] = b] /\ UNCHANGED kbuf
        \/ SendData(d, <<task.pkg>>)
    BY <1>6 DEF NetTaskStep
  <2> HIDE DEF d, task
  <2>5. ASSUME NEW b, sendBuf' = [sendBuf EXCEPT ![d] = b], UNCHANGED kbuf
        PROVE  c = d
    BY <2>3, <2>5, ConnTypes
  <2>6. ASSUME SendData(d, <<task.pkg>>)
        PROVE  c = d
    BY <2>2, <2>3, <2>6, SendEffects
  <2> QED
    BY <1>6, <2>3, <2>4, <2>5, <2>6 DEF d, task
<1> QED
  BY <1>1, <1>2, <1>3, <1>4, <1>5, <1>6 DEF NetStep

(* A network thread changes nothing of an open connection it does not work   *)
(* on, but for the ready flags an epoll_wait takes.                          *)
LEMMA SameUnless ==
    ASSUME IInv, NEW n \in Net, NetStep(n), NEW c \in Conn, stage[c] = "open",
           RecvData(n) \/ WriteEvent(n) => c # reading[n].conn,
           NetTaskStep(n) => c # table[n][Head(batch[n]).uid],
           EpollWait(n) => home[c] # n,
           stage'[c] = "open" \/ home[c] # n
    PROVE  Same(c)
<1>1. sendBuf'[c] = sendBuf[c] /\ kbuf'[c] = kbuf[c]
  BY OutputMoves
<1>2. inbound'[c] = inbound[c]
  BY InputMoves, ZenonT(60) DEF RecvData
<1>3. peer'[c] = peer[c]
  BY NetLeavesPeers
<1> DEFINE Rest == /\ stage'[c] = stage[c] /\ uid'[c] = uid[c]
                   /\ home'[c] = home[c] /\ interest'[c] = interest[c]
                   /\ ready'[c] = ready[c]
<1>4. ASSUME NEW u \in Uid, table[n][u] # NoConn, CloseConnection(n, u),
             UNCHANGED <<uid, home>>
      PROVE  Rest
  <2>1. c # table[n][u]
    BY <1>4, CloseEffects
  <2> QED
    BY <1>4, <2>1, CloseEffects
<1>5. ASSUME NEW d \in Conn, d # c, NEW mask, Rearm(d, mask),
             UNCHANGED <<stage, uid, home>>
      PROVE  Rest
  BY <1>5, ConnTypes DEF Rearm
<1>6. CASE EpollWait(n)
  <2>1. UNCHANGED <<stage, uid, home, interest>>
    BY <1>6 DEF EpollWait, connVars
  <2>2. ready'[c] = (ready[c] /\ ~(home[c] = n /\ interest[c] # "none"))
    BY <1>6 DEF EpollWait
  <2>3. ready'[c] = ready[c]
    BY <1>6, <2>2, ConnTypes
  <2> QED
    BY <1>1, <1>2, <1>3, <2>1, <2>3 DEF Same
<1>7. CASE AcceptEvent(n) \/ AcceptEnd(n) \/ SwapResponses(n) \/ RoundDone(n)
  BY <1>1, <1>2, <1>3, <1>7 DEF AcceptEvent, AcceptEnd, SwapResponses,
    RoundDone, connVars, kernelVars, Same
<1>8. CASE Accept(n)
  <2>1. c # Head(backlog)
    BY <1>8, HeadOfBacklog
  <2>2. /\ home' = [home EXCEPT ![Head(backlog)] = hash % NumNet]
        /\ stage' = [stage EXCEPT ![Head(backlog)] = "task"]
        /\ UNCHANGED <<uid, interest, ready>>
    BY <1>8 DEF Accept
  <2>3. Rest
    BY <2>1, <2>2, ConnTypes
  <2> QED
    BY <1>1, <1>2, <1>3, <2>3 DEF Same
<1>9. CASE ErrorEvent(n)
  <2>1. UNCHANGED <<uid, home>>
    BY <1>9 DEF ErrorEvent, ConnEventAt
  <2>2. Rest
    BY <1>4, <1>9, <2>1, ErrorCloses
  <2> QED
    BY <1>1, <1>2, <1>3, <2>2 DEF Same
<1>10. CASE DataEvent(n) \/ RecvData(n) \/ ExtractPackage(n)
  <2>1. UNCHANGED <<stage, uid, home, interest, ready>>
    BY <1>10 DEF DataEvent, ConnEventAt, RecvData, ExtractPackage, kernelVars
  <2> QED
    BY <1>1, <1>2, <1>3, <2>1 DEF Same
<1>11. CASE ReadDone(n)
  <2>1. UNCHANGED <<uid, home>>
    BY <1>11 DEF ReadDone
  <2>2. CASE reading[n].close
    BY <1>1, <1>2, <1>3, <1>4, <1>11, <2>1, <2>2, ReadDoneCloses DEF Same
  <2>3. CASE ~reading[n].close
    <3>1. UNCHANGED <<stage, interest, ready>>
      BY <1>11, <2>3 DEF ReadDone
    <3> QED
      BY <1>1, <1>2, <1>3, <2>1, <3>1 DEF Same
  <2> QED
    BY <2>2, <2>3
<1>12. CASE WriteEvent(n)
  <2>1. UNCHANGED <<uid, home>> /\ pc[n] = "send"
    BY <1>12 DEF WriteEvent
  <2>2. CASE Broken(reading[n].conn)
    BY <1>1, <1>2, <1>3, <1>4, <1>12, <2>1, <2>2, WriteCloses DEF Same
  <2>3. CASE ~Broken(reading[n].conn)
    <3>1. /\ UNCHANGED stage
          /\ Rearm(reading[n].conn, "in") \/ UNCHANGED <<interest, ready>>
      BY <1>12, <2>3 DEF WriteEvent
    <3>2. reading[n].conn \in Conn /\ reading[n].conn # c
      BY <1>12, <2>1 DEF IInv, WorkSound, ReadingSound
    <3>3. Rest
      BY <1>5, <2>1, <3>1, <3>2
    <3> QED
      BY <1>1, <1>2, <1>3, <3>3 DEF Same
  <2> QED
    BY <2>2, <2>3
<1>13. CASE AddTaskStep(n)
  <2>1. UNCHANGED home
    BY <1>13 DEF AddTaskStep, NextTask
  <2>2. c # Head(batch[n]).conn
    BY <1>13, AddEffects
  <2>3. Rest
    BY <1>13, <2>1, <2>2, AddEffects
  <2> QED
    BY <1>1, <1>2, <1>3, <2>3 DEF Same
<1>14. CASE NetTaskStep(n)
  <2> DEFINE u == Head(batch[n]).uid
             d == table[n][u]
  <2>1. /\ NextTask(n) /\ Head(batch[n]).type = "net" /\ d # NoConn
        /\ UNCHANGED <<uid, home>>
    BY <1>14 DEF NetTaskStep, NextTask
  <2>2. u \in Uid
    BY <2>1, HeadNetTask
  <2>3. d \in Conn /\ uid[d] = u /\ d # c
    BY <1>14, <2>1, <2>2, EntryKnowsItsUid
  <2>4. \/ CloseConnection(n, uid[d])
        \/ /\ UNCHANGED stage
           /\ Rearm(d, "inout") \/ UNCHANGED <<interest, ready>>
    BY <1>14 DEF NetTaskStep
  <2>5. Rest
    BY <1>4, <1>5, <2>1, <2>2, <2>3, <2>4
  <2> QED
    BY <1>1, <1>2, <1>3, <2>5 DEF Same
<1>15. CASE DropTaskStep(n)
  <2>1. UNCHANGED <<stage, uid, home, interest, ready>>
    BY <1>15 DEF DropTaskStep, NextTask
  <2> QED
    BY <1>1, <1>2, <1>3, <2>1 DEF Same
<1> QED
  BY <1>6, <1>7, <1>8, <1>9, <1>10, <1>11, <1>12, <1>13, <1>14, <1>15
  DEF NetStep

(* A connection that does not change stays woken while its thread keeps what *)
(* it holds for it.                                                          *)
LEMMA WakeKept ==
    ASSUME NEW c \in Conn, NEW n, n = home[c], stage[c] = "open",
           WakeOf(c), Same(c), pc[n] # "ended",
           ToRead(c) => ToRead(c)', ToWrite(c) => ToWrite(c)',
           pc[n] = "extract" /\ reading[n].conn = c /\ reading[n].close =>
                /\ pc'[n] = "extract" /\ reading'[n].conn = c
                /\ reading'[n].close
    PROVE  WakeOf(c)'
<1>1. Woken(c)
  BY DEF WakeOf
<1>2. Woken(c)'
  BY <1>1 DEF Woken, Same, HasRoom
<1> QED
  BY <1>2 DEF WakeOf, Same, Unborn

(* The events for c are kept, and the thread does not work on c.             *)
LEMMA WakeAside ==
    ASSUME NEW c \in Conn, NEW n, n = home[c], stage[c] = "open",
           WakeOf(c), Same(c), pc[n] # "ended",
           \A e \in events[n] \ {ListenEvent} :
                e.uid = uid[c] => e \in events'[n],
           pc[n] \in Busy => reading[n].conn # c
    PROVE  WakeOf(c)'
<1>1. home'[c] = n /\ uid'[c] = uid[c]
  BY DEF Same
<1>2. ToRead(c) => ToRead(c)'
  BY <1>1 DEF ToRead, Busy
<1>3. ToWrite(c) => ToWrite(c)'
  BY <1>1 DEF ToWrite, Busy
<1> QED
  BY <1>2, <1>3, WakeKept DEF Busy

(* An epoll_wait hands over what was on the ready list.                      *)
LEMMA WakeWait ==
    ASSUME IInv, RoundSound, NEW n \in Net, EpollWait(n),
           NEW c \in Conn, stage[c] = "open", home[c] = n, WakeOf(c)
    PROVE  WakeOf(c)'
<1>1. /\ pc[n] = "wait" /\ events[n] = {}
      /\ \A d \in Pending(n) : Event(d) \in events'[n]
      /\ UNCHANGED <<stage, uid, home, sendBuf, interest, inbound, kbuf, peer>>
  BY ThreadTypes DEF EpollWait, connVars, RoundSound
<1>2. interest[c] # "none"
  BY DEF IInv, TableSound
<1>3. Woken(c)
  BY <1>1 DEF WakeOf
<1>4. ~ToRead(c) /\ ~ToWrite(c)
  BY <1>1 DEF ToRead, ToWrite
<1>5. ready[c] /\ Readable(c) => ToRead(c)'
  <2>1. SUFFICES ASSUME ready[c], Readable(c)
                 PROVE  ToRead(c)'
    OBVIOUS
  <2>2. c \in Pending(n)
    BY <1>2, <2>1 DEF Pending
  <2>3. Event(c) \in events'[n] \ {ListenEvent}
    BY <1>1, <2>2 DEF Event, ListenEvent
  <2>4. Event(c).uid = uid[c] /\ Event(c).in
    BY <2>1 DEF Event
  <2> QED
    BY <1>1, <2>3, <2>4 DEF ToRead
<1>6. ready[c] /\ Writable(c) => ToWrite(c)'
  <2>1. SUFFICES ASSUME ready[c], Writable(c)
                 PROVE  ToWrite(c)'
    OBVIOUS
  <2>2. c \in Pending(n)
    BY <1>2, <2>1 DEF Pending
  <2>3. Event(c) \in events'[n] \ {ListenEvent}
    BY <1>1, <2>2 DEF Event, ListenEvent
  <2>4. Event(c).uid = uid[c] /\ Event(c).out
    BY <2>1 DEF Event
  <2> QED
    BY <1>1, <2>3, <2>4 DEF ToWrite
<1>7. Woken(c)'
  <2>1. inbound[c] # <<>> => ToRead(c)'
    BY <1>3, <1>4, <1>5 DEF Woken, Readable
  <2>2. peer[c] \in {"fin", "reset"} => ToRead(c)'
    BY <1>1, <1>3, <1>4, <1>5 DEF Woken, Readable
  <2>3. sendBuf[c] # <<>> /\ HasRoom(c) => ToWrite(c)'
    BY <1>3, <1>4, <1>6 DEF WakeOf, Woken, Writable
  <2> QED
    BY <1>1, <2>1, <2>2, <2>3 DEF Woken, HasRoom
<1> QED
  BY <1>1, <1>7 DEF WakeOf, Unborn

(* The thread takes an event of c: it will read, and write, as the event     *)
(* asks.                                                                     *)
LEMMA WakeData ==
    ASSUME IInv, NEW n \in Net, DataEvent(n),
           NEW c \in Conn, stage[c] = "open", home[c] = n, WakeOf(c)
    PROVE  WakeOf(c)'
<1>1. PICK e \in events[n] :
        /\ ConnEventAt(n, e)
        /\ table[n][e.uid] # NoConn
        /\ pc' = [pc EXCEPT ![n] = IF e.in THEN "recv" ELSE "send"]
        /\ reading' = [reading EXCEPT ![n] = [conn |-> table[n][e.uid],
                          close |-> FALSE, out |-> WritesToo(e)]]
  BY DEF DataEvent
<1>2. /\ e \in events[n] \ {ListenEvent} /\ pc[n] = "events"
      /\ events'[n] = events[n] \ {e}
      /\ pc'[n] = IF e.in THEN "recv" ELSE "send"
      /\ reading'[n].conn = table[n][e.uid]
      /\ reading'[n].out = e.out
  BY <1>1, ThreadTypes DEF ConnEventAt, WritesToo
<1>3. NetStep(n) /\ UNCHANGED stage
  BY DEF NetStep, DataEvent
<1>4. ~RecvData(n) /\ ~WriteEvent(n) /\ ~NetTaskStep(n) /\ ~EpollWait(n)
  BY <1>2 DEF RecvData, WriteEvent, NetTaskStep, NextTask, EpollWait
<1>5. Same(c)
  BY <1>3, <1>4, SameUnless
<1>6. CASE e.uid = uid[c]
  <2>1. table[n][e.uid] = c
    BY <1>6 DEF IInv, TableSound
  <2>2. home'[c] = n
    BY <1>5 DEF Same
  <2>3. ToRead(c) => ToRead(c)'
    <3>1. CASE e.in
      BY <1>2, <2>1, <2>2, <3>1 DEF ToRead
    <3>2. CASE ~e.in
      BY <1>2, <1>5, <2>2, <3>2 DEF ToRead, Same
    <3> QED
      BY <3>1, <3>2
  <2>4. ToWrite(c) => ToWrite(c)'
    <3>1. CASE e.out
      BY <1>2, <2>1, <2>2, <3>1 DEF ToWrite
    <3>2. CASE ~e.out
      BY <1>2, <1>5, <2>2, <3>2 DEF ToWrite, Same
    <3> QED
      BY <3>1, <3>2
  <2> QED
    BY <1>2, <1>5, <2>3, <2>4, WakeKept
<1>7. CASE e.uid # uid[c]
  BY <1>2, <1>5, <1>7, WakeAside DEF Busy
<1> QED
  BY <1>6, <1>7

(* recvData empties the socket, and remembers the end of the stream.         *)
LEMMA WakeRecv ==
    ASSUME IInv, NEW n \in Net, RecvData(n),
           NEW c \in Conn, stage[c] = "open", home[c] = n, WakeOf(c)
    PROVE  WakeOf(c)'
<1> DEFINE d == reading[n].conn
<1>1. /\ pc[n] = "recv" /\ pc'[n] = "extract"
      /\ reading'[n].conn = d /\ reading'[n].out = reading[n].out
      /\ reading'[n].close = StreamEnded(d)
      /\ inbound' = [inbound EXCEPT ![d] = <<>>]
      /\ UNCHANGED <<stage, uid, home, sendBuf, interest, ready, kbuf, peer,
                     events>>
  BY ThreadTypes DEF RecvData
<1>2. CASE c = d
  <2>1. inbound'[c] = <<>>
    BY <1>1, <1>2, ConnTypes
  <2>2. ToWrite(c) => ToWrite(c)'
    BY <1>1, <1>2 DEF ToWrite
  <2>3. Woken(c)
    BY <1>1 DEF WakeOf
  <2> HIDE DEF d
  <2>4. Woken(c)'
    BY <1>1, <1>2, <2>1, <2>2, <2>3 DEF Woken, StreamEnded, HasRoom
  <2> QED
    BY <1>1, <2>4 DEF WakeOf, Unborn
<1>3. CASE c # d
  <2>1. NetStep(n)
    BY DEF NetStep
  <2>2. ~NetTaskStep(n) /\ ~EpollWait(n) /\ ~WriteEvent(n)
    BY <1>1 DEF NetTaskStep, NextTask, EpollWait, WriteEvent
  <2>3. Same(c)
    BY <1>1, <1>3, <2>1, <2>2, SameUnless
  <2> QED
    BY <1>1, <1>3, <2>3, WakeAside
<1> QED
  BY <1>2, <1>3

(* The end of a readEvent goes on to the EPOLLOUT branch of its event.       *)
LEMMA WakeDone ==
    ASSUME IInv, NEW n \in Net, ReadDone(n), NEW c \in Conn,
           stage[c] = "open", stage'[c] = "open", home[c] = n, WakeOf(c)
    PROVE  WakeOf(c)'
<1> DEFINE d == reading[n].conn
<1>1. pc[n] = "extract" /\ UNCHANGED events
  BY DEF ReadDone
<1>2. NetStep(n)
  BY DEF NetStep
<1>3. ~NetTaskStep(n) /\ ~EpollWait(n) /\ ~WriteEvent(n) /\ ~RecvData(n)
  BY <1>1 DEF NetTaskStep, NextTask, EpollWait, WriteEvent, RecvData
<1>4. Same(c)
  BY <1>2, <1>3, SameUnless
<1>5. CASE c # d
  BY <1>1, <1>4, <1>5, WakeAside
<1>6. CASE c = d
  <2>1. ~reading[n].close
    <3>1. SUFFICES ASSUME reading[n].close
                   PROVE  FALSE
      OBVIOUS
    <3>2. CloseConnection(n, uid[d])
      BY <3>1 DEF ReadDone
    <3>3. uid[d] \in Uid /\ table[n][uid[d]] = d /\ d # NoConn
      BY <1>1, ReadingInTable, ConnTypes
    <3>4. stage'[d] = "closed"
      BY <3>2, <3>3, CloseEffects
    <3> QED
      BY <1>6, <3>4
  <2>2. /\ reading[n].out => pc'[n] = "send" /\ reading'[n] = reading[n]
        /\ home'[c] = n
    BY <1>4, <2>1, ThreadTypes DEF ReadDone, Same
  <2>3. ToRead(c) => ToRead(c)'
    BY <1>1, <1>4, <2>2 DEF ToRead, Same
  <2>4. ToWrite(c) => ToWrite(c)'
    BY <1>1, <1>4, <1>6, <2>2 DEF ToWrite, Same
  <2> QED
    BY <1>1, <1>4, <2>1, <2>3, <2>4, WakeKept
<1> QED
  BY <1>5, <1>6

(* After a write, output that is left finds the kernel's buffer full.        *)
LEMMA WakeWrite ==
    ASSUME IInv, NEW n \in Net, WriteEvent(n), NEW c \in Conn,
           stage[c] = "open", stage'[c] = "open", home[c] = n, WakeOf(c)
    PROVE  WakeOf(c)'
<1> DEFINE d == reading[n].conn
<1>1. /\ pc[n] = "send" /\ pc'[n] = "events"
      /\ UNCHANGED <<events, inbound, peer, uid, home>>
  BY ThreadTypes DEF WriteEvent
<1>2. NetStep(n)
  BY DEF NetStep
<1>3. ~NetTaskStep(n) /\ ~EpollWait(n) /\ ~RecvData(n)
  BY <1>1 DEF NetTaskStep, NextTask, EpollWait, RecvData
<1>4. CASE c # d
  <2>1. Same(c)
    BY <1>2, <1>3, <1>4, SameUnless
  <2> QED
    BY <1>1, <1>4, <2>1, WakeAside
<1>5. CASE c = d
  <2>1. ~Broken(d)
    <3>1. SUFFICES ASSUME Broken(d)
                   PROVE  FALSE
      OBVIOUS
    <3>2. CloseConnection(n, uid[d])
      BY <3>1 DEF WriteEvent
    <3>3. uid[d] \in Uid /\ table[n][uid[d]] = d /\ d # NoConn
      BY <1>1, ReadingInTable, ConnTypes
    <3>4. stage'[d] = "closed"
      BY <3>2, <3>3, CloseEffects
    <3> QED
      BY <1>5, <3>4
  <2>2. /\ SendData(c, sendBuf[c])
        /\ IF sendBuf'[c] = <<>> THEN Rearm(c, "in")
           ELSE UNCHANGED <<interest, ready>>
    BY <1>5, <2>1 DEF WriteEvent
  <2>3. sendBuf[c] \in Seq(Package)
    BY ConnTypes
  <2>4. /\ sendBuf'[c] # <<>> => ~(Len(kbuf'[c]) < SockCap)
        /\ sendBuf[c] = <<>> => sendBuf'[c] = <<>>
    BY <2>2, <2>3, SendEffects
  <2>5. ready[c] => ready'[c]
    BY <2>2, ConnTypes DEF Rearm
  <2>6. sendBuf'[c] # <<>> <=> interest'[c] = "inout"
    <3>1. CASE sendBuf'[c] = <<>>
      BY <2>2, <3>1, ConnTypes DEF Rearm
    <3>2. CASE sendBuf'[c] # <<>>
      BY <2>2, <2>4, <3>2 DEF WakeOf
    <3> QED
      BY <3>1, <3>2
  <2>7. ToRead(c) => ToRead(c)'
    BY <1>1 DEF ToRead
  <2>8. Woken(c)
    BY <1>1 DEF WakeOf
  <2>9. Woken(c)'
    BY <1>1, <2>4, <2>5, <2>7, <2>8 DEF Woken, HasRoom
  <2> QED
    BY <2>6, <2>9 DEF WakeOf, Unborn
<1> QED
  BY <1>4, <1>5

(* A response that does not fit asks for EPOLLOUT.                           *)
LEMMA WakeNetTask ==
    ASSUME IInv, NEW n \in Net, NetTaskStep(n), NEW c \in Conn,
           stage[c] = "open", stage'[c] = "open", home[c] = n, WakeOf(c)
    PROVE  WakeOf(c)'
<1> DEFINE task == Head(batch[n])
           d == table[n][task.uid]
<1>1. /\ NextTask(n) /\ task.type = "net" /\ d # NoConn
      /\ pc[n] = "tasks"
      /\ UNCHANGED <<events, inbound, peer, uid, home, pc, reading>>
  BY DEF NetTaskStep, NextTask
<1>2. NetStep(n)
  BY DEF NetStep
<1>3. ~WriteEvent(n) /\ ~EpollWait(n) /\ ~RecvData(n)
  BY <1>1 DEF WriteEvent, EpollWait, RecvData
<1>4. task.uid \in Uid /\ <<task.pkg>> \in Seq(Package)
  BY <1>1, HeadNetTask
<1>5. CASE c # d
  <2>1. Same(c)
    BY <1>2, <1>3, <1>5, SameUnless
  <2> QED
    BY <1>1, <2>1, WakeAside DEF Busy
<1>6. CASE c = d
  <2>1. uid[d] = task.uid
    BY <1>1, <1>4, EntryKnowsItsUid
  <2>2. ~CloseConnection(n, uid[d])
    BY <1>1, <1>4, <1>6, <2>1, CloseEffects, SMTT(60)
  <2>3. \/ /\ sendBuf[c] # <<>>
           /\ sendBuf' = [sendBuf EXCEPT ![c] = PushData(sendBuf[c], task.pkg)]
           /\ UNCHANGED <<interest, ready, kbuf>>
        \/ /\ sendBuf[c] = <<>>
           /\ SendData(c, <<task.pkg>>)
           /\ IF sendBuf'[c] # <<>> THEN Rearm(c, "inout")
              ELSE UNCHANGED <<interest, ready>>
    BY <1>6, <2>2 DEF NetTaskStep
  <2>4. Woken(c)
    BY <1>1 DEF WakeOf
  <2>5. (ToRead(c) => ToRead(c)') /\ (ToWrite(c) => ToWrite(c)')
    BY <1>1 DEF ToRead, ToWrite
  <2> HIDE DEF task, d
  <2>6. CASE /\ sendBuf[c] # <<>>
             /\ sendBuf' = [sendBuf EXCEPT ![c] = PushData(sendBuf[c], task.pkg)]
             /\ UNCHANGED <<interest, ready, kbuf>>
    <3>1. sendBuf'[c] # <<>>
      <4>1. sendBuf'[c] = Append(sendBuf[c], task.pkg)
        BY <2>6, ConnTypes DEF PushData
      <4>2. sendBuf[c] \in Seq(Package) /\ task.pkg \in Package
        BY <1>1, ConnTypes, HeadNetTask DEF task
      <4> QED
        BY <4>1, <4>2
    <3>2. sendBuf'[c] # <<>> <=> interest'[c] = "inout"
      BY <2>6, <3>1 DEF WakeOf
    <3>3. Woken(c)'
      BY <1>1, <2>4, <2>5, <2>6 DEF Woken, HasRoom
    <3> QED
      BY <3>2, <3>3 DEF WakeOf, Unborn
  <2>7. CASE /\ sendBuf[c] = <<>>
             /\ SendData(c, <<task.pkg>>)
             /\ IF sendBuf'[c] # <<>> THEN Rearm(c, "inout")
                ELSE UNCHANGED <<interest, ready>>
    <3>1. sendBuf'[c] # <<>> => ~(Len(kbuf'[c]) < SockCap)
      BY <1>4, <2>7, SendEffects
    <3>2. ready[c] => ready'[c]
      BY <2>7, ConnTypes DEF Rearm
    <3>3. sendBuf'[c] # <<>> <=> interest'[c] = "inout"
      BY <2>7, ConnTypes DEF Rearm, WakeOf
    <3>4. Woken(c)'
      BY <1>1, <2>4, <2>5, <3>1, <3>2 DEF Woken, HasRoom
    <3> QED
      BY <3>3, <3>4 DEF WakeOf, Unborn
  <2> QED
    BY <2>3, <2>6, <2>7
<1> QED
  BY <1>5, <1>6

(* How a connection becomes open, and what can become of it then.            *)
LEMMA OpensHow ==
    ASSUME IInv, NEW n \in Net, NetStep(n), NEW c \in Conn,
           stage[c] # "open", stage'[c] = "open"
    PROVE  AddTaskStep(n) /\ c = Head(batch[n]).conn
<1>1. Next
  BY DEF Next
<1>2. ASSUME NEW p \in Net, Accept(p)
      PROVE  stage'[c] # "open"
  BY <1>2, ConnTypes DEF Accept
<1>3. PICK p \in Net : AddTaskStep(p)
  BY <1>1, <1>2, StageMoves
<1>4. c = Head(batch[p]).conn
  BY <1>3, AddEffects
<1>5. p = n
  <2>1. SUFFICES ASSUME p # n
                 PROVE  FALSE
    OBVIOUS
  <2>2. batch'[p] = batch[p]
    BY <2>1, OtherThreads
  <2>3. batch' = [batch EXCEPT ![p] = Tail(batch[p])] /\ batch[p] # <<>>
    BY <1>3 DEF AddTaskStep, NextTask
  <2>4. batch[p] \in Seq(Task)
    BY ThreadTypes
  <2>5. Tail(batch[p]) # batch[p]
    <3>1. SUFFICES ASSUME Tail(batch[p]) = batch[p]
                   PROVE  FALSE
      OBVIOUS
    <3>2. Len(Tail(batch[p])) = Len(batch[p]) - 1 /\ Len(batch[p]) \in Nat
      BY <2>3, <2>4
    <3>3. Len(Tail(batch[p])) = Len(batch[p])
      BY <3>1
    <3> QED
      BY <3>2, <3>3
  <2> QED
    BY <2>2, <2>3, <2>5, ThreadTypes
<1> QED
  BY <1>3, <1>4, <1>5

LEMMA OpenMoves ==
    ASSUME IInv, NEW n \in Net, NetStep(n), NEW c \in Conn, stage[c] = "open"
    PROVE  stage'[c] \in {"open", "closed"}
<1>1. ASSUME NEW u \in Uid, table[n][u] # NoConn, CloseConnection(n, u)
      PROVE  stage'[c] \in {"open", "closed"}
  BY <1>1, CloseEffects
<1>2. CASE ErrorEvent(n)
  BY <1>1, <1>2, ErrorCloses
<1>3. CASE ReadDone(n)
  <2>1. CASE reading[n].close
    BY <1>1, <1>3, <2>1, ReadDoneCloses
  <2>2. CASE ~reading[n].close
    BY <1>3, <2>2 DEF ReadDone
  <2> QED
    BY <2>1, <2>2
<1>4. CASE WriteEvent(n)
  <2>1. CASE Broken(reading[n].conn)
    BY <1>1, <1>4, <2>1, WriteCloses
  <2>2. CASE ~Broken(reading[n].conn)
    BY <1>4, <2>2 DEF WriteEvent
  <2> QED
    BY <2>1, <2>2
<1>5. CASE NetTaskStep(n)
  BY <1>1, <1>5, NetTaskCloses
<1>6. CASE Accept(n)
  <2>1. /\ stage' = [stage EXCEPT ![Head(backlog)] = "task"]
        /\ stage[Head(backlog)] = "none"
    BY <1>6, HeadOfBacklog DEF Accept
  <2> QED
    BY <2>1, ConnTypes
<1>7. CASE AddTaskStep(n)
  BY <1>7, AddEffects
<1>8. CASE \/ EpollWait(n) \/ AcceptEvent(n) \/ AcceptEnd(n) \/ DataEvent(n)
           \/ RecvData(n) \/ ExtractPackage(n) \/ SwapResponses(n)
           \/ RoundDone(n) \/ DropTaskStep(n)
  BY <1>8 DEF EpollWait, AcceptEvent, AcceptEnd, DataEvent, ConnEventAt,
    RecvData, ExtractPackage, SwapResponses, RoundDone, DropTaskStep, NextTask,
    connVars
<1> QED
  BY <1>2, <1>3, <1>4, <1>5, <1>6, <1>7, <1>8 DEF NetStep

(* Only an add task gives a connection its uid.                              *)
LEMMA UidMoves ==
    ASSUME NEW n \in Net, NetStep(n), ~AddTaskStep(n)
    PROVE  UNCHANGED uid
<1>1. CASE NetTaskStep(n) \/ DropTaskStep(n)
  BY <1>1 DEF NetTaskStep, DropTaskStep
<1>2. CASE ErrorEvent(n) \/ DataEvent(n)
  BY <1>2 DEF ErrorEvent, DataEvent, ConnEventAt
<1>3. CASE EpollWait(n) \/ AcceptEvent(n) \/ Accept(n) \/ AcceptEnd(n)
  BY <1>3 DEF EpollWait, AcceptEvent, Accept, AcceptEnd, connVars
<1>4. CASE \/ ReadDone(n) \/ RecvData(n) \/ ExtractPackage(n) \/ WriteEvent(n)
           \/ SwapResponses(n) \/ RoundDone(n)
  BY <1>4 DEF ReadDone, RecvData, ExtractPackage, WriteEvent, SwapResponses,
    RoundDone, connVars
<1> QED
  BY <1>1, <1>2, <1>3, <1>4 DEF NetStep

(* A connection that is not open is still unborn only if it was, and keeps   *)
(* its empty send buffer.                                                    *)
LEMMA UnbornKept ==
    ASSUME IInv, NEW n \in Net, NetStep(n), NEW c \in Conn, WakeOf(c),
           stage'[c] \in Unborn
    PROVE  uid'[c] = NoUid /\ sendBuf'[c] = <<>>
<1>1. Next
  BY DEF Next
<1>2. stage[c] # "closed"
  BY <1>1, ClosedForEver DEF Unborn
<1>3. CASE \E p \in Net : Accept(p)
  <2>1. PICK p \in Net : Accept(p)
    BY <1>3
  <2>2. /\ stage' = [stage EXCEPT ![Head(backlog)] = "task"]
        /\ stage[Head(backlog)] = "none"
        /\ UNCHANGED <<uid, sendBuf>>
    BY <2>1, HeadOfBacklog DEF Accept
  <2>3. stage[c] \in Unborn
    BY <2>2, ConnTypes DEF Unborn
  <2> QED
    BY <2>2, <2>3 DEF WakeOf
<1>4. CASE \E p \in Net : AddTaskStep(p)
  <2>1. PICK p \in Net : AddTaskStep(p)
    BY <1>4
  <2>2. UNCHANGED sendBuf
    BY <2>1 DEF AddTaskStep
  <2>3. CASE c = Head(batch[p]).conn
    BY <1>2, <2>1, <2>2, <2>3, AddEffects DEF Unborn, WakeOf
  <2>4. CASE c # Head(batch[p]).conn
    BY <2>1, <2>2, <2>4, AddEffects DEF WakeOf
  <2> QED
    BY <2>3, <2>4
<1>5. CASE ~\E p \in Net : Accept(p) \/ AddTaskStep(p)
  <2>1. stage[c] # "open" => stage'[c] = stage[c]
    BY <1>1, <1>5, StageMoves
  <2>2. CASE stage[c] = "open"
    <3>1. stage'[c] \in {"open", "closed"}
      BY <1>5, <2>2, OpenMoves
    <3> QED
      BY <3>1 DEF Unborn
  <2>3. CASE stage[c] # "open"
    <3>1. sendBuf'[c] = sendBuf[c]
      BY <2>3, OutputMoves
    <3>2. UNCHANGED uid
      BY <1>5, UidMoves
    <3> QED
      BY <2>1, <2>3, <3>1, <3>2 DEF WakeOf
  <2> QED
    BY <2>2, <2>3
<1> QED
  BY <1>3, <1>4, <1>5

LEMMA WakeNet ==
    ASSUME IInv, RoundSound, NEW n \in Net, NetStep(n), NEW c \in Conn, WakeOf(c)
    PROVE  WakeOf(c)'
<1>1. CASE stage'[c] # "open"
  BY <1>1, UnbornKept DEF WakeOf
<1>2. CASE stage'[c] = "open" /\ stage[c] # "open"
  <2>1. AddTaskStep(n) /\ c = Head(batch[n]).conn
    BY <1>2, OpensHow
  <2>2. /\ stage[c] = "task"
        /\ interest'[c] = "in" /\ ready'[c] = Readable(c)
    BY <1>2, <2>1, AddEffects
  <2>3. sendBuf'[c] = <<>>
    BY <2>1, <2>2 DEF WakeOf, Unborn, AddTaskStep
  <2>4. UNCHANGED <<inbound, peer>>
    BY <2>1 DEF AddTaskStep, NextTask
  <2> QED
    BY <1>2, <2>2, <2>3, <2>4 DEF WakeOf, Woken, Unborn, Readable
<1>3. CASE stage'[c] = "open" /\ stage[c] = "open" /\ home[c] # n
  <2> DEFINE m == home[c]
  <2>1. m \in Net \ {n}
    BY <1>3, ConnTypes
  <2>2. /\ pc'[m] = pc[m] /\ events'[m] = events[m] /\ reading'[m] = reading[m]
    BY <2>1, OtherThreads
  <2>3. RecvData(n) \/ WriteEvent(n) => c # reading[n].conn
    BY <1>3 DEF RecvData, WriteEvent, IInv, WorkSound, ReadingSound
  <2>4. NetTaskStep(n) => c # table[n][Head(batch[n]).uid]
    BY <1>3, HeadNetTask, EntryKnowsItsUid, ZenonT(60) DEF NetTaskStep
  <2>5. Same(c)
    BY <1>3, <2>3, <2>4, SameUnless
  <2>6. home'[c] = m
    BY <2>5 DEF Same
  <2>7. (ToRead(c) => ToRead(c)') /\ (ToWrite(c) => ToWrite(c)')
    BY <2>2, <2>5, <2>6 DEF ToRead, ToWrite, Same
  <2>8. CASE pc[m] # "ended"
    BY <1>3, <2>2, <2>5, <2>7, <2>8, WakeKept
  <2>9. CASE pc[m] = "ended"
    BY <1>3, <2>2, <2>5, <2>6, <2>9 DEF WakeOf, Same, Unborn
  <2> QED
    BY <2>8, <2>9
<1>4. CASE stage'[c] = "open" /\ stage[c] = "open" /\ home[c] = n
  <2>1. CASE EpollWait(n)
    BY <1>4, <2>1, WakeWait
  <2>2. CASE DataEvent(n)
    BY <1>4, <2>2, WakeData
  <2>3. CASE RecvData(n)
    BY <1>4, <2>3, WakeRecv
  <2>4. CASE ReadDone(n)
    BY <1>4, <2>4, WakeDone
  <2>5. CASE WriteEvent(n)
    BY <1>4, <2>5, WakeWrite
  <2>6. CASE NetTaskStep(n)
    BY <1>4, <2>6, WakeNetTask
  <2>7. ASSUME ~EpollWait(n), ~RecvData(n), ~WriteEvent(n), ~NetTaskStep(n)
        PROVE  Same(c)
    BY <1>4, <2>7, SameUnless
  <2>8. CASE ExtractPackage(n)
    <3>1. UNCHANGED <<pc, reading, events>> /\ pc[n] = "extract"
      BY <2>8 DEF ExtractPackage, netVars
    <3>2. Same(c)
      BY <2>7, <2>8, <3>1 DEF EpollWait, RecvData, WriteEvent, NetTaskStep,
        NextTask
    <3>3. home'[c] = n
      BY <1>4, <3>2 DEF Same
    <3>4. (ToRead(c) => ToRead(c)') /\ (ToWrite(c) => ToWrite(c)')
      BY <3>1, <3>2, <3>3 DEF ToRead, ToWrite, Same
    <3> QED
      BY <1>4, <3>1, <3>2, <3>4, WakeKept
  <2>9. CASE ErrorEvent(n)
    <3>1. PICK e \in events[n] : /\ ConnEventAt(n, e)
                                 /\ table[n][e.uid] # NoConn
                                 /\ CloseConnection(n, e.uid)
      BY <2>9 DEF ErrorEvent
    <3>2. /\ events'[n] = events[n] \ {e} /\ pc[n] = "events"
          /\ e \in events[n] \ {ListenEvent}
      BY <3>1, ThreadTypes DEF ConnEventAt
    <3>3. e.uid \in Uid
      BY <3>2, EventNamesEntry
    <3>4. c # table[n][e.uid]
      BY <1>4, <3>1, <3>3, CloseEffects
    <3>5. e.uid # uid[c]
      BY <1>4, <3>4 DEF IInv, TableSound
    <3>6. Same(c)
      BY <2>7, <3>2 DEF EpollWait, RecvData, WriteEvent, NetTaskStep, NextTask
    <3> QED
      BY <1>4, <3>2, <3>5, <3>6, WakeAside DEF Busy
  <2>10. ASSUME \/ AcceptEvent(n) \/ Accept(n) \/ AcceptEnd(n)
                \/ SwapResponses(n) \/ RoundDone(n)
                \/ AddTaskStep(n) \/ DropTaskStep(n),
                ~NetTaskStep(n)
         PROVE  WakeOf(c)'
    <3>1. pc[n] \in {"events", "accept", "tasks"}
      BY <2>10 DEF AcceptEvent, Accept, AcceptEnd, SwapResponses, RoundDone,
        AddTaskStep, DropTaskStep, NextTask
    <3>2. \A e \in events[n] \ {ListenEvent} : e \in events'[n]
      BY <2>10, ThreadTypes DEF AcceptEvent, Accept, AcceptEnd, SwapResponses,
        RoundDone, AddTaskStep, DropTaskStep, NextTask
    <3>3. Same(c)
      BY <2>7, <2>10, <3>1 DEF EpollWait, RecvData, WriteEvent
    <3> QED
      BY <1>4, <3>1, <3>2, <3>3, WakeAside DEF Busy
  <2> QED
    BY <2>1, <2>2, <2>3, <2>4, <2>5, <2>6, <2>8, <2>9, <2>10 DEF NetStep
<1> QED
  BY <1>1, <1>2, <1>3, <1>4

LEMMA WakePeer ==
    ASSUME IInv, NEW d \in Conn, PeerStep(d), NEW c \in Conn, WakeOf(c)
    PROVE  WakeOf(c)'
<1>1. UNCHANGED <<stage, home, uid, sendBuf, pc, reading, events>>
  BY QuietSteps
<1>2. UNCHANGED interest
  BY DEF PeerStep, PeerConnect, PeerSend, PeerEnd, PeerRecv
<1>3. (ToRead(c) => ToRead(c)') /\ (ToWrite(c) => ToWrite(c)')
  BY <1>1 DEF ToRead, ToWrite
<1>4. ASSUME stage[c] = "open", Woken(c),
             sendBuf[c] # <<>> <=> interest[c] = "inout"
      PROVE  Woken(c)'
  <2>1. interest[c] # "none"
    BY <1>4 DEF IInv, TableSound
  <2>2. CASE c # d
    <3>1. /\ inbound'[c] = inbound[c] /\ kbuf'[c] = kbuf[c]
          /\ ready'[c] = ready[c] /\ peer'[c] = peer[c]
      BY <2>2, ConnTypes DEF PeerStep, PeerConnect, PeerSend, PeerEnd, PeerRecv
    <3> QED
      BY <1>1, <1>3, <1>4, <3>1 DEF Woken, HasRoom
  <2>3. CASE c = d /\ PeerConnect(d)
    <3>1. peer'[c] = "open" /\ UNCHANGED <<inbound, kbuf, ready>>
      BY <2>3, ConnTypes DEF PeerConnect
    <3> QED
      BY <1>1, <1>3, <1>4, <3>1 DEF Woken, HasRoom
  <2>4. CASE c = d /\ (PeerSend(d) \/ PeerEnd(d))
    <3>1. ready'[c] = TRUE
      BY <2>1, <2>4, ConnTypes DEF PeerSend, PeerEnd
    <3> QED
      BY <3>1 DEF Woken
  <2>5. CASE c = d /\ PeerRecv(d)
    <3>1. /\ ready[c] => ready'[c]
          /\ interest[c] = "inout" => ready'[c]
          /\ UNCHANGED <<inbound, peer>>
      BY <2>5, ConnTypes DEF PeerRecv
    <3> QED
      BY <1>1, <1>3, <1>4, <3>1 DEF Woken
  <2> QED
    BY <2>2, <2>3, <2>4, <2>5 DEF PeerStep
<1> QED
  BY <1>1, <1>2, <1>4 DEF WakeOf

(* No wakeup is lost, in the form that says which event is in whose hands.   *)
LEMMA WakeStep ==
    ASSUME IInv, RoundSound, WakeSound, Next
    PROVE  WakeSound'
<1>1. \A c \in Conn : WakeOf(c)
  BY DEF WakeSound, WakeOf, Woken, Unborn
<1>2. ASSUME NEW c \in Conn
      PROVE  WakeOf(c)'
  <2>1. WakeOf(c)
    BY <1>1
  <2>2. ASSUME NEW n \in Net, NetStep(n)
        PROVE  WakeOf(c)'
    BY <2>1, <2>2, WakeNet
  <2>3. ASSUME NEW d \in Conn, PeerStep(d)
        PROVE  WakeOf(c)'
    BY <2>1, <2>3, WakePeer
  <2>4. ASSUME NEW h \in Handle, HandleStep(h)
        PROVE  WakeOf(c)'
    <3>1. /\ UNCHANGED <<stage, home, uid, sendBuf, pc, reading, events>>
          /\ UNCHANGED <<peer, inbound, kbuf, interest, ready>>
      BY <2>4, QuietSteps, HandleLeavesKernel
    <3> QED
      BY <2>1, <3>1 DEF WakeOf, Woken, HasRoom, ToRead, ToWrite, Unborn
  <2> QED
    BY <2>2, <2>3, <2>4 DEF Next
<1> QED
  BY <1>2 DEF WakeSound, WakeOf, Woken, Unborn

-----------------------------------------------------------------------------
(* The inductive invariant of the rounds, and what follows from it.          *)

LEMMA InitRounds ==
    ASSUME Init
    PROVE  RoundInv
<1>1. IInv
  BY InitIInv
<1>2. RoundSound /\ EventsAreFresh /\ CloseSound /\ BacklogAnnounced
  BY DEF Init, RoundSound, EventsAreFresh, CloseSound, BacklogAnnounced
<1>3. WakeSound
  BY DEF Init, WakeSound
<1> QED
  BY <1>1, <1>2, <1>3 DEF RoundInv

LEMMA NextRounds ==
    ASSUME RoundInv, [Next]_vars
    PROVE  RoundInv'
<1>1. /\ IInv /\ RoundSound /\ EventsAreFresh /\ CloseSound /\ WakeSound
      /\ BacklogAnnounced
  BY DEF RoundInv
<1>2. IInv'
  BY <1>1, NextIInv
<1>3. CASE Next
  BY <1>1, <1>2, <1>3, RoundStep, CloseStep, WakeStep, BacklogAnnouncedStep
  DEF RoundInv
<1>4. CASE UNCHANGED vars
  <2>1. UNCHANGED <<kernelVars, connVars, netVars, handleVars>>
    BY <1>4 DEF vars
  <2>2. RoundSound' /\ EventsAreFresh' /\ CloseSound'
    BY <1>1, <2>1 DEF RoundSound, EventsAreFresh, CloseSound, Broken,
      kernelVars, connVars, netVars
  <2>3. WakeSound'
    BY <1>1, <2>1 DEF WakeSound, ToRead, ToWrite, HasRoom, kernelVars,
      connVars, netVars
  <2>4. BacklogAnnounced'
    BY <1>1, <2>1 DEF BacklogAnnounced, kernelVars, netVars
  <2> QED
    BY <1>2, <2>2, <2>3, <2>4 DEF RoundInv
<1> QED
  BY <1>3, <1>4

(* The events, wakeups, the backlog and the closes of every round agree with *)
(* the tables, for any number of threads, connections, uids and requests.    *)
THEOREM RoundsAreSound == Spec => []RoundInv
<1>1. Init => RoundInv
  BY InitRounds
<1>2. RoundInv /\ [Next]_vars => RoundInv'
  BY NextRounds
<1> QED
  BY <1>1, <1>2, PTL DEF Spec

(* The lookup of processConnection by the uid of an event always finds the   *)
(* connection the event was reported for, whatever else the round closes.    *)
THEOREM EventsStayFresh == Spec => []EventsAreFresh
<1>1. RoundInv => EventsAreFresh
  BY DEF RoundInv
<1> QED
  BY <1>1, RoundsAreSound, PTL

(* Under edge triggering no connection is left with unread input, with the   *)
(* end of its stream or with output that would fit, and nothing to tell.     *)
THEOREM WakeupsAreKept == Spec => []NoLostWakeup
<1>1. RoundInv => NoLostWakeup
  <2>1. SUFFICES ASSUME RoundInv, NEW c \in Conn, stage[c] = "open",
                        pc[home[c]] # "ended"
                 PROVE  /\ inbound[c] # <<>> => ready[c] \/ InHand(c)
                        /\ peer[c] = "fin" => ready[c] \/ InHand(c)
                                \/ reading[home[c]].conn = c
                        /\ sendBuf[c] # <<>> <=> interest[c] = "inout"
                        /\ sendBuf[c] # <<>> /\ HasRoom(c) => ready[c]
                                \/ InHand(c) \/ reading[home[c]].conn = c
    BY DEF NoLostWakeup
  <2>2. WakeOf(c)
    BY <2>1 DEF RoundInv, WakeSound, WakeOf, Woken, Unborn
  <2>3. ToRead(c) => InHand(c)
    BY DEF ToRead, InHand
  <2>4. ToWrite(c) => InHand(c) \/ reading[home[c]].conn = c
    BY DEF ToWrite, InHand
  <2> QED
    BY <2>1, <2>2, <2>3, <2>4 DEF WakeOf, Woken
<1> QED
  BY <1>1, RoundsAreSound, PTL

(* A connection in the backlog is announced, or accept has failed before.    *)
THEOREM BacklogIsAnnounced == Spec => []BacklogAnnounced
<1>1. RoundInv => BacklogAnnounced
  BY DEF RoundInv
<1> QED
  BY <1>1, RoundsAreSound, PTL

(* A peer that sends its requests and then closes its side has all of them   *)
(* handed over before its connection is closed.                              *)
THEOREM NoRequestIsLost == Spec => []FinLosesNoRequest
<1>1. RoundInv => FinLosesNoRequest
  BY DEF RoundInv, CloseSound, FinLosesNoRequest
<1> QED
  BY <1>1, RoundsAreSound, PTL
==============================================================================
