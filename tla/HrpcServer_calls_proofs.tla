----------------------- MODULE HrpcServer_calls_proofs ------------------------
(* The calls a server works on, for every value of the constants: no request *)
(* is processed or answered twice, none is lost on a connection that lives,  *)
(* a response reaches a foreign connection only when its own is closed, and  *)
(* with one handle thread the responses keep the order of the requests.      *)
EXTENDS HrpcServer_proofs, FiniteSetTheorems

-----------------------------------------------------------------------------
(* Who accepts.                                                              *)

LEMMA AcceptorStep ==
    ASSUME IInv, AcceptSound, Next
    PROVE  AcceptSound'
<1>1. ASSUME NEW n \in Net,
             pc'[n] = "accept" \/ ListenEvent \in events'[n]
      PROVE  n = Acceptor
  <2> DEFINE Was == pc[n] = "accept" \/ ListenEvent \in events[n]
  <2>1. Was => n = Acceptor
    BY DEF AcceptSound
  <2>2. ASSUME NEW p \in Net \ {n}, NetStep(p)
        PROVE  Was
    BY <1>1, <2>2, OtherThreads
  <2>3. CASE EpollWait(n)
    <3>1. /\ pc'[n] = "events"
          /\ events'[n] = {Event(c) : c \in Pending(n)} \cup
                (IF Listening(n) THEN {ListenEvent} ELSE {})
      BY <2>3, ThreadTypes DEF EpollWait
    <3>2. \A c \in Conn : Event(c) # ListenEvent
      BY DEF Event, ListenEvent
    <3>3. Listening(n)
      BY <1>1, <3>1, <3>2 DEF Pending
    <3> QED
      BY <3>3 DEF Listening
  <2>4. CASE AcceptEvent(n)
    BY <2>1, <2>4 DEF AcceptEvent
  <2>5. CASE Accept(n) \/ AcceptEnd(n)
    BY <2>1, <2>5 DEF Accept, AcceptEnd
  <2>6. CASE ErrorEvent(n)
    BY <1>1, <2>1, <2>6, ThreadTypes DEF ErrorEvent, ConnEventAt
  <2>7. CASE DataEvent(n)
    BY <1>1, <2>1, <2>7, ThreadTypes DEF DataEvent, ConnEventAt
  <2>8. CASE RecvData(n) \/ ReadDone(n) \/ WriteEvent(n) \/ SwapResponses(n)
    BY <1>1, <2>1, <2>8, ThreadTypes DEF RecvData, ReadDone, WriteEvent,
      SwapResponses
  <2>9. CASE ExtractPackage(n)
    BY <1>1, <2>1, <2>9 DEF ExtractPackage, netVars
  <2>10. CASE RoundDone(n) \/ AddTaskStep(n) \/ NetTaskStep(n) \/ DropTaskStep(n)
    BY <1>1, <2>1, <2>10, ThreadTypes DEF RoundDone, AddTaskStep, NetTaskStep,
      DropTaskStep, NextTask
  <2>11. CASE (\E h \in Handle : HandleStep(h)) \/ (\E c \in Conn : PeerStep(c))
    BY <1>1, <2>1, <2>11, QuietSteps
  <2> QED
    BY <2>1, <2>2, <2>3, <2>4, <2>5, <2>6, <2>7, <2>8, <2>9, <2>10, <2>11
    DEF Next, NetStep
<1>2. ASSUME NEW c \in Conn, stage'[c] = "none"
      PROVE  home'[c] = Acceptor
  <2>1. CASE \E n \in Net : Accept(n)
    <3>1. PICK n \in Net : Accept(n)
      BY <2>1
    <3>2. /\ stage' = [stage EXCEPT ![Head(backlog)] = "task"]
          /\ home' = [home EXCEPT ![Head(backlog)] = hash % NumNet]
      BY <3>1 DEF Accept
    <3>3. c # Head(backlog) /\ stage[c] = "none"
      BY <1>2, <3>2, ConnTypes
    <3> QED
      BY <3>2, <3>3, ConnTypes DEF AcceptSound
  <2>2. CASE \E n \in Net : AddTaskStep(n)
    <3>1. PICK n \in Net : AddTaskStep(n)
      BY <2>2
    <3>2. UNCHANGED home /\ stage[c] = "none"
      BY <1>2, <3>1, AddMoves
    <3> QED
      BY <3>2 DEF AcceptSound
  <2>3. CASE ~\E n \in Net : Accept(n) \/ AddTaskStep(n)
    <3>1. UNCHANGED home
      BY <2>3, StageMoves
    <3>2. stage[c] = "none"
      <4>1. CASE stage[c] = "open"
        <5>1. ASSUME NEW n \in Net, NetStep(n)
              PROVE  FALSE
          BY <1>2, <4>1, <5>1, OpenMoves
        <5>2. ASSUME ~\E n \in Net : NetStep(n)
              PROVE  FALSE
          BY <1>2, <4>1, <5>2, QuietSteps DEF Next
        <5> QED
          BY <5>1, <5>2
      <4>2. CASE stage[c] # "open"
        BY <1>2, <2>3, <4>2, StageMoves
      <4> QED
        BY <4>1, <4>2
    <3> QED
      BY <3>1, <3>2 DEF AcceptSound
  <2> QED
    BY <2>1, <2>2, <2>3
<1> QED
  BY <1>1, <1>2 DEF AcceptSound

-----------------------------------------------------------------------------
(* Where responses are addressed to.                                         *)

(* A connection that has a uid keeps it, and its thread.                     *)
LEMMA UidFixed ==
    ASSUME IInv, WakeSound, Next, NEW c \in Conn, uid[c] \in Uid
    PROVE  /\ uid'[c] = uid[c] /\ home'[c] = home[c]
           /\ stage[c] \in {"open", "closed"}
           /\ stage'[c] \in {"open", "closed"}
<1>1. NoUid \notin Uid
  BY ServerAssumption DEF ServerAssumption, NoUid, Uid
<1>2. stage[c] \in {"open", "closed"}
  BY <1>1, ConnTypes DEF WakeSound
<1>3. CASE \E n \in Net : Accept(n)
  <2>1. PICK n \in Net : Accept(n)
    BY <1>3
  <2>2. /\ stage' = [stage EXCEPT ![Head(backlog)] = "task"]
        /\ home' = [home EXCEPT ![Head(backlog)] = hash % NumNet]
        /\ stage[Head(backlog)] = "none"
        /\ UNCHANGED uid
    BY <2>1, HeadOfBacklog DEF Accept
  <2> QED
    BY <1>2, <2>2, ConnTypes
<1>4. CASE \E n \in Net : AddTaskStep(n)
  <2>1. PICK n \in Net : AddTaskStep(n)
    BY <1>4
  <2>2. c # Head(batch[n]).conn
    BY <1>2, <2>1, AddEffects
  <2> QED
    BY <1>2, <2>1, <2>2, AddEffects, AddMoves
<1>5. CASE ~\E n \in Net : Accept(n) \/ AddTaskStep(n)
  <2>1. UNCHANGED home
    BY <1>5, StageMoves
  <2>2. UNCHANGED uid
    BY <1>5, UidMoves, QuietSteps DEF Next
  <2>3. stage[c] = "open" => stage'[c] \in {"open", "closed"}
    BY <1>5, OpenMoves, QuietSteps DEF Next
  <2>4. stage[c] = "closed" => stage'[c] = "closed"
    BY ClosedForEver
  <2> QED
    BY <1>2, <2>1, <2>2, <2>3, <2>4
<1> QED
  BY <1>3, <1>4, <1>5

(* The tasks of a queue that keeps, loses its head, or gains a task.         *)
LEMMA AddressedKept ==
    ASSUME IInv, WakeSound, Next, NEW n \in Net, NEW s \in Seq(Task),
           Addressed(s, n)
    PROVE  \A i \in DOMAIN s : s[i].type = "net" =>
                uid'[s[i].pkg.conn] = s[i].uid /\ home'[s[i].pkg.conn] = n
<1>1. ASSUME NEW i \in DOMAIN s, s[i].type = "net"
      PROVE  /\ uid'[s[i].pkg.conn] = s[i].uid
             /\ home'[s[i].pkg.conn] = n
  <2>1. s[i] \in Task
    OBVIOUS
  <2>2. s[i].uid \in Uid /\ s[i].pkg.conn \in Conn
    BY <1>1, <2>1 DEF Task, NetTask, AddTask, Package
  <2>3. uid[s[i].pkg.conn] = s[i].uid /\ home[s[i].pkg.conn] = n
    BY <1>1 DEF Addressed
  <2> QED
    BY <2>2, <2>3, UidFixed
<1> QED
  BY <1>1

LEMMA AddressedTail ==
    ASSUME NEW n \in Net, NEW s \in Seq(Task), s # <<>>, Addressed(s, n)
    PROVE  Addressed(Tail(s), n)
<1>1. \A i \in DOMAIN Tail(s) : i + 1 \in DOMAIN s /\ Tail(s)[i] = s[i + 1]
  OBVIOUS
<1> QED
  BY <1>1 DEF Addressed

LEMMA AddressedAppend ==
    ASSUME NEW n \in Net, NEW s \in Seq(Task), NEW t \in Task, Addressed(s, n),
           t.type = "net" => uid[t.pkg.conn] = t.uid /\ home[t.pkg.conn] = n
    PROVE  Addressed(Append(s, t), n)
<1>1. \A i \in DOMAIN Append(s, t) : \/ i \in DOMAIN s /\ Append(s, t)[i] = s[i]
                                     \/ Append(s, t)[i] = t
  OBVIOUS
<1> QED
  BY <1>1 DEF Addressed


(* What the queue of responses and the batch of a thread become.             *)
LEMMA QueueMoves ==
    ASSUME IInv, Next, NEW n \in Net
    PROVE  /\ \/ respQ'[n] = respQ[n]
              \/ respQ'[n] = <<>>
              \/ \E p \in Net : /\ Accept(p)
                                /\ respQ'[n] = Append(respQ[n],
                                    [type |-> "add", conn |-> Head(backlog)])
              \/ \E h \in Handle :
                    /\ SendResponse(h)
                    /\ n = home[cur[h].conn]
                    /\ respQ'[n] = Append(respQ[n],
                        [type |-> "net", uid |-> uid[cur[h].conn],
                         pkg |-> cur[h]])
           /\ \/ batch'[n] = batch[n]
              \/ batch'[n] = respQ[n]
              \/ batch[n] # <<>> /\ batch'[n] = Tail(batch[n])
<1>1. respQ \in [Net -> Seq(Task)] /\ batch \in [Net -> Seq(Task)]
  BY DEF IInv, TypeOK, NetTypeOK
<1>2. CASE \E p \in Net : Accept(p)
  BY <1>1, <1>2 DEF Accept
<1>3. CASE \E h \in Handle : SendResponse(h)
  <2>1. PICK h \in Handle : SendResponse(h)
    BY <1>3
  <2>2. /\ respQ' = [respQ EXCEPT ![home[cur[h].conn]] = Append(@,
              [type |-> "net", uid |-> uid[cur[h].conn], pkg |-> cur[h]])]
        /\ UNCHANGED batch
    BY <2>1 DEF SendResponse
  <2>3. CASE n = home[cur[h].conn]
    BY <1>1, <2>1, <2>2, <2>3
  <2>4. CASE n # home[cur[h].conn]
    BY <1>1, <2>2, <2>4
  <2> QED
    BY <2>3, <2>4
<1>4. CASE \E p \in Net : SwapResponses(p)
  BY <1>1, <1>4 DEF SwapResponses
<1>5. CASE \E p \in Net : AddTaskStep(p) \/ NetTaskStep(p) \/ DropTaskStep(p)
  <2>1. PICK p \in Net : NextTask(p)
    BY <1>5 DEF AddTaskStep, NetTaskStep, DropTaskStep
  <2> QED
    BY <1>1, <2>1 DEF NextTask
<1>6. CASE /\ \A p \in Net : /\ ~Accept(p) /\ ~SwapResponses(p)
                             /\ ~AddTaskStep(p) /\ ~NetTaskStep(p)
                             /\ ~DropTaskStep(p)
           /\ \A h \in Handle : ~SendResponse(h)
  <2>1. CASE \E p \in Net : EpollWait(p) \/ AcceptEvent(p) \/ AcceptEnd(p)
               \/ ErrorEvent(p) \/ DataEvent(p) \/ RecvData(p)
               \/ ExtractPackage(p)
    BY <2>1 DEF EpollWait, AcceptEvent, AcceptEnd, ErrorEvent, ConnEventAt,
      DataEvent, RecvData, ExtractPackage, netVars
  <2>2. CASE \E p \in Net : ReadDone(p) \/ WriteEvent(p) \/ RoundDone(p)
    BY <2>2 DEF ReadDone, WriteEvent, RoundDone
  <2>3. CASE \E c \in Conn : PeerStep(c)
    BY <2>3 DEF PeerStep, PeerConnect, PeerSend, PeerEnd, PeerRecv, netVars
  <2>4. CASE \E h \in Handle : HandleStep(h)
    <3>1. PICK h \in Handle : TakeRequests(h) \/ LockConnection(h) \/ Distribute(h)
      BY <1>6, <2>4 DEF HandleStep
    <3>2. UNCHANGED netVars
      BY <3>1 DEF TakeRequests, LockConnection, Distribute
    <3> QED
      BY <3>2 DEF netVars
  <2>5. ASSUME NEW p \in Net, NetStep(p)
        PROVE  \/ EpollWait(p) \/ AcceptEvent(p) \/ AcceptEnd(p)
               \/ ErrorEvent(p) \/ DataEvent(p) \/ RecvData(p)
               \/ ExtractPackage(p)
               \/ ReadDone(p) \/ WriteEvent(p) \/ RoundDone(p)
    BY <1>6, <2>5 DEF NetStep
  <2> QED
    BY <2>1, <2>2, <2>3, <2>4, <2>5 DEF Next
<1> QED
  BY <1>2, <1>3, <1>4, <1>5, <1>6

LEMMA AddressedStep ==
    ASSUME IInv, WakeSound, AnswersSound, Next, NEW n \in Net
    PROVE  Addressed(respQ[n], n)' /\ Addressed(batch[n], n)'
<1>1. /\ respQ[n] \in Seq(Task) /\ batch[n] \in Seq(Task)
      /\ respQ'[n] \in Seq(Task) /\ batch'[n] \in Seq(Task)
  <2>1. NetTypeOK /\ NetTypeOK'
    BY NextIInv DEF IInv, TypeOK
  <2> QED
    BY <2>1 DEF NetTypeOK
<1>2. Addressed(respQ[n], n) /\ Addressed(batch[n], n)
  BY DEF AnswersSound
<1>3. ASSUME NEW s \in Seq(Task), Addressed(s, n)
      PROVE  \A i \in DOMAIN s : s[i].type = "net" =>
                uid'[s[i].pkg.conn] = s[i].uid /\ home'[s[i].pkg.conn] = n
  BY <1>3, AddressedKept
<1>4. Addressed(<<>>, n)
  BY DEF Addressed
<1>5. \E s \in Seq(Task) : respQ'[n] = s /\ Addressed(s, n)
  <2>1. CASE respQ'[n] = respQ[n] \/ respQ'[n] = <<>>
    BY <1>1, <1>2, <1>4, <2>1
  <2>2. ASSUME NEW p \in Net, Accept(p),
               respQ'[n] = Append(respQ[n],
                   [type |-> "add", conn |-> Head(backlog)])
        PROVE  Addressed(respQ'[n], n)
    <3> DEFINE t == [type |-> "add", conn |-> Head(backlog)]
    <3>1. t \in Task
      BY <2>2, HeadOfBacklog DEF Task, AddTask
    <3>2. t.type # "net"
      OBVIOUS
    <3> HIDE DEF t
    <3>3. Addressed(Append(respQ[n], t), n)
      BY <1>1, <1>2, <3>1, <3>2, AddressedAppend
    <3> QED
      BY <2>2, <3>3 DEF t
  <2>3. ASSUME NEW h \in Handle, SendResponse(h), n = home[cur[h].conn],
               respQ'[n] = Append(respQ[n],
                   [type |-> "net", uid |-> uid[cur[h].conn], pkg |-> cur[h]])
        PROVE  Addressed(respQ'[n], n)
    <3> DEFINE t == [type |-> "net", uid |-> uid[cur[h].conn], pkg |-> cur[h]]
    <3>1. cur[h] \in Request /\ uid[cur[h].conn] \in Uid
      BY <2>3 DEF IInv, WorkSound, RequestsSound, SendResponse
    <3>2. t \in Task
      BY <3>1 DEF Task, NetTask, Request, Package
    <3>3. uid[t.pkg.conn] = t.uid /\ home[t.pkg.conn] = n
      BY <2>3
    <3> HIDE DEF t
    <3>4. Addressed(Append(respQ[n], t), n)
      BY <1>1, <1>2, <3>2, <3>3, AddressedAppend
    <3> QED
      BY <2>3, <3>4 DEF t
  <2> QED
    BY <1>1, <2>1, <2>2, <2>3, QueueMoves
<1>6. \E s \in Seq(Task) : batch'[n] = s /\ Addressed(s, n)
  <2>1. CASE batch'[n] = batch[n] \/ batch'[n] = respQ[n]
    BY <1>1, <1>2, <2>1
  <2>2. CASE batch[n] # <<>> /\ batch'[n] = Tail(batch[n])
    BY <1>1, <1>2, <2>2, AddressedTail
  <2> QED
    BY <2>1, <2>2, QueueMoves
<1>7. Addressed(respQ[n], n)'
  <2>1. PICK s \in Seq(Task) : respQ'[n] = s /\ Addressed(s, n)
    BY <1>5
  <2> QED
    BY <1>3, <2>1 DEF Addressed
<1>8. Addressed(batch[n], n)'
  <2>1. PICK s \in Seq(Task) : batch'[n] = s /\ Addressed(s, n)
    BY <1>6
  <2> QED
    BY <1>3, <2>1 DEF Addressed
<1> QED
  BY <1>7, <1>8

-----------------------------------------------------------------------------
(* Whose responses are in the output of a connection.                        *)

(* Those of c, or of a connection that is closed.                            *)
Owned(s, c) == \A i \in DOMAIN s : s[i].conn = c \/ stage[s[i].conn] = "closed"

LEMMA OwnedKept ==
    ASSUME IInv, Next, NEW c \in Conn, NEW s \in Seq(Package), Owned(s, c)
    PROVE  \A i \in DOMAIN s : s[i].conn = c \/ stage'[s[i].conn] = "closed"
<1>1. ASSUME NEW i \in DOMAIN s
      PROVE  s[i].conn = c \/ stage'[s[i].conn] = "closed"
  <2>1. s[i].conn \in Conn
    <3>1. s[i] \in Package
      OBVIOUS
    <3> QED
      BY <3>1 DEF Package
  <2>2. s[i].conn = c \/ stage[s[i].conn] = "closed"
    BY DEF Owned
  <2> QED
    BY <2>1, <2>2, ClosedForEver
<1> QED
  BY <1>1

LEMMA OwnedAppend ==
    ASSUME NEW c \in Conn, NEW s \in Seq(Package), NEW r \in Package,
           Owned(s, c), r.conn = c \/ stage[r.conn] = "closed"
    PROVE  Owned(Append(s, r), c)
<1>1. \A i \in DOMAIN Append(s, r) : \/ i \in DOMAIN s /\ Append(s, r)[i] = s[i]
                                     \/ Append(s, r)[i] = r
  OBVIOUS
<1> QED
  BY <1>1 DEF Owned

LEMMA OwnedTail ==
    ASSUME NEW c \in Conn, NEW s \in Seq(Package), s # <<>>, Owned(s, c)
    PROVE  Owned(Tail(s), c) /\ Head(s) \in Package
           /\ (Head(s).conn = c \/ stage[Head(s).conn] = "closed")
<1>1. \A i \in DOMAIN Tail(s) : i + 1 \in DOMAIN s /\ Tail(s)[i] = s[i + 1]
  OBVIOUS
<1>2. 1 \in DOMAIN s /\ Head(s) = s[1]
  OBVIOUS
<1> QED
  BY <1>1, <1>2 DEF Owned

(* What is sent and what stays was in the buffer or was sent before.         *)
LEMMA OwnedSend ==
    ASSUME NEW c \in Conn, NEW s \in Seq(Package), NEW buf \in Seq(Package),
           Owned(s, c), Owned(buf, c), NEW m \in 0..Len(buf)
    PROVE  /\ Owned(s \o SubSeq(buf, 1, m), c)
           /\ Owned(SubSeq(buf, m + 1, Len(buf)), c)
<1> DEFINE a == SubSeq(buf, 1, m)
           b == SubSeq(buf, m + 1, Len(buf))
<1>1. /\ a \in Seq(Package) /\ Len(a) = m
      /\ \A i \in 1..m : a[i] = buf[i] /\ i \in DOMAIN buf
  OBVIOUS
<1>2. /\ Len(b) = Len(buf) - m
      /\ DOMAIN b = 1..(Len(buf) - m)
      /\ \A i \in 1..(Len(buf) - m) : b[i] = buf[m + i] /\ m + i \in DOMAIN buf
  OBVIOUS
<1>3. Owned(b, c)
  <2> HIDE DEF b
  <2> SUFFICES ASSUME NEW i \in DOMAIN b
               PROVE  b[i].conn = c \/ stage[b[i].conn] = "closed"
    BY DEF Owned
  <2>1. PICK j \in DOMAIN buf : b[i] = buf[j]
    BY <1>2
  <2> QED
    BY <2>1 DEF Owned
<1>4. Owned(s \o a, c)
  <2> HIDE DEF a
  <2>1. \A i \in DOMAIN (s \o a) : \/ i \in DOMAIN s /\ (s \o a)[i] = s[i]
                                   \/ \E j \in 1..m : (s \o a)[i] = a[j]
    <3>1. DOMAIN (s \o a) = 1..(Len(s) + m)
      BY <1>1
    <3>2. \A i \in 1..Len(s) : (s \o a)[i] = s[i]
      BY <1>1
    <3>3. \A i \in (Len(s) + 1)..(Len(s) + m) :
            i - Len(s) \in 1..m /\ (s \o a)[i] = a[i - Len(s)]
      BY <1>1
    <3> QED
      BY <3>1, <3>2, <3>3
  <2> QED
    BY <1>1, <2>1 DEF Owned
<1> QED
  BY <1>3, <1>4

(* How much of a buffer fits.                                                *)
LEMMA FittingBound ==
    ASSUME IInv, NEW c \in Conn, NEW buf \in Seq(Package)
    PROVE  Fitting(c, buf) \in 0..Len(buf)
<1>1. Len(kbuf[c]) \in Nat /\ Len(kbuf[c]) <= SockCap /\ SockCap \in Nat
  BY ConnTypes
<1> QED
  BY <1>1 DEF Fitting

(* The response at the head of a batch is for the connection that has its    *)
(* uid, or that connection is closed.                                        *)
LEMMA AnswerForOwner ==
    ASSUME IInv, WakeSound, AnswersSound, Next, NEW n \in Net, NetTaskStep(n),
           NEW c, c = table[n][Head(batch[n]).uid],
           NEW r, r = Head(batch[n]).pkg
    PROVE  c \in Conn /\ r \in Package
           /\ (r.conn = c \/ stage[r.conn] = "closed")
<1>1. NextTask(n) /\ Head(batch[n]).type = "net" /\ c # NoConn
  BY DEF NetTaskStep
<1>2. Head(batch[n]).uid \in Uid /\ r \in Package
  BY <1>1, HeadNetTask
<1>3. c \in Conn
  BY <1>1, <1>2, EntryKnowsItsUid
<1>4. r.conn \in Conn
  BY <1>2 DEF Package
<1>5. uid[r.conn] = Head(batch[n]).uid /\ home[r.conn] = n
  <2>1. 1 \in DOMAIN batch[n] /\ Head(batch[n]) = batch[n][1]
    BY <1>1, HeadTask
  <2>2. Addressed(batch[n], n)
    BY DEF AnswersSound
  <2> QED
    BY <1>1, <2>1, <2>2 DEF Addressed
<1>6. stage[r.conn] \in {"open", "closed"}
  BY <1>2, <1>4, <1>5, UidFixed
<1>7. stage[r.conn] = "open" => table[n][Head(batch[n]).uid] = r.conn
  BY <1>4, <1>5 DEF IInv, TableSound
<1> QED
  BY <1>2, <1>3, <1>6, <1>7

LEMMA OwnedStep ==
    ASSUME IInv, WakeSound, AnswersSound, Next, NEW c \in Conn
    PROVE  Owned(sendBuf'[c], c) /\ Owned(kbuf'[c], c) /\ Owned(got'[c], c)
<1>1. /\ sendBuf[c] \in Seq(Package) /\ kbuf[c] \in Seq(Package)
      /\ got[c] \in Seq(Package)
  BY DEF IInv, TypeOK, PeersTypeOK, ConnsTypeOK
<1>2. Owned(sendBuf[c], c) /\ Owned(kbuf[c], c) /\ Owned(got[c], c)
  BY DEF AnswersSound, Owned
<1>3. CASE \E d \in Conn : PeerRecv(d)
  <2>1. PICK d \in Conn : PeerRecv(d)
    BY <1>3
  <2>2. /\ kbuf[d] # <<>>
        /\ got' = [got EXCEPT ![d] = Append(@, Head(kbuf[d]))]
        /\ kbuf' = [kbuf EXCEPT ![d] = Tail(@)]
        /\ UNCHANGED sendBuf
    BY <2>1 DEF PeerRecv, connVars
  <2>3. kbuf \in [Conn -> Seq(Package)] /\ got \in [Conn -> Seq(Package)]
    BY DEF IInv, TypeOK, PeersTypeOK
  <2>4. CASE d = c
    <3>1. got'[c] = Append(got[c], Head(kbuf[c])) /\ kbuf'[c] = Tail(kbuf[c])
      BY <2>2, <2>3, <2>4
    <3> QED
      BY <1>1, <1>2, <2>2, <2>4, <3>1, OwnedTail, OwnedAppend
  <2>5. CASE d # c
    BY <1>2, <2>2, <2>3, <2>5
  <2> QED
    BY <2>4, <2>5
<1>4. CASE \E n \in Net : NetStep(n)
  <2>1. PICK n \in Net : NetStep(n)
    BY <1>4
  <2>2. UNCHANGED got
    BY <2>1 DEF NetStep, EpollWait, AcceptEvent, Accept, AcceptEnd, ErrorEvent,
      ConnEventAt, DataEvent, RecvData, ExtractPackage, ReadDone, WriteEvent,
      SwapResponses, RoundDone, AddTaskStep, NetTaskStep, DropTaskStep,
      NextTask, kernelVars
  <2>3. CASE sendBuf'[c] = sendBuf[c] /\ kbuf'[c] = kbuf[c]
    BY <1>2, <2>2, <2>3
  <2>4. CASE WriteEvent(n) /\ c = reading[n].conn
    <3>1. CASE SendData(c, sendBuf[c])
      BY <1>1, <1>2, <2>2, <3>1, ConnTypes, OwnedSend, FittingBound DEF SendData
    <3>2. CASE UNCHANGED <<kbuf, sendBuf>>
      BY <1>2, <2>2, <3>2
    <3> QED
      BY <2>4, <3>1, <3>2 DEF WriteEvent
  <2>5. CASE NetTaskStep(n) /\ c = table[n][Head(batch[n]).uid]
    <3>1. PICK r \in Package : /\ r = Head(batch[n]).pkg
                               /\ r.conn = c \/ stage[r.conn] = "closed"
      BY <2>5, AnswerForOwner
    <3>2. Owned(<<>>, c)
      BY DEF Owned
    <3>3. Owned(<<r>>, c)
      BY <3>1 DEF Owned
    <3>4. CASE sendBuf' = [sendBuf EXCEPT ![c] = Append(@, r)] /\ UNCHANGED kbuf
      <4>1. sendBuf'[c] = Append(sendBuf[c], r)
        BY <3>4, ConnTypes
      <4>2. Owned(Append(sendBuf[c], r), c)
        BY <1>1, <1>2, <3>1, OwnedAppend
      <4> QED
        BY <1>2, <2>2, <3>4, <4>1, <4>2
    <3>5. CASE sendBuf' = [sendBuf EXCEPT ![c] = <<r>>] /\ UNCHANGED kbuf
      <4>1. sendBuf'[c] = <<r>>
        BY <3>5, ConnTypes
      <4> QED
        BY <1>2, <2>2, <3>3, <3>5, <4>1
    <3>6. CASE SendData(c, <<r>>)
      <4>1. <<r>> \in Seq(Package)
        OBVIOUS
      <4> DEFINE m == Fitting(c, <<r>>)
      <4>2. /\ kbuf'[c] = kbuf[c] \o SubSeq(<<r>>, 1, m)
            /\ sendBuf'[c] = SubSeq(<<r>>, m + 1, Len(<<r>>))
        BY <3>6, ConnTypes DEF SendData
      <4>3. m \in 0..Len(<<r>>)
        BY <4>1, FittingBound
      <4> HIDE DEF m
      <4> QED
        BY <1>1, <1>2, <2>2, <3>3, <4>1, <4>2, <4>3, OwnedSend
    <3> QED
      BY <2>5, <3>1, <3>4, <3>5, <3>6 DEF NetTaskStep, PushData
  <2> QED
    BY <2>1, <2>3, <2>4, <2>5, OutputMoves
<1>5. CASE \E h \in Handle : HandleStep(h)
  <2>1. UNCHANGED <<kbuf, got, sendBuf>>
    BY <1>5, HandleLeavesKernel, QuietSteps
  <2> QED
    BY <1>2, <2>1
<1>6. CASE \E d \in Conn : PeerConnect(d) \/ PeerSend(d) \/ PeerEnd(d)
  <2>1. UNCHANGED <<kbuf, got, sendBuf>>
    BY <1>6 DEF PeerConnect, PeerSend, PeerEnd, connVars
  <2> QED
    BY <1>2, <2>1
<1> QED
  BY <1>3, <1>4, <1>5, <1>6 DEF Next, PeerStep

LEMMA NetLeavesHands ==
    ASSUME NEW n \in Net, NetStep(n)
    PROVE  UNCHANGED <<rq, cur, hpc>>
<1>1. CASE \/ EpollWait(n) \/ AcceptEvent(n) \/ Accept(n) \/ AcceptEnd(n)
           \/ ErrorEvent(n) \/ DataEvent(n) \/ RecvData(n)
  BY <1>1 DEF EpollWait, AcceptEvent, Accept, AcceptEnd, ErrorEvent,
    ConnEventAt, DataEvent, RecvData, handleVars
<1>2. CASE ExtractPackage(n) \/ ReadDone(n) \/ WriteEvent(n)
  BY <1>2 DEF ExtractPackage, ReadDone, WriteEvent, handleVars
<1>3. CASE SwapResponses(n) \/ RoundDone(n)
  BY <1>3 DEF SwapResponses, RoundDone, handleVars
<1>4. CASE AddTaskStep(n) \/ NetTaskStep(n) \/ DropTaskStep(n)
  BY <1>4 DEF AddTaskStep, NetTaskStep, DropTaskStep, NextTask, handleVars
<1> QED
  BY <1>1, <1>2, <1>3, <1>4 DEF NetStep

(* A handle thread is idle exactly when it has no request in hand.           *)
LEMMA HandsFree ==
    ASSUME IInv, AnswersSound, Next, NEW h \in Handle
    PROVE  hpc'[h] = "idle" <=> cur'[h] = NoReq
<1>1. /\ hpc \in [Handle -> {"idle", "parse", "send"}]
      /\ cur \in [Handle -> Request \cup {NoReq}]
      /\ rq \in [Handle -> Seq(Request)]
  BY DEF IInv, TypeOK, HandlesTypeOK
<1>2. hpc[h] = "idle" <=> cur[h] = NoReq
  BY DEF AnswersSound
<1>3. NoReq \notin Request
  BY ServerAssumption DEF ServerAssumption, Request
<1>4. CASE \E g \in Handle : LockConnection(g)
  <2>1. PICK g \in Handle : LockConnection(g)
    BY <1>4
  <2>2. Head(rq[g]) \in Request
    BY <1>1, <2>1 DEF LockConnection
  <2>3. \/ /\ cur' = [cur EXCEPT ![g] = Head(rq[g])]
           /\ hpc' = [hpc EXCEPT ![g] = "parse"]
        \/ UNCHANGED <<cur, hpc>>
    BY <2>1 DEF LockConnection
  <2> QED
    BY <1>1, <1>2, <1>3, <2>2, <2>3
<1>5. CASE \E g \in Handle : Distribute(g)
  <2>1. PICK g \in Handle : Distribute(g)
    BY <1>5
  <2>2. hpc[g] = "parse"
        /\ \/ hpc' = [hpc EXCEPT ![g] = "send"] /\ UNCHANGED cur
           \/ /\ hpc' = [hpc EXCEPT ![g] = "idle"]
              /\ cur' = [cur EXCEPT ![g] = NoReq]
    BY <2>1 DEF Distribute
  <2> QED
    BY <1>1, <1>2, <1>3, <2>2
<1>6. CASE \E g \in Handle : SendResponse(g)
  BY <1>1, <1>2, <1>3, <1>6 DEF SendResponse
<1>7. CASE \E g \in Handle : TakeRequests(g)
  BY <1>2, <1>7 DEF TakeRequests
<1>8. CASE (\E n \in Net : NetStep(n)) \/ (\E c \in Conn : PeerStep(c))
  <2>1. UNCHANGED <<cur, hpc>>
    <3>1. CASE \E c \in Conn : PeerStep(c)
      BY <3>1 DEF PeerStep, PeerConnect, PeerSend, PeerEnd, PeerRecv, handleVars
    <3>2. CASE \E n \in Net : NetStep(n)
      BY <3>2, NetLeavesHands
    <3> QED
      BY <1>8, <3>1, <3>2
  <2> QED
    BY <1>2, <2>1
<1> QED
  BY <1>4, <1>5, <1>6, <1>7, <1>8 DEF Next, HandleStep

LEMMA AnswersStep ==
    ASSUME IInv, WakeSound, AnswersSound, Next
    PROVE  AnswersSound'
<1>1. ASSUME NEW n \in Net
      PROVE  Addressed(respQ[n], n)' /\ Addressed(batch[n], n)'
  BY AddressedStep
<1>2. ASSUME NEW c \in Conn
      PROVE  \A s \in {sendBuf'[c], kbuf'[c], got'[c]} :
                \A i \in DOMAIN s : s[i].conn = c \/ stage'[s[i].conn] = "closed"
  <2>1. /\ sendBuf'[c] \in Seq(Package) /\ kbuf'[c] \in Seq(Package)
        /\ got'[c] \in Seq(Package)
    BY NextIInv DEF IInv, TypeOK, PeersTypeOK, ConnsTypeOK
  <2>2. Owned(sendBuf'[c], c) /\ Owned(kbuf'[c], c) /\ Owned(got'[c], c)
    BY OwnedStep
  <2>3. ASSUME NEW s \in Seq(Package), Owned(s, c)
        PROVE  \A i \in DOMAIN s : s[i].conn = c \/ stage'[s[i].conn] = "closed"
    BY <2>3, OwnedKept
  <2> QED
    BY <2>1, <2>2, <2>3
<1>3. ASSUME NEW h \in Handle
      PROVE  hpc'[h] = "idle" <=> cur'[h] = NoReq
  BY HandsFree
<1> QED
  BY <1>1, <1>2, <1>3 DEF AnswersSound

-----------------------------------------------------------------------------
(* Places and what moves between them, as functions from places to           *)
(* sequences of items.  An item with k = 0 stands for an add task.           *)

Item == [conn : Conn, k : 0..MaxReq]

IsStore(f) == f \in [Places -> Seq(Item)]

(* The first t items leave a, the first m of them go to the end of b.        *)
Moves(f, g, a, b, m, t) ==
    /\ IsStore(f)
    /\ a \in Places /\ b \in Places /\ a # b
    /\ t \in 0..Len(f[a]) /\ m \in 0..t
    /\ g[a] = SubSeq(f[a], t + 1, Len(f[a]))
    /\ g[b] = f[b] \o SubSeq(f[a], 1, m)
    /\ \A x \in Places \ {a, b} : g[x] = f[x]

(* One item comes to the end of a.                                           *)
Grows(f, g, a, r) ==
    /\ IsStore(f)
    /\ a \in Places
    /\ g[a] = Append(f[a], r)
    /\ \A x \in Places \ {a} : g[x] = f[x]

Distinct(f) ==
    \A x, y \in Places : \A i \in DOMAIN f[x], j \in DOMAIN f[y] :
        f[x][i] = f[y][j] /\ f[x][i].k # 0 => x = y /\ i = j

LEMMA MovedItems ==
    ASSUME NEW f, NEW g, NEW a, NEW b, NEW m, NEW t, Moves(f, g, a, b, m, t)
    PROVE  /\ a \in Places /\ b \in Places /\ a # b
           /\ m \in Nat /\ t \in Nat /\ m <= t /\ t <= Len(f[a])
           /\ Len(f[a]) \in Nat /\ Len(f[b]) \in Nat
           /\ DOMAIN f[a] = 1..Len(f[a]) /\ DOMAIN f[b] = 1..Len(f[b])
           /\ DOMAIN g[a] = 1..(Len(f[a]) - t)
           /\ DOMAIN g[b] = 1..(Len(f[b]) + m)
           /\ \A i \in 1..(Len(f[a]) - t) : g[a][i] = f[a][i + t]
           /\ \A i \in 1..Len(f[b]) : g[b][i] = f[b][i]
           /\ \A i \in (Len(f[b]) + 1)..(Len(f[b]) + m) :
                    g[b][i] = f[a][i - Len(f[b])]
           /\ \A x \in Places \ {a, b} : g[x] = f[x]
<1>1. /\ a \in Places /\ b \in Places /\ a # b
      /\ t \in 0..Len(f[a]) /\ m \in 0..t
      /\ g[a] = SubSeq(f[a], t + 1, Len(f[a]))
      /\ g[b] = f[b] \o SubSeq(f[a], 1, m)
      /\ \A x \in Places \ {a, b} : g[x] = f[x]
  BY DEF Moves
<1>2. f[a] \in Seq(Item) /\ f[b] \in Seq(Item)
  BY <1>1 DEF Moves, IsStore
<1>3. /\ m \in Nat /\ t \in Nat /\ m <= t /\ t <= Len(f[a])
      /\ Len(f[a]) \in Nat /\ Len(f[b]) \in Nat
      /\ DOMAIN f[a] = 1..Len(f[a]) /\ DOMAIN f[b] = 1..Len(f[b])
  BY <1>1, <1>2
<1> DEFINE s == SubSeq(f[a], 1, m)
<1>4. s \in Seq(Item) /\ Len(s) = m /\ \A i \in 1..m : s[i] = f[a][i]
  BY <1>1, <1>2, <1>3
<1>5. /\ DOMAIN g[a] = 1..(Len(f[a]) - t)
      /\ \A i \in 1..(Len(f[a]) - t) : g[a][i] = f[a][i + t]
  <2>1. DOMAIN SubSeq(f[a], t + 1, Len(f[a])) = 1..(Len(f[a]) - t)
    BY <1>1, <1>2, <1>3
  <2>2. \A i \in 1..(Len(f[a]) - t) :
            SubSeq(f[a], t + 1, Len(f[a]))[i] = f[a][i + t]
    BY <1>1, <1>2, <1>3
  <2> QED
    BY <1>1, <2>1, <2>2
<1>6. g[b] = f[b] \o s
  BY <1>1
<1> HIDE DEF s
<1>7. /\ DOMAIN g[b] = 1..(Len(f[b]) + m)
      /\ \A i \in 1..Len(f[b]) : g[b][i] = f[b][i]
      /\ \A i \in (Len(f[b]) + 1)..(Len(f[b]) + m) :
                g[b][i] = s[i - Len(f[b])]
  <2>1. /\ DOMAIN (f[b] \o s) = 1..(Len(f[b]) + m)
        /\ \A i \in 1..Len(f[b]) : (f[b] \o s)[i] = f[b][i]
    <3>1. ASSUME NEW u \in Seq(Item)
          PROVE  /\ DOMAIN (u \o s) = 1..(Len(u) + m)
                 /\ \A i \in 1..Len(u) : (u \o s)[i] = u[i]
      <4>1. DOMAIN (u \o s) = 1..(Len(u) + m)
        BY <1>4
      <4>2. \A i \in 1..Len(u) : (u \o s)[i] = u[i]
        BY <1>4
      <4> QED
        BY <4>1, <4>2
    <3> QED
      BY <1>2, <3>1
  <2>2. \A i \in (Len(f[b]) + 1)..(Len(f[b]) + m) :
            (f[b] \o s)[i] = s[i - Len(f[b])]
    BY <1>2, <1>3, <1>4
  <2> QED
    BY <1>6, <2>1, <2>2
<1>8. \A i \in (Len(f[b]) + 1)..(Len(f[b]) + m) : g[b][i] = f[a][i - Len(f[b])]
  BY <1>3, <1>4, <1>7
<1> QED
  BY <1>1, <1>3, <1>5, <1>7, <1>8

(* Every item was somewhere, and two of them were in two positions.          *)
LEMMA MovedFrom ==
    ASSUME NEW f, NEW g, NEW a, NEW b, NEW m, NEW t, Moves(f, g, a, b, m, t),
           NEW x \in Places, NEW i \in DOMAIN g[x]
    PROVE  \/ /\ x # a /\ i \in DOMAIN f[x] /\ g[x][i] = f[x][i]
              /\ x = b => i <= Len(f[b])
           \/ /\ x = a /\ i \in Nat
              /\ i + t \in DOMAIN f[a] /\ g[x][i] = f[a][i + t]
           \/ /\ x = b /\ i > Len(f[b]) /\ i \in Nat /\ i - Len(f[b]) <= m
              /\ i - Len(f[b]) \in DOMAIN f[a]
              /\ g[x][i] = f[a][i - Len(f[b])]
<1>1. CASE x \notin {a, b}
  BY <1>1, MovedItems
<1>2. CASE x = a
  <2>1. i \in 1..(Len(f[a]) - t)
    BY <1>2, MovedItems
  <2>2. i + t \in 1..Len(f[a]) /\ i \in Nat
    BY <2>1, MovedItems
  <2> QED
    BY <1>2, <2>1, <2>2, MovedItems
<1>3. CASE x = b
  <2>1. i \in 1..(Len(f[b]) + m) /\ i \in Nat
    BY <1>3, MovedItems
  <2>2. CASE i <= Len(f[b])
    BY <1>3, <2>1, <2>2, MovedItems
  <2>3. CASE i > Len(f[b])
    <3>1. /\ i - Len(f[b]) \in 1..Len(f[a]) /\ i - Len(f[b]) <= m
          /\ i \in (Len(f[b]) + 1)..(Len(f[b]) + m)
      BY <2>1, <2>3, MovedItems
    <3> QED
      BY <1>3, <2>1, <2>3, <3>1, MovedItems
  <2> QED
    BY <2>1, <2>2, <2>3, MovedItems
<1> QED
  BY <1>1, <1>2, <1>3

LEMMA MovedAreOld ==
    ASSUME NEW f, NEW g, NEW a, NEW b, NEW m, NEW t, Moves(f, g, a, b, m, t),
           NEW x \in Places, NEW i \in DOMAIN g[x]
    PROVE  \E y \in Places : \E j \in DOMAIN f[y] : g[x][i] = f[y][j]
BY MovedFrom, MovedItems

LEMMA MovedDistinct ==
    ASSUME NEW f, NEW g, NEW a, NEW b, NEW m, NEW t, Moves(f, g, a, b, m, t), Distinct(f)
    PROVE  Distinct(g)
<1> SUFFICES ASSUME NEW x \in Places, NEW y \in Places,
                    NEW i \in DOMAIN g[x], NEW j \in DOMAIN g[y],
                    g[x][i] = g[y][j], g[x][i].k # 0
             PROVE  x = y /\ i = j
  BY DEF Distinct
<1>1. /\ a \in Places /\ b \in Places /\ a # b
      /\ t \in Nat /\ m \in Nat /\ m <= t /\ Len(f[b]) \in Nat
  BY MovedItems
<1>2. \/ /\ x # a /\ i \in DOMAIN f[x] /\ g[x][i] = f[x][i]
         /\ x = b => i <= Len(f[b])
      \/ /\ x = a /\ i \in Nat
         /\ i + t \in DOMAIN f[a] /\ g[x][i] = f[a][i + t]
      \/ /\ x = b /\ i > Len(f[b]) /\ i \in Nat /\ i - Len(f[b]) <= m
         /\ i - Len(f[b]) \in DOMAIN f[a]
         /\ g[x][i] = f[a][i - Len(f[b])]
  BY MovedFrom
<1>3. \/ /\ y # a /\ j \in DOMAIN f[y] /\ g[y][j] = f[y][j]
         /\ y = b => j <= Len(f[b])
      \/ /\ y = a /\ j \in Nat
         /\ j + t \in DOMAIN f[a] /\ g[y][j] = f[a][j + t]
      \/ /\ y = b /\ j > Len(f[b]) /\ j \in Nat /\ j - Len(f[b]) <= m
         /\ j - Len(f[b]) \in DOMAIN f[a]
         /\ g[y][j] = f[a][j - Len(f[b])]
  BY MovedFrom
<1>4. \A u, v \in Places : \A p \in DOMAIN f[u], q \in DOMAIN f[v] :
            f[u][p] = f[v][q] /\ f[u][p].k # 0 => u = v /\ p = q
  BY DEF Distinct
<1>5. CASE x # a /\ i \in DOMAIN f[x] /\ g[x][i] = f[x][i]
  BY <1>1, <1>2, <1>3, <1>4, <1>5
<1>6. CASE /\ x = a /\ i \in Nat
           /\ i + t \in DOMAIN f[a] /\ g[x][i] = f[a][i + t]
  <2>1. CASE y # a /\ j \in DOMAIN f[y] /\ g[y][j] = f[y][j]
    BY <1>1, <1>4, <1>6, <2>1
  <2>2. CASE /\ y = a /\ j \in Nat
             /\ j + t \in DOMAIN f[a] /\ g[y][j] = f[a][j + t]
    <3>1. i + t = j + t
      BY <1>1, <1>4, <1>6, <2>2
    <3> QED
      BY <1>1, <1>6, <2>2, <3>1
  <2>3. CASE /\ y = b /\ j > Len(f[b]) /\ j \in Nat /\ j - Len(f[b]) <= m
             /\ j - Len(f[b]) \in DOMAIN f[a]
             /\ g[y][j] = f[a][j - Len(f[b])]
    <3> DEFINE p == i + t
               q == j - Len(f[b])
    <3>3. p \in DOMAIN f[a] /\ q \in DOMAIN f[a] /\ f[a][p] = f[a][q]
          /\ f[a][p].k # 0
      BY <1>6, <2>3
    <3>4. p = q
      <4> HIDE DEF p, q
      <4> QED
        BY <1>1, <1>4, <3>3
    <3>1. i + t = j - Len(f[b])
      BY <3>4
    <3>2. i > 0
      BY <1>6, MovedItems
    <3> QED
      BY <1>1, <1>6, <2>3, <3>1, <3>2
  <2> QED
    BY <1>3, <2>1, <2>2, <2>3
<1>7. CASE /\ x = b /\ i > Len(f[b]) /\ i \in Nat /\ i - Len(f[b]) <= m
           /\ i - Len(f[b]) \in DOMAIN f[a]
           /\ g[x][i] = f[a][i - Len(f[b])]
  <2>1. CASE /\ y # a /\ j \in DOMAIN f[y] /\ g[y][j] = f[y][j]
    BY <1>1, <1>4, <1>7, <2>1
  <2>2. CASE /\ y = a /\ j \in Nat
             /\ j + t \in DOMAIN f[a] /\ g[y][j] = f[a][j + t]
    <3> DEFINE p == j + t
               q == i - Len(f[b])
    <3>3. p \in DOMAIN f[a] /\ q \in DOMAIN f[a] /\ f[a][p] = f[a][q]
          /\ f[a][p].k # 0
      BY <1>7, <2>2
    <3>4. p = q
      <4> HIDE DEF p, q
      <4> QED
        BY <1>1, <1>4, <3>3
    <3>1. j + t = i - Len(f[b])
      BY <3>4
    <3>2. j > 0
      BY <2>2, MovedItems
    <3> QED
      BY <1>1, <1>7, <2>2, <3>1, <3>2
  <2>3. CASE /\ y = b /\ j > Len(f[b]) /\ j \in Nat /\ j - Len(f[b]) <= m
             /\ j - Len(f[b]) \in DOMAIN f[a]
             /\ g[y][j] = f[a][j - Len(f[b])]
    <3>1. i - Len(f[b]) = j - Len(f[b])
      BY <1>1, <1>4, <1>7, <2>3
    <3> QED
      BY <1>1, <1>7, <2>3, <3>1
  <2> QED
    BY <1>3, <2>1, <2>2, <2>3
<1> QED
  BY <1>2, <1>5, <1>6, <1>7

(* What is not among the first t items of a but not the first m is kept.     *)
LEMMA MovedKeeps ==
    ASSUME NEW f, NEW g, NEW a, NEW b, NEW m, NEW t, Moves(f, g, a, b, m, t),
           NEW x \in Places, NEW i \in DOMAIN f[x], ~(x = a /\ i \in (m + 1)..t)
    PROVE  \E y \in Places : \E j \in DOMAIN g[y] : g[y][j] = f[x][i]
<1>1. CASE x \notin {a, b}
  BY <1>1, MovedItems
<1>2. CASE x = b
  <2>1. i \in 1..Len(f[b]) /\ i \in 1..(Len(f[b]) + m)
    BY <1>2, MovedItems
  <2> QED
    BY <1>2, <2>1, MovedItems
<1>3. CASE x = a
  <2>1. i \in 1..Len(f[a]) /\ i \in Nat /\ (i <= m \/ i > t)
    BY <1>3, MovedItems
  <2>2. CASE i > t
    <3>1. i - t \in 1..(Len(f[a]) - t) /\ (i - t) + t = i
      BY <2>1, <2>2, MovedItems
    <3>2. g[a][i - t] = f[a][i] /\ i - t \in DOMAIN g[a]
      BY <3>1, MovedItems
    <3> QED
      BY <1>3, <3>2, MovedItems
  <2>3. CASE i <= m
    <3>1. PICK q \in Nat : /\ q \in (Len(f[b]) + 1)..(Len(f[b]) + m)
                           /\ q \in 1..(Len(f[b]) + m)
                           /\ q - Len(f[b]) = i
      <4>1. /\ i + Len(f[b]) \in Nat
            /\ i + Len(f[b]) \in (Len(f[b]) + 1)..(Len(f[b]) + m)
            /\ i + Len(f[b]) \in 1..(Len(f[b]) + m)
            /\ (i + Len(f[b])) - Len(f[b]) = i
        BY <2>1, <2>3, MovedItems
      <4> QED
        BY <4>1
    <3>2. g[b][q] = f[a][i] /\ q \in DOMAIN g[b]
      BY <3>1, MovedItems, SMTT(60)
    <3> QED
      BY <1>3, <3>2, MovedItems
  <2> QED
    BY <2>1, <2>2, <2>3
<1> QED
  BY <1>1, <1>2, <1>3

LEMMA GrownFrom ==
    ASSUME NEW f, NEW g, NEW a, NEW r \in Item, Grows(f, g, a, r)
    PROVE  /\ a \in Places
           /\ Len(f[a]) \in Nat /\ DOMAIN f[a] = 1..Len(f[a])
           /\ \A x \in Places : \A i \in DOMAIN f[x] :
                    i \in DOMAIN g[x] /\ g[x][i] = f[x][i]
           /\ \A x \in Places : \A i \in DOMAIN g[x] :
                    \/ i \in DOMAIN f[x] /\ g[x][i] = f[x][i]
                    \/ x = a /\ i = Len(f[a]) + 1 /\ g[x][i] = r
           /\ Len(f[a]) + 1 \in DOMAIN g[a] /\ g[a][Len(f[a]) + 1] = r
<1>1. /\ a \in Places /\ g[a] = Append(f[a], r)
      /\ \A x \in Places \ {a} : g[x] = f[x]
  BY DEF Grows
<1>2. f[a] \in Seq(Item)
  BY <1>1 DEF Grows, IsStore
<1>3. /\ Len(f[a]) \in Nat /\ DOMAIN f[a] = 1..Len(f[a])
      /\ DOMAIN g[a] = 1..(Len(f[a]) + 1)
      /\ \A i \in 1..Len(f[a]) : g[a][i] = f[a][i]
      /\ g[a][Len(f[a]) + 1] = r
  BY <1>1, <1>2
<1>4. ASSUME NEW x \in Places, NEW i \in DOMAIN g[x]
      PROVE  \/ i \in DOMAIN f[x] /\ g[x][i] = f[x][i]
             \/ x = a /\ i = Len(f[a]) + 1 /\ g[x][i] = r
  <2>1. CASE x = a
    BY <1>3, <1>4, <2>1
  <2>2. CASE x # a
    BY <1>1, <1>4, <2>2
  <2> QED
    BY <2>1, <2>2
<1>5. ASSUME NEW x \in Places, NEW i \in DOMAIN f[x]
      PROVE  i \in DOMAIN g[x] /\ g[x][i] = f[x][i]
  <2>1. CASE x = a
    BY <1>3, <1>5, <2>1
  <2>2. CASE x # a
    BY <1>1, <1>5, <2>2
  <2> QED
    BY <2>1, <2>2
<1> QED
  BY <1>1, <1>3, <1>4, <1>5

LEMMA GrownDistinct ==
    ASSUME NEW f, NEW g, NEW a, NEW r \in Item, Grows(f, g, a, r), Distinct(f),
           r.k # 0 => \A y \in Places : \A j \in DOMAIN f[y] : f[y][j] # r
    PROVE  Distinct(g)
<1> SUFFICES ASSUME NEW x \in Places, NEW y \in Places,
                    NEW i \in DOMAIN g[x], NEW j \in DOMAIN g[y],
                    g[x][i] = g[y][j], g[x][i].k # 0
             PROVE  x = y /\ i = j
  BY DEF Distinct
<1>1. \/ i \in DOMAIN f[x] /\ g[x][i] = f[x][i]
      \/ x = a /\ i = Len(f[a]) + 1 /\ g[x][i] = r
  BY GrownFrom
<1>2. \/ j \in DOMAIN f[y] /\ g[y][j] = f[y][j]
      \/ y = a /\ j = Len(f[a]) + 1 /\ g[y][j] = r
  BY GrownFrom
<1>3. \A u, v \in Places : \A p \in DOMAIN f[u], q \in DOMAIN f[v] :
            f[u][p] = f[v][q] /\ f[u][p].k # 0 => u = v /\ p = q
  BY DEF Distinct
<1> QED
  BY <1>1, <1>2, <1>3

-----------------------------------------------------------------------------
(* The order of the items of a connection.                                   *)

(* How far a place is from the peer that gets the responses.                 *)
Rank(x) == CASE x[1] = "got" -> 1
             [] x[1] = "kbuf" -> 2
             [] x[1] = "sendBuf" -> 3
             [] x[1] = "batch" -> 4
             [] x[1] = "respQ" -> 5
             [] x[1] = "cur" -> 6
             [] x[1] = "rq" -> 7
             [] x[1] = "reqQ" -> 8
             [] x[1] = "recvBuf" -> 9
             [] x[1] = "inbound" -> 10

(* A request or a response in a place that is not a foreign connection's.    *)
InPipe(x, r) ==
    /\ r.k # 0
    /\ x[1] \in {"inbound", "recvBuf", "sendBuf", "kbuf", "got"} => x[2] = r.conn

Before(x, y) == Rank(x) < Rank(y)

Precedes(x, i, y, j) == Before(x, y) \/ (x = y /\ i < j)

(* The items of a connection stand in the order of their numbers.            *)
Ordered(f) ==
    \A x, y \in Places : \A i \in DOMAIN f[x], j \in DOMAIN f[y] :
        /\ f[x][i].conn = f[y][j].conn
        /\ InPipe(x, f[x][i]) /\ InPipe(y, f[y][j])
        /\ Precedes(x, i, y, j)
        => f[x][i].k < f[y][j].k

(* No item of the connection of r stands between b and a, or beside a.       *)
Clear(f, a, b, r) ==
    \A z \in Places \ {a} : \A j \in DOMAIN f[z] :
        Before(b, z) /\ ~Before(a, z) /\ f[z][j].conn = r.conn =>
            ~InPipe(z, f[z][j])

(* The ranks, place by place, and what follows for every place.              *)
LEMMA PlaceKinds ==
    \A x \in Places :
        \/ \E c \in Conn : x \in {<<"inbound", c>>, <<"recvBuf", c>>,
                                  <<"sendBuf", c>>, <<"kbuf", c>>, <<"got", c>>}
        \/ \E n \in Net : x \in {<<"respQ", n>>, <<"batch", n>>}
        \/ \E h \in Handle : x \in {<<"rq", h>>, <<"cur", h>>}
        \/ x = <<"reqQ", Acceptor>>
BY DEF Places

LEMMA ArePlaces ==
    /\ \A c \in Conn : {<<"inbound", c>>, <<"recvBuf", c>>, <<"sendBuf", c>>,
                        <<"kbuf", c>>, <<"got", c>>} \subseteq Places
    /\ \A n \in Net : <<"respQ", n>> \in Places /\ <<"batch", n>> \in Places
    /\ \A h \in Handle : <<"rq", h>> \in Places /\ <<"cur", h>> \in Places
    /\ <<"reqQ", Acceptor>> \in Places
BY DEF Places

LEMMA RankIs ==
    ASSUME NEW x
    PROVE  /\ x[1] = "got" => Rank(x) = 1
           /\ x[1] = "kbuf" => Rank(x) = 2
           /\ x[1] = "sendBuf" => Rank(x) = 3
           /\ x[1] = "batch" => Rank(x) = 4
           /\ x[1] = "respQ" => Rank(x) = 5
           /\ x[1] = "cur" => Rank(x) = 6
           /\ x[1] = "rq" => Rank(x) = 7
           /\ x[1] = "reqQ" => Rank(x) = 8
           /\ x[1] = "recvBuf" => Rank(x) = 9
           /\ x[1] = "inbound" => Rank(x) = 10
BY DEF Rank

LEMMA RankType ==
    ASSUME NEW x \in Places
    PROVE  Rank(x) \in Nat /\ Rank(x) <= 10
<1>1. x[1] \in {"inbound", "recvBuf", "sendBuf", "kbuf", "got", "respQ", "batch",
                "rq", "cur", "reqQ"}
  BY PlaceKinds
<1>2. Rank(x) \in 1..10
  BY <1>1, RankIs
<1> QED
  BY <1>2

LEMMA MovedOrdered ==
    ASSUME NEW f, NEW g, NEW a, NEW b, NEW m, NEW t, Moves(f, g, a, b, m, t),
           Ordered(f), Before(b, a) \/ m = 0,
           \A i \in 1..m : InPipe(b, f[a][i]) =>
                InPipe(a, f[a][i]) /\ Clear(f, a, b, f[a][i])
    PROVE  Ordered(g)
<1> SUFFICES ASSUME NEW x \in Places, NEW y \in Places,
                    NEW i \in DOMAIN g[x], NEW j \in DOMAIN g[y],
                    g[x][i].conn = g[y][j].conn,
                    InPipe(x, g[x][i]), InPipe(y, g[y][j]),
                    Precedes(x, i, y, j)
             PROVE  g[x][i].k < g[y][j].k
  BY DEF Ordered
<1>1. /\ a \in Places /\ b \in Places /\ a # b
      /\ t \in Nat /\ m \in Nat /\ m <= t /\ Len(f[b]) \in Nat
  BY MovedItems
<1>2. \A u, v, w \in Places : /\ Before(u, v) /\ Before(v, w) => Before(u, w)
                             /\ ~Before(u, u)
  <2>1. \A u \in Places : Rank(u) \in Nat
    BY RankType
  <2> QED
    BY <2>1 DEF Before
<1>3. \A u, v \in Places : \A p \in DOMAIN f[u], q \in DOMAIN f[v] :
        /\ f[u][p].conn = f[v][q].conn
        /\ InPipe(u, f[u][p]) /\ InPipe(v, f[v][q])
        /\ Precedes(u, p, v, q)
        => f[u][p].k < f[v][q].k
  BY DEF Ordered
<1>9. /\ \A u, v : \A p, q \in Nat : Before(u, v) => Precedes(u, p, v, q)
      /\ \A u : \A p, q \in Nat : p < q => Precedes(u, p, u, q)
  <2>1. \A u, v : \A p, q \in Nat : Before(u, v) => Precedes(u, p, v, q)
    BY DEF Precedes
  <2>2. \A u : \A p, q \in Nat : p < q => Precedes(u, p, u, q)
    BY DEF Precedes
  <2> QED
    BY <2>1, <2>2
<1>11. \A u \in Places : \A p \in DOMAIN f[u] : p \in Nat
  BY DEF Moves, IsStore
<1>10. Before(x, y) \/ (x = y /\ i < j)
  BY DEF Precedes
<1>4. \/ /\ x # a /\ i \in DOMAIN f[x] /\ g[x][i] = f[x][i]
         /\ x = b => i <= Len(f[b])
      \/ /\ x = a /\ i \in Nat
         /\ i + t \in DOMAIN f[a] /\ g[x][i] = f[a][i + t]
      \/ /\ x = b /\ i > Len(f[b]) /\ i \in Nat /\ i - Len(f[b]) <= m
         /\ i - Len(f[b]) \in DOMAIN f[a]
         /\ g[x][i] = f[a][i - Len(f[b])]
  BY MovedFrom
<1>5. \/ /\ y # a /\ j \in DOMAIN f[y] /\ g[y][j] = f[y][j]
         /\ y = b => j <= Len(f[b])
      \/ /\ y = a /\ j \in Nat
         /\ j + t \in DOMAIN f[a] /\ g[y][j] = f[a][j + t]
      \/ /\ y = b /\ j > Len(f[b]) /\ j \in Nat /\ j - Len(f[b]) <= m
         /\ j - Len(f[b]) \in DOMAIN f[a]
         /\ g[y][j] = f[a][j - Len(f[b])]
  BY MovedFrom
<1>6. CASE /\ x # a /\ i \in DOMAIN f[x] /\ g[x][i] = f[x][i]
           /\ x = b => i <= Len(f[b])
  <2>1. CASE y # a /\ j \in DOMAIN f[y] /\ g[y][j] = f[y][j]
    BY <1>3, <1>6, <2>1
  <2>2. CASE y = a /\ j \in Nat /\ j + t \in DOMAIN f[a] /\ g[y][j] = f[a][j + t]
    <3> DEFINE q == j + t
    <3>1. q \in DOMAIN f[a] /\ g[y][j] = f[a][q] /\ Before(x, a)
      BY <1>6, <1>10, <2>2
    <3> HIDE DEF q
    <3>2. i \in DOMAIN f[x] /\ InPipe(x, f[x][i]) /\ InPipe(a, f[a][q])
          /\ f[x][i].conn = f[a][q].conn
      BY <1>6, <2>2, <3>1
    <3>3. f[x][i].k < f[a][q].k
      BY <1>1, <1>3, <1>9, <1>11, <3>1, <3>2
    <3> QED
      BY <1>6, <3>1, <3>3
  <2>3. CASE /\ y = b /\ j > Len(f[b]) /\ j \in Nat /\ j - Len(f[b]) <= m
             /\ j - Len(f[b]) \in DOMAIN f[a]
             /\ g[y][j] = f[a][j - Len(f[b])]
    <3> DEFINE q == j - Len(f[b])
    <3>1. q \in 1..m /\ q \in DOMAIN f[a] /\ g[y][j] = f[a][q]
      BY <1>1, <2>3
    <3> HIDE DEF q
    <3>2. InPipe(a, f[a][q])
      BY <2>3, <3>1
    <3>3. Before(x, a)
      BY <1>1, <1>2, <1>10, <2>3, <3>1
    <3>4. i \in DOMAIN f[x] /\ q \in DOMAIN f[a] /\ InPipe(x, f[x][i])
          /\ f[x][i].conn = f[a][q].conn
      BY <1>6, <3>1
    <3>5. f[x][i].k < f[a][q].k
      BY <1>1, <1>3, <1>9, <1>11, <3>2, <3>3, <3>4
    <3> QED
      BY <1>6, <3>1, <3>5
  <2> QED
    BY <1>5, <2>1, <2>2, <2>3
<1>7. CASE /\ x = a /\ i \in Nat
           /\ i + t \in DOMAIN f[a] /\ g[x][i] = f[a][i + t]
  <2>1. CASE y # a /\ j \in DOMAIN f[y] /\ g[y][j] = f[y][j]
    <3> DEFINE p == i + t
    <3>1. p \in DOMAIN f[a] /\ g[x][i] = f[a][p] /\ Before(a, y)
      BY <1>7, <1>10, <2>1
    <3> HIDE DEF p
    <3>2. InPipe(a, f[a][p]) /\ InPipe(y, f[y][j]) /\ f[a][p].conn = f[y][j].conn
      BY <1>7, <2>1, <3>1
    <3>3. j \in DOMAIN f[y] /\ p \in DOMAIN f[a] /\ Before(a, y)
      BY <2>1, <3>1
    <3>4. f[a][p].k < f[y][j].k
      BY <1>1, <1>3, <1>9, <1>11, <3>2, <3>3
    <3> QED
      BY <2>1, <3>1, <3>4
  <2>2. CASE y = a /\ j \in Nat /\ j + t \in DOMAIN f[a] /\ g[y][j] = f[a][j + t]
    <3> DEFINE p == i + t
               q == j + t
    <3>1. /\ p \in DOMAIN f[a] /\ g[x][i] = f[a][p]
          /\ q \in DOMAIN f[a] /\ g[y][j] = f[a][q] /\ p < q
          /\ p \in Nat /\ q \in Nat
      BY <1>1, <1>2, <1>7, <1>10, <2>2
    <3> HIDE DEF p, q
    <3> QED
      BY <1>1, <1>3, <1>7, <1>9, <2>2, <3>1
  <2>3. CASE y = b /\ j > Len(f[b]) /\ j \in Nat /\ j - Len(f[b]) <= m
    <3>1. m # 0
      BY <1>1, <2>3
    <3> QED
      BY <1>1, <1>2, <1>7, <1>10, <2>3, <3>1
  <2> QED
    BY <1>5, <2>1, <2>2, <2>3
<1>8. CASE /\ x = b /\ i > Len(f[b]) /\ i \in Nat /\ i - Len(f[b]) <= m
           /\ i - Len(f[b]) \in DOMAIN f[a]
           /\ g[x][i] = f[a][i - Len(f[b])]
  <2> DEFINE p == i - Len(f[b])
  <2>1. p \in 1..m /\ p \in DOMAIN f[a] /\ g[x][i] = f[a][p] /\ p \in Nat
    BY <1>1, <1>8
  <2>2. InPipe(a, f[a][p]) /\ Clear(f, a, b, f[a][p])
    <3> HIDE DEF p
    <3> QED
      BY <1>8, <2>1
  <2>3. CASE /\ y # a /\ j \in DOMAIN f[y] /\ g[y][j] = f[y][j]
             /\ y = b => j <= Len(f[b])
    <3>1. y # b
      <4>1. j \in Nat \/ y # b
        BY <2>3, MovedItems
      <4> QED
        BY <1>1, <1>2, <1>8, <1>10, <2>3, <4>1
    <3>2. Before(b, y)
      BY <1>8, <1>10, <3>1
    <3> HIDE DEF p
    <3>4. Before(a, y)
      BY <2>1, <2>2, <2>3, <3>2 DEF Clear
        <3>5. InPipe(y, f[y][j]) /\ f[a][p].conn = f[y][j].conn
          /\ j \in DOMAIN f[y] /\ p \in DOMAIN f[a] /\ InPipe(a, f[a][p])
      BY <2>1, <2>2, <2>3
    <3>6. f[a][p].k < f[y][j].k
      BY <1>1, <1>3, <1>9, <1>11, <3>4, <3>5
    <3> QED
      BY <2>1, <2>3, <3>6
  <2>4. CASE y = a /\ j \in Nat /\ j + t \in DOMAIN f[a] /\ g[y][j] = f[a][j + t]
    <3> DEFINE q == j + t
    <3>1. /\ q \in DOMAIN f[a] /\ g[y][j] = f[a][q] /\ p < q
          /\ p \in Nat /\ q \in Nat
      <4>1. j > 0
        BY <2>4, MovedItems
      <4> QED
        BY <1>1, <2>1, <2>4, <4>1
    <3> HIDE DEF p, q
    <3> QED
      BY <1>1, <1>3, <1>9, <1>11, <2>1, <2>2, <2>4, <3>1
  <2>5. CASE /\ y = b /\ j > Len(f[b]) /\ j \in Nat /\ j - Len(f[b]) <= m
             /\ j - Len(f[b]) \in DOMAIN f[a]
             /\ g[y][j] = f[a][j - Len(f[b])]
    <3> DEFINE q == j - Len(f[b])
    <3>1. /\ q \in 1..m /\ q \in DOMAIN f[a] /\ g[y][j] = f[a][q] /\ p < q
      BY <1>1, <1>2, <1>8, <1>10, <2>5
    <3> HIDE DEF p, q
    <3>2. InPipe(a, f[a][q])
      BY <2>5, <3>1
    <3> QED
      BY <1>1, <1>3, <1>9, <1>11, <2>1, <2>2, <3>1, <3>2
  <2> QED
    BY <1>5, <2>3, <2>4, <2>5
<1> QED
  BY <1>4, <1>6, <1>7, <1>8

LEMMA GrownOrdered ==
    ASSUME NEW f, NEW g, NEW a, NEW r \in Item, Grows(f, g, a, r), Ordered(f),
           r.k # 0 =>
              /\ \A y \in Places : ~Before(a, y)
              /\ \A y \in Places : \A j \in DOMAIN f[y] :
                    f[y][j].conn = r.conn => f[y][j].k < r.k
    PROVE  Ordered(g)
<1> SUFFICES ASSUME NEW x \in Places, NEW y \in Places,
                    NEW i \in DOMAIN g[x], NEW j \in DOMAIN g[y],
                    g[x][i].conn = g[y][j].conn,
                    InPipe(x, g[x][i]), InPipe(y, g[y][j]),
                    Precedes(x, i, y, j)
             PROVE  g[x][i].k < g[y][j].k
  BY DEF Ordered
<1>1. a \in Places /\ Len(f[a]) \in Nat /\ DOMAIN f[a] = 1..Len(f[a])
  BY GrownFrom
<1>3. \A u, v \in Places : \A p \in DOMAIN f[u], q \in DOMAIN f[v] :
        /\ f[u][p].conn = f[v][q].conn
        /\ InPipe(u, f[u][p]) /\ InPipe(v, f[v][q])
        /\ Precedes(u, p, v, q)
        => f[u][p].k < f[v][q].k
  BY DEF Ordered
<1>4. \/ i \in DOMAIN f[x] /\ g[x][i] = f[x][i]
      \/ x = a /\ i = Len(f[a]) + 1 /\ g[x][i] = r
  BY GrownFrom
<1>5. \/ j \in DOMAIN f[y] /\ g[y][j] = f[y][j]
      \/ y = a /\ j = Len(f[a]) + 1 /\ g[y][j] = r
  BY GrownFrom
<1>6. CASE i \in DOMAIN f[x] /\ g[x][i] = f[x][i]
  <2>1. CASE j \in DOMAIN f[y] /\ g[y][j] = f[y][j]
    BY <1>3, <1>6, <2>1
  <2>2. CASE y = a /\ j = Len(f[a]) + 1 /\ g[y][j] = r
    <3>1. r.k # 0
      BY <2>2 DEF InPipe
    <3> QED
      BY <1>6, <2>2, <3>1
  <2> QED
    BY <1>5, <2>1, <2>2
<1>7. CASE x = a /\ i = Len(f[a]) + 1 /\ g[x][i] = r
  <2>1. r.k # 0
    BY <1>7 DEF InPipe
  <2>2. ~Before(x, y)
    BY <1>7, <2>1
  <2>3. y = a /\ i < j
    BY <1>7, <2>2 DEF Precedes
  <2>4. j \in 1..Len(f[a]) \/ j = Len(f[a]) + 1
    BY <1>1, <1>5, <2>3
  <2> QED
    BY <1>1, <1>7, <2>3, <2>4
<1> QED
  BY <1>4, <1>6, <1>7

-----------------------------------------------------------------------------
(* The places of the server as such a function.                              *)

Store == [x \in Places |-> Contents(x)]

StoreParts ==
    /\ \A c \in Conn : /\ Store[<<"inbound", c>>] = inbound[c]
                       /\ Store[<<"recvBuf", c>>] = recvBuf[c]
                       /\ Store[<<"sendBuf", c>>] = sendBuf[c]
                       /\ Store[<<"kbuf", c>>] = kbuf[c]
                       /\ Store[<<"got", c>>] = got[c]
    /\ \A n \in Net : /\ Store[<<"respQ", n>>] = Responses(respQ[n])
                      /\ Store[<<"batch", n>>] = Responses(batch[n])
    /\ \A h \in Handle :
        /\ Store[<<"rq", h>>] = rq[h]
        /\ Store[<<"cur", h>>] = IF cur[h] = NoReq THEN <<>> ELSE <<cur[h]>>
    /\ Store[<<"reqQ", Acceptor>>] = reqQ

LEMMA StoreAt == StoreParts
<1>1. ASSUME NEW c \in Conn
      PROVE  /\ Store[<<"inbound", c>>] = inbound[c]
             /\ Store[<<"recvBuf", c>>] = recvBuf[c]
             /\ Store[<<"sendBuf", c>>] = sendBuf[c]
             /\ Store[<<"kbuf", c>>] = kbuf[c]
             /\ Store[<<"got", c>>] = got[c]
  <2>1. Store[<<"inbound", c>>] = inbound[c]
    BY ArePlaces DEF Store, Contents
  <2>2. Store[<<"recvBuf", c>>] = recvBuf[c]
    BY ArePlaces DEF Store, Contents
  <2>3. Store[<<"sendBuf", c>>] = sendBuf[c]
    BY ArePlaces DEF Store, Contents
  <2>4. Store[<<"kbuf", c>>] = kbuf[c]
    BY ArePlaces DEF Store, Contents
  <2>5. Store[<<"got", c>>] = got[c]
    BY ArePlaces DEF Store, Contents
  <2> QED
    BY <2>1, <2>2, <2>3, <2>4, <2>5
<1>2. ASSUME NEW n \in Net
      PROVE  /\ Store[<<"respQ", n>>] = Responses(respQ[n])
             /\ Store[<<"batch", n>>] = Responses(batch[n])
  BY ArePlaces DEF Store, Contents
<1>3. ASSUME NEW h \in Handle
      PROVE  /\ Store[<<"rq", h>>] = rq[h]
             /\ Store[<<"cur", h>>] = IF cur[h] = NoReq THEN <<>> ELSE <<cur[h]>>
  BY ArePlaces DEF Store, Contents
<1>4. Store[<<"reqQ", Acceptor>>] = reqQ
  BY ArePlaces DEF Store, Contents
<1> QED
  BY <1>1, <1>2, <1>3, <1>4 DEF StoreParts

LEMMA StoreAtNext == StoreParts'
BY StoreAt, PTL

(* The items of a queue of tasks.                                            *)
LEMMA ResponsesAre ==
    ASSUME NEW s \in Seq(Task)
    PROVE  /\ Responses(s) \in Seq(Item)
           /\ Len(Responses(s)) = Len(s)
           /\ DOMAIN Responses(s) = DOMAIN s
           /\ \A i \in DOMAIN s :
                /\ s[i].type = "net" => Responses(s)[i] = s[i].pkg
                /\ s[i].type = "add" =>
                        Responses(s)[i] = [conn |-> s[i].conn, k |-> 0]
                /\ s[i].type \in {"net", "add"}
                /\ s[i].type = "add" <=> Responses(s)[i].k = 0
<1>1. \A i \in DOMAIN s : s[i] \in NetTask \/ s[i] \in AddTask
  BY DEF Task
<1>2. MaxReq \in Nat
  BY ServerAssumption DEF ServerAssumption
<1>3. \A i \in DOMAIN s :
        /\ s[i].type = "net" => s[i].pkg \in Item /\ s[i].pkg.k # 0
        /\ s[i].type = "add" => [conn |-> s[i].conn, k |-> 0] \in Item
        /\ s[i].type \in {"net", "add"}
  BY <1>1, <1>2 DEF NetTask, AddTask, Item, Package
<1>4. DOMAIN Responses(s) = DOMAIN s
  BY DEF Responses
<1>5. \A i \in DOMAIN s :
        /\ s[i].type = "net" => Responses(s)[i] = s[i].pkg
        /\ s[i].type = "add" => Responses(s)[i] = [conn |-> s[i].conn, k |-> 0]
  BY DEF Responses
<1>6. \A i \in DOMAIN s : Responses(s)[i] \in Item
  BY <1>3, <1>5
<1>7. Responses(s) \in [1..Len(s) -> Item] /\ Len(s) \in Nat
  <2>1. Responses(s) = [i \in DOMAIN s |-> Responses(s)[i]]
    BY DEF Responses
  <2>2. DOMAIN s = 1..Len(s)
    OBVIOUS
  <2> QED
    BY <1>6, <2>1, <2>2
<1>8. Responses(s) \in Seq(Item) /\ Len(Responses(s)) = Len(s)
  <2> DEFINE r == Responses(s)
  <2>1. r \in Seq(Item)
    BY <1>7, SeqDef
  <2>2. DOMAIN r = 1..Len(s)
    BY <1>4
  <2> HIDE DEF r
  <2>3. DOMAIN r = 1..Len(r) /\ Len(r) \in Nat
    BY <2>1
  <2>4. \A i \in Nat : i \in 1..Len(r) <=> i \in 1..Len(s)
    BY <2>2, <2>3
  <2>5. ~(Len(r) < Len(s)) /\ ~(Len(s) < Len(r))
    BY <1>7, <2>3, <2>4
  <2>6. Len(r) = Len(s)
    BY <1>7, <2>3, <2>5
  <2>7. r \in Seq(Item) /\ Len(r) = Len(s)
    BY <2>1, <2>6
  <2> QED
    BY <2>7, Zenon DEF r
<1>9. ASSUME NEW i \in DOMAIN s
      PROVE  s[i].type = "add" <=> Responses(s)[i].k = 0
  <2>1. CASE s[i].type = "add"
    <3>1. Responses(s)[i] = [conn |-> s[i].conn, k |-> 0]
      BY <1>5, <2>1
    <3>2. Responses(s)[i].k = 0
      <4>1. \A d, r : r = [conn |-> d, k |-> 0] => r.k = 0
        OBVIOUS
      <4> QED
        BY <3>1, <4>1, Zenon
    <3> QED
      BY <2>1, <3>2
  <2>2. CASE s[i].type = "net"
    <3>1. Responses(s)[i] = s[i].pkg /\ s[i].pkg.k # 0
      BY <1>3, <1>5, <2>2
    <3> QED
      BY <2>2, <3>1
  <2> QED
    BY <1>3, <2>1, <2>2
<1> QED
  BY <1>3, <1>4, <1>5, <1>8, <1>9

LEMMA PackagesAreItems ==
    /\ Request = Package
    /\ \A r \in Package : r \in Item /\ r.k # 0 /\ r.k \in Nat /\ r.conn \in Conn
    /\ \A s \in Seq(Package) : s \in Seq(Item)
<1>1. MaxReq \in Nat
  BY ServerAssumption DEF ServerAssumption
<1>2. \A r \in Package : r \in Item /\ r.k # 0 /\ r.k \in Nat /\ r.conn \in Conn
  BY <1>1 DEF Package, Item
<1>3. \A s \in Seq(Package) : s \in Seq(Item)
  BY <1>2
<1> QED
  BY <1>2, <1>3 DEF Request, Package

LEMMA StoreType ==
    ASSUME TypeOK
    PROVE  IsStore(Store)
<1>1. ASSUME NEW x \in Places
      PROVE  Store[x] \in Seq(Item)
  <2>1. ASSUME NEW c \in Conn
        PROVE  /\ inbound[c] \in Seq(Item) /\ recvBuf[c] \in Seq(Item)
               /\ sendBuf[c] \in Seq(Item) /\ kbuf[c] \in Seq(Item)
               /\ got[c] \in Seq(Item)
    <3>1. /\ inbound[c] \in Seq(Request) /\ recvBuf[c] \in Seq(Request)
          /\ sendBuf[c] \in Seq(Package) /\ kbuf[c] \in Seq(Package)
          /\ got[c] \in Seq(Package)
      BY DEF TypeOK, PeersTypeOK, ConnsTypeOK
    <3> QED
      BY <3>1, PackagesAreItems
  <2>2. ASSUME NEW n \in Net
        PROVE  /\ Responses(respQ[n]) \in Seq(Item)
               /\ Responses(batch[n]) \in Seq(Item)
    BY ResponsesAre DEF TypeOK, NetTypeOK
  <2>3. ASSUME NEW h \in Handle
        PROVE  /\ rq[h] \in Seq(Item)
               /\ (IF cur[h] = NoReq THEN <<>> ELSE <<cur[h]>>) \in Seq(Item)
    <3>1. rq[h] \in Seq(Request) /\ cur[h] \in Request \cup {NoReq}
      BY DEF TypeOK, HandlesTypeOK
    <3>2. cur[h] = NoReq \/ cur[h] \in Item
      BY <3>1, PackagesAreItems
    <3>3. (IF cur[h] = NoReq THEN <<>> ELSE <<cur[h]>>) \in Seq(Item)
      BY <3>2
    <3> QED
      BY <3>1, <3>3, PackagesAreItems
  <2>4. reqQ \in Seq(Item)
    BY PackagesAreItems DEF TypeOK, HandlesTypeOK
  <2>5. CASE \E c \in Conn : x \in {<<"inbound", c>>, <<"recvBuf", c>>,
                                    <<"sendBuf", c>>, <<"kbuf", c>>, <<"got", c>>}
    BY <2>1, <2>5, StoreAt, ZenonT(60) DEF StoreParts
  <2>6. CASE \E n \in Net : x \in {<<"respQ", n>>, <<"batch", n>>}
    BY <2>2, <2>6, StoreAt DEF StoreParts
  <2>7. CASE \E h \in Handle : x \in {<<"rq", h>>, <<"cur", h>>}
    <3>1. PICK h \in Handle : x = <<"rq", h>> \/ x = <<"cur", h>>
      BY <2>7
    <3>2. CASE x = <<"rq", h>>
      BY <2>3, <3>2, StoreAt DEF StoreParts
    <3>3. CASE x = <<"cur", h>>
      BY <2>3, <3>3, StoreAt DEF StoreParts
    <3> QED
      BY <3>1, <3>2, <3>3
  <2>8. CASE x = <<"reqQ", Acceptor>>
    BY <2>4, <2>8, StoreAt DEF StoreParts
  <2> QED
    BY <2>5, <2>6, <2>7, <2>8, PlaceKinds
<1>2. Store = [x \in Places |-> Store[x]]
  BY DEF Store
<1> QED
  BY <1>1, <1>2 DEF IsStore

(* Nothing changes outside of two places.                                    *)
OnlyAt(a, b) ==
    /\ \A c \in Conn :
        /\ <<"inbound", c>> \in {a, b} \/ inbound'[c] = inbound[c]
        /\ <<"recvBuf", c>> \in {a, b} \/ recvBuf'[c] = recvBuf[c]
        /\ <<"sendBuf", c>> \in {a, b} \/ sendBuf'[c] = sendBuf[c]
        /\ <<"kbuf", c>> \in {a, b} \/ kbuf'[c] = kbuf[c]
        /\ <<"got", c>> \in {a, b} \/ got'[c] = got[c]
    /\ \A n \in Net :
        /\ <<"respQ", n>> \in {a, b} \/ respQ'[n] = respQ[n]
        /\ <<"batch", n>> \in {a, b} \/ batch'[n] = batch[n]
    /\ \A h \in Handle :
        /\ <<"rq", h>> \in {a, b} \/ rq'[h] = rq[h]
        /\ <<"cur", h>> \in {a, b} \/ cur'[h] = cur[h]
    /\ <<"reqQ", Acceptor>> \in {a, b} \/ reqQ' = reqQ

LEMMA Frame ==
    ASSUME NEW a, NEW b, OnlyAt(a, b)
    PROVE  \A x \in Places \ {a, b} : Store'[x] = Store[x]
<1> SUFFICES ASSUME NEW x \in Places \ {a, b}
             PROVE  Store'[x] = Store[x]
  OBVIOUS
<1>2. CASE \E c \in Conn : x \in {<<"inbound", c>>, <<"recvBuf", c>>,
                                  <<"sendBuf", c>>, <<"kbuf", c>>, <<"got", c>>}
  <2>1. PICK c \in Conn : x \in {<<"inbound", c>>, <<"recvBuf", c>>,
                                 <<"sendBuf", c>>, <<"kbuf", c>>, <<"got", c>>}
    BY <1>2
  <2>2. CASE x = <<"inbound", c>>
    BY <2>2, StoreAt, StoreAtNext DEF StoreParts, OnlyAt
  <2>3. CASE x = <<"recvBuf", c>>
    BY <2>3, StoreAt, StoreAtNext DEF StoreParts, OnlyAt
  <2>4. CASE x = <<"sendBuf", c>>
    BY <2>4, StoreAt, StoreAtNext DEF StoreParts, OnlyAt
  <2>5. CASE x = <<"kbuf", c>>
    BY <2>5, StoreAt, StoreAtNext DEF StoreParts, OnlyAt
  <2>6. CASE x = <<"got", c>>
    BY <2>6, StoreAt, StoreAtNext DEF StoreParts, OnlyAt
  <2> QED
    BY <2>1, <2>2, <2>3, <2>4, <2>5, <2>6
<1>3. CASE \E n \in Net : x \in {<<"respQ", n>>, <<"batch", n>>}
  <2>1. PICK n \in Net : x = <<"respQ", n>> \/ x = <<"batch", n>>
    BY <1>3
  <2>2. CASE x = <<"respQ", n>>
    <3>1. respQ'[n] = respQ[n]
      BY <2>2 DEF OnlyAt
    <3>2. Store[x] = Responses(respQ[n]) /\ Store'[x] = Responses(respQ[n])'
      BY <2>2, StoreAt, StoreAtNext DEF StoreParts
    <3> QED
      BY <3>1, <3>2 DEF Responses
  <2>3. CASE x = <<"batch", n>>
    <3>1. batch'[n] = batch[n]
      BY <2>3 DEF OnlyAt
    <3>2. Store[x] = Responses(batch[n]) /\ Store'[x] = Responses(batch[n])'
      BY <2>3, StoreAt, StoreAtNext DEF StoreParts
    <3> QED
      BY <3>1, <3>2 DEF Responses
  <2> QED
    BY <2>1, <2>2, <2>3
<1>4. CASE \E h \in Handle : x \in {<<"rq", h>>, <<"cur", h>>}
  <2>1. PICK h \in Handle : x = <<"rq", h>> \/ x = <<"cur", h>>
    BY <1>4
  <2>2. CASE x = <<"rq", h>>
    <3>1. rq'[h] = rq[h]
      BY <2>2 DEF OnlyAt
    <3> QED
      BY <2>2, <3>1, StoreAt, StoreAtNext DEF StoreParts
  <2>3. CASE x = <<"cur", h>>
    <3>1. cur'[h] = cur[h]
      BY <2>3 DEF OnlyAt
    <3>2. CASE cur[h] = NoReq
      BY <2>3, <3>1, <3>2, StoreAt, StoreAtNext DEF StoreParts
    <3>3. CASE cur[h] # NoReq
      <4>1. Store[x] = <<cur[h]>>
        BY <2>3, <3>3, StoreAt DEF StoreParts
      <4>2. Store'[x] = <<cur'[h]>>
        BY <2>3, <3>1, <3>3, StoreAtNext DEF StoreParts
      <4> QED
        BY <3>1, <4>1, <4>2
    <3> QED
      BY <3>2, <3>3
  <2> QED
    BY <2>1, <2>2, <2>3
<1>5. CASE x = <<"reqQ", Acceptor>>
  BY <1>5, StoreAt, StoreAtNext DEF StoreParts, OnlyAt
<1> QED
  BY <1>2, <1>3, <1>4, <1>5, PlaceKinds

-----------------------------------------------------------------------------
(* The moves the threads make.                                               *)

LEMMA TailIsRest ==
    ASSUME NEW S, NEW s \in Seq(S), s # <<>>
    PROVE  /\ Len(s) \in Nat /\ 1 \in 0..Len(s) /\ 1 \in DOMAIN s
           /\ Head(s) = s[1] /\ Head(s) \in S
           /\ Tail(s) = SubSeq(s, 2, Len(s))
           /\ SubSeq(s, 1, 1) = <<Head(s)>>
<1>1. Len(s) \in Nat /\ 1 \in 0..Len(s) /\ 1 \in DOMAIN s
  OBVIOUS
<1>2. Head(s) = s[1] /\ Head(s) \in S
  BY <1>1
<1>3. Tail(s) = SubSeq(s, 2, Len(s))
  OBVIOUS
<1>4. SubSeq(s, 1, 1) = <<s[1]>>
  <2> DEFINE q == SubSeq(s, 1, 1)
  <2>1. q \in Seq(S) /\ Len(q) = 1 /\ q[1] = s[1]
    BY <1>1
  <2>2. <<s[1]>> \in Seq(S) /\ Len(<<s[1]>>) = 1 /\ <<s[1]>>[1] = s[1]
    BY <1>2
  <2> HIDE DEF q
  <2>3. \A i \in 1..1 : q[i] = <<s[1]>>[i]
    BY <2>1, <2>2
  <2>4. q = <<s[1]>>
    BY <2>1, <2>2, <2>3, SeqEqual
  <2> QED
    BY <2>4 DEF q
<1> QED
  BY <1>1, <1>2, <1>3, <1>4

LEMMA NothingToMove ==
    ASSUME NEW S, NEW s \in Seq(S), NEW q \in Seq(S)
    PROVE  /\ SubSeq(q, 1, 0) = <<>> /\ s \o <<>> = s
           /\ SubSeq(q, 1, Len(q)) = q /\ SubSeq(q, Len(q) + 1, Len(q)) = <<>>
           /\ <<>> \o q = q
<1>1. SubSeq(q, 1, 0) = <<>>
  OBVIOUS
<1>2. s \o <<>> = s /\ <<>> \o q = q
  OBVIOUS
<1>3. SubSeq(q, 1, Len(q)) = q
  OBVIOUS
<1>4. SubSeq(q, Len(q) + 1, Len(q)) = <<>>
  OBVIOUS
<1> QED
  BY <1>1, <1>2, <1>3, <1>4

LEMMA MovesOne ==
    ASSUME NEW f, NEW g, NEW a \in Places, NEW b \in Places, IsStore(f), a # b,
           f[a] # <<>>, g[a] = Tail(f[a]), g[b] = Append(f[b], Head(f[a])),
           \A x \in Places \ {a, b} : g[x] = f[x]
    PROVE  Moves(f, g, a, b, 1, 1) /\ Head(f[a]) = f[a][1]
<1>1. f[a] \in Seq(Item) /\ f[b] \in Seq(Item)
  BY DEF IsStore
<1>2. 1 \in 0..Len(f[a]) /\ 1 \in 0..1
  BY <1>1, TailIsRest
<1>3. g[a] = SubSeq(f[a], 1 + 1, Len(f[a])) /\ Head(f[a]) \in Item
      /\ Head(f[a]) = f[a][1]
  BY <1>1, TailIsRest
<1>4. g[b] = f[b] \o SubSeq(f[a], 1, 1)
  BY <1>1, <1>3, TailIsRest, AppendIsConcat
<1> QED
  BY <1>2, <1>3, <1>4 DEF Moves

LEMMA MovesAway ==
    ASSUME NEW f, NEW g, NEW a \in Places, NEW b \in Places, IsStore(f), a # b,
           f[a] # <<>>, g[a] = Tail(f[a]),
           \A x \in Places \ {a} : g[x] = f[x]
    PROVE  Moves(f, g, a, b, 0, 1) /\ Head(f[a]) = f[a][1]
<1>1. f[a] \in Seq(Item) /\ f[b] \in Seq(Item)
  BY DEF IsStore
<1>2. 1 \in 0..Len(f[a]) /\ 0 \in 0..1
  BY <1>1, TailIsRest
<1>3. g[a] = SubSeq(f[a], 1 + 1, Len(f[a])) /\ Head(f[a]) = f[a][1]
  BY <1>1, TailIsRest
<1>4. g[b] = f[b] \o SubSeq(f[a], 1, 0)
  BY <1>1, NothingToMove
<1> QED
  BY <1>2, <1>3, <1>4 DEF Moves

LEMMA MovesAll ==
    ASSUME NEW f, NEW g, NEW a \in Places, NEW b \in Places, IsStore(f), a # b,
           f[b] = <<>>, g[a] = <<>>, g[b] = f[a],
           \A x \in Places \ {a, b} : g[x] = f[x]
    PROVE  Moves(f, g, a, b, Len(f[a]), Len(f[a]))
<1>1. f[a] \in Seq(Item) /\ f[b] \in Seq(Item)
  BY DEF IsStore
<1>2. Len(f[a]) \in 0..Len(f[a])
  BY <1>1
<1>3. g[a] = SubSeq(f[a], Len(f[a]) + 1, Len(f[a]))
  BY <1>1, NothingToMove
<1>4. g[b] = f[b] \o SubSeq(f[a], 1, Len(f[a]))
  BY <1>1, NothingToMove
<1> QED
  BY <1>2, <1>3, <1>4 DEF Moves

(* The responses of a queue of tasks move with the tasks.                    *)
LEMMA ResponsesMove ==
    ASSUME NEW s \in Seq(Task)
    PROVE  /\ Responses(s) = <<>> <=> s = <<>>
           /\ s # <<>> => /\ Responses(Tail(s)) = Tail(Responses(s))
                          /\ Head(Responses(s)) = Responses(s)[1]
                          /\ 1 \in DOMAIN s /\ Head(s) = s[1]
           /\ \A t \in NetTask :
                Responses(Append(s, t)) = Append(Responses(s), t.pkg)
           /\ \A t \in AddTask : Responses(Append(s, t)) =
                Append(Responses(s), [conn |-> t.conn, k |-> 0])
<1> DEFINE r == Responses(s)
<1>1. /\ r \in Seq(Item) /\ Len(r) = Len(s) /\ DOMAIN r = DOMAIN s
      /\ DOMAIN s = 1..Len(s) /\ Len(s) \in Nat
  BY ResponsesAre
<1>2. r = <<>> <=> s = <<>>
  <2> HIDE DEF r
  <2> QED
    BY <1>1
<1>3. ASSUME s # <<>>
      PROVE  /\ Responses(Tail(s)) = Tail(r)
             /\ Head(r) = r[1] /\ 1 \in DOMAIN s /\ Head(s) = s[1]
  <2>1. /\ Tail(s) \in Seq(Task) /\ 1 \in DOMAIN s /\ Head(s) = s[1]
        /\ DOMAIN Tail(s) = 1..(Len(s) - 1) /\ Len(Tail(s)) = Len(s) - 1
        /\ \A i \in 1..(Len(s) - 1) : Tail(s)[i] = s[i + 1]
    BY <1>3
  <2>2. \A i \in 1..(Len(s) - 1) : i + 1 \in DOMAIN s
    BY <1>1
  <2>3. r # <<>>
    BY <1>2, <1>3
  <2>4. Responses(Tail(s)) \in Seq(Item) /\ Len(Responses(Tail(s))) = Len(s) - 1
    <3>1. ASSUME NEW p \in Seq(Task)
          PROVE  Responses(p) \in Seq(Item) /\ Len(Responses(p)) = Len(p)
      BY ResponsesAre
    <3> QED
      BY <2>1, <3>1
  <2>5. \A i \in 1..(Len(s) - 1) : Responses(Tail(s))[i] = r[i + 1]
    <3>1. ASSUME NEW i \in 1..(Len(s) - 1)
          PROVE  Responses(Tail(s))[i] = r[i + 1]
      BY <2>1, <2>2 DEF Responses
    <3> QED
      BY <3>1
  <2> DEFINE q == Responses(Tail(s))
  <2>6. q \in Seq(Item) /\ Len(q) = Len(s) - 1
        /\ \A i \in 1..(Len(s) - 1) : q[i] = r[i + 1]
    BY <2>4, <2>5
  <2> HIDE DEF q, r
  <2>7. q = Tail(r) /\ Head(r) = r[1]
    <3>1. /\ Tail(r) \in Seq(Item) /\ Len(Tail(r)) = Len(r) - 1
          /\ \A i \in 1..(Len(r) - 1) : Tail(r)[i] = r[i + 1]
      BY <1>1, <2>3
    <3>2. Head(r) = r[1]
      BY <1>1, <2>3
    <3>3. \A i \in 1..Len(q) : q[i] = Tail(r)[i]
      BY <1>1, <2>6, <3>1
    <3>4. Len(q) = Len(Tail(r))
      BY <1>1, <2>6, <3>1
    <3> QED
      BY <2>6, <3>1, <3>2, <3>3, <3>4, SeqEqual
  <2> QED
    BY <2>1, <2>7 DEF q
<1>4. ASSUME NEW t \in Task, NEW e \in Item,
             t.type = "net" => e = t.pkg,
             t.type # "net" => e = [conn |-> t.conn, k |-> 0]
      PROVE  Responses(Append(s, t)) = Append(r, e)
  <2> DEFINE q == Responses(Append(s, t))
  <2>1. /\ Append(s, t) \in Seq(Task) /\ Len(Append(s, t)) = Len(s) + 1
        /\ DOMAIN Append(s, t) = 1..(Len(s) + 1)
        /\ \A i \in 1..Len(s) : Append(s, t)[i] = s[i]
        /\ Append(s, t)[Len(s) + 1] = t
    OBVIOUS
  <2>2. q \in Seq(Item) /\ Len(q) = Len(s) + 1
    BY <2>1, ResponsesAre
  <2>3. \A i \in 1..Len(s) : q[i] = r[i]
    <3>1. ASSUME NEW i \in 1..Len(s)
          PROVE  q[i] = r[i]
      <4>1. i \in DOMAIN s /\ i \in DOMAIN Append(s, t)
        BY <1>1, <2>1
      <4> QED
        BY <2>1, <4>1 DEF Responses
    <3> QED
      BY <3>1
  <2>4. q[Len(s) + 1] = e
    <3>1. Len(s) + 1 \in DOMAIN Append(s, t)
      BY <1>1, <2>1
    <3>2. q[Len(s) + 1] = IF t.type = "net" THEN t.pkg
                          ELSE [conn |-> t.conn, k |-> 0]
      BY <2>1, <3>1 DEF Responses
    <3> QED
      BY <1>4, <3>2
  <2> HIDE DEF q, r
  <2>5. /\ Append(r, e) \in Seq(Item) /\ Len(Append(r, e)) = Len(r) + 1
        /\ \A i \in 1..Len(r) : Append(r, e)[i] = r[i]
        /\ Append(r, e)[Len(r) + 1] = e
    BY <1>1
  <2>6. ASSUME NEW i \in 1..Len(q)
        PROVE  q[i] = Append(r, e)[i]
    <3>1. i \in 1..Len(s) \/ i = Len(s) + 1
      BY <1>1, <2>2
    <3> QED
      BY <1>1, <2>3, <2>4, <2>5, <3>1
  <2> QED
    BY <1>1, <2>2, <2>5, <2>6, SeqEqual DEF q
<1>5. ASSUME NEW t \in NetTask
      PROVE  Responses(Append(s, t)) = Append(r, t.pkg)
  <2>1. t \in Task /\ t.type = "net" /\ t.pkg \in Item
    BY PackagesAreItems DEF NetTask, Task
  <2> HIDE DEF r
  <2> QED
    BY <1>4, <2>1
<1>6. ASSUME NEW t \in AddTask
      PROVE  Responses(Append(s, t)) = Append(r, [conn |-> t.conn, k |-> 0])
  <2>1. t \in Task /\ t.type # "net" /\ [conn |-> t.conn, k |-> 0] \in Item
    BY ServerAssumption DEF ServerAssumption, AddTask, Task, Item
  <2> HIDE DEF r
  <2> QED
    BY <1>4, <2>1
<1> QED
  BY <1>2, <1>3, <1>5, <1>6

-----------------------------------------------------------------------------
(* What a step may lose, and in which order the items go.                    *)

OneHandle == \A g, h \in Handle : g = h

Lost(r) ==
    \/ r.k = 0 \/ r.k \in Oneway
    \/ peer'[r.conn] = "reset" \/ ~Working(r.conn)'

Flow(a, b, m, t) ==
    /\ Moves(Store, Store', a, b, m, t)
    /\ \A i \in (m + 1)..t : Lost(Store[a][i])
    /\ Before(b, a) \/ m = 0
    /\ OneHandle => \A i \in 1..m :
            InPipe(b, Store[a][i]) =>
                InPipe(a, Store[a][i]) /\ Clear(Store, a, b, Store[a][i])

RankKinds == {"got", "kbuf", "sendBuf", "batch", "respQ", "cur", "rq", "reqQ",
              "recvBuf", "inbound"}

LEMMA KindOfPlace ==
    ASSUME NEW x \in Places
    PROVE  /\ x[1] \in RankKinds
           /\ x[1] \in {"inbound", "recvBuf", "sendBuf", "kbuf", "got"} =>
                x[2] \in Conn /\ x = <<x[1], x[2]>>
           /\ x[1] \in {"respQ", "batch"} => x[2] \in Net /\ x = <<x[1], x[2]>>
           /\ x[1] \in {"rq", "cur"} => x[2] \in Handle /\ x = <<x[1], x[2]>>
           /\ x[1] = "reqQ" => x = <<"reqQ", Acceptor>>
BY PlaceKinds DEF RankKinds

(* Between a place and the one right before it there is only its own kind.   *)
LEMMA NextRank ==
    ASSUME NEW x \in Places, NEW a \in Places, NEW b \in Places,
           Before(b, x), ~Before(a, x), Rank(a) = Rank(b) + 1
    PROVE  x[1] = a[1]
<1>1. Rank(x) \in Nat /\ Rank(a) \in Nat /\ Rank(b) \in Nat
  BY RankType
<1>2. Rank(x) = Rank(a)
  BY <1>1 DEF Before
<1>3. \A y \in Places : y[1] \in RankKinds
  BY KindOfPlace
<1> QED
  BY <1>2, <1>3, RankIs DEF RankKinds

(* A place of c has no other place of the same kind beside it.               *)
LEMMA ClearConn ==
    ASSUME NEW a \in Places, NEW b \in Places, Rank(a) = Rank(b) + 1,
           a[1] \in {"inbound", "recvBuf", "sendBuf", "kbuf", "got"},
           NEW r, InPipe(a, r)
    PROVE  Clear(Store, a, b, r)
<1> SUFFICES ASSUME NEW z \in Places \ {a}, NEW j \in DOMAIN Store[z],
                    Before(b, z), ~Before(a, z), Store[z][j].conn = r.conn,
                    InPipe(z, Store[z][j])
             PROVE  FALSE
  BY DEF Clear
<1>1. z[1] = a[1]
  BY NextRank
<1>2. z[2] = r.conn /\ a[2] = r.conn
  BY <1>1 DEF InPipe
<1>3. z = <<z[1], z[2]>> /\ a = <<a[1], a[2]>>
  BY <1>1, KindOfPlace
<1> QED
  BY <1>1, <1>2, <1>3

LEMMA ClearSame ==
    ASSUME NEW a \in Places, NEW b \in Places, Rank(a) = Rank(b) + 1,
           \A z \in Places : z[1] = a[1] => z = a, NEW r
    PROVE  Clear(Store, a, b, r)
BY NextRank DEF Clear

(* The items of the queues of one network thread are of its connections.     *)
LEMMA ClearNet ==
    ASSUME TypeOK, AnswersSound, NEW n \in Net, NEW a, NEW b \in Places,
           a \in {<<"respQ", n>>, <<"batch", n>>}, Rank(a) = Rank(b) + 1,
           NEW i \in DOMAIN Store[a], NEW r, r = Store[a][i], r.k # 0
    PROVE  Clear(Store, a, b, r)
<1>1. ASSUME NEW p \in Net, NEW z \in {<<"respQ", p>>, <<"batch", p>>},
             NEW j \in DOMAIN Store[z], Store[z][j].k # 0
      PROVE  home[Store[z][j].conn] = p
  <2>1. ASSUME NEW s \in Seq(Task), Addressed(s, p), j \in DOMAIN Responses(s),
               Responses(s)[j].k # 0
        PROVE  home[Responses(s)[j].conn] = p
    <3>1. j \in DOMAIN s /\ s[j].type = "net" /\ Responses(s)[j] = s[j].pkg
      BY <2>1, ResponsesAre
    <3> QED
      BY <2>1, <3>1 DEF Addressed
  <2>2. Addressed(respQ[p], p) /\ Addressed(batch[p], p)
    BY DEF AnswersSound
  <2>3. respQ[p] \in Seq(Task) /\ batch[p] \in Seq(Task)
    BY DEF TypeOK, NetTypeOK
  <2>4. /\ Store[<<"respQ", p>>] = Responses(respQ[p])
        /\ Store[<<"batch", p>>] = Responses(batch[p])
    BY StoreAt DEF StoreParts
  <2> QED
    BY <1>1, <2>1, <2>2, <2>3, <2>4
<1>2. a \in Places
  BY ArePlaces
<1> SUFFICES ASSUME NEW z \in Places \ {a}, NEW j \in DOMAIN Store[z],
                    Before(b, z), ~Before(a, z), Store[z][j].conn = r.conn,
                    InPipe(z, Store[z][j])
             PROVE  FALSE
  BY DEF Clear
<1>3. z[1] = a[1]
  BY <1>2, NextRank
<1>4. z[1] \in {"respQ", "batch"}
  BY <1>3
<1>5. z[2] \in Net /\ z = <<z[1], z[2]>>
  BY <1>4, KindOfPlace
<1>6. home[r.conn] = z[2]
  <2>1. PICK p \in Net : p = z[2] /\ z \in {<<"respQ", p>>, <<"batch", p>>}
    BY <1>4, <1>5
  <2>2. Store[z][j].k # 0
    BY DEF InPipe
  <2>3. home[Store[z][j].conn] = p
    BY <1>1, <2>1, <2>2
  <2> QED
    BY <2>1, <2>3
<1>7. home[r.conn] = n
  BY <1>1
<1> QED
  BY <1>3, <1>5, <1>6, <1>7

-----------------------------------------------------------------------------
(* One lemma per action that moves requests or responses.                    *)

LEMMA PeerRecvFlow ==
    ASSUME TypeOK, NEW c \in Conn, PeerRecv(c)
    PROVE  Flow(<<"kbuf", c>>, <<"got", c>>, 1, 1)
<1> DEFINE a == <<"kbuf", c>>
           b == <<"got", c>>
<1>1. a \in Places /\ b \in Places /\ a # b /\ IsStore(Store)
  BY ArePlaces, StoreType
<1>2. kbuf \in [Conn -> Seq(Package)] /\ got \in [Conn -> Seq(Package)]
  BY DEF TypeOK, PeersTypeOK
<1>3. /\ kbuf[c] # <<>>
      /\ got' = [got EXCEPT ![c] = Append(@, Head(kbuf[c]))]
      /\ kbuf' = [kbuf EXCEPT ![c] = Tail(@)]
  BY DEF PeerRecv
<1>4. OnlyAt(a, b)
  BY <1>2, <1>3 DEF OnlyAt, PeerRecv, connVars, netVars, handleVars
<1>5. \A x \in Places \ {a, b} : Store'[x] = Store[x]
  BY <1>4, Frame
<1>6. /\ Store[a] = kbuf[c] /\ Store[b] = got[c]
      /\ Store'[a] = Tail(kbuf[c]) /\ Store'[b] = Append(got[c], Head(kbuf[c]))
  BY <1>2, <1>3, StoreAt, StoreAtNext DEF StoreParts
<1>7. a[1] = "kbuf" /\ b[1] = "got" /\ a[2] = c /\ b[2] = c
  OBVIOUS
<1> HIDE DEF a, b
<1>8. Moves(Store, Store', a, b, 1, 1)
  BY <1>1, <1>3, <1>5, <1>6, MovesOne
<1>9. Rank(a) = 2 /\ Rank(b) = 1
  BY <1>7, RankIs
<1>10. Before(b, a) /\ Rank(a) = Rank(b) + 1
  BY <1>9 DEF Before
<1>11. ASSUME NEW r, InPipe(b, r)
       PROVE  InPipe(a, r) /\ Clear(Store, a, b, r)
  <2>1. InPipe(a, r)
    BY <1>7, <1>11 DEF InPipe
  <2> QED
    BY <1>1, <1>7, <1>10, <2>1, ClearConn
<1>12. Flow(a, b, 1, 1)
  BY <1>8, <1>10, <1>11 DEF Flow
<1> QED
  BY <1>12 DEF a, b

LEMMA RecvDataFlow ==
    ASSUME IInv, NEW n \in Net, RecvData(n), NEW c, c = reading[n].conn
    PROVE  c \in Conn
           /\ \E m \in Nat :
                Flow(<<"inbound", c>>, <<"recvBuf", c>>, m, Len(inbound[c]))
<1>1. c \in Conn /\ stage[c] = "open"
  BY ReadingInTable DEF RecvData
<1> DEFINE a == <<"inbound", c>>
           b == <<"recvBuf", c>>
           t == Len(inbound[c])
<1>2. a \in Places /\ b \in Places /\ a # b /\ IsStore(Store)
  BY <1>1, ArePlaces, StoreType DEF IInv
<1>3. /\ inbound \in [Conn -> Seq(Request)] /\ recvBuf \in [Conn -> Seq(Request)]
      /\ t \in Nat
  BY <1>1 DEF IInv, TypeOK, PeersTypeOK, ConnsTypeOK
<1>4. PICK m \in KeptLengths(c) : /\ recvBuf' = [recvBuf EXCEPT ![c] =
                                        @ \o SubSeq(inbound[c], 1, m)]
                                  /\ inbound' = [inbound EXCEPT ![c] = <<>>]
  BY DEF RecvData
<1>5. m \in 0..t /\ (m = t \/ peer[c] = "reset")
  BY <1>3 DEF KeptLengths, Broken
<1>6. OnlyAt(a, b)
  BY <1>1, <1>3, <1>4 DEF OnlyAt, RecvData, handleVars
<1>7. \A x \in Places \ {a, b} : Store'[x] = Store[x]
  BY <1>6, Frame
<1>8. /\ Store[a] = inbound[c] /\ Store[b] = recvBuf[c]
      /\ Store'[a] = <<>> /\ Store'[b] = recvBuf[c] \o SubSeq(inbound[c], 1, m)
  BY <1>1, <1>3, <1>4, StoreAt, StoreAtNext DEF StoreParts
<1>9. SubSeq(inbound[c], t + 1, t) = <<>>
  BY <1>1, <1>3, NothingToMove
<1>10. a[1] = "inbound" /\ b[1] = "recvBuf" /\ a[2] = c /\ b[2] = c
  OBVIOUS
<1>11. \A i \in 1..t : inbound[c][i].conn = c
  BY <1>1 DEF IInv, WorkSound, RequestsSound
<1>12. ASSUME NEW i \in (m + 1)..t
       PROVE  Lost(inbound[c][i])
  <2>1. i \in 1..t /\ m # t
    BY <1>3, <1>5
  <2>2. peer'[c] = "reset"
    BY <1>5, <2>1 DEF RecvData
  <2> QED
    BY <1>11, <2>1, <2>2 DEF Lost
<1>13. /\ t = Len(Store[a]) /\ t \in 0..Len(Store[a]) /\ m \in 0..t
       /\ Store'[a] = SubSeq(Store[a], t + 1, Len(Store[a]))
       /\ Store'[b] = Store[b] \o SubSeq(Store[a], 1, m)
  <2>1. t = Len(Store[a]) /\ t \in 0..Len(Store[a]) /\ m \in 0..t
    BY <1>3, <1>5, <1>8
  <2>2. Store'[a] = SubSeq(Store[a], t + 1, Len(Store[a]))
    BY <1>8, <1>9, Zenon
  <2>3. Store'[b] = Store[b] \o SubSeq(Store[a], 1, m)
    BY <1>8, Zenon
  <2> QED
    BY <2>1, <2>2, <2>3
<1> HIDE DEF a, b, t
<1>14. Moves(Store, Store', a, b, m, t)
  BY <1>2, <1>7, <1>13 DEF Moves
<1>15. Rank(a) = 10 /\ Rank(b) = 9
  BY <1>10, RankIs
<1>16. Before(b, a) /\ Rank(a) = Rank(b) + 1
  BY <1>15 DEF Before
<1>17. ASSUME NEW r, InPipe(b, r)
       PROVE  InPipe(a, r) /\ Clear(Store, a, b, r)
  <2>1. InPipe(a, r)
    BY <1>10, <1>17 DEF InPipe
  <2> QED
    BY <1>2, <1>10, <1>16, <2>1, ClearConn
<1>18. Flow(a, b, m, t)
  BY <1>8, <1>12, <1>14, <1>16, <1>17 DEF Flow
<1>19. m \in Nat
  BY <1>3, <1>5
<1> QED
  BY <1>1, <1>18, <1>19 DEF a, b, t

LEMMA ExtractFlow ==
    ASSUME IInv, NEW n \in Net, ExtractPackage(n), NEW c, c = reading[n].conn
    PROVE  c \in Conn /\ Flow(<<"recvBuf", c>>, <<"reqQ", Acceptor>>, 1, 1)
<1>1. c \in Conn /\ stage[c] = "open"
  BY ReadingInTable DEF ExtractPackage
<1> DEFINE a == <<"recvBuf", c>>
           b == <<"reqQ", Acceptor>>
<1>2. a \in Places /\ b \in Places /\ a # b /\ IsStore(Store)
  BY <1>1, ArePlaces, StoreType DEF IInv
<1>3. recvBuf \in [Conn -> Seq(Request)]
  BY DEF IInv, TypeOK, ConnsTypeOK
<1>4. /\ recvBuf[c] # <<>>
      /\ reqQ' = Append(reqQ, Head(recvBuf[c]))
      /\ recvBuf' = [recvBuf EXCEPT ![c] = Tail(@)]
  BY DEF ExtractPackage
<1>5. OnlyAt(a, b)
  BY <1>1, <1>3, <1>4 DEF OnlyAt, ExtractPackage, kernelVars, netVars
<1>6. \A x \in Places \ {a, b} : Store'[x] = Store[x]
  BY <1>5, Frame
<1>7. /\ Store[a] = recvBuf[c] /\ Store[b] = reqQ
      /\ Store'[a] = Tail(recvBuf[c])
      /\ Store'[b] = Append(reqQ, Head(recvBuf[c]))
  BY <1>1, <1>3, <1>4, StoreAt, StoreAtNext DEF StoreParts
<1>8. a[1] = "recvBuf" /\ b[1] = "reqQ" /\ a[2] = c
  OBVIOUS
<1>9. Head(recvBuf[c]).conn = c /\ Store[a] # <<>>
       /\ Store'[a] = Tail(Store[a]) /\ Store'[b] = Append(Store[b], Head(Store[a]))
  <2>1. \A i \in 1..Len(recvBuf[c]) : recvBuf[c][i].conn = c
    BY <1>1 DEF IInv, WorkSound, RequestsSound
  <2>2. recvBuf[c] \in Seq(Request)
    BY <1>1, <1>3
  <2>3. 1 \in 1..Len(recvBuf[c]) /\ Head(recvBuf[c]) = recvBuf[c][1]
    BY <1>4, <2>2
  <2>4. Store[a] # <<>> /\ Store'[a] = Tail(Store[a])
        /\ Store'[b] = Append(Store[b], Head(Store[a]))
    BY <1>4, <1>7
  <2> QED
    BY <2>1, <2>3, <2>4
<1> HIDE DEF a, b
<1>10. Moves(Store, Store', a, b, 1, 1) /\ Head(Store[a]) = Store[a][1]
  BY <1>2, <1>6, <1>9, MovesOne
<1>11. Rank(a) = 9 /\ Rank(b) = 8
  BY <1>8, RankIs
<1>12. Before(b, a) /\ Rank(a) = Rank(b) + 1
  BY <1>11 DEF Before
<1>13. ASSUME InPipe(b, Store[a][1])
       PROVE  InPipe(a, Store[a][1]) /\ Clear(Store, a, b, Store[a][1])
  <2>1. InPipe(a, Store[a][1])
    BY <1>7, <1>8, <1>9, <1>10, <1>13 DEF InPipe
  <2> QED
    BY <1>2, <1>8, <1>12, <2>1, ClearConn
<1>14. Flow(a, b, 1, 1)
  BY <1>10, <1>12, <1>13 DEF Flow
<1> QED
  BY <1>1, <1>14 DEF a, b

LEMMA TakeFlow ==
    ASSUME IInv, NEW h \in Handle, TakeRequests(h)
    PROVE  Flow(<<"reqQ", Acceptor>>, <<"rq", h>>, Len(reqQ), Len(reqQ))
<1> DEFINE a == <<"reqQ", Acceptor>>
           b == <<"rq", h>>
<1>1. a \in Places /\ b \in Places /\ a # b /\ IsStore(Store)
  BY ArePlaces, StoreType DEF IInv
<1>2. rq \in [Handle -> Seq(Request)]
  BY DEF IInv, TypeOK, HandlesTypeOK
<1>3. rq[h] = <<>> /\ rq' = [rq EXCEPT ![h] = reqQ] /\ reqQ' = <<>>
  BY DEF TakeRequests, LeftInQueue
<1>4. OnlyAt(a, b)
  BY <1>2, <1>3 DEF OnlyAt, TakeRequests, kernelVars, connVars, netVars
<1>5. \A x \in Places \ {a, b} : Store'[x] = Store[x]
  BY <1>4, Frame
<1>6. /\ Store[a] = reqQ /\ Store[b] = <<>>
      /\ Store'[a] = <<>> /\ Store'[b] = reqQ
  BY <1>2, <1>3, StoreAt, StoreAtNext DEF StoreParts
<1>7. a[1] = "reqQ" /\ b[1] = "rq"
  OBVIOUS
<1> HIDE DEF a, b
<1>8. Moves(Store, Store', a, b, Len(reqQ), Len(reqQ))
  BY <1>1, <1>5, <1>6, MovesAll
<1>9. Rank(a) = 8 /\ Rank(b) = 7
  BY <1>7, RankIs
<1>10. Before(b, a) /\ Rank(a) = Rank(b) + 1
  BY <1>9 DEF Before
<1>11. \A z \in Places : z[1] = a[1] => z = a
  BY <1>1, <1>7, KindOfPlace
<1>12. ASSUME NEW r, InPipe(b, r)
       PROVE  InPipe(a, r) /\ Clear(Store, a, b, r)
  <2>1. InPipe(a, r)
    BY <1>7, <1>12 DEF InPipe
  <2> QED
    BY <1>1, <1>10, <1>11, <2>1, ClearSame
<1>13. \A i \in (Len(reqQ) + 1)..Len(reqQ) : FALSE
  <2>1. Len(reqQ) \in Nat
    BY DEF IInv, TypeOK, HandlesTypeOK
  <2> QED
    BY <2>1
<1>14. Flow(a, b, Len(reqQ), Len(reqQ))
  BY <1>8, <1>10, <1>12, <1>13 DEF Flow
<1> QED
  BY <1>14 DEF a, b

(* A connection that had a uid and is not open any more is closed.           *)
LEMMA GoneIsLost ==
    ASSUME IInv, WakeSound, Next, NEW r, r.conn \in Conn,
           uid[r.conn] \in Uid, stage[r.conn] # "open"
    PROVE  Lost(r)
<1>1. stage[r.conn] = "closed"
  BY UidFixed
<1>2. stage'[r.conn] = "closed"
  BY <1>1, ClosedForEver
<1> QED
  BY <1>2 DEF Lost, Working

LEMMA ClosedIsLost ==
    ASSUME IInv, Next, NEW r, r.conn \in Conn, stage[r.conn] = "closed"
    PROVE  Lost(r)
<1>1. stage'[r.conn] = "closed"
  BY ClosedForEver
<1> QED
  BY <1>1 DEF Lost, Working

LEMMA LockFlow ==
    ASSUME IInv, WakeSound, AnswersSound, Next,
           NEW h \in Handle, LockConnection(h)
    PROVE  \E m \in Nat : Flow(<<"rq", h>>, <<"cur", h>>, m, 1)
<1> DEFINE a == <<"rq", h>>
           b == <<"cur", h>>
           req == Head(rq[h])
<1>1. a \in Places /\ b \in Places /\ a # b /\ IsStore(Store)
  BY ArePlaces, StoreType DEF IInv
<1>2. /\ rq \in [Handle -> Seq(Request)]
      /\ cur \in [Handle -> Request \cup {NoReq}] /\ NoReq \notin Request
  BY ServerAssumption DEF IInv, TypeOK, HandlesTypeOK, ServerAssumption, Request
<1>3. /\ rq[h] # <<>> /\ hpc[h] = "idle"
      /\ rq' = [rq EXCEPT ![h] = Tail(@)]
      /\ IF Alive(req.conn) THEN cur' = [cur EXCEPT ![h] = req]
                            ELSE UNCHANGED cur
  BY DEF LockConnection
<1>4. cur[h] = NoReq
  BY <1>3 DEF AnswersSound
<1>5. rq[h] \in Seq(Request) /\ req = rq[h][1] /\ 1 \in 1..Len(rq[h])
      /\ req \in Request
  BY <1>2, <1>3
<1>6. Store[a] = rq[h] /\ Store[b] = <<>> /\ Store'[a] = Tail(rq[h])
  BY <1>2, <1>3, <1>4, StoreAt, StoreAtNext DEF StoreParts
<1>7. a[1] = "rq" /\ b[1] = "cur" /\ a[2] = h
  OBVIOUS
<1>8. OnlyAt(a, b)
  BY <1>2, <1>3 DEF OnlyAt, LockConnection, kernelVars, connVars, netVars
<1>9. \A x \in Places \ {a, b} : Store'[x] = Store[x]
  BY <1>8, Frame
<1>10. CASE Alive(req.conn)
  <2>1. cur'[h] = req /\ req # NoReq
    BY <1>2, <1>3, <1>5, <1>10
  <2>2. Store'[b] = <<req>>
    BY <2>1, StoreAtNext DEF StoreParts
  <2>3. Store'[b] = Append(Store[b], Head(Store[a]))
    BY <1>6, <2>2
  <2> HIDE DEF a, b, req
  <2>4. Moves(Store, Store', a, b, 1, 1)
    BY <1>1, <1>3, <1>6, <1>9, <2>3, MovesOne
  <2>5. Rank(a) = 7 /\ Rank(b) = 6
    BY <1>7, RankIs
  <2>6. Before(b, a) /\ Rank(a) = Rank(b) + 1
    BY <2>5 DEF Before
  <2>7. ASSUME OneHandle, NEW r, InPipe(b, r)
        PROVE  InPipe(a, r) /\ Clear(Store, a, b, r)
    <3>1. InPipe(a, r)
      BY <1>7, <2>7 DEF InPipe
    <3>2. \A z \in Places : z[1] = a[1] => z = a
      BY <1>1, <1>7, <2>7, KindOfPlace DEF OneHandle
    <3> QED
      BY <1>1, <2>6, <3>1, <3>2, ClearSame
  <2>8. Flow(a, b, 1, 1)
    BY <2>4, <2>6, <2>7 DEF Flow
  <2> QED
    BY <2>8 DEF a, b
<1>11. CASE ~Alive(req.conn)
  <2>1. Store'[b] = Store[b]
    BY <1>3, <1>4, <1>6, <1>11, StoreAtNext DEF StoreParts
  <2>2. Lost(req)
    <3>1. uid[req.conn] \in Uid
      BY <1>5 DEF IInv, WorkSound, RequestsSound
    <3>2. req.conn \in Conn
      BY <1>5 DEF Request
    <3> HIDE DEF req
    <3> QED
      BY <1>11, <3>1, <3>2, GoneIsLost DEF Alive
  <2> HIDE DEF a, b, req
  <2>3. \A x \in Places \ {a} : Store'[x] = Store[x]
    BY <1>9, <2>1
  <2>4. Moves(Store, Store', a, b, 0, 1)
    BY <1>1, <1>3, <1>6, <2>3, MovesAway
  <2>5. Flow(a, b, 0, 1)
    BY <1>5, <1>6, <2>2, <2>4 DEF Flow
  <2> QED
    BY <2>5 DEF a, b
<1> QED
  BY <1>10, <1>11

LEMMA DistributeFlow ==
    ASSUME IInv, AnswersSound, Next, NEW h \in Handle, Distribute(h)
    PROVE  \/ UNCHANGED Store
           \/ Flow(<<"cur", h>>, <<"reqQ", Acceptor>>, 0, 1)
<1> DEFINE a == <<"cur", h>>
           b == <<"reqQ", Acceptor>>
<1>1. a \in Places /\ b \in Places /\ a # b /\ IsStore(Store)
  BY ArePlaces, StoreType DEF IInv
<1>2. /\ cur \in [Handle -> Request \cup {NoReq}] /\ cur[h] # NoReq
      /\ cur[h] \in Request
  BY DEF IInv, TypeOK, HandlesTypeOK, AnswersSound, Distribute
<1>3. OnlyAt(a, a)
  BY <1>2 DEF OnlyAt, Distribute, kernelVars, connVars, netVars
<1>4. \A x \in Places \ {a} : Store'[x] = Store[x]
  BY <1>3, Frame
<1>5. CASE UNCHANGED cur
  <2>1. OnlyAt(b, b)
    BY <1>5 DEF OnlyAt, Distribute, kernelVars, connVars, netVars
  <2>2. \A x \in Places \ {b} : Store'[x] = Store[x]
    BY <2>1, Frame
  <2>3. \A x \in Places : Store'[x] = Store[x]
    BY <1>1, <1>4, <2>2
  <2>4. Store' = Store
    BY <2>3 DEF Store
  <2> QED
    BY <2>4 DEF Distribute, netVars
<1>6. CASE ~UNCHANGED cur
  <2>1. /\ cur' = [cur EXCEPT ![h] = NoReq]
        /\ cur[h].k \in Oneway \/ stage[cur[h].conn] = "closed"
    BY <1>6 DEF Distribute
  <2>2. Store[a] = <<cur[h]>> /\ Store'[a] = <<>>
    BY <1>2, <2>1, StoreAt, StoreAtNext DEF StoreParts
  <2>3. Store[a] # <<>> /\ Store'[a] = Tail(Store[a]) /\ Store[a][1] = cur[h]
    BY <2>2
  <2>4. Lost(cur[h])
    <3>1. PICK r \in Request : r = cur[h]
      BY <1>2
    <3>2. r.k \in Oneway \/ stage[r.conn] = "closed"
      BY <2>1, <3>1
    <3>3. r.conn \in Conn
      BY DEF Request
    <3>4. Lost(r)
      BY <3>2, <3>3, ClosedIsLost DEF Lost
    <3> QED
      BY <3>1, <3>4
  <2> HIDE DEF a, b
  <2>5. Moves(Store, Store', a, b, 0, 1)
    BY <1>1, <1>4, <2>3, MovesAway
  <2>6. Flow(a, b, 0, 1)
    BY <2>3, <2>4, <2>5 DEF Flow
  <2> QED
    BY <2>6 DEF a, b
<1> QED
  BY <1>5, <1>6

LEMMA SendResponseFlow ==
    ASSUME IInv, AnswersSound, NEW h \in Handle, SendResponse(h),
           NEW n, n = home[cur[h].conn]
    PROVE  n \in Net /\ Flow(<<"cur", h>>, <<"respQ", n>>, 1, 1)
<1> DEFINE a == <<"cur", h>>
           b == <<"respQ", n>>
           task == [type |-> "net", uid |-> uid[cur[h].conn], pkg |-> cur[h]]
<1>1. /\ cur \in [Handle -> Request \cup {NoReq}] /\ NoReq \notin Request
      /\ respQ \in [Net -> Seq(Task)] /\ home \in [Conn -> Net]
  BY ServerAssumption
  DEF IInv, TypeOK, HandlesTypeOK, NetTypeOK, ConnsTypeOK, ServerAssumption, Request
<1>2. cur[h] \in Request /\ cur[h].conn \in Conn /\ uid[cur[h].conn] \in Uid
  <2>1. hpc[h] # "idle"
    BY DEF SendResponse
  <2> QED
    BY <2>1 DEF IInv, WorkSound, RequestsSound, Request
<1>3. n \in Net
  BY <1>1, <1>2
<1>4. a \in Places /\ b \in Places /\ a # b /\ IsStore(Store)
  BY <1>3, ArePlaces, StoreType DEF IInv
<1>5. /\ respQ' = [respQ EXCEPT ![n] = Append(@, task)]
      /\ cur' = [cur EXCEPT ![h] = NoReq]
  BY DEF SendResponse
<1>6. OnlyAt(a, b)
  BY <1>1, <1>3, <1>5 DEF OnlyAt, SendResponse, kernelVars, connVars
<1>7. \A x \in Places \ {a, b} : Store'[x] = Store[x]
  BY <1>6, Frame
<1>8. task \in NetTask /\ task.pkg = cur[h]
  BY <1>2 DEF NetTask, Request, Package
<1>9. /\ Store[a] = <<cur[h]>> /\ Store[b] = Responses(respQ[n])
      /\ Store'[a] = <<>>
  <2>1. cur[h] # NoReq /\ cur'[h] = NoReq
    BY <1>1, <1>2, <1>5
  <2> QED
    BY <1>3, <2>1, StoreAt, StoreAtNext DEF StoreParts
<1>10. Store'[b] = Append(Responses(respQ[n]), cur[h])
  <2>1. Store'[b] = Responses(respQ[n])'
    BY <1>3, <1>5, StoreAtNext DEF StoreParts
  <2>2. respQ'[n] = Append(respQ[n], task) /\ respQ[n] \in Seq(Task)
    BY <1>1, <1>3, <1>5
  <2> HIDE DEF task
  <2>3. Responses(Append(respQ[n], task)) = Append(Responses(respQ[n]), task.pkg)
    BY <1>8, <2>2, ResponsesMove
  <2> QED
    BY <1>8, <2>1, <2>2, <2>3
<1>11. /\ Store[a] # <<>> /\ Store'[a] = Tail(Store[a])
       /\ Store'[b] = Append(Store[b], Head(Store[a]))
  BY <1>9, <1>10, SMTT(60)
<1>12. a[1] = "cur" /\ b[1] = "respQ" /\ a[2] = h
  OBVIOUS
<1> HIDE DEF a, b, task
<1>13. Moves(Store, Store', a, b, 1, 1)
  BY <1>4, <1>7, <1>11, MovesOne
<1>14. Rank(a) = 6 /\ Rank(b) = 5
  BY <1>12, RankIs
<1>15. Before(b, a) /\ Rank(a) = Rank(b) + 1
  BY <1>14 DEF Before
<1>16. ASSUME OneHandle, NEW r, InPipe(b, r)
       PROVE  InPipe(a, r) /\ Clear(Store, a, b, r)
  <2>1. InPipe(a, r)
    BY <1>12, <1>16 DEF InPipe
  <2>2. \A z \in Places : z[1] = a[1] => z = a
    BY <1>4, <1>12, <1>16, KindOfPlace DEF OneHandle
  <2> QED
    BY <1>4, <1>15, <2>1, <2>2, ClearSame
<1>17. Flow(a, b, 1, 1)
  BY <1>13, <1>15, <1>16 DEF Flow
<1> QED
  BY <1>3, <1>17 DEF a, b

LEMMA SwapFlow ==
    ASSUME IInv, RoundSound, AnswersSound, NEW n \in Net, SwapResponses(n)
    PROVE  \E m \in Nat : Flow(<<"respQ", n>>, <<"batch", n>>, m, m)
<1> DEFINE a == <<"respQ", n>>
           b == <<"batch", n>>
<1>1. a \in Places /\ b \in Places /\ a # b /\ IsStore(Store)
  BY ArePlaces, StoreType DEF IInv
<1>2. /\ respQ \in [Net -> Seq(Task)] /\ batch \in [Net -> Seq(Task)]
  BY DEF IInv, TypeOK, NetTypeOK
<1>3. /\ batch' = [batch EXCEPT ![n] = respQ[n]]
      /\ respQ' = [respQ EXCEPT ![n] = <<>>]
      /\ pc[n] = "events"
  BY DEF SwapResponses
<1>4. batch[n] = <<>>
  BY <1>3 DEF RoundSound
<1>5. OnlyAt(a, b)
  BY <1>2, <1>3 DEF OnlyAt, SwapResponses, kernelVars, connVars, handleVars
<1>6. \A x \in Places \ {a, b} : Store'[x] = Store[x]
  BY <1>5, Frame
<1>7. /\ Store[b] = <<>> /\ Store'[a] = <<>> /\ Store'[b] = Store[a]
  <2>1. Responses(<<>>) = <<>>
    BY DEF Responses
  <2>2. /\ Store[a] = Responses(respQ[n]) /\ Store[b] = Responses(batch[n])
        /\ Store'[a] = Responses(respQ[n])' /\ Store'[b] = Responses(batch[n])'
    BY StoreAt, StoreAtNext DEF StoreParts
  <2>3. respQ'[n] = <<>> /\ batch'[n] = respQ[n]
    BY <1>2, <1>3
  <2>4. Responses(respQ[n])' = Responses(respQ'[n])
        /\ Responses(batch[n])' = Responses(batch'[n])
    BY DEF Responses
  <2> QED
    BY <1>4, <2>1, <2>2, <2>3, <2>4
<1>8. a[1] = "respQ" /\ b[1] = "batch"
  OBVIOUS
<1>9. a \in {<<"respQ", n>>, <<"batch", n>>}
  OBVIOUS
<1> HIDE DEF a, b
<1>10. Rank(a) = 5 /\ Rank(b) = 4
  BY <1>8, RankIs
<1>11. Before(b, a) /\ Rank(a) = Rank(b) + 1
  BY <1>10 DEF Before
<1>12. Store[a] \in Seq(Item)
  BY <1>1 DEF IsStore
<1>13. PICK m \in Nat : m = Len(Store[a]) /\ DOMAIN Store[a] = 1..m
  BY <1>12
<1>14. Moves(Store, Store', a, b, m, m)
  BY <1>1, <1>6, <1>7, <1>13, MovesAll
<1>15. ASSUME NEW i \in 1..m, InPipe(b, Store[a][i])
       PROVE  InPipe(a, Store[a][i]) /\ Clear(Store, a, b, Store[a][i])
  <2>1. PICK r : r = Store[a][i]
    OBVIOUS
  <2>2. InPipe(a, r) /\ r.k # 0
    BY <1>8, <1>15, <2>1 DEF InPipe
  <2>3. i \in DOMAIN Store[a]
    BY <1>13
  <2>4. Clear(Store, a, b, r)
    BY <1>1, <1>9, <1>11, <2>1, <2>2, <2>3, ClearNet DEF IInv
  <2> QED
    BY <2>1, <2>2, <2>4
<1>16. \A i \in (m + 1)..m : FALSE
  OBVIOUS
<1>17. Flow(a, b, m, m)
  BY <1>11, <1>14, <1>15, <1>16 DEF Flow
<1> QED
  BY <1>17 DEF a, b

(* The first task of a batch, as an item.                                    *)
LEMMA BatchHead ==
    ASSUME IInv, NEW n \in Net, NextTask(n), NEW a, a = <<"batch", n>>
    PROVE  /\ a \in Places /\ Store[a] # <<>>
           /\ Store'[a] = Tail(Store[a])
           /\ 1 \in DOMAIN Store[a] /\ Head(Store[a]) = Store[a][1]
           /\ Head(batch[n]).type \in {"net", "add"}
           /\ Head(batch[n]).type = "net" => /\ Head(batch[n]) \in NetTask
                                             /\ Store[a][1] = Head(batch[n]).pkg
           /\ Head(batch[n]).type = "add" => Store[a][1].k = 0
<1> DEFINE s == batch[n]
<1>1. /\ batch \in [Net -> Seq(Task)] /\ s \in Seq(Task) /\ s # <<>>
      /\ batch' = [batch EXCEPT ![n] = Tail(@)]
  BY DEF IInv, TypeOK, NetTypeOK, NextTask
<1>2. a \in Places
  BY ArePlaces
<1>3. Store[a] = Responses(s) /\ Store'[a] = Responses(s)'
  BY StoreAt, StoreAtNext DEF StoreParts
<1>4. Responses(s)' = Responses(Tail(s))
  <2>1. s' = Tail(s)
    BY <1>1
  <2> QED
    BY <2>1 DEF Responses
<1> HIDE DEF s
<1>5. /\ 1 \in DOMAIN s /\ Head(s) = s[1] /\ Responses(s) # <<>>
      /\ Responses(Tail(s)) = Tail(Responses(s))
      /\ Head(Responses(s)) = Responses(s)[1]
  BY <1>1, ResponsesMove
<1>6. /\ 1 \in DOMAIN Responses(s)
      /\ s[1].type = "net" => Responses(s)[1] = s[1].pkg
      /\ s[1].type = "add" => Responses(s)[1].k = 0
      /\ s[1].type \in {"net", "add"}
  BY <1>1, <1>5, ResponsesAre
<1>7. s[1] \in NetTask \/ s[1].type = "add"
  BY <1>1, <1>5 DEF Task, AddTask
<1> QED
  BY <1>2, <1>3, <1>4, <1>5, <1>6, <1>7 DEF s

(* A response goes behind what its connection has.                           *)
LEMMA BatchFlow ==
    ASSUME IInv, AnswersSound, NEW n \in Net, NextTask(n),
           Head(batch[n]).type = "net", NEW a, a = <<"batch", n>>,
           NEW c \in Conn, NEW b \in {<<"sendBuf", c>>, <<"kbuf", c>>},
           Store'[b] = Append(Store[b], Head(batch[n]).pkg),
           \A x \in Places \ {a, b} : Store'[x] = Store[x],
           b[1] = "kbuf" => sendBuf[c] = <<>>
    PROVE  Flow(a, b, 1, 1)
<1>1. PICK r : r = Head(batch[n]).pkg
  OBVIOUS
<1>2. /\ a \in Places /\ Store[a] # <<>>
      /\ Store'[a] = Tail(Store[a])
      /\ 1 \in DOMAIN Store[a] /\ Head(Store[a]) = Store[a][1]
      /\ Head(batch[n]) \in NetTask /\ Store[a][1] = r
  BY <1>1, BatchHead
<1>3. r.k # 0 /\ r \in Item
  BY <1>1, <1>2, PackagesAreItems DEF NetTask
<1>4. b \in Places /\ IsStore(Store)
  BY ArePlaces, StoreType DEF IInv
<1>5. a[1] = "batch" /\ b[1] \in {"sendBuf", "kbuf"} /\ b[2] = c
  OBVIOUS
<1>6. Store'[b] = Append(Store[b], Head(Store[a])) /\ a # b
  BY <1>1, <1>2, <1>5
<1>7. Moves(Store, Store', a, b, 1, 1)
  BY <1>2, <1>4, <1>6, MovesOne
<1>8. Rank(a) = 4 /\ (Rank(b) = 3 \/ Rank(b) = 2)
  BY <1>5, RankIs
<1>9. Before(b, a)
  BY <1>8 DEF Before
<1>10. ASSUME InPipe(b, r)
       PROVE  InPipe(a, r) /\ Clear(Store, a, b, r)
  <2>1. InPipe(a, r) /\ r.conn = c
    BY <1>3, <1>5, <1>10 DEF InPipe
  <2>2. CASE b[1] = "sendBuf"
    <3>1. Rank(a) = Rank(b) + 1
      BY <1>5, <2>2, RankIs
    <3>2. Clear(Store, a, b, r)
      BY <1>2, <1>3, <1>4, <3>1, ClearNet DEF IInv
    <3> QED
      BY <2>1, <3>2
  <2>3. CASE b[1] = "kbuf"
    <3>1. PICK q : q = <<"sendBuf", c>>
      OBVIOUS
    <3>2. q \in Places /\ Rank(q) = 3 /\ Rank(b) = 2 /\ Store[q] = <<>>
      BY <2>3, <3>1, ArePlaces, RankIs, StoreAt DEF StoreParts
    <3>3. Clear(Store, a, q, r)
      BY <1>2, <1>3, <1>8, <3>2, ClearNet DEF IInv
    <3>4. ASSUME NEW z \in Places \ {a}, NEW j \in DOMAIN Store[z],
                 Before(b, z), ~Before(a, z), Store[z][j].conn = r.conn,
                 InPipe(z, Store[z][j])
          PROVE  FALSE
      <4>1. Rank(z) \in Nat
        BY RankType
      <4>2. CASE Before(q, z)
        BY <3>3, <3>4, <4>2 DEF Clear
      <4>3. CASE ~Before(q, z)
        <5>1. Rank(z) = 3
          BY <3>2, <3>4, <4>1, <4>3 DEF Before
        <5>2. z[1] = "sendBuf"
          <6>1. z[1] \in RankKinds
            BY KindOfPlace
          <6> QED
            BY <5>1, <6>1, RankIs DEF RankKinds
        <5>3. z[2] = c
          BY <2>1, <3>4, <5>2 DEF InPipe
        <5>4. z = q
          BY <3>1, <5>2, <5>3, KindOfPlace
        <5> QED
          BY <3>2, <5>4
      <4> QED
        BY <4>2, <4>3
    <3>5. Clear(Store, a, b, r)
      BY <3>4 DEF Clear
    <3> QED
      BY <2>1, <3>5
  <2> QED
    BY <1>5, <2>2, <2>3
<1>11. \A i \in 1..1 : Store[a][i] = r
  BY <1>2
<1>12. \A i \in (1 + 1)..1 : FALSE
  OBVIOUS
<1> QED
  BY <1>7, <1>9, <1>10, <1>11, <1>12 DEF Flow

LEMMA NetTaskFlow ==
    ASSUME IInv, WakeSound, AnswersSound, Next, NEW n \in Net, NetTaskStep(n)
    PROVE  \E c \in Conn : \E b \in {<<"sendBuf", c>>, <<"kbuf", c>>} :
                Flow(<<"batch", n>>, b, 1, 1)
<1>1. PICK c : c = table[n][Head(batch[n]).uid]
  OBVIOUS
<1>2. PICK r : r = Head(batch[n]).pkg
  OBVIOUS
<1>3. c \in Conn /\ r \in Package
  BY <1>1, <1>2, AnswerForOwner
<1>4. NextTask(n) /\ Head(batch[n]).type = "net"
  BY DEF NetTaskStep
<1>5. /\ kbuf \in [Conn -> Seq(Package)] /\ sendBuf \in [Conn -> Seq(Package)]
      /\ batch \in [Net -> Seq(Task)]
  BY DEF IInv, TypeOK, PeersTypeOK, ConnsTypeOK, NetTypeOK
<1>6. /\ batch' = [batch EXCEPT ![n] = Tail(@)]
      /\ UNCHANGED <<inbound, got, recvBuf, respQ, reqQ, rq, cur, hpc>>
  BY <1>4 DEF NextTask, handleVars
<1>7. \/ /\ sendBuf' = [sendBuf EXCEPT ![c] = Append(@, r)]
         /\ UNCHANGED kbuf
      \/ /\ sendBuf[c] = <<>>
         /\ sendBuf' = [sendBuf EXCEPT ![c] = <<r>>]
         /\ UNCHANGED kbuf
      \/ /\ sendBuf[c] = <<>>
         /\ SendData(c, <<r>>)
  BY <1>1, <1>2 DEF NetTaskStep, PushData
<1>8. \/ /\ sendBuf' = [sendBuf EXCEPT ![c] = Append(@, r)]
         /\ UNCHANGED kbuf
      \/ /\ sendBuf[c] = <<>>
         /\ kbuf' = [kbuf EXCEPT ![c] = Append(@, r)]
         /\ sendBuf' = [sendBuf EXCEPT ![c] = <<>>]
  <2>1. /\ SubSeq(<<r>>, 1, 0) = <<>> /\ SubSeq(<<r>>, 1, 1) = <<r>>
        /\ SubSeq(<<r>>, 2, 1) = <<>> /\ Len(<<r>>) = 1
    <3> DEFINE s == <<r>>
    <3>1. s \in Seq(Package) /\ Len(s) = 1
      BY <1>3
    <3> HIDE DEF s
    <3>2. SubSeq(s, 1, 0) = <<>> /\ SubSeq(s, 1, 1) = s /\ SubSeq(s, 2, 1) = <<>>
      BY <3>1, NothingToMove
    <3> QED
      BY <3>1, <3>2 DEF s
  <2>2. <<r>> \in Seq(Package) /\ kbuf[c] \in Seq(Package)
    BY <1>3, <1>5
  <2>3. kbuf[c] \o <<>> = kbuf[c] /\ kbuf[c] \o <<r>> = Append(kbuf[c], r)
    BY <1>3, <2>2, NothingToMove, AppendIsConcat
  <2>4. Append(<<>>, r) = <<r>>
    OBVIOUS
  <2>5. CASE sendBuf[c] = <<>> /\ sendBuf' = [sendBuf EXCEPT ![c] = <<r>>]
                               /\ UNCHANGED kbuf
    BY <2>4, <2>5
  <2>6. CASE sendBuf[c] = <<>> /\ SendData(c, <<r>>)
    <3>0. PICK s \in Seq(Package) : s = <<r>>
      BY <2>2
    <3>1. PICK m : m = Fitting(c, s)
      OBVIOUS
    <3>2. m = 0 \/ m = 1
      <4>1. m \in 0..Len(s)
        BY <1>3, <3>1, FittingBound
      <4>2. Len(s) = 1
        BY <2>1, <3>0
      <4> QED
        BY <4>1, <4>2
    <3>3. /\ kbuf' = [kbuf EXCEPT ![c] = kbuf[c] \o SubSeq(s, 1, m)]
          /\ sendBuf' = [sendBuf EXCEPT ![c] = SubSeq(s, m + 1, Len(s))]
      BY <2>6, <3>0, <3>1 DEF SendData
    <3>4. /\ SubSeq(s, 1, 0) = <<>> /\ SubSeq(s, 1, 1) = s
          /\ SubSeq(s, 2, Len(s)) = <<>> /\ SubSeq(s, 1, Len(s)) = s
      BY <2>1, <3>0
    <3>5. CASE m = 0
      <4>1. kbuf' = [kbuf EXCEPT ![c] = kbuf[c] \o SubSeq(s, 1, 0)]
            /\ sendBuf' = [sendBuf EXCEPT ![c] = SubSeq(s, 1, Len(s))]
        <5>1. m + 1 = 1
          BY <3>5
        <5> QED
          BY <3>3, <3>5, <5>1, Zenon
      <4>2. kbuf' = [kbuf EXCEPT ![c] = kbuf[c]]
            /\ sendBuf' = [sendBuf EXCEPT ![c] = s]
        BY <2>3, <3>4, <4>1, Zenon
      <4>3. kbuf' = kbuf
        BY <1>5, <4>2
      <4> QED
        BY <2>5, <2>6, <3>0, <4>2, <4>3
    <3>6. CASE m = 1
      <4>1. kbuf' = [kbuf EXCEPT ![c] = kbuf[c] \o SubSeq(s, 1, 1)]
            /\ sendBuf' = [sendBuf EXCEPT ![c] = SubSeq(s, 2, Len(s))]
        <5>1. m + 1 = 2
          BY <3>6
        <5> QED
          BY <3>3, <3>6, <5>1, Zenon
      <4>2. kbuf' = [kbuf EXCEPT ![c] = Append(kbuf[c], r)]
            /\ sendBuf' = [sendBuf EXCEPT ![c] = <<>>]
        BY <2>3, <3>0, <3>4, <4>1, Zenon
      <4> QED
        BY <2>6, <4>2
    <3> QED
      BY <3>2, <3>5, <3>6
  <2> QED
    BY <1>7, <2>5, <2>6
<1>9. PICK a : a = <<"batch", n>>
  OBVIOUS
<1>10. CASE sendBuf' = [sendBuf EXCEPT ![c] = Append(@, r)] /\ UNCHANGED kbuf
  <2>1. PICK b : b = <<"sendBuf", c>>
    OBVIOUS
  <2>2. OnlyAt(a, b)
    BY <1>3, <1>5, <1>6, <1>9, <1>10, <2>1 DEF OnlyAt
  <2>3. \A x \in Places \ {a, b} : Store'[x] = Store[x]
    BY <2>2, Frame
  <2>4. Store[b] = sendBuf[c] /\ Store'[b] = sendBuf'[c]
    BY <1>3, <2>1, StoreAt, StoreAtNext DEF StoreParts
  <2>5. Store'[b] = Append(Store[b], r)
    BY <1>3, <1>5, <1>10, <2>4
  <2>6. b \in {<<"sendBuf", c>>, <<"kbuf", c>>} /\ b[1] # "kbuf"
    BY <2>1
  <2>7. Flow(a, b, 1, 1)
    BY <1>2, <1>3, <1>4, <1>9, <2>3, <2>5, <2>6, BatchFlow
  <2> QED
    BY <1>3, <1>9, <2>6, <2>7
<1>11. CASE /\ sendBuf[c] = <<>>
            /\ kbuf' = [kbuf EXCEPT ![c] = Append(@, r)]
            /\ sendBuf' = [sendBuf EXCEPT ![c] = <<>>]
  <2>1. PICK b : b = <<"kbuf", c>>
    OBVIOUS
  <2>2. \A d \in Conn : sendBuf'[d] = sendBuf[d]
    BY <1>3, <1>5, <1>11
  <2>3. OnlyAt(a, b)
    BY <1>3, <1>5, <1>6, <1>9, <1>11, <2>1, <2>2 DEF OnlyAt
  <2>4. \A x \in Places \ {a, b} : Store'[x] = Store[x]
    BY <2>3, Frame
  <2>5. Store[b] = kbuf[c] /\ Store'[b] = kbuf'[c]
    BY <1>3, <2>1, StoreAt, StoreAtNext DEF StoreParts
  <2>6. Store'[b] = Append(Store[b], r)
    BY <1>3, <1>5, <1>11, <2>5
  <2>7. b \in {<<"sendBuf", c>>, <<"kbuf", c>>}
    BY <2>1
  <2>8. Flow(a, b, 1, 1)
    BY <1>2, <1>3, <1>4, <1>9, <1>11, <2>4, <2>6, <2>7, BatchFlow
  <2> QED
    BY <1>3, <1>9, <2>7, <2>8
<1> QED
  BY <1>8, <1>10, <1>11

(* A task that is not a response, or a response without a connection.        *)
LEMMA AwayFlow ==
    ASSUME IInv, WakeSound, AnswersSound, Next, NEW n \in Net,
           AddTaskStep(n) \/ DropTaskStep(n)
    PROVE  Flow(<<"batch", n>>, <<"reqQ", Acceptor>>, 0, 1)
<1>1. PICK a : a = <<"batch", n>>
  OBVIOUS
<1>2. PICK b : b = <<"reqQ", Acceptor>>
  OBVIOUS
<1>3. NextTask(n)
  BY DEF AddTaskStep, DropTaskStep
<1>4. /\ a \in Places /\ Store[a] # <<>> /\ Store'[a] = Tail(Store[a])
      /\ Head(batch[n]).type = "net" => /\ Head(batch[n]) \in NetTask
                                        /\ Store[a][1] = Head(batch[n]).pkg
      /\ Head(batch[n]).type = "add" => Store[a][1].k = 0
  BY <1>1, <1>3, BatchHead
<1>5. batch \in [Net -> Seq(Task)]
  BY DEF IInv, TypeOK, NetTypeOK
<1>6. OnlyAt(a, a)
  BY <1>1, <1>5 DEF OnlyAt, AddTaskStep, DropTaskStep, NextTask, handleVars
<1>7. \A x \in Places \ {a} : Store'[x] = Store[x]
  BY <1>6, Frame
<1>8. b \in Places /\ IsStore(Store) /\ a # b
  BY <1>1, <1>2, ArePlaces, StoreType DEF IInv
<1>9. Moves(Store, Store', a, b, 0, 1)
  BY <1>4, <1>7, <1>8, MovesAway
<1>10. PICK r : r = Store[a][1]
  OBVIOUS
<1>11. Lost(r)
  <2>1. CASE AddTaskStep(n)
    <3>1. r.k = 0
      BY <1>4, <1>10, <2>1 DEF AddTaskStep
    <3> QED
      BY <3>1 DEF Lost
  <2>2. CASE DropTaskStep(n)
    <3>1. PICK t : t = Head(batch[n])
      OBVIOUS
    <3>2. t.type = "net" /\ t \in NetTask /\ r = t.pkg
          /\ table[n][t.uid] = NoConn
      BY <1>4, <1>10, <2>2, <3>1 DEF DropTaskStep
    <3>3. r.conn \in Conn /\ t.uid \in Uid
      BY <3>2 DEF NetTask, Package
    <3>4. uid[r.conn] = t.uid /\ home[r.conn] = n
      <4>1. batch[n] \in Seq(Task) /\ batch[n] # <<>>
        BY <1>3, <1>5 DEF NextTask
      <4>2. 1 \in DOMAIN batch[n] /\ batch[n][1] = t
        BY <3>1, <4>1
      <4>3. Addressed(batch[n], n)
        BY DEF AnswersSound
      <4> QED
        BY <3>2, <4>2, <4>3 DEF Addressed
    <3>5. stage[r.conn] # "open"
      <4>1. NoConn \notin Conn
        BY ServerAssumption DEF ServerAssumption
      <4> QED
        BY <3>2, <3>3, <3>4, <4>1 DEF IInv, TableSound
    <3> QED
      BY <3>3, <3>4, <3>5, GoneIsLost
  <2> QED
    BY <2>1, <2>2
<1>12. \A i \in (0 + 1)..1 : Lost(Store[a][i])
  <2>1. ASSUME NEW i \in (0 + 1)..1
        PROVE  Lost(Store[a][i])
    <3>1. i = 1
      OBVIOUS
    <3> QED
      BY <1>10, <1>11, <3>1
  <2> QED
    BY <2>1
<1>13. \A i \in 1..0 : FALSE
  OBVIOUS
<1>14. Flow(a, b, 0, 1)
  BY <1>9, <1>12, <1>13 DEF Flow
<1> QED
  BY <1>1, <1>2, <1>14

LEMMA WriteFlow ==
    ASSUME IInv, NEW n \in Net, WriteEvent(n), NEW c, c = reading[n].conn
    PROVE  \/ Store' = Store
           \/ c \in Conn /\ \E m \in Nat :
                Flow(<<"sendBuf", c>>, <<"kbuf", c>>, m, m)
<1> DEFINE a == <<"sendBuf", c>>
           b == <<"kbuf", c>>
           buf == sendBuf[c]
<1>1. c \in Conn
  BY ReadingInTable DEF WriteEvent
<1>2. a \in Places /\ b \in Places /\ a # b /\ IsStore(Store)
  BY <1>1, ArePlaces, StoreType DEF IInv
<1>3. /\ kbuf \in [Conn -> Seq(Package)] /\ sendBuf \in [Conn -> Seq(Package)]
      /\ buf \in Seq(Package)
  BY <1>1 DEF IInv, TypeOK, PeersTypeOK, ConnsTypeOK
<1>4. CASE Broken(c)
  <2>1. OnlyAt(a, a) /\ UNCHANGED sendBuf
    BY <1>4 DEF OnlyAt, WriteEvent, handleVars
  <2>2. \A x \in Places \ {a} : Store'[x] = Store[x]
    BY <2>1, Frame
  <2>3. Store'[a] = Store[a]
    BY <1>1, <2>1, StoreAt, StoreAtNext, ZenonT(60) DEF StoreParts
  <2>4. \A x \in Places : Store'[x] = Store[x]
    BY <2>2, <2>3
  <2> QED
    BY <2>4 DEF Store
<1>5. CASE ~Broken(c)
  <2>1. PICK m : m = Fitting(c, buf)
    OBVIOUS
  <2>2. m \in 0..Len(buf) /\ m \in Nat
    BY <1>1, <1>3, <2>1, FittingBound
  <2>3. /\ kbuf' = [kbuf EXCEPT ![c] = kbuf[c] \o SubSeq(buf, 1, m)]
        /\ sendBuf' = [sendBuf EXCEPT ![c] = SubSeq(buf, m + 1, Len(buf))]
    BY <1>5, <2>1 DEF WriteEvent, SendData
  <2>4. OnlyAt(a, b)
    BY <1>1, <1>3, <2>3 DEF OnlyAt, WriteEvent, handleVars
  <2>5. \A x \in Places \ {a, b} : Store'[x] = Store[x]
    BY <2>4, Frame
  <2>6. /\ Store[a] = buf /\ Store[b] = kbuf[c]
        /\ Store'[a] = SubSeq(buf, m + 1, Len(buf))
        /\ Store'[b] = kbuf[c] \o SubSeq(buf, 1, m)
    BY <1>1, <1>3, <2>3, StoreAt, StoreAtNext DEF StoreParts
  <2>7. a[1] = "sendBuf" /\ b[1] = "kbuf" /\ a[2] = c /\ b[2] = c
    OBVIOUS
  <2> HIDE DEF a, b, buf
  <2>8. /\ Store'[a] = SubSeq(Store[a], m + 1, Len(Store[a]))
        /\ Store'[b] = Store[b] \o SubSeq(Store[a], 1, m)
        /\ m \in 0..Len(Store[a])
    BY <2>2, <2>6, Zenon
  <2>9. m \in 0..m
    BY <2>2
  <2>10. Moves(Store, Store', a, b, m, m)
    BY <1>2, <2>5, <2>8, <2>9 DEF Moves
  <2>11. Rank(a) = 3 /\ Rank(b) = 2
    BY <2>7, RankIs
  <2>12. Before(b, a) /\ Rank(a) = Rank(b) + 1
    BY <2>11 DEF Before
  <2>13. ASSUME NEW r, InPipe(b, r)
         PROVE  InPipe(a, r) /\ Clear(Store, a, b, r)
    <3>1. InPipe(a, r)
      BY <2>7, <2>13 DEF InPipe
    <3> QED
      BY <1>2, <2>7, <2>12, <3>1, ClearConn
  <2>14. \A i \in (m + 1)..m : FALSE
    BY <2>2
  <2>15. Flow(a, b, m, m)
    BY <2>10, <2>12, <2>13, <2>14 DEF Flow
  <2> QED
    BY <1>1, <2>2, <2>15 DEF a, b
<1> QED
  BY <1>4, <1>5

(* Accepting brings a new task into a queue of responses.                    *)
LEMMA AcceptGrows ==
    ASSUME IInv, NEW n \in Net, Accept(n)
    PROVE  \E a \in Places, r \in Item :
                r.k = 0 /\ Grows(Store, Store', a, r)
<1>1. PICK c : c = Head(backlog)
  OBVIOUS
<1>2. PICK p : p = hash % NumNet
  OBVIOUS
<1>3. c \in Conn /\ p \in Net
  <2>1. backlog \in Seq(Conn) /\ hash \in Nat /\ backlog # <<>>
    BY DEF IInv, TypeOK, PeersTypeOK, NetTypeOK, Accept
  <2>2. NumNet \in Nat \ {0}
    BY ServerAssumption DEF ServerAssumption
  <2>3. c \in Conn
    BY <1>1, <2>1
  <2>4. p \in 0..(NumNet - 1)
    BY <1>2, <2>1, <2>2
  <2> QED
    BY <2>3, <2>4 DEF Net
<1>4. PICK t : t = [type |-> "add", conn |-> c]
  OBVIOUS
<1>5. t \in AddTask /\ t.conn = c
  BY <1>3, <1>4 DEF AddTask
<1>6. PICK r : r = [conn |-> c, k |-> 0]
  OBVIOUS
<1>7. r \in Item /\ r.k = 0
  BY <1>3, <1>6, ServerAssumption DEF Item, ServerAssumption
<1>8. respQ \in [Net -> Seq(Task)]
  BY DEF IInv, TypeOK, NetTypeOK
<1>9. respQ' = [respQ EXCEPT ![p] = Append(respQ[p], t)]
  BY <1>1, <1>2, <1>4 DEF Accept
<1>10. PICK a : a = <<"respQ", p>>
  OBVIOUS
<1>11. a \in Places /\ IsStore(Store)
  BY <1>3, <1>10, ArePlaces, StoreType DEF IInv
<1>12. OnlyAt(a, a)
  BY <1>3, <1>8, <1>9, <1>10 DEF OnlyAt, Accept, handleVars
<1>13. \A x \in Places \ {a} : Store'[x] = Store[x]
  BY <1>12, Frame
<1>14. Store'[a] = Append(Store[a], r)
  <2>1. Store[a] = Responses(respQ[p]) /\ Store'[a] = Responses(respQ[p])'
    BY <1>3, <1>10, StoreAt, StoreAtNext DEF StoreParts
  <2>2. respQ'[p] = Append(respQ[p], t) /\ respQ[p] \in Seq(Task)
    BY <1>3, <1>8, <1>9
  <2>3. Responses(respQ[p])' = Responses(Append(respQ[p], t))
    BY <2>2 DEF Responses
  <2>4. Responses(Append(respQ[p], t)) =
            Append(Responses(respQ[p]), [conn |-> t.conn, k |-> 0])
    BY <1>5, <2>2, ResponsesMove
  <2> QED
    BY <1>5, <1>6, <2>1, <2>3, <2>4
<1>15. Grows(Store, Store', a, r)
  BY <1>11, <1>13, <1>14 DEF Grows
<1> QED
  BY <1>7, <1>11, <1>15

(* A request is sent.                                                        *)
LEMMA PeerSendGrows ==
    ASSUME IInv, NEW c \in Conn, PeerSend(c)
    PROVE  \E r \in Item : /\ r.conn = c /\ r.k = sent[c] + 1
                           /\ Grows(Store, Store', <<"inbound", c>>, r)
<1>1. PICK r : r = [conn |-> c, k |-> sent[c] + 1]
  OBVIOUS
<1>2. inbound \in [Conn -> Seq(Request)] /\ sent[c] \in Nat
      /\ sent[c] < MaxReq /\ MaxReq \in Nat
  BY ServerAssumption DEF IInv, TypeOK, PeersTypeOK, PeerSend, ServerAssumption
<1>3. r \in Item /\ r.conn = c /\ r.k = sent[c] + 1
  BY <1>1, <1>2 DEF Item
<1>4. inbound' = [inbound EXCEPT ![c] = Append(inbound[c], r)]
  BY <1>1 DEF PeerSend
<1>5. PICK a : a = <<"inbound", c>>
  OBVIOUS
<1>6. a \in Places /\ IsStore(Store)
  BY <1>5, ArePlaces, StoreType DEF IInv
<1>7. OnlyAt(a, a)
  BY <1>2, <1>4, <1>5 DEF OnlyAt, PeerSend, connVars, netVars, handleVars
<1>8. \A x \in Places \ {a} : Store'[x] = Store[x]
  BY <1>7, Frame
<1>9. Store'[a] = Append(Store[a], r)
  <2>1. Store[a] = inbound[c] /\ Store'[a] = inbound'[c]
    BY <1>5, StoreAt, StoreAtNext DEF StoreParts
  <2> QED
    BY <1>2, <1>4, <2>1
<1>10. Grows(Store, Store', a, r)
  BY <1>6, <1>8, <1>9 DEF Grows
<1> QED
  BY <1>3, <1>5, <1>10

(* No other step moves anything.                                             *)
StoreVars == <<inbound, recvBuf, sendBuf, kbuf, got, respQ, batch, rq, cur, reqQ>>

LEMMA StoreKept ==
    ASSUME UNCHANGED StoreVars
    PROVE  Store' = Store
<1>1. OnlyAt(<<"none">>, <<"none">>)
  BY DEF OnlyAt, StoreVars
<1>2. \A x \in Places \ {<<"none">>} : Store'[x] = Store[x]
  BY <1>1, Frame
<1>3. <<"none">> \notin Places
  <2>1. "none" \notin RankKinds
    BY DEF RankKinds
  <2>2. \A x \in Places : x[1] # "none"
    BY <2>1, KindOfPlace
  <2> QED
    BY <2>2
<1>4. \A x \in Places : Store'[x] = Store[x]
  BY <1>2, <1>3
<1> QED
  BY <1>4 DEF Store

(* Every step leaves the items, moves some of them on, or brings one.        *)
Moved == \E a, b, m, t : Flow(a, b, m, t)
Added == \E a \in Places, r \in Item :
    /\ Grows(Store, Store', a, r)
    /\ \/ r.k = 0 /\ sent' = sent
       \/ \E c \in Conn : /\ a = <<"inbound", c>>
                          /\ r.conn = c /\ r.k = sent[c] + 1
                          /\ sent' = [sent EXCEPT ![c] = sent[c] + 1]

LEMMA Flows ==
    ASSUME IInv, RoundSound, WakeSound, AnswersSound, Next
    PROVE  \/ Store' = Store /\ sent' = sent
           \/ Moved /\ sent' = sent
           \/ Added
<1>1. CASE \E c \in Conn : PeerStep(c)
  <2>1. PICK c \in Conn : PeerStep(c)
    BY <1>1
  <2>2. CASE PeerConnect(c) \/ PeerEnd(c)
    <3>1. UNCHANGED StoreVars /\ sent' = sent
      BY <2>2 DEF PeerConnect, PeerEnd, StoreVars, connVars, netVars, handleVars
    <3> QED
      BY <3>1, StoreKept
  <2>3. CASE PeerSend(c)
    <3>1. PICK r \in Item : /\ r.conn = c /\ r.k = sent[c] + 1
                            /\ Grows(Store, Store', <<"inbound", c>>, r)
      BY <2>3, PeerSendGrows
    <3>2. sent' = [sent EXCEPT ![c] = sent[c] + 1]
      BY <2>3 DEF PeerSend
    <3>3. <<"inbound", c>> \in Places
      BY ArePlaces
    <3> QED
      BY <3>1, <3>2, <3>3 DEF Added
  <2>4. CASE PeerRecv(c)
    <3>1. Moved
      BY <2>4, PeerRecvFlow DEF IInv, Moved
    <3>2. sent' = sent
      BY <2>4 DEF PeerRecv
    <3> QED
      BY <3>1, <3>2
  <2> QED
    BY <2>1, <2>2, <2>3, <2>4 DEF PeerStep
<1>2. CASE \E h \in Handle : HandleStep(h)
  <2>1. PICK h \in Handle : HandleStep(h)
    BY <1>2
  <2>2. sent' = sent
    BY <2>1 DEF HandleStep, TakeRequests, LockConnection, Distribute,
      SendResponse, kernelVars
  <2>3. CASE TakeRequests(h)
    BY <2>2, <2>3, TakeFlow DEF Moved
  <2>4. CASE LockConnection(h)
    <3>1. Moved
      BY <2>4, LockFlow DEF Moved
    <3> QED
      BY <2>2, <3>1
  <2>5. CASE Distribute(h)
    <3>1. Store' = Store \/ Moved
      BY <2>5, DistributeFlow DEF Moved
    <3> QED
      BY <2>2, <3>1
  <2>6. CASE SendResponse(h)
    <3>1. PICK n : n = home[cur[h].conn]
      OBVIOUS
    <3>2. Flow(<<"cur", h>>, <<"respQ", n>>, 1, 1)
      BY <2>6, <3>1, SendResponseFlow
    <3> QED
      BY <2>2, <3>2 DEF Moved
  <2> QED
    BY <2>1, <2>3, <2>4, <2>5, <2>6 DEF HandleStep
<1>3. CASE \E n \in Net : NetStep(n)
  <2>1. PICK n \in Net : NetStep(n)
    BY <1>3
  <2>2. CASE \/ EpollWait(n) \/ AcceptEvent(n) \/ AcceptEnd(n) \/ ErrorEvent(n)
             \/ DataEvent(n) \/ ReadDone(n) \/ RoundDone(n)
    <3>1. UNCHANGED StoreVars /\ sent' = sent
      BY <2>2 DEF EpollWait, AcceptEvent, AcceptEnd, ErrorEvent, DataEvent,
        ConnEventAt, ReadDone, RoundDone, StoreVars, kernelVars, connVars,
        handleVars
    <3> QED
      BY <3>1, StoreKept
  <2>3. CASE Accept(n)
    <3>1. sent' = sent
      BY <2>3 DEF Accept
    <3>2. Added
      BY <2>3, <3>1, AcceptGrows DEF Added
    <3> QED
      BY <3>2
  <2>5. CASE RecvData(n)
    <3>1. PICK c : c = reading[n].conn
      OBVIOUS
    <3>2. Moved
      BY <2>5, <3>1, RecvDataFlow DEF Moved
    <3>3. sent' = sent
      BY <2>5 DEF RecvData
    <3> QED
      BY <3>2, <3>3
  <2>6. CASE ExtractPackage(n)
    <3>1. PICK c : c = reading[n].conn
      OBVIOUS
    <3>2. Moved
      BY <2>6, <3>1, ExtractFlow DEF Moved
    <3>3. sent' = sent
      BY <2>6 DEF ExtractPackage, kernelVars
    <3> QED
      BY <3>2, <3>3
  <2>7. CASE WriteEvent(n)
    <3>1. PICK c : c = reading[n].conn
      OBVIOUS
    <3>2. Store' = Store \/ Moved
      BY <2>7, <3>1, WriteFlow DEF Moved
    <3>3. sent' = sent
      BY <2>7 DEF WriteEvent
    <3> QED
      BY <3>2, <3>3
  <2>8. CASE SwapResponses(n)
    <3>1. Moved
      BY <2>8, SwapFlow DEF Moved
    <3>2. sent' = sent
      BY <2>8 DEF SwapResponses, kernelVars
    <3> QED
      BY <3>1, <3>2
  <2>9. CASE NetTaskStep(n)
    <3>1. Moved
      BY <2>9, NetTaskFlow DEF Moved
    <3>2. sent' = sent
      BY <2>9 DEF NetTaskStep, NextTask
    <3> QED
      BY <3>1, <3>2
  <2>10. CASE AddTaskStep(n) \/ DropTaskStep(n)
    <3>1. Moved
      BY <2>10, AwayFlow DEF Moved
    <3>2. sent' = sent
      BY <2>10 DEF AddTaskStep, DropTaskStep, NextTask
    <3> QED
      BY <3>1, <3>2
  <2> QED
    BY <2>1, <2>2, <2>3, <2>5, <2>6, <2>7, <2>8, <2>9, <2>10 DEF NetStep
<1> QED
  BY <1>1, <1>2, <1>3 DEF Next

-----------------------------------------------------------------------------
(* A connection that works on has worked since it was accepted.              *)

LEMMA DroppedForEver ==
    ASSUME IInv, Next, NEW c \in Conn, stage[c] = "dropped"
    PROVE  stage'[c] = "dropped"
<1>1. ASSUME NEW n \in Net, Accept(n)
      PROVE  stage'[c] = "dropped"
  <2>1. /\ stage' = [stage EXCEPT ![Head(backlog)] = "task"]
        /\ stage[Head(backlog)] = "none"
    BY <1>1, HeadOfBacklog DEF Accept
  <2> QED
    BY <2>1, ConnTypes
<1>2. ASSUME NEW n \in Net, AddTaskStep(n)
      PROVE  stage'[c] = "dropped"
  BY <1>2, AddEffects
<1> QED
  BY <1>1, <1>2, StageMoves

LEMMA EndedForEver ==
    ASSUME IInv, Next, NEW n \in Net, pc[n] = "ended"
    PROVE  pc'[n] = "ended"
<1>1. CASE (\E h \in Handle : HandleStep(h)) \/ (\E c \in Conn : PeerStep(c))
  BY <1>1, QuietSteps
<1>2. ASSUME NEW p \in Net, NetStep(p), p # n
      PROVE  pc'[n] = "ended"
  BY <1>2, OtherThreads
<1>3. ASSUME NetStep(n)
      PROVE  FALSE
  <2>1. CASE EpollWait(n) \/ AcceptEvent(n) \/ Accept(n) \/ AcceptEnd(n)
    BY <2>1 DEF EpollWait, AcceptEvent, Accept, AcceptEnd
  <2>2. CASE ErrorEvent(n) \/ DataEvent(n)
    BY <2>2 DEF ErrorEvent, DataEvent, ConnEventAt
  <2>3. CASE RecvData(n) \/ ExtractPackage(n) \/ ReadDone(n) \/ WriteEvent(n)
    BY <2>3 DEF RecvData, ExtractPackage, ReadDone, WriteEvent
  <2>4. CASE SwapResponses(n) \/ RoundDone(n)
    BY <2>4 DEF SwapResponses, RoundDone
  <2>5. CASE AddTaskStep(n) \/ NetTaskStep(n) \/ DropTaskStep(n)
    BY <2>5 DEF AddTaskStep, NetTaskStep, DropTaskStep, NextTask
  <2> QED
    BY <1>3, <2>1, <2>2, <2>3, <2>4, <2>5 DEF NetStep
<1> QED
  BY <1>1, <1>2, <1>3 DEF Next

LEMMA HomeMoves ==
    ASSUME IInv, AcceptSound, Next, NEW c \in Conn, home'[c] # home[c]
    PROVE  home[c] = Acceptor /\ pc[Acceptor] = "accept"
<1>1. ASSUME NEW n \in Net, AddTaskStep(n)
      PROVE  UNCHANGED home
  BY <1>1 DEF AddTaskStep, NextTask
<1>2. PICK n \in Net : Accept(n)
  BY <1>1, StageMoves
<1>3. /\ home' = [home EXCEPT ![Head(backlog)] = hash % NumNet]
      /\ stage[Head(backlog)] = "none" /\ Head(backlog) \in Conn
      /\ pc[n] = "accept"
  BY <1>2, HeadOfBacklog DEF Accept
<1>4. c = Head(backlog)
  BY <1>3 DEF IInv, TypeOK, ConnsTypeOK
<1>5. n = Acceptor /\ home[c] = Acceptor
  BY <1>3, <1>4 DEF AcceptSound
<1> QED
  BY <1>3, <1>5

LEMMA WorkedBefore ==
    ASSUME IInv, AcceptSound, Next, NEW c \in Conn, Working(c)'
    PROVE  Working(c)
<1>1. stage[c] \in {"none", "task", "open", "closed", "dropped"}
      /\ home[c] \in Net
  BY DEF IInv, TypeOK, ConnsTypeOK
<1>2. stage[c] \in {"none", "task", "open"}
  BY <1>1, ClosedForEver, DroppedForEver DEF Working
<1>3. pc[home[c]] # "ended"
  <2>1. CASE home'[c] # home[c]
    BY <2>1, HomeMoves
  <2>2. CASE home'[c] = home[c]
    <3>1. PICK n \in Net : n = home[c]
      BY <1>1
    <3>2. pc'[n] # "ended"
      BY <2>2, <3>1 DEF Working
    <3> QED
      BY <3>1, <3>2, EndedForEver
  <2> QED
    BY <2>1, <2>2
<1> QED
  BY <1>2, <1>3 DEF Working

LEMMA ResetForEver ==
    ASSUME IInv, Next, NEW c \in Conn, peer[c] = "reset"
    PROVE  peer'[c] = "reset"
<1>1. peer \in [Conn -> {"idle", "open", "fin", "reset"}]
  BY DEF IInv, TypeOK, PeersTypeOK
<1>2. ASSUME NEW d \in Conn, PeerStep(d)
      PROVE  peer'[c] = "reset"
  <2>1. CASE PeerConnect(d)
    BY <1>1, <2>1 DEF PeerConnect
  <2>2. CASE PeerEnd(d)
    BY <1>1, <2>2 DEF PeerEnd
  <2>3. CASE PeerSend(d) \/ PeerRecv(d)
    BY <2>3 DEF PeerSend, PeerRecv
  <2> QED
    BY <1>2, <2>1, <2>2, <2>3 DEF PeerStep
<1> QED
  BY <1>2, NetLeavesPeers, HandleLeavesKernel DEF Next

-----------------------------------------------------------------------------
(* Where the items are.                                                      *)

Bounded == \A x \in Places : \A i \in DOMAIN Store[x] :
                Store[x][i].k <= sent[Store[x][i].conn]

Present == \A c \in Conn : \A k \in 1..sent[c] :
    Working(c) /\ peer[c] # "reset" /\ k \notin Oneway =>
        \E x \in Places : \E i \in DOMAIN Store[x] :
            Store[x][i] = [conn |-> c, k |-> k]

LEMMA PlacesAre == PlacesSound <=> Bounded /\ Distinct(Store)
<1>1. \A x \in Places : Store[x] = Contents(x)
  BY DEF Store
<1> QED
  BY <1>1 DEF PlacesSound, Bounded, Distinct

LEMMA PlacesAreNext == PlacesSound' <=> Bounded' /\ Distinct(Store')
<1>1. PlacesSound' <=> (Bounded /\ Distinct(Store))'
  BY PlacesAre, PTL
<1> QED
  BY <1>1 DEF Distinct

LEMMA WhereAre ==
    ASSUME NEW c, NEW k, NEW p
    PROVE  p \in Where(c, k) <=>
                \E x \in Places : \E i \in DOMAIN Store[x] :
                    p = <<x, i>> /\ Store[x][i] = [conn |-> c, k |-> k]
<1>1. \A x \in Places : Store[x] = Contents(x)
  BY DEF Store
<1> QED
  BY <1>1 DEF Where

LEMMA CallsAre ==
    ASSUME Distinct(Store)
    PROVE  CallsConserved <=> Present
<1>1. ASSUME NEW c \in Conn, NEW k \in 1..sent[c]
      PROVE  /\ Cardinality(Where(c, k)) <= 1
             /\ Where(c, k) # {} <=>
                    \E x \in Places : \E i \in DOMAIN Store[x] :
                        Store[x][i] = [conn |-> c, k |-> k]
  <2>1. Where(c, k) # {} <=>
            \E x \in Places : \E i \in DOMAIN Store[x] :
                Store[x][i] = [conn |-> c, k |-> k]
    <3>1. \A p : p \in Where(c, k) <=>
                \E x \in Places : \E i \in DOMAIN Store[x] :
                    p = <<x, i>> /\ Store[x][i] = [conn |-> c, k |-> k]
      BY WhereAre
    <3>2. ASSUME NEW p \in Where(c, k)
          PROVE  \E x \in Places : \E i \in DOMAIN Store[x] :
                    Store[x][i] = [conn |-> c, k |-> k]
      BY <3>1
    <3>3. ASSUME NEW x \in Places, NEW i \in DOMAIN Store[x],
                 Store[x][i] = [conn |-> c, k |-> k]
          PROVE  <<x, i>> \in Where(c, k)
      BY <3>1, <3>3
    <3> QED
      BY <3>2, <3>3
  <2>2. ASSUME NEW p \in Where(c, k), NEW q \in Where(c, k)
        PROVE  p = q
    <3>1. PICK x \in Places : \E i \in DOMAIN Store[x] :
                p = <<x, i>> /\ Store[x][i] = [conn |-> c, k |-> k]
      BY WhereAre
    <3>2. PICK y \in Places : \E j \in DOMAIN Store[y] :
                q = <<y, j>> /\ Store[y][j] = [conn |-> c, k |-> k]
      BY WhereAre
    <3>3. PICK i \in DOMAIN Store[x] :
                p = <<x, i>> /\ Store[x][i] = [conn |-> c, k |-> k]
      BY <3>1
    <3>4. PICK j \in DOMAIN Store[y] :
                q = <<y, j>> /\ Store[y][j] = [conn |-> c, k |-> k]
      BY <3>2
    <3>5. Store[x][i] = Store[y][j] /\ Store[x][i].k # 0
      <4>1. k # 0
        OBVIOUS
      <4> QED
        BY <3>3, <3>4, <4>1
    <3>6. x = y /\ i = j
      BY <3>5 DEF Distinct
    <3> QED
      BY <3>3, <3>4, <3>6
  <2>3. Where(c, k) = {} \/ \E p : Where(c, k) = {p}
    BY <2>2
  <2>4. Cardinality(Where(c, k)) <= 1
    <3>1. \A S : S = {} \/ (\E p : S = {p}) =>
                Cardinality(S) = 0 \/ Cardinality(S) = 1
      BY FS_EmptySet, FS_Singleton, Zenon
    <3>2. Cardinality(Where(c, k)) = 0 \/ Cardinality(Where(c, k)) = 1
      BY <2>3, <3>1, Zenon
    <3> QED
      BY <3>2
  <2> QED
    BY <2>1, <2>4
<1> QED
  BY <1>1 DEF CallsConserved, Present

LEMMA CallsAreNext == Distinct(Store') => (CallsConserved' <=> Present')
<1>1. Distinct(Store) => (CallsConserved <=> Present)
  BY CallsAre
<1>2. (Distinct(Store))' => (CallsConserved' <=> Present')
  BY <1>1, PTL
<1> QED
  BY <1>2 DEF Distinct

-----------------------------------------------------------------------------
(* The invariant of the calls is inductive.                                  *)

SentType == sent \in [Conn -> Nat]

LEMMA SentIsNat ==
    ASSUME IInv
    PROVE  SentType
<1>1. MaxReq \in Nat /\ sent \in [Conn -> 0..MaxReq]
  BY ServerAssumption DEF ServerAssumption, IInv, TypeOK, PeersTypeOK
<1> QED
  BY <1>1 DEF SentType

LEMMA ItemAt ==
    ASSUME NEW f, IsStore(f), NEW x \in Places, NEW i \in DOMAIN f[x]
    PROVE  /\ f[x][i] \in Item
           /\ f[x][i].conn \in Conn /\ f[x][i].k \in Nat
<1>1. f[x] \in Seq(Item)
  BY DEF IsStore
<1>2. f[x][i] \in Item
  BY <1>1
<1>3. MaxReq \in Nat
  BY ServerAssumption DEF ServerAssumption
<1> QED
  BY <1>2, <1>3 DEF Item

(* The item a sender adds is newer than all of its connection.               *)
LEMMA AddedIsNew ==
    ASSUME IInv, Bounded, NEW a \in Places, NEW r \in Item,
           Grows(Store, Store', a, r),
           \/ r.k = 0 /\ sent' = sent
           \/ \E c \in Conn : /\ a = <<"inbound", c>>
                              /\ r.conn = c /\ r.k = sent[c] + 1
                              /\ sent' = [sent EXCEPT ![c] = sent[c] + 1]
    PROVE  /\ r.k <= sent'[r.conn]
           /\ \A c \in Conn : sent[c] <= sent'[c] /\ sent[c] \in Nat
           /\ r.k # 0 => /\ \A y \in Places : \A j \in DOMAIN Store[y] :
                                Store[y][j].conn = r.conn => Store[y][j].k < r.k
                         /\ \A y \in Places : ~Before(a, y)
<1>1. r.conn \in Conn /\ r.k \in Nat
  <2>1. MaxReq \in Nat
    BY ServerAssumption DEF ServerAssumption
  <2> QED
    BY <2>1 DEF Item
<1>2. sent \in [Conn -> Nat]
  BY SentIsNat DEF SentType
<1>3. CASE r.k = 0 /\ sent' = sent
  <2>1. \A c \in Conn : sent[c] <= sent'[c] /\ sent[c] \in Nat
    BY <1>2, <1>3
  <2> QED
    BY <1>1, <1>3, <2>1
<1>4. CASE \E c \in Conn : /\ a = <<"inbound", c>>
                           /\ r.conn = c /\ r.k = sent[c] + 1
                           /\ sent' = [sent EXCEPT ![c] = sent[c] + 1]
  <2>1. PICK c \in Conn : /\ a = <<"inbound", c>>
                          /\ r.conn = c /\ r.k = sent[c] + 1
                          /\ sent' = [sent EXCEPT ![c] = sent[c] + 1]
    BY <1>4
  <2>2. r.k <= sent'[r.conn]
    BY <1>2, <2>1
  <2>3. \A d \in Conn : sent[d] <= sent'[d] /\ sent[d] \in Nat
    BY <1>2, <2>1
  <2>4. ASSUME NEW y \in Places, NEW j \in DOMAIN Store[y],
               Store[y][j].conn = r.conn
        PROVE  Store[y][j].k < r.k
    <3>1. Store[y][j].k <= sent[c]
      BY <2>1, <2>4 DEF Bounded
    <3>2. Store[y][j].k \in Nat
      BY ItemAt, StoreType DEF IInv
    <3> QED
      BY <1>2, <2>1, <3>1, <3>2
  <2>5. ASSUME NEW y \in Places
        PROVE  ~Before(a, y)
    <3>1. a[1] = "inbound"
      BY <2>1
    <3>2. Rank(a) = 10
      BY <3>1, RankIs
    <3>3. Rank(y) \in Nat /\ Rank(y) <= 10
      BY RankType
    <3> QED
      BY <3>2, <3>3 DEF Before
  <2> QED
    BY <2>2, <2>3, <2>4, <2>5
<1> QED
  BY <1>3, <1>4

LEMMA PlacesStep ==
    ASSUME IInv, RoundSound, WakeSound, AnswersSound, PlacesSound, Next
    PROVE  PlacesSound'
<1>1. Bounded /\ Distinct(Store)
  BY PlacesAre
<1>2. CASE Store' = Store /\ sent' = sent
  <2>1. Bounded' /\ Distinct(Store')
    BY <1>1, <1>2 DEF Bounded
  <2> QED
    BY <2>1, PlacesAreNext
<1>3. CASE Moved /\ sent' = sent
  <2>1. PICK a, b, m, t : Moves(Store, Store', a, b, m, t)
    BY <1>3 DEF Moved, Flow
  <2>2. Distinct(Store')
    BY <1>1, <2>1, MovedDistinct
  <2>3. ASSUME NEW x \in Places, NEW i \in DOMAIN Store'[x]
        PROVE  Store'[x][i].k <= sent'[Store'[x][i].conn]
    <3>1. PICK y \in Places : \E j \in DOMAIN Store[y] :
                Store'[x][i] = Store[y][j]
      BY <2>1, MovedAreOld
    <3> QED
      BY <1>1, <1>3, <3>1 DEF Bounded
  <2>4. Bounded'
    BY <2>3 DEF Bounded
  <2> QED
    BY <2>2, <2>4, PlacesAreNext
<1>4. CASE Added
  <2>1. PICK a \in Places, r \in Item :
            /\ Grows(Store, Store', a, r)
            /\ \/ r.k = 0 /\ sent' = sent
               \/ \E c \in Conn : /\ a = <<"inbound", c>>
                                  /\ r.conn = c /\ r.k = sent[c] + 1
                                  /\ sent' = [sent EXCEPT ![c] = sent[c] + 1]
    BY <1>4 DEF Added
  <2>2. /\ r.k <= sent'[r.conn]
        /\ \A c \in Conn : sent[c] <= sent'[c] /\ sent[c] \in Nat
        /\ r.k # 0 => \A y \in Places : \A j \in DOMAIN Store[y] :
                            Store[y][j].conn = r.conn => Store[y][j].k < r.k
    BY <1>1, <2>1, AddedIsNew
  <2>3. r.k # 0 => \A y \in Places : \A j \in DOMAIN Store[y] : Store[y][j] # r
    <3>1. r.k \in Nat
      <4>1. MaxReq \in Nat
        BY ServerAssumption DEF ServerAssumption
      <4> QED
        BY <4>1 DEF Item
    <3>2. ~(r.k < r.k)
      BY <3>1
    <3> QED
      BY <2>2, <3>2
  <2>4. Distinct(Store')
    BY <1>1, <2>1, <2>3, GrownDistinct
  <2>5. ASSUME NEW x \in Places, NEW i \in DOMAIN Store'[x]
        PROVE  Store'[x][i].k <= sent'[Store'[x][i].conn]
    <3>1. \/ i \in DOMAIN Store[x] /\ Store'[x][i] = Store[x][i]
          \/ Store'[x][i] = r
      BY <2>1, GrownFrom
    <3>2. CASE Store'[x][i] = r
      BY <2>2, <3>2
    <3>3. CASE i \in DOMAIN Store[x] /\ Store'[x][i] = Store[x][i]
      <4>1. PICK q : q = Store[x][i]
        OBVIOUS
      <4>2. q.k <= sent[q.conn] /\ q.conn \in Conn /\ q.k \in Nat
        BY <1>1, <3>3, <4>1, ItemAt, StoreType DEF Bounded, IInv
      <4>3. sent[q.conn] <= sent'[q.conn] /\ sent[q.conn] \in Nat
        BY <2>2, <4>2
      <4>4. SentType'
        BY NextIInv, SentIsNat, PTL
      <4>5. sent'[q.conn] \in Nat
        BY <4>2, <4>4 DEF SentType
      <4>6. q.k <= sent'[q.conn]
        BY <4>2, <4>3, <4>5
      <4> QED
        BY <3>3, <4>1, <4>6
    <3> QED
      BY <3>1, <3>2, <3>3
  <2>6. Bounded'
    BY <2>5 DEF Bounded
  <2> QED
    BY <2>4, <2>6, PlacesAreNext
<1> QED
  BY <1>2, <1>3, <1>4, Flows

LEMMA PresentStep ==
    ASSUME IInv, RoundSound, WakeSound, AcceptSound, AnswersSound, Bounded,
           Present, Next
    PROVE  Present'
<1> SUFFICES ASSUME NEW c \in Conn, NEW k \in 1..sent'[c], Working(c)',
                    peer'[c] # "reset", k \notin Oneway
             PROVE  \E x \in Places : \E i \in DOMAIN Store'[x] :
                        Store'[x][i] = [conn |-> c, k |-> k]
  BY DEF Present
<1>1. PICK e : e = [conn |-> c, k |-> k]
  OBVIOUS
<1>2. e.conn = c /\ e.k = k /\ k # 0
  BY <1>1
<1>3. Working(c) /\ peer[c] # "reset"
  BY WorkedBefore, ResetForEver
<1>4. k \in 1..sent[c] => \E x \in Places : \E i \in DOMAIN Store[x] :
                              Store[x][i] = e
  BY <1>1, <1>3 DEF Present
<1>5. CASE Store' = Store /\ sent' = sent
  BY <1>1, <1>4, <1>5
<1>6. CASE Moved /\ sent' = sent
  <2>1. PICK a, b, m, t : Flow(a, b, m, t)
    BY <1>6 DEF Moved
  <2>2. PICK x \in Places : \E i \in DOMAIN Store[x] : Store[x][i] = e
    BY <1>4, <1>6
  <2>3. PICK i \in DOMAIN Store[x] : Store[x][i] = e
    BY <2>2
  <2>4. ~Lost(e)
    BY <1>2 DEF Lost
  <2>5. Moves(Store, Store', a, b, m, t)
        /\ \A j \in (m + 1)..t : Lost(Store[a][j])
    BY <2>1 DEF Flow
  <2>6. ~(x = a /\ i \in (m + 1)..t)
    BY <2>3, <2>4, <2>5
  <2> QED
    BY <1>1, <2>3, <2>5, <2>6, MovedKeeps
<1>7. CASE Added
  <2>1. PICK a \in Places, r \in Item :
            /\ Grows(Store, Store', a, r)
            /\ \/ r.k = 0 /\ sent' = sent
               \/ \E d \in Conn : /\ a = <<"inbound", d>>
                                  /\ r.conn = d /\ r.k = sent[d] + 1
                                  /\ sent' = [sent EXCEPT ![d] = sent[d] + 1]
    BY <1>7 DEF Added
  <2>2. sent \in [Conn -> Nat]
    BY SentIsNat DEF SentType
  <2>3. CASE k \in 1..sent[c]
    <3>1. PICK x \in Places : \E i \in DOMAIN Store[x] : Store[x][i] = e
      BY <1>4, <2>3
    <3>2. PICK i \in DOMAIN Store[x] : Store[x][i] = e
      BY <3>1
    <3>3. i \in DOMAIN Store'[x] /\ Store'[x][i] = Store[x][i]
      BY <2>1, GrownFrom
    <3> QED
      BY <1>1, <3>2, <3>3
  <2>4. CASE k \notin 1..sent[c]
    <3>1. k = sent[c] + 1 /\ r.conn = c /\ r.k = sent[c] + 1
      BY <2>1, <2>2, <2>4
    <3>2. r = e
      BY <1>1, <3>1 DEF Item
    <3>3. PICK j : j \in DOMAIN Store'[a] /\ Store'[a][j] = r
      BY <2>1, GrownFrom
    <3> QED
      BY <1>1, <3>2, <3>3
  <2> QED
    BY <2>3, <2>4
<1> QED
  BY <1>5, <1>6, <1>7, Flows

LEMMA CallsStep ==
    ASSUME IInv, RoundSound, WakeSound, AcceptSound, AnswersSound, PlacesSound,
           CallsConserved, Next
    PROVE  PlacesSound' /\ CallsConserved'
<1>1. Bounded /\ Distinct(Store)
  BY PlacesAre
<1>2. Present
  BY <1>1, CallsAre
<1>3. PlacesSound'
  BY PlacesStep
<1>4. Present'
  BY <1>1, <1>2, PresentStep
<1>5. Distinct(Store')
  BY <1>3, PlacesAreNext
<1> QED
  BY <1>3, <1>4, <1>5, CallsAreNext

LEMMA InitStore ==
    ASSUME Init, NEW x \in Places
    PROVE  Store[x] = <<>>
<1>1. Responses(<<>>) = <<>>
  BY DEF Responses
<1>2. CASE \E c \in Conn : x \in {<<"inbound", c>>, <<"recvBuf", c>>,
                                  <<"sendBuf", c>>, <<"kbuf", c>>, <<"got", c>>}
  <2>1. PICK c \in Conn : x \in {<<"inbound", c>>, <<"recvBuf", c>>,
                                <<"sendBuf", c>>, <<"kbuf", c>>, <<"got", c>>}
    BY <1>2
  <2>2. /\ inbound[c] = <<>> /\ recvBuf[c] = <<>> /\ sendBuf[c] = <<>>
        /\ kbuf[c] = <<>> /\ got[c] = <<>>
    BY DEF Init
  <2> QED
    BY <2>1, <2>2, StoreAt DEF StoreParts
<1>3. CASE \E n \in Net : x \in {<<"respQ", n>>, <<"batch", n>>}
  <2>1. PICK n \in Net : x \in {<<"respQ", n>>, <<"batch", n>>}
    BY <1>3
  <2>2. Store[x] = Responses(respQ[n]) \/ Store[x] = Responses(batch[n])
    BY <2>1, StoreAt DEF StoreParts
  <2>3. respQ[n] = <<>> /\ batch[n] = <<>>
    BY DEF Init
  <2> QED
    BY <1>1, <2>2, <2>3, Zenon
<1>4. CASE \E h \in Handle : x \in {<<"rq", h>>, <<"cur", h>>}
  <2>1. PICK h \in Handle : x \in {<<"rq", h>>, <<"cur", h>>}
    BY <1>4
  <2>2. rq[h] = <<>> /\ cur[h] = NoReq
    BY DEF Init
  <2> QED
    BY <2>1, <2>2, StoreAt DEF StoreParts
<1>5. CASE x = <<"reqQ", Acceptor>>
  BY <1>5, StoreAt DEF StoreParts, Init
<1> QED
  BY <1>2, <1>3, <1>4, <1>5, PlaceKinds

LEMMA InitCalls ==
    ASSUME Init
    PROVE  CallInv
<1>1. RoundInv
  BY InitRounds
<1>2. AcceptSound
  BY DEF Init, AcceptSound
<1>3. AnswersSound
  BY DEF Init, AnswersSound, Addressed
<1>4. \A x \in Places : Store[x] = <<>>
  BY InitStore
<1>5. Bounded /\ Distinct(Store)
  BY <1>4 DEF Bounded, Distinct
<1>6. Present
  BY DEF Init, Present
<1> QED
  BY <1>1, <1>2, <1>3, <1>5, <1>6, PlacesAre, CallsAre DEF CallInv

LEMMA NextCalls ==
    ASSUME CallInv, [Next]_vars
    PROVE  CallInv'
<1>1. /\ RoundInv /\ AcceptSound /\ AnswersSound /\ PlacesSound
      /\ CallsConserved /\ IInv /\ RoundSound /\ WakeSound
  BY DEF CallInv, RoundInv
<1>2. RoundInv'
  BY <1>1, NextRounds
<1>3. CASE Next
  BY <1>1, <1>2, <1>3, AcceptorStep, AnswersStep, CallsStep DEF CallInv
<1>4. CASE UNCHANGED vars
  <2>1. UNCHANGED <<kernelVars, connVars, netVars, handleVars>>
    BY <1>4 DEF vars
  <2>2. AcceptSound'
    BY <1>1, <2>1 DEF AcceptSound, connVars, netVars
  <2>3. AnswersSound'
    BY <1>1, <2>1 DEF AnswersSound, Addressed, kernelVars, connVars, netVars,
      handleVars
  <2>4. Store' = Store
    <3>1. UNCHANGED StoreVars
      BY <2>1 DEF StoreVars, kernelVars, connVars, netVars, handleVars
    <3> QED
      BY <3>1, StoreKept
  <2>5. Bounded /\ Distinct(Store)
    BY <1>1, PlacesAre
  <2>6. Present
    BY <1>1, <2>5, CallsAre
  <2>7. Bounded' /\ Distinct(Store')
    BY <2>1, <2>4, <2>5 DEF Bounded, kernelVars
  <2>8. Present'
    BY <2>1, <2>4, <2>6 DEF Present, Working, kernelVars, connVars, netVars
  <2> QED
    BY <1>2, <2>2, <2>3, <2>7, <2>8, PlacesAreNext, CallsAreNext DEF CallInv
<1> QED
  BY <1>3, <1>4

(* Every request that was sent and every response is in one place at most,   *)
(* response queues are addressed to the thread and the uid of the connection *)
(* of their responses, and only the acceptor accepts: with the rounds, for   *)
(* any number of threads, connections, uids, requests and any buffer size.   *)
THEOREM CallsAreSound == Spec => []CallInv
<1>1. Init => CallInv
  BY InitCalls
<1>2. CallInv /\ [Next]_vars => CallInv'
  BY NextCalls
<1> QED
  BY <1>1, <1>2, PTL DEF Spec

(* Between the peer's send and the peer's receipt a call is in exactly one   *)
(* buffer, queue or pair of hands: it is never processed or answered twice,  *)
(* and never lost while its connection is neither closed nor reset and its   *)
(* thread runs.                                                              *)
THEOREM CallsStayConserved == Spec => []CallsConserved
<1>1. CallInv => CallsConserved
  BY DEF CallInv
<1> QED
  BY <1>1, CallsAreSound, PTL

(* TcpConnection::sendResponse addresses a response by uid alone; still, no  *)
(* connection receives a response of another one that is not closed.         *)
THEOREM OpenConnectionsKeepAnswers == Spec => []OpenKeepsItsAnswers
<1>1. CallInv => OpenKeepsItsAnswers
  <2>1. SUFFICES ASSUME AnswersSound, NEW c \in Conn, NEW d \in Conn,
                        c # d, stage[c] # "closed",
                        NEW s \in {sendBuf[d], kbuf[d], got[d]},
                        NEW i \in DOMAIN s
                 PROVE  s[i].conn # c
    BY DEF CallInv, OpenKeepsItsAnswers
  <2>2. s[i].conn = d \/ stage[s[i].conn] = "closed"
    BY <2>1 DEF AnswersSound
  <2> QED
    BY <2>1, <2>2
<1> QED
  BY <1>1, CallsAreSound, PTL

-----------------------------------------------------------------------------
(* With one handle thread every item of a connection follows the items with  *)
(* smaller numbers, through all the places it passes.                        *)

OrderInv == CallInv /\ Ordered(Store)

LEMMA OrderedStep ==
    ASSUME OneHandle, CallInv, Ordered(Store), Next
    PROVE  Ordered(Store')
<1>1. /\ IInv /\ RoundSound /\ WakeSound /\ AnswersSound /\ Bounded
  BY PlacesAre DEF CallInv, RoundInv
<1>2. CASE Moved
  <2>1. PICK a, b, m, t : Flow(a, b, m, t)
    BY <1>2 DEF Moved
  <2>2. /\ Moves(Store, Store', a, b, m, t)
        /\ Before(b, a) \/ m = 0
        /\ \A i \in 1..m : InPipe(b, Store[a][i]) =>
                InPipe(a, Store[a][i]) /\ Clear(Store, a, b, Store[a][i])
    BY <2>1 DEF Flow
  <2> QED
    BY <2>2, MovedOrdered
<1>3. CASE Added
  <2>1. PICK a \in Places, r \in Item :
            /\ Grows(Store, Store', a, r)
            /\ \/ r.k = 0 /\ sent' = sent
               \/ \E c \in Conn : /\ a = <<"inbound", c>>
                                  /\ r.conn = c /\ r.k = sent[c] + 1
                                  /\ sent' = [sent EXCEPT ![c] = sent[c] + 1]
    BY <1>3 DEF Added
  <2>2. r.k # 0 => /\ \A y \in Places : \A j \in DOMAIN Store[y] :
                            Store[y][j].conn = r.conn => Store[y][j].k < r.k
                   /\ \A y \in Places : ~Before(a, y)
    BY <1>1, <2>1, AddedIsNew
  <2> QED
    BY <2>1, <2>2, GrownOrdered
<1>4. CASE Store' = Store
  BY <1>4
<1> QED
  BY <1>1, <1>2, <1>3, <1>4, Flows

LEMMA NextOrder ==
    ASSUME OneHandle, OrderInv, [Next]_vars
    PROVE  OrderInv'
<1>1. CallInv /\ Ordered(Store)
  BY DEF OrderInv
<1>2. CallInv'
  BY <1>1, NextCalls
<1>3. CASE Next
  <2>1. Ordered(Store')
    BY <1>1, <1>3, OrderedStep
  <2>2. Ordered(Store)'
    BY <2>1 DEF Ordered
  <2> QED
    BY <1>2, <2>2 DEF OrderInv
<1>4. CASE UNCHANGED vars
  <2>1. UNCHANGED StoreVars
    BY <1>4 DEF vars, StoreVars, kernelVars, connVars, netVars, handleVars
  <2>2. Store' = Store
    BY <2>1, StoreKept
  <2>3. Ordered(Store)'
    BY <1>1, <2>2 DEF Ordered
  <2> QED
    BY <1>2, <2>3 DEF OrderInv
<1> QED
  BY <1>3, <1>4

(* Where an element of three sequences in a row comes from.                  *)
LEMMA ThreeParts ==
    ASSUME NEW S, NEW p \in Seq(S), NEW q \in Seq(S), NEW r \in Seq(S),
           NEW i \in DOMAIN (p \o q \o r)
    PROVE  /\ i \in Nat /\ Len(p) \in Nat /\ Len(q) \in Nat
           /\ \/ i \in DOMAIN p /\ (p \o q \o r)[i] = p[i] /\ i <= Len(p)
              \/ /\ i - Len(p) \in DOMAIN q /\ (p \o q \o r)[i] = q[i - Len(p)]
                 /\ i > Len(p) /\ i <= Len(p) + Len(q)
              \/ /\ i - Len(p) - Len(q) \in DOMAIN r
                 /\ (p \o q \o r)[i] = r[i - Len(p) - Len(q)]
                 /\ i > Len(p) + Len(q)
<1>1. /\ p \o q \in Seq(S) /\ Len(p \o q) = Len(p) + Len(q)
      /\ Len(p) \in Nat /\ Len(q) \in Nat /\ Len(r) \in Nat
  OBVIOUS
<1>2. DOMAIN (p \o q \o r) = 1..(Len(p) + Len(q) + Len(r))
  BY <1>1
<1>3. i \in Nat /\ 1 <= i /\ i <= Len(p) + Len(q) + Len(r)
  BY <1>1, <1>2
<1>4. CASE i <= Len(p)
  <2>1. (p \o q)[i] = p[i] /\ i \in DOMAIN p
    BY <1>1, <1>3, <1>4
  <2>2. (p \o q \o r)[i] = (p \o q)[i]
    BY <1>1, <1>3, <1>4
  <2> QED
    BY <1>1, <1>3, <1>4, <2>1, <2>2
<1>5. CASE i > Len(p) /\ i <= Len(p) + Len(q)
  <2>1. (p \o q)[i] = q[i - Len(p)] /\ i - Len(p) \in DOMAIN q
    BY <1>1, <1>3, <1>5
  <2>2. (p \o q \o r)[i] = (p \o q)[i]
    BY <1>1, <1>3, <1>5
  <2> QED
    BY <1>1, <1>3, <1>5, <2>1, <2>2
<1>6. CASE i > Len(p) + Len(q)
  <2>1. (p \o q \o r)[i] = r[i - Len(p) - Len(q)]
        /\ i - Len(p) - Len(q) \in DOMAIN r
    BY <1>1, <1>3, <1>6
  <2> QED
    BY <1>1, <1>3, <1>6, <2>1
<1> QED
  BY <1>1, <1>3, <1>4, <1>5, <1>6

LEMMA OrderShows ==
    ASSUME OrderInv
    PROVE  AnswersInOrder
<1> SUFFICES ASSUME NEW c \in Conn,
                    NEW s, s = got[c] \o kbuf[c] \o sendBuf[c],
                    NEW i \in DOMAIN s, NEW j \in DOMAIN s,
                    i < j, s[i].conn = c, s[j].conn = c
             PROVE  s[i].k < s[j].k
  BY DEF AnswersInOrder
<1>1. /\ got[c] \in Seq(Package) /\ kbuf[c] \in Seq(Package)
      /\ sendBuf[c] \in Seq(Package) /\ TypeOK
  BY DEF OrderInv, CallInv, RoundInv, IInv, TypeOK, PeersTypeOK, ConnsTypeOK
<1>2. PICK x1 : x1 = <<"got", c>>
  OBVIOUS
<1>3. PICK x2 : x2 = <<"kbuf", c>>
  OBVIOUS
<1>4. PICK x3 : x3 = <<"sendBuf", c>>
  OBVIOUS
<1>5. /\ x1 \in Places /\ x2 \in Places /\ x3 \in Places
      /\ Rank(x1) = 1 /\ Rank(x2) = 2 /\ Rank(x3) = 3
      /\ Store[x1] = got[c] /\ Store[x2] = kbuf[c] /\ Store[x3] = sendBuf[c]
  BY <1>2, <1>3, <1>4, ArePlaces, RankIs, StoreAt DEF StoreParts
<1>6. ASSUME NEW n \in DOMAIN s, s[n].conn = c
      PROVE  /\ n \in Nat /\ Len(got[c]) \in Nat /\ Len(kbuf[c]) \in Nat
             /\ \E x \in {x1, x2, x3} : \E m \in DOMAIN Store[x] :
                /\ Store[x][m] = s[n] /\ InPipe(x, s[n]) /\ m \in Nat
                /\ \/ x = x1 /\ m = n /\ n <= Len(got[c])
                   \/ /\ x = x2 /\ m = n - Len(got[c]) /\ n > Len(got[c])
                      /\ n <= Len(got[c]) + Len(kbuf[c])
                   \/ /\ x = x3 /\ m = n - Len(got[c]) - Len(kbuf[c])
                      /\ n > Len(got[c]) + Len(kbuf[c])
  <2>1. /\ n \in Nat /\ Len(got[c]) \in Nat /\ Len(kbuf[c]) \in Nat
        /\ \/ n \in DOMAIN got[c] /\ s[n] = got[c][n] /\ n <= Len(got[c])
           \/ /\ n - Len(got[c]) \in DOMAIN kbuf[c]
              /\ s[n] = kbuf[c][n - Len(got[c])]
              /\ n > Len(got[c]) /\ n <= Len(got[c]) + Len(kbuf[c])
           \/ /\ n - Len(got[c]) - Len(kbuf[c]) \in DOMAIN sendBuf[c]
              /\ s[n] = sendBuf[c][n - Len(got[c]) - Len(kbuf[c])]
              /\ n > Len(got[c]) + Len(kbuf[c])
    <3>1. PICK p \in Seq(Package) : p = got[c]
      BY <1>1
    <3>2. PICK q \in Seq(Package) : q = kbuf[c]
      BY <1>1
    <3>3. PICK r \in Seq(Package) : r = sendBuf[c]
      BY <1>1
    <3>4. s = p \o q \o r
      BY <3>1, <3>2, <3>3
    <3>5. /\ n \in Nat /\ Len(p) \in Nat /\ Len(q) \in Nat
          /\ \/ n \in DOMAIN p /\ s[n] = p[n] /\ n <= Len(p)
             \/ /\ n - Len(p) \in DOMAIN q /\ s[n] = q[n - Len(p)]
                /\ n > Len(p) /\ n <= Len(p) + Len(q)
             \/ /\ n - Len(p) - Len(q) \in DOMAIN r
                /\ s[n] = r[n - Len(p) - Len(q)]
                /\ n > Len(p) + Len(q)
      BY <3>4, ThreeParts
    <3> QED
      BY <3>1, <3>2, <3>3, <3>5, Zenon
  <2>2. ASSUME NEW x \in {x1, x2, x3}, NEW m \in DOMAIN Store[x],
               Store[x][m] = s[n]
        PROVE  InPipe(x, s[n]) /\ m \in Nat
    <3>1. PICK q \in Seq(Package) : q = Store[x]
      BY <1>1, <1>5
    <3>2. s[n] \in Package /\ m \in Nat
      <4>1. m \in DOMAIN q /\ s[n] = q[m]
        BY <2>2, <3>1
      <4> QED
        BY <4>1
    <3>3. s[n].k # 0
      BY <3>2, PackagesAreItems
    <3>4. x[2] = c
      BY <1>2, <1>3, <1>4
    <3> QED
      BY <1>6, <3>2, <3>3, <3>4 DEF InPipe
  <2>3. CASE n \in DOMAIN got[c] /\ s[n] = got[c][n] /\ n <= Len(got[c])
    BY <1>5, <2>1, <2>2, <2>3
  <2>4. CASE /\ n - Len(got[c]) \in DOMAIN kbuf[c]
             /\ s[n] = kbuf[c][n - Len(got[c])]
             /\ n > Len(got[c]) /\ n <= Len(got[c]) + Len(kbuf[c])
    BY <1>5, <2>1, <2>2, <2>4
  <2>5. CASE /\ n - Len(got[c]) - Len(kbuf[c]) \in DOMAIN sendBuf[c]
             /\ s[n] = sendBuf[c][n - Len(got[c]) - Len(kbuf[c])]
             /\ n > Len(got[c]) + Len(kbuf[c])
    BY <1>5, <2>1, <2>2, <2>5
  <2> QED
    BY <2>1, <2>3, <2>4, <2>5
<1>7. PICK x \in {x1, x2, x3} : \E m \in DOMAIN Store[x] :
        /\ Store[x][m] = s[i] /\ InPipe(x, s[i]) /\ m \in Nat
        /\ \/ x = x1 /\ m = i /\ i <= Len(got[c])
           \/ /\ x = x2 /\ m = i - Len(got[c]) /\ i > Len(got[c])
              /\ i <= Len(got[c]) + Len(kbuf[c])
           \/ /\ x = x3 /\ m = i - Len(got[c]) - Len(kbuf[c])
              /\ i > Len(got[c]) + Len(kbuf[c])
  BY <1>6
<1>8. PICK y \in {x1, x2, x3} : \E m \in DOMAIN Store[y] :
        /\ Store[y][m] = s[j] /\ InPipe(y, s[j]) /\ m \in Nat
        /\ \/ y = x1 /\ m = j /\ j <= Len(got[c])
           \/ /\ y = x2 /\ m = j - Len(got[c]) /\ j > Len(got[c])
              /\ j <= Len(got[c]) + Len(kbuf[c])
           \/ /\ y = x3 /\ m = j - Len(got[c]) - Len(kbuf[c])
              /\ j > Len(got[c]) + Len(kbuf[c])
  BY <1>6
<1>9. PICK m \in DOMAIN Store[x] :
        /\ Store[x][m] = s[i] /\ InPipe(x, s[i]) /\ m \in Nat
        /\ \/ x = x1 /\ m = i /\ i <= Len(got[c])
           \/ /\ x = x2 /\ m = i - Len(got[c]) /\ i > Len(got[c])
              /\ i <= Len(got[c]) + Len(kbuf[c])
           \/ /\ x = x3 /\ m = i - Len(got[c]) - Len(kbuf[c])
              /\ i > Len(got[c]) + Len(kbuf[c])
  BY <1>7
<1>10. PICK n \in DOMAIN Store[y] :
        /\ Store[y][n] = s[j] /\ InPipe(y, s[j]) /\ n \in Nat
        /\ \/ y = x1 /\ n = j /\ j <= Len(got[c])
           \/ /\ y = x2 /\ n = j - Len(got[c]) /\ j > Len(got[c])
              /\ j <= Len(got[c]) + Len(kbuf[c])
           \/ /\ y = x3 /\ n = j - Len(got[c]) - Len(kbuf[c])
              /\ j > Len(got[c]) + Len(kbuf[c])
  BY <1>8
<1>11. i \in Nat /\ j \in Nat /\ Len(got[c]) \in Nat /\ Len(kbuf[c]) \in Nat
  BY <1>6
<1>12. Rank(x) < Rank(y) \/ (x = y /\ m < n)
  <2>1. PICK p \in Nat : p = Len(got[c])
    BY <1>11
  <2>2. PICK q \in Nat : q = Len(kbuf[c])
    BY <1>11
  <2>3. /\ i <= p => x = x1 /\ m = i /\ Rank(x) = 1
        /\ i > p /\ i <= p + q => x = x2 /\ m = i - p /\ Rank(x) = 2
        /\ i > p + q => x = x3 /\ m = i - p - q /\ Rank(x) = 3
    <3>1. \/ x = x1 /\ m = i /\ i <= p
          \/ x = x2 /\ m = i - p /\ i > p /\ i <= p + q
          \/ x = x3 /\ m = i - p - q /\ i > p + q
      BY <1>9, <2>1, <2>2, Zenon
    <3>2. \/ x = x1 /\ Rank(x) = 1 /\ m = i /\ i <= p
          \/ x = x2 /\ Rank(x) = 2 /\ m = i - p /\ i > p /\ i <= p + q
          \/ x = x3 /\ Rank(x) = 3 /\ m = i - p - q /\ i > p + q
      BY <1>5, <3>1, Zenon
    <3> QED
      BY <1>11, <3>2
  <2>4. /\ j <= p => y = x1 /\ n = j /\ Rank(y) = 1
        /\ j > p /\ j <= p + q => y = x2 /\ n = j - p /\ Rank(y) = 2
        /\ j > p + q => y = x3 /\ n = j - p - q /\ Rank(y) = 3
    <3>1. \/ y = x1 /\ n = j /\ j <= p
          \/ y = x2 /\ n = j - p /\ j > p /\ j <= p + q
          \/ y = x3 /\ n = j - p - q /\ j > p + q
      BY <1>10, <2>1, <2>2, Zenon
    <3>2. \/ y = x1 /\ Rank(y) = 1 /\ n = j /\ j <= p
          \/ y = x2 /\ Rank(y) = 2 /\ n = j - p /\ j > p /\ j <= p + q
          \/ y = x3 /\ Rank(y) = 3 /\ n = j - p - q /\ j > p + q
      BY <1>5, <3>1, Zenon
    <3> QED
      BY <1>11, <3>2
  <2> QED
    BY <1>11, <2>3, <2>4
<1>13. Precedes(x, m, y, n)
  BY <1>12 DEF Precedes, Before
<1>14. x \in Places /\ y \in Places
  BY <1>5
<1>15. Ordered(Store)
  BY DEF OrderInv
<1>16. /\ Store[x][m].conn = Store[y][n].conn
       /\ InPipe(x, Store[x][m]) /\ InPipe(y, Store[y][n])
  BY <1>9, <1>10
<1>17. Store[x][m].k < Store[y][n].k
  BY <1>13, <1>14, <1>15, <1>16 DEF Ordered
<1> QED
  BY <1>9, <1>10, <1>17

(* One handle thread keeps the order: the responses of a connection reach    *)
(* its peer in the order of its requests, through every queue on the way and *)
(* whatever else the network threads do in between.                          *)
THEOREM AnswersKeepOrder ==
    ASSUME OneHandle
    PROVE  Spec => []AnswersInOrder
<1>1. Init => OrderInv
  <2> SUFFICES ASSUME Init
               PROVE  OrderInv
    OBVIOUS
  <2>1. \A x \in Places : Store[x] = <<>>
    BY InitStore
  <2>2. Ordered(Store)
    BY <2>1 DEF Ordered
  <2> QED
    BY <2>2, InitCalls DEF OrderInv
<1>2. OrderInv /\ [Next]_vars => OrderInv'
  BY NextOrder
<1>3. OrderInv => AnswersInOrder
  BY OrderShows
<1> QED
  BY <1>1, <1>2, <1>3, PTL DEF Spec
==============================================================================
