----------------------------- MODULE HrpcServer -----------------------------
(* The server side of Hrpc: network threads (NetThread + EpollerServer), the *)
(* acceptor (BindAdapter), handle threads (HandleThread) and the connections *)
(* they share (TcpConnection), together with the part of the kernel and of   *)
(* the peers the code depends on: an edge-triggered epoll set, a listen      *)
(* backlog, and one socket per connection with a bounded send buffer.        *)
(*                                                                           *)
(* A step is what one thread does between two points where another thread    *)
(* could see or change the state it works on: one epoll event, one package,  *)
(* one task of the response queue, one lock / check / push of a handle       *)
(* thread.  A request or a response is an atomic package; the byte framing   *)
(* is the subject of its own module.                                         *)
EXTENDS Integers, Sequences, FiniteSets, UidGenerator

CONSTANTS
    NumNet,          \* number of network threads (NetThreadGroup::_thread_num)
    Handle,          \* the handle threads of the object's BindAdapter
    Conn,            \* every connection that is ever accepted
    NoConn,          \* no connection: a uid absent from _connections
    NoReq,           \* no request in the hands of a handle thread
    MaxUid,          \* MaxConnection of a network thread
    MaxReq,          \* bound: requests a peer sends on one connection
    Oneway,          \* the requests distribute returns an empty buffer for
    SockCap,         \* packages the kernel buffers for one socket
    HashLimit,       \* the counter value after which the round restarts
    MaxAcceptErrors  \* bound: accept() failures other than EAGAIN

ASSUME ServerAssumption ==
    /\ NumNet \in Nat \ {0}
    /\ MaxUid \in Nat \ {0}
    /\ MaxReq \in Nat
    /\ Oneway \subseteq 1..MaxReq
    /\ SockCap \in Nat \ {0}
    /\ HashLimit \in Nat
    /\ MaxAcceptErrors \in Nat
    /\ NoConn \notin Conn
    /\ NoReq \notin [conn : Conn, k : 1..MaxReq]

Net == 0..(NumNet - 1)
Acceptor == 0                 \* addBindAdapter gives every adapter to thread 0
Uid == 1..MaxUid
NoUid == -1

Request == [conn : Conn, k : 1..MaxReq]          \* the k-th package of a peer
Package == [conn : Conn, k : 1..MaxReq]          \* the response to it
NetTask == [type : {"net"}, uid : Uid, pkg : Package]
AddTask == [type : {"add"}, conn : Conn]
Task == NetTask \cup AddTask                     \* ResponseMessage
ConnEvent == [type : {"conn"}, uid : Uid, err : BOOLEAN, in : BOOLEAN,
              out : BOOLEAN]
ListenEvent == [type |-> "listen"]

VARIABLES
    \* peers and kernel
    peer,        \* what the peer did with the connection
    sent,        \* how many requests the peer sent
    inbound,     \* received by the kernel, not yet read by the server
    kbuf,        \* written by the server, not yet received by the peer
    got,         \* received by the peer
    backlog,     \* connections waiting for accept()
    listenReady, \* the listening fd is on epoll's ready list
    interest,    \* events epoll watches on the fd of a connection
    ready,       \* the fd of a connection is on epoll's ready list
    acceptErrors,
    \* connections
    stage,       \* life of the TcpConnection object
    home,        \* TcpConnection::_netthread
    uid,         \* ConnectionBase::_uid
    recvBuf,     \* ConnectionBase::_recv_buffer
    sendBuf,     \* ConnectionBase::_send_buffer
    \* network threads
    hash,        \* NetThreadGroup::_hash
    pc,          \* where the loop of a network thread stands
    events,      \* events of this round that are not handled yet
    reading,     \* the readEvent in progress
    respQ,       \* EpollerServer::_response_queue
    batch,       \* processResponse's taskQueue
    table,       \* EpollerServer::_connections
    uids,        \* EpollerServer::_uidGen
    \* handle threads
    reqQ,        \* BindAdapter::_request_queue
    rq,          \* the requests a handle thread swapped out of it
    cur,         \* the request it works on; its connection is locked
    hpc          \* where processFunc stands

kernelVars == <<peer, sent, inbound, kbuf, got, backlog, listenReady,
                interest, ready, acceptErrors>>
connVars == <<stage, home, uid, recvBuf, sendBuf>>
netVars == <<hash, pc, events, reading, respQ, batch, table, uids>>
handleVars == <<reqQ, rq, cur, hpc>>
vars == <<kernelVars, connVars, netVars, handleVars>>

-----------------------------------------------------------------------------
(* Initial state: the threads run, no peer has connected.                    *)

NotReading == [conn |-> NoConn, close |-> FALSE, out |-> FALSE]

Init ==
    /\ peer = [c \in Conn |-> "idle"]
    /\ sent = [c \in Conn |-> 0]
    /\ inbound = [c \in Conn |-> <<>>]
    /\ kbuf = [c \in Conn |-> <<>>]
    /\ got = [c \in Conn |-> <<>>]
    /\ backlog = <<>>
    /\ listenReady = FALSE
    /\ interest = [c \in Conn |-> "none"]
    /\ ready = [c \in Conn |-> FALSE]
    /\ acceptErrors = 0
    /\ stage = [c \in Conn |-> "none"]
    /\ home = [c \in Conn |-> Acceptor]
    /\ uid = [c \in Conn |-> NoUid]
    /\ recvBuf = [c \in Conn |-> <<>>]
    /\ sendBuf = [c \in Conn |-> <<>>]
    /\ hash = 0
    /\ pc = [n \in Net |-> "wait"]
    /\ events = [n \in Net |-> {}]
    /\ reading = [n \in Net |-> NotReading]
    /\ respQ = [n \in Net |-> <<>>]
    /\ batch = [n \in Net |-> <<>>]
    /\ table = [n \in Net |-> [u \in Uid |-> NoConn]]
    /\ uids = [n \in Net |-> FullList(MaxUid)]
    /\ reqQ = <<>>
    /\ rq = [h \in Handle |-> <<>>]
    /\ cur = [h \in Handle |-> NoReq]
    /\ hpc = [h \in Handle |-> "idle"]

-----------------------------------------------------------------------------
(* Peers and kernel.                                                         *)

HasRoom(c) == Len(kbuf[c]) < SockCap

(* What poll would report for the fd of c, among the events it is watched for *)
Readable(c) == inbound[c] # <<>> \/ peer[c] \in {"fin", "reset"}
Writable(c) == interest[c] = "inout" /\ HasRoom(c)
Broken(c) == peer[c] = "reset"

PeerConnect(c) ==
    /\ peer[c] = "idle"
    /\ peer' = [peer EXCEPT ![c] = "open"]
    /\ backlog' = Append(backlog, c)
    /\ listenReady' = TRUE
    /\ UNCHANGED <<sent, inbound, kbuf, got, interest, ready, acceptErrors>>
    /\ UNCHANGED <<connVars, netVars, handleVars>>

PeerSend(c) ==
    /\ peer[c] = "open"
    /\ stage[c] \in {"none", "task", "open"}
    /\ sent[c] < MaxReq
    /\ sent' = [sent EXCEPT ![c] = @ + 1]
    /\ inbound' = [inbound EXCEPT ![c] =
            Append(@, [conn |-> c, k |-> sent[c] + 1])]
    /\ ready' = [ready EXCEPT ![c] = @ \/ interest[c] # "none"]
    /\ UNCHANGED <<peer, kbuf, got, backlog, listenReady, interest,
                   acceptErrors>>
    /\ UNCHANGED <<connVars, netVars, handleVars>>

(* The peer closes or shuts down its side, or resets the connection: what    *)
(* the kernel had not handed over yet is discarded by a reset.               *)
PeerEnd(c) ==
    /\ \/ peer[c] = "open" /\ peer' = [peer EXCEPT ![c] = "fin"]
       \/ peer[c] \in {"open", "fin"} /\ peer' = [peer EXCEPT ![c] = "reset"]
    /\ ready' = [ready EXCEPT ![c] = @ \/ interest[c] # "none"]
    /\ UNCHANGED <<sent, inbound, kbuf, got, backlog, listenReady, interest,
                   acceptErrors>>
    /\ UNCHANGED <<connVars, netVars, handleVars>>

PeerRecv(c) ==
    /\ peer[c] \in {"open", "fin"}
    /\ kbuf[c] # <<>>
    /\ got' = [got EXCEPT ![c] = Append(@, Head(kbuf[c]))]
    /\ kbuf' = [kbuf EXCEPT ![c] = Tail(@)]
    /\ ready' = [ready EXCEPT ![c] = @ \/ interest[c] = "inout"]
    /\ UNCHANGED <<peer, sent, inbound, backlog, listenReady, interest,
                   acceptErrors>>
    /\ UNCHANGED <<connVars, netVars, handleVars>>

-----------------------------------------------------------------------------
(* EpollerServer::closeConnection and addConnection, run by the thread that  *)
(* owns the connection.                                                      *)

CloseConnection_Watched(n, u) ==      \* mutant: the fd stays in epoll
    /\ stage' = [stage EXCEPT ![table[n][u]] = "closed"]
    /\ table' = [table EXCEPT ![n][u] = NoConn]
    /\ uids' = [uids EXCEPT ![n] = AfterPush(@, u)]
    /\ UNCHANGED <<interest, ready>>
CloseConnection(n, u) ==
    LET c == table[n][u] IN
    /\ stage' = [stage EXCEPT ![c] = "closed"]
    /\ interest' = [interest EXCEPT ![c] = "none"]
    /\ ready' = [ready EXCEPT ![c] = FALSE]
    /\ table' = [table EXCEPT ![n][u] = NoConn]
    /\ uids' = [uids EXCEPT ![n] = AfterPush(@, u)]

AddConnection(n, c) ==
    IF CanPop(uids[n])
    THEN LET u == Popped(uids[n]) IN
         /\ stage' = [stage EXCEPT ![c] = "open"]
         /\ interest' = [interest EXCEPT ![c] = "in"]
         /\ ready' = [ready EXCEPT ![c] = Readable(c)]
         /\ uid' = [uid EXCEPT ![c] = u]
         /\ table' = [table EXCEPT ![n][u] = c]
         /\ uids' = [uids EXCEPT ![n] = AfterPop(@)]
    ELSE /\ stage' = [stage EXCEPT ![c] = "dropped"]
         /\ UNCHANGED <<interest, ready, uid, table, uids>>

(* ConnectionBase::sendData on a socket that is not broken: what fits in the *)
(* kernel's buffer leaves buf.                                               *)
Fitting(c, buf) ==
    LET room == SockCap - Len(kbuf[c])
    IN  IF Len(buf) <= room THEN Len(buf) ELSE room

SendData(c, buf) ==
    LET m == Fitting(c, buf) IN
    /\ kbuf' = [kbuf EXCEPT ![c] = @ \o SubSeq(buf, 1, m)]
    /\ sendBuf' = [sendBuf EXCEPT ![c] = SubSeq(buf, m + 1, Len(buf))]

(* ConnectionBase::pushData: new data goes behind what waits to be sent.      *)
PushData_Front(buf, pkg) == <<pkg>> \o buf     \* mutant: it overtakes
PushData(buf, pkg) == Append(buf, pkg)

(* Epoller::mod re-arms the fd: it is ready again if an event holds now.     *)
Rearm_KeepMask(c, mask) ==      \* mutant: EPOLLOUT is not asked for
    UNCHANGED <<interest, ready>>
Rearm(c, mask) ==
    /\ interest' = [interest EXCEPT ![c] = mask]
    /\ ready' = [ready EXCEPT ![c] =
            @ \/ Readable(c) \/ (mask = "inout" /\ Len(kbuf'[c]) < SockCap)]

-----------------------------------------------------------------------------
(* One round of a network thread, EpollerServer::run.                        *)

Pending(n) == {c \in Conn : /\ home[c] = n /\ interest[c] # "none" /\ ready[c]
                            /\ Readable(c) \/ Writable(c)}

Event(c) == [type |-> "conn", uid |-> uid[c], err |-> Broken(c),
             in |-> Readable(c), out |-> Writable(c)]

Listening(n) == n = Acceptor /\ listenReady /\ backlog # <<>>

(* epoll_wait returns what is ready, or nothing after its timeout.           *)
EpollWait(n) ==
    /\ pc[n] = "wait"
    /\ events' = [events EXCEPT ![n] = {Event(c) : c \in Pending(n)} \cup
            (IF Listening(n) THEN {ListenEvent} ELSE {})]
    /\ ready' = [c \in Conn |-> ready[c] /\ ~(home[c] = n /\ interest[c] # "none")]
    /\ listenReady' = (listenReady /\ n # Acceptor)
    /\ pc' = [pc EXCEPT ![n] = "events"]
    /\ UNCHANGED <<peer, sent, inbound, kbuf, got, backlog, interest,
                   acceptErrors, hash, reading, respQ, batch, table, uids>>
    /\ UNCHANGED <<connVars, handleVars>>

(* NetThread::acceptEvent: accept until the backlog is empty or accept fails. *)
AcceptEvent(n) ==
    /\ pc[n] = "events"
    /\ ListenEvent \in events[n]
    /\ events' = [events EXCEPT ![n] = @ \ {ListenEvent}]
    /\ pc' = [pc EXCEPT ![n] = "accept"]
    /\ UNCHANGED <<kernelVars, connVars, handleVars, hash, reading, respQ,
                   batch, table, uids>>

(* BindAdapter::accept with getNetThreadByRound: the new connection travels  *)
(* to its network thread as a task.                                          *)
Accept(n) ==
    LET c == Head(backlog)
        dest == hash % NumNet
    IN
    /\ pc[n] = "accept"
    /\ backlog # <<>>
    /\ backlog' = Tail(backlog)
    /\ hash' = IF hash > HashLimit THEN 0 ELSE hash + 1
    /\ home' = [home EXCEPT ![c] = dest]
    /\ stage' = [stage EXCEPT ![c] = "task"]
    /\ respQ' = [respQ EXCEPT ![dest] = Append(@, [type |-> "add", conn |-> c])]
    /\ UNCHANGED <<peer, sent, inbound, kbuf, got, listenReady, interest, ready,
                   acceptErrors, uid, recvBuf, sendBuf, pc, events, reading,
                   batch, table, uids>>
    /\ UNCHANGED handleVars

(* accept returns false: EAGAIN on an empty backlog, or an error.            *)
BacklogEmpty_One == TRUE      \* mutant: one accept per event
BacklogEmpty == backlog = <<>>

AcceptEnd(n) ==
    /\ pc[n] = "accept"
    /\ \/ BacklogEmpty /\ UNCHANGED acceptErrors
       \/ /\ acceptErrors < MaxAcceptErrors
          /\ acceptErrors' = acceptErrors + 1
    /\ pc' = [pc EXCEPT ![n] = "events"]
    /\ UNCHANGED <<peer, sent, inbound, kbuf, got, backlog, listenReady,
                   interest, ready, hash, events, reading, respQ, batch, table,
                   uids>>
    /\ UNCHANGED <<connVars, handleVars>>

(* processConnection up to the receive callback.  Its branch for a uid that  *)
(* is not in the table is never taken here, which EventsAreFresh states.     *)
ConnEventAt(n, e) ==
    /\ pc[n] = "events"
    /\ e \in events[n] \ {ListenEvent}
    /\ events' = [events EXCEPT ![n] = @ \ {e}]
    /\ UNCHANGED <<peer, sent, inbound, kbuf, got, backlog, listenReady,
                   acceptErrors, home, uid, recvBuf, sendBuf, hash, respQ,
                   batch>>
    /\ UNCHANGED handleVars

ErrorEvent(n) == \E e \in events[n] :
    /\ ConnEventAt(n, e)
    /\ e.err
    /\ table[n][e.uid] # NoConn
    /\ CloseConnection(n, e.uid)
    /\ UNCHANGED <<pc, reading>>

(* The EPOLLIN and the EPOLLOUT branch are both taken for an event with both. *)
WritesToo(e) == e.out

DataEvent(n) == \E e \in events[n] :
    /\ ConnEventAt(n, e)
    /\ ~e.err
    /\ table[n][e.uid] # NoConn
    /\ pc' = [pc EXCEPT ![n] = IF e.in THEN "recv" ELSE "send"]
    /\ reading' = [reading EXCEPT ![n] =
            [conn |-> table[n][e.uid], close |-> FALSE, out |-> WritesToo(e)]]
    /\ UNCHANGED <<stage, interest, ready, table, uids>>

(* ConnectionBase::recvData.  At the end of the stream it returns -1 and all *)
(* that was received is in the buffer; on an error it returns -2 and what it *)
(* had read since it last filled its temporary buffer is lost.  In both      *)
(* cases readEvent notes that the connection has to be closed.               *)
KeptLengths_FinDiscards(c) ==      \* mutant: the last read is not written
    IF peer[c] \in {"fin", "reset"} THEN 0..Len(inbound[c])
    ELSE {Len(inbound[c])}
KeptLengths(c) ==
    IF Broken(c) THEN 0..Len(inbound[c]) ELSE {Len(inbound[c])}

StreamEnded_ErrorOnly(c) == Broken(c)     \* mutant: -1 is taken for success
StreamEnded(c) == peer[c] \in {"fin", "reset"}

RecvData(n) ==
    LET c == reading[n].conn IN
    /\ pc[n] = "recv"
    /\ \E m \in KeptLengths(c) :
            recvBuf' = [recvBuf EXCEPT ![c] = @ \o SubSeq(inbound[c], 1, m)]
    /\ inbound' = [inbound EXCEPT ![c] = <<>>]
    /\ reading' = [reading EXCEPT ![n].close = StreamEnded(c)]
    /\ pc' = [pc EXCEPT ![n] = "extract"]
    /\ UNCHANGED <<peer, sent, kbuf, got, backlog, listenReady, interest, ready,
                   acceptErrors, stage, home, uid, sendBuf, hash, events, respQ,
                   batch, table, uids>>
    /\ UNCHANGED handleVars

(* extractPackage and sendRequest: one package becomes one request.          *)
ExtractPackage(n) ==
    LET c == reading[n].conn IN
    /\ pc[n] = "extract"
    /\ recvBuf[c] # <<>>
    /\ reqQ' = Append(reqQ, Head(recvBuf[c]))
    /\ recvBuf' = [recvBuf EXCEPT ![c] = Tail(@)]
    /\ UNCHANGED <<kernelVars, netVars, stage, home, uid, sendBuf, rq, cur, hpc>>

(* The end of readEvent.  After a close, processConnection goes on to the    *)
(* EPOLLOUT branch with an iterator to the erased entry: undefined, seen as  *)
(* no effect or as an exception that ends NetThread::run.                    *)
ReadFinished_CloseFirst(c) == TRUE     \* mutant: what was read is not awaited
ReadFinished(c) == recvBuf[c] = <<>>

ReadDone(n) ==
    LET r == reading[n] IN
    /\ pc[n] = "extract"
    /\ ReadFinished(r.conn)
    /\ IF r.close
       THEN /\ CloseConnection(n, uid[r.conn])
            /\ reading' = [reading EXCEPT ![n] = NotReading]
            /\ \/ pc' = [pc EXCEPT ![n] = "events"]
               \/ r.out /\ pc' = [pc EXCEPT ![n] = "ended"]
       ELSE /\ UNCHANGED <<stage, interest, ready, table, uids>>
            /\ pc' = [pc EXCEPT ![n] = IF r.out THEN "send" ELSE "events"]
            /\ reading' = [reading EXCEPT ![n] = IF r.out THEN @ ELSE NotReading]
    /\ UNCHANGED <<peer, sent, inbound, kbuf, got, backlog, listenReady,
                   acceptErrors, home, uid, recvBuf, sendBuf, hash, events,
                   respQ, batch>>
    /\ UNCHANGED handleVars

(* The EPOLLOUT branch of processConnection.  EPOLLOUT is no longer watched  *)
(* once the send buffer is empty; EAGAIN leaves the registration as it is.   *)
WriteEvent(n) ==
    LET c == reading[n].conn IN
    /\ pc[n] = "send"
    /\ IF Broken(c)
       THEN /\ CloseConnection(n, uid[c])
            /\ UNCHANGED <<kbuf, sendBuf>>
       ELSE /\ SendData(c, sendBuf[c])
            /\ IF sendBuf'[c] = <<>> THEN Rearm(c, "in")
               ELSE UNCHANGED <<interest, ready>>
            /\ UNCHANGED <<stage, table, uids>>
    /\ pc' = [pc EXCEPT ![n] = "events"]
    /\ reading' = [reading EXCEPT ![n] = NotReading]
    /\ UNCHANGED <<peer, sent, inbound, got, backlog, listenReady, acceptErrors,
                   home, uid, recvBuf, hash, events, respQ, batch>>
    /\ UNCHANGED handleVars

(* processResponse takes the whole queue and then works on its copy.         *)
EventsDone_Early(n) == TRUE      \* mutant: tasks run between the events
EventsDone(n) == events[n] = {}

SwapResponses(n) ==
    /\ pc[n] = "events"
    /\ EventsDone(n)
    /\ batch' = [batch EXCEPT ![n] = respQ[n]]
    /\ respQ' = [respQ EXCEPT ![n] = <<>>]
    /\ pc' = [pc EXCEPT ![n] = "tasks"]
    /\ UNCHANGED <<kernelVars, connVars, handleVars, hash, events, reading,
                   table, uids>>

RoundDone(n) ==
    /\ pc[n] = "tasks"
    /\ batch[n] = <<>>
    /\ pc' = [pc EXCEPT ![n] = "wait"]
    /\ UNCHANGED <<kernelVars, connVars, handleVars, hash, events, reading,
                   respQ, batch, table, uids>>

NextTask(n) ==
    /\ pc[n] = "tasks"
    /\ batch[n] # <<>>
    /\ batch' = [batch EXCEPT ![n] = Tail(@)]
    /\ UNCHANGED <<peer, sent, inbound, got, backlog, listenReady, acceptErrors,
                   home, recvBuf, hash, pc, events, reading, respQ>>
    /\ UNCHANGED handleVars

AddTaskStep(n) ==
    /\ NextTask(n)
    /\ Head(batch[n]).type = "add"
    /\ AddConnection(n, Head(batch[n]).conn)
    /\ UNCHANGED <<kbuf, sendBuf>>

(* A response whose uid is in use goes to the connection that has the uid    *)
(* now: pushed behind what is waiting, or sent at once.                      *)
NetTaskStep(n) ==
    LET task == Head(batch[n])
        c == table[n][task.uid]
    IN
    /\ NextTask(n)
    /\ task.type = "net"
    /\ c # NoConn
    /\ \/ /\ sendBuf[c] # <<>>
          /\ sendBuf' = [sendBuf EXCEPT ![c] = PushData(@, task.pkg)]
          /\ UNCHANGED <<stage, interest, ready, kbuf, table, uids>>
       \/ /\ sendBuf[c] = <<>>
          /\ Broken(c)
          /\ sendBuf' = [sendBuf EXCEPT ![c] = <<task.pkg>>]
          /\ CloseConnection(n, uid[c])
          /\ UNCHANGED kbuf
       \/ /\ sendBuf[c] = <<>>
          /\ ~Broken(c)
          /\ SendData(c, <<task.pkg>>)
          /\ IF sendBuf'[c] # <<>> THEN Rearm(c, "inout")
             ELSE UNCHANGED <<interest, ready>>
          /\ UNCHANGED <<stage, table, uids>>
    /\ UNCHANGED uid

DropTaskStep(n) ==
    /\ NextTask(n)
    /\ Head(batch[n]).type = "net"
    /\ table[n][Head(batch[n]).uid] = NoConn
    /\ UNCHANGED <<stage, uid, interest, ready, kbuf, sendBuf, table, uids>>

-----------------------------------------------------------------------------
(* Handle threads, HandleThread::run and processFunc.                        *)

(* getAllRequest: the whole request queue becomes the thread's own.          *)
LeftInQueue_Copied == reqQ      \* mutant: the queue is copied, not swapped
LeftInQueue == <<>>

TakeRequests(h) ==
    /\ hpc[h] = "idle"
    /\ rq[h] = <<>>
    /\ reqQ # <<>>
    /\ rq' = [rq EXCEPT ![h] = reqQ]
    /\ reqQ' = LeftInQueue
    /\ UNCHANGED <<kernelVars, connVars, netVars, cur, hpc>>

(* A TcpConnection lives while its table entry, its task or a locked         *)
(* weak_ptr of a handle thread refers to it.                                 *)
Alive(c) ==
    \/ stage[c] \in {"task", "open"}
    \/ \E h \in Handle : cur[h] # NoReq /\ cur[h].conn = c

(* processFunc locks the weak_ptr of the request; a request whose connection *)
(* is gone is dropped.                                                       *)
LockConnection(h) ==
    LET req == Head(rq[h]) IN
    /\ hpc[h] = "idle"
    /\ rq[h] # <<>>
    /\ rq' = [rq EXCEPT ![h] = Tail(@)]
    /\ IF Alive(req.conn)
       THEN /\ cur' = [cur EXCEPT ![h] = req]
            /\ hpc' = [hpc EXCEPT ![h] = "parse"]
       ELSE UNCHANGED <<cur, hpc>>
    /\ UNCHANGED <<kernelVars, connVars, netVars, reqQ>>

(* checkRequest and distribute run the call; then, for a response that is    *)
(* not empty, isValid.                                                       *)
Distribute(h) ==
    /\ hpc[h] = "parse"
    /\ IF cur[h].k \notin Oneway /\ stage[cur[h].conn] # "closed"
       THEN hpc' = [hpc EXCEPT ![h] = "send"] /\ UNCHANGED cur
       ELSE /\ hpc' = [hpc EXCEPT ![h] = "idle"]
            /\ cur' = [cur EXCEPT ![h] = NoReq]
    /\ UNCHANGED <<kernelVars, connVars, netVars, reqQ, rq>>

(* TcpConnection::sendResponse: the response is addressed by uid alone; pkg  *)
(* only records whose it is.                                                 *)
SendResponse(h) ==
    LET c == cur[h].conn
        task == [type |-> "net", uid |-> uid[c],
                 pkg |-> cur[h]]
    IN
    /\ hpc[h] = "send"
    /\ respQ' = [respQ EXCEPT ![home[c]] = Append(@, task)]
    /\ hpc' = [hpc EXCEPT ![h] = "idle"]
    /\ cur' = [cur EXCEPT ![h] = NoReq]
    /\ UNCHANGED <<kernelVars, connVars, hash, pc, events, reading, batch, table,
                   uids, reqQ, rq>>

-----------------------------------------------------------------------------
NetStep(n) ==
    \/ EpollWait(n) \/ AcceptEvent(n) \/ Accept(n) \/ AcceptEnd(n)
    \/ ErrorEvent(n) \/ DataEvent(n)
    \/ RecvData(n) \/ ExtractPackage(n) \/ ReadDone(n) \/ WriteEvent(n)
    \/ SwapResponses(n) \/ RoundDone(n)
    \/ AddTaskStep(n) \/ NetTaskStep(n) \/ DropTaskStep(n)

HandleStep(h) ==
    TakeRequests(h) \/ LockConnection(h) \/ Distribute(h) \/ SendResponse(h)

PeerStep(c) == PeerConnect(c) \/ PeerSend(c) \/ PeerEnd(c) \/ PeerRecv(c)

Next ==
    \/ \E n \in Net : NetStep(n)
    \/ \E h \in Handle : HandleStep(h)
    \/ \E c \in Conn : PeerStep(c)

Spec == Init /\ [][Next]_vars

(* Every thread is scheduled, and a peer that stays reads what it is sent.   *)
Fairness ==
    /\ \A n \in Net : WF_vars(NetStep(n))
    /\ \A h \in Handle : WF_vars(HandleStep(h))
    /\ \A c \in Conn : WF_vars(PeerRecv(c))

FairSpec == Spec /\ Fairness

-----------------------------------------------------------------------------
(* Type invariant.                                                           *)
PeersTypeOK ==
    /\ peer \in [Conn -> {"idle", "open", "fin", "reset"}]
    /\ sent \in [Conn -> 0..MaxReq]
    /\ inbound \in [Conn -> Seq(Request)]
    /\ kbuf \in [Conn -> Seq(Package)]
    /\ \A c \in Conn : Len(kbuf[c]) <= SockCap
    /\ got \in [Conn -> Seq(Package)]
    /\ backlog \in Seq(Conn)

EpollTypeOK ==
    /\ listenReady \in BOOLEAN
    /\ interest \in [Conn -> {"none", "in", "inout"}]
    /\ ready \in [Conn -> BOOLEAN]
    /\ acceptErrors \in 0..MaxAcceptErrors

ConnsTypeOK ==
    /\ stage \in [Conn -> {"none", "task", "open", "closed", "dropped"}]
    /\ home \in [Conn -> Net]
    /\ uid \in [Conn -> Uid \cup {NoUid}]
    /\ recvBuf \in [Conn -> Seq(Request)]
    /\ sendBuf \in [Conn -> Seq(Package)]

NetTypeOK ==
    /\ hash \in Nat
    /\ pc \in [Net -> {"wait", "events", "accept", "recv", "extract", "send",
                       "tasks", "ended"}]
    /\ events \in [Net -> SUBSET (ConnEvent \cup {ListenEvent})]
    /\ reading \in [Net -> [conn : Conn \cup {NoConn}, close : BOOLEAN,
                            out : BOOLEAN]]
    /\ respQ \in [Net -> Seq(Task)]
    /\ batch \in [Net -> Seq(Task)]
    /\ table \in [Net -> [Uid -> Conn \cup {NoConn}]]
    /\ uids \in [Net -> Seq(Uid)]

HandlesTypeOK ==
    /\ reqQ \in Seq(Request)
    /\ rq \in [Handle -> Seq(Request)]
    /\ cur \in [Handle -> Request \cup {NoReq}]
    /\ hpc \in [Handle -> {"idle", "parse", "send"}]

TypeOK ==
    PeersTypeOK /\ EpollTypeOK /\ ConnsTypeOK /\ NetTypeOK /\ HandlesTypeOK

(* A uid is either in the generator's list, once, or the key of one entry of *)
(* _connections: none leaks and none is given out twice, over any sequence   *)
(* of accepts, closes and refusals.                                          *)
UidsConserved ==
    \A n \in Net : Holds(uids[n], {u \in Uid : table[n][u] = NoConn})

(* _connections, the uid and owner stored in a connection, its _close flag   *)
(* and epoll's registration always agree: a connection is watched exactly    *)
(* while it is in the table of its own thread under its own uid.             *)
TableSound ==
    /\ \A n \in Net, u \in Uid : table[n][u] # NoConn =>
            LET c == table[n][u]
            IN  uid[c] = u /\ home[c] = n /\ stage[c] = "open"
    /\ \A c \in Conn : stage[c] = "open" =>
            uid[c] \in Uid /\ table[home[c]][uid[c]] = c
    /\ \A c \in Conn : interest[c] # "none" <=> stage[c] = "open"

(* What the threads hold agrees with the tables.  These parts, with the       *)
(* three invariants above, are inductive.                                    *)

(* The connection a network thread works on is an open one of its own.       *)
ReadingSound ==
    \A n \in Net : pc[n] \in {"recv", "extract", "send"} =>
        /\ reading[n].conn \in Conn
        /\ stage[reading[n].conn] = "open"
        /\ home[reading[n].conn] = n

(* What is read from a connection is its own; what has become a request      *)
(* comes from a connection that has had a uid.                               *)
RequestsSound ==
    /\ \A c \in Conn :
        /\ \A i \in 1..Len(inbound[c]) : inbound[c][i].conn = c
        /\ \A i \in 1..Len(recvBuf[c]) : recvBuf[c][i].conn = c
    /\ \A i \in 1..Len(reqQ) : uid[reqQ[i].conn] \in Uid
    /\ \A h \in Handle :
        /\ \A i \in 1..Len(rq[h]) : uid[rq[h][i].conn] \in Uid
        /\ hpc[h] # "idle" => cur[h] \in Request /\ uid[cur[h].conn] \in Uid

(* A connection waits to be accepted at most once.                           *)
BacklogSound ==
    /\ \A c \in Conn : peer[c] = "idle" => stage[c] = "none"
    /\ \A i \in 1..Len(backlog) :
        /\ stage[backlog[i]] = "none"
        /\ peer[backlog[i]] # "idle"
        /\ \A j \in 1..Len(backlog) : backlog[i] = backlog[j] => i = j

(* A connection travels to its network thread in one task.                   *)
Adds(s) == {i \in 1..Len(s) : s[i].type = "add"}

AddsFresh(s, n) ==
    \A i \in Adds(s) :
        /\ stage[s[i].conn] = "task"
        /\ home[s[i].conn] = n
        /\ \A j \in Adds(s) : s[i].conn = s[j].conn => i = j

AddsSound ==
    \A n \in Net :
        /\ AddsFresh(respQ[n], n)
        /\ AddsFresh(batch[n], n)
        /\ \A i \in Adds(respQ[n]), j \in Adds(batch[n]) :
                respQ[n][i].conn # batch[n][j].conn

WorkSound == ReadingSound /\ RequestsSound /\ BacklogSound /\ AddsSound

(* The inductive invariant: types, uids, tables and what threads hold.       *)
IInv == TypeOK /\ UidsConserved /\ TableSound /\ WorkSound

(* Every event that waits to be handled names the entry it was reported for, *)
(* so the lookup in processConnection never fails or finds another one.      *)
EventsAreFresh ==
    \A n \in Net : \A e \in events[n] \ {ListenEvent} :
        /\ table[n][e.uid] # NoConn
        /\ \A f \in events[n] \ {ListenEvent, e} : f.uid # e.uid

(* The threads that work on an event that is not handled yet.                *)
InHand(c) ==
    LET n == home[c] IN
    \/ \E e \in events[n] \ {ListenEvent} : e.uid = uid[c]
    \/ pc[n] \in {"recv", "send"} /\ reading[n].conn = c

(* No lost wakeup under edge triggering: while a connection is open, unread  *)
(* input and unsent output with room in the kernel are announced by epoll or *)
(* in the hands of the thread, and output waits only with EPOLLOUT watched.  *)
NoLostWakeup ==
    \A c \in Conn : stage[c] = "open" /\ pc[home[c]] # "ended" =>
        /\ inbound[c] # <<>> => ready[c] \/ InHand(c)
        /\ peer[c] = "fin" => ready[c] \/ InHand(c) \/ reading[home[c]].conn = c
        /\ sendBuf[c] # <<>> <=> interest[c] = "inout"
        /\ sendBuf[c] # <<>> /\ HasRoom(c) => ready[c] \/ InHand(c)
               \/ reading[home[c]].conn = c

(* A connection that waits in the backlog is announced or being accepted,    *)
(* unless accept has failed: after an error nothing announces it again.      *)
BacklogAnnounced ==
    backlog # <<>> /\ pc[Acceptor] # "ended" =>
        \/ listenReady
        \/ ListenEvent \in events[Acceptor]
        \/ pc[Acceptor] = "accept"
        \/ acceptErrors > 0

(* What a round relies on.  These parts make the properties of events,        *)
(* wakeups, the backlog and closing inductive together with IInv.            *)

(* Between two rounds no event is left, and while a thread reads or writes a *)
(* connection no other event of the round is about that connection.          *)
RoundSound ==
    \A n \in Net :
        /\ pc[n] \in {"wait", "tasks"} => events[n] = {}
        /\ pc[n] # "tasks" => batch[n] = <<>>
        /\ \A e \in events[n] \ {ListenEvent} :
            /\ e.err => Broken(table[n][e.uid])
            /\ pc[n] \in {"recv", "extract", "send"} =>
                    table[n][e.uid] # reading[n].conn

(* A readEvent that has to close has read everything; a closed connection    *)
(* was reset, or left with all of its requests handed over.                  *)
CloseSound ==
    /\ \A n \in Net : pc[n] = "extract" /\ reading[n].close =>
            /\ peer[reading[n].conn] \in {"fin", "reset"}
            /\ inbound[reading[n].conn] = <<>>
    /\ \A c \in Conn : stage[c] = "closed" =>
            \/ peer[c] = "reset"
            \/ peer[c] = "fin" /\ inbound[c] = <<>> /\ recvBuf[c] = <<>>

(* An event of c that its thread has not handled, with EPOLLIN or EPOLLOUT.  *)
ToRead(c) ==
    LET n == home[c] IN
    \/ \E e \in events[n] \ {ListenEvent} : e.uid = uid[c] /\ e.in
    \/ pc[n] = "recv" /\ reading[n].conn = c
ToWrite(c) ==
    LET n == home[c] IN
    \/ \E e \in events[n] \ {ListenEvent} : e.uid = uid[c] /\ e.out
    \/ pc[n] \in {"recv", "extract"} /\ reading[n].conn = c /\ reading[n].out
    \/ pc[n] = "send" /\ reading[n].conn = c

(* NoLostWakeup, saying which kind of event is in the hands of the thread.   *)
WakeSound ==
    /\ \A c \in Conn : stage[c] \in {"none", "task", "dropped"} =>
            uid[c] = NoUid /\ sendBuf[c] = <<>>
    /\ \A c \in Conn : stage[c] = "open" =>
            (sendBuf[c] # <<>> <=> interest[c] = "inout")
    /\ \A c \in Conn : stage[c] = "open" /\ pc[home[c]] # "ended" =>
        /\ inbound[c] # <<>> => ready[c] \/ ToRead(c)
        /\ peer[c] \in {"fin", "reset"} => ready[c] \/ ToRead(c)
               \/ LET r == reading[home[c]]
                  IN  pc[home[c]] = "extract" /\ r.conn = c /\ r.close
        /\ sendBuf[c] # <<>> /\ HasRoom(c) => ready[c] \/ ToWrite(c)

RoundInv ==
    /\ IInv
    /\ RoundSound /\ EventsAreFresh
    /\ CloseSound
    /\ WakeSound
    /\ BacklogAnnounced

-----------------------------------------------------------------------------
(* Where a request or its response can be: a place and its owner.            *)
Places ==
    ({"inbound", "recvBuf", "sendBuf", "kbuf", "got"} \X Conn)
    \cup ({"respQ", "batch"} \X Net)
    \cup ({"rq", "cur"} \X Handle)
    \cup {<<"reqQ", Acceptor>>}

(* What is in a place, front first; an add task is not a request.            *)
Responses(s) == [i \in DOMAIN s |->
    IF s[i].type = "net" THEN s[i].pkg ELSE [conn |-> s[i].conn, k |-> 0]]

Contents(x) ==
    LET o == x[2] IN
    CASE x[1] = "inbound" -> inbound[o]
      [] x[1] = "recvBuf" -> recvBuf[o]
      [] x[1] = "sendBuf" -> sendBuf[o]
      [] x[1] = "kbuf" -> kbuf[o]
      [] x[1] = "got" -> got[o]
      [] x[1] = "respQ" -> Responses(respQ[o])
      [] x[1] = "batch" -> Responses(batch[o])
      [] x[1] = "rq" -> rq[o]
      [] x[1] = "cur" -> IF cur[o] = NoReq THEN <<>> ELSE <<cur[o]>>
      [] x[1] = "reqQ" -> reqQ

(* The positions of the k-th request of connection c, or of its response.    *)
Where(c, k) ==
    UNION {{<<x, i>> : i \in {j \in DOMAIN Contents(x) :
                                Contents(x)[j] = [conn |-> c, k |-> k]}} :
           x \in Places}

Working(c) == stage[c] \in {"none", "task", "open"} /\ pc[home[c]] # "ended"

(* A call is never processed or answered twice, and on a connection that is  *)
(* neither closed nor reset it is never lost: between the peer's send and    *)
(* the peer's receipt it is in exactly one buffer, queue or pair of hands.   *)
CallsConserved ==
    \A c \in Conn : \A k \in 1..sent[c] :
        /\ Cardinality(Where(c, k)) <= 1
        /\ Working(c) /\ peer[c] # "reset" /\ k \notin Oneway =>
                Where(c, k) # {}

(* Only a connection that is closed can have its response in the buffer of   *)
(* another one: while it is open its uid is its own.                         *)
OpenKeepsItsAnswers ==
    \A c, d \in Conn : c # d /\ stage[c] # "closed" =>
        \A s \in {sendBuf[d], kbuf[d], got[d]} :
            \A i \in DOMAIN s : s[i].conn # c

(* readEvent closes only after it has handed over what it has read: a peer   *)
(* that sends and then closes has all its requests processed.                *)
FinLosesNoRequest ==
    \A c \in Conn : stage[c] = "closed" /\ peer[c] = "fin" =>
        inbound[c] = <<>> /\ recvBuf[c] = <<>>

(* What the conservation and the order of calls rely on, with RoundInv: they *)
(* are inductive together.                                                   *)

(* Only the acceptor accepts; until then a connection is its own.            *)
AcceptSound ==
    /\ \A n \in Net :
            pc[n] = "accept" \/ ListenEvent \in events[n] => n = Acceptor
    /\ \A c \in Conn : stage[c] = "none" => home[c] = Acceptor

(* A response waits in the queue of the thread of its connection, under the  *)
(* uid of its connection, which is set once; it is written to another one    *)
(* only if its own is closed.                                                *)
Addressed(s, n) ==
    \A i \in DOMAIN s : s[i].type = "net" =>
        uid[s[i].pkg.conn] = s[i].uid /\ home[s[i].pkg.conn] = n

AnswersSound ==
    /\ \A n \in Net : Addressed(respQ[n], n) /\ Addressed(batch[n], n)
    /\ \A c \in Conn : \A s \in {sendBuf[c], kbuf[c], got[c]} :
            \A i \in DOMAIN s : s[i].conn = c \/ stage[s[i].conn] = "closed"
    /\ \A h \in Handle : hpc[h] = "idle" <=> cur[h] = NoReq

(* No request is anywhere before it is sent, or in two places.               *)
PlacesSound ==
    /\ \A x \in Places : \A i \in DOMAIN Contents(x) :
            Contents(x)[i].k <= sent[Contents(x)[i].conn]
    /\ \A x, y \in Places :
        \A i \in DOMAIN Contents(x), j \in DOMAIN Contents(y) :
            Contents(x)[i] = Contents(y)[j] /\ Contents(x)[i].k # 0 =>
                x = y /\ i = j

CallInv == RoundInv /\ AcceptSound /\ AnswersSound /\ PlacesSound
                /\ CallsConserved

(* common.h:47, a NET response is "the normal response package of the        *)
(* current connection": no connection is given the response to another one.  *)
NoForeignResponse ==
    \A c \in Conn : \A s \in {sendBuf[c], kbuf[c], got[c]} :
        \A i \in DOMAIN s : s[i].conn = c

(* With one handle thread the responses of a connection keep the order of    *)
(* its requests all the way to the peer.                                     *)
AnswersInOrder ==
    \A c \in Conn :
        LET s == got[c] \o kbuf[c] \o sendBuf[c]
        IN  \A i, j \in DOMAIN s :
                i < j /\ s[i].conn = c /\ s[j].conn = c => s[i].k < s[j].k

(* Every call is answered unless its connection is closed or refused, its    *)
(* thread has ended, or accept has failed.                                   *)
Excused(c) ==
    \/ stage[c] \in {"closed", "dropped"} \/ peer[c] # "open"
    \/ pc[home[c]] = "ended" \/ pc[Acceptor] = "ended"
    \/ stage[c] = "none" /\ acceptErrors > 0

CallsAnswered ==
    \A c \in Conn, k \in 1..MaxReq :
        sent[c] >= k /\ k \notin Oneway ~>
            \/ Excused(c)
            \/ \E i \in DOMAIN got[c] : got[c][i] = [conn |-> c, k |-> k]

(* A peer that goes away is noticed: its connection is closed or refused and *)
(* its uid is free again.                                                    *)
GoneIsClosed ==
    \A c \in Conn :
        peer[c] \in {"fin", "reset"} ~>
            \/ stage[c] \in {"closed", "dropped"}
            \/ pc[home[c]] = "ended" \/ pc[Acceptor] = "ended"
            \/ stage[c] = "none" /\ acceptErrors > 0
=============================================================================
