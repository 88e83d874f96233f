------------------------------ MODULE Framing -------------------------------
(* The bytes between ObjectProxy and HandleThread: a request or a response   *)
(* gets its heads, its length and the check code, passes a send buffer, a    *)
(* TCP stream that keeps no boundaries and a receive buffer, and is taken    *)
(* apart.  One direction of one connection: requests to a server, or         *)
(* responses and heart checks to a client.                                   *)
EXTENDS Buffer

CONSTANTS
    Traffic,    \* the conversations: [to, messages, damage, cuts]
    ObjectName, \* the object the server handles
    MaxPackage, \* _maxPackageLength, 10M
    RecvLen     \* _bufferLen: bytes read at once, 1024

Int32 == {n \in Int : -2147483647 - 1 <= n /\ n <= 2147483647}
Message(to) ==
    IF to = "server"
    THEN [kind : {"request", "oneway"}, seq : Int32,
          object : Seq(Byte), func : Seq(Byte), data : Seq(Byte)]
    ELSE [kind : {"response"}, seq : Int32, data : Seq(Byte)] \cup [kind : {"heart"}]

ASSUME FramingAssumption ==
    /\ RecvLen \in Nat \ {0} /\ MaxPackage \in Nat
    /\ \A t \in Traffic :
         /\ t.to \in {"server", "client"}
         /\ t.messages \in Seq(Message(t.to))
         /\ t.cuts \in Nat
         /\ t.damage \in [at : Nat, kind : {"none", "length", "code"}, value : Int]
         /\ t.damage.kind = "code" => t.damage.value \in Byte

VARIABLES
    traffic,    \* the conversation
    next,       \* the next message to send
    cuts,       \* partial sends, traffic.cuts of them at most (a bound)
    sendBuf,    \* _send_buffer of the sender
    stream,     \* bytes sent and not received
    recvBuf,    \* _recv_buffer of the receiver
    pc,         \* the receiver waits for input or extracts packages
    out         \* what the receiver has made of the packages

vars == <<traffic, next, cuts, sendBuf, stream, recvBuf, pc, out>>

Code == <<35, 35, 35, 35>>                  \* "####"
HRPC == <<72, 82, 80, 67>>
HEART == <<72, 69, 65, 82, 84>>
Dot == 46
Type == [request |-> 1, response |-> 2, oneway |-> 3]
HeartRequest == 1
-----------------------------------------------------------------------------
(* The sender.  Each head goes in front of the data when there is room,      *)
(* else into a new buffer, with the data behind it.                          *)
Body(bytes) == Write(NewBuffer, bytes, TRUE)

MakeHrpcBody(b, object, func) ==
    LET dest == object \o <<Dot>> \o func IN
    IF BeforeSize(b) >= Len(dest) + 2
    THEN AppendFrontInt(AppendFront(b, dest), 2, Len(dest))
    ELSE Write(Write(AppendInt(NewBuffer, 2, Len(dest), TRUE), dest, TRUE), b.data, TRUE)

HeadLen_Short == 4 + Len(HRPC)     \* mutant: the length byte is not counted
HeadLen == 1 + Len(HRPC) + 4 + 1
Headed(b, seq, type) ==
    AppendFrontInt(AppendFront(AppendFrontInt(AppendFrontInt(b, 1, type), 4, seq), HRPC), 1, 4)
HeadedAnew(b, seq, type) ==
    LET head == AppendInt(Write(AppendInt(NewBuffer, 1, 4, TRUE), HRPC, TRUE), 4, seq, TRUE)
    IN  Write(AppendInt(head, 1, type, TRUE), b.data, TRUE)
MakeRequest(b, seq, type) ==
    IF BeforeSize(b) >= HeadLen THEN Headed(b, seq, type) ELSE HeadedAnew(b, seq, type)

(* The server asks for one byte less than it takes (net/HrpcProtocol.cpp:97);*)
(* a result has all its room in front.                                       *)
AddProtocolHeadMsg(b, seq) ==
    IF BeforeSize(b) >= 5 + Len(HRPC)
    THEN Headed(b, seq, Type.response) ELSE HeadedAnew(b, seq, Type.response)

DoRequest ==
    AppendInt(Write(AppendInt(NewBuffer, 1, Len(HEART), TRUE), HEART, TRUE), 1, HeartRequest, TRUE)

(* sendRequest and sendResponse: the length counts what follows it but the   *)
(* check code, plus the 4 bytes of the code.  The server does not look       *)
(* whether there is room for the length.                                     *)
SendRequest(b) ==
    LET size == Size(b) + Len(Code) IN
    IF BeforeSize(b) >= 4
    THEN Write(AppendFrontInt(b, 4, size), Code, TRUE)
    ELSE Write(Write(AppendInt(NewBuffer, 4, size, TRUE), b.data, TRUE), Code, TRUE)
SendResponse(b) == Write(AppendFrontInt(b, 4, Size(b) + Len(Code)), Code, TRUE)

Package(m) ==
    CASE m.kind \in {"request", "oneway"} ->
           SendRequest(MakeRequest(MakeHrpcBody(Body(m.data), m.object, m.func),
                                   m.seq, Type[m.kind]))
      [] m.kind = "response" -> SendResponse(AddProtocolHeadMsg(Body(m.data), m.seq))
      [] m.kind = "heart" -> SendResponse(DoRequest)

(* What the protocol can carry: calls of the object of the server by a name  *)
(* whose length has 2 bytes, in packages within the limit.  The heads of a   *)
(* response must find their room.                                            *)
LongestName == 32767
Sendable(m) ==
    /\ Len(Package(m).data) - 4 <= MaxPackage
    /\ m.kind \in {"request", "oneway"} =>
         /\ m.object = ObjectName
         /\ 2 <= Len(m.object) + 1 + Len(m.func)
         /\ Len(m.object) + 1 + Len(m.func) <= LongestName
ASSUME SendableAssumption ==
    /\ Before >= 14 /\ MaxPackage <= 2147483647
    /\ ObjectName \in Seq(Byte \ {Dot})
    /\ \A t \in Traffic : t.damage.at = 0 =>
         \A i \in 1..Len(t.messages) : Sendable(t.messages[i])

(* Damage on the way that the receiver is to get over: another length, or    *)
(* another check code.                                                       *)
Damaged(bytes, damage) ==
    CASE damage.kind = "length" -> BytesOf(4, damage.value) \o SubSeq(bytes, 5, Len(bytes))
      [] damage.kind = "code" -> [bytes EXCEPT ![Len(bytes)] = damage.value]
      [] OTHER -> bytes

Init ==
    /\ traffic \in Traffic
    /\ next = 1
    /\ cuts = 0
    /\ sendBuf = NewBuffer
    /\ stream = <<>>
    /\ recvBuf = NewBuffer
    /\ pc = "wait"
    /\ out = <<>>

(* pushData: a package joins what is still to be sent.                       *)
SentBytes(t, i) ==
    LET bytes == Package(t.messages[i]).data IN
    IF t.damage.at = i THEN Damaged(bytes, t.damage) ELSE bytes
PushData ==
    /\ next <= Len(traffic.messages)
    /\ sendBuf' = Write(sendBuf, SentBytes(traffic, next), TRUE)
    /\ next' = next + 1
    /\ UNCHANGED <<traffic, cuts, stream, recvBuf, pc, out>>

(* sendData: the socket takes some of the bytes.                             *)
SendData ==
    /\ \E n \in 1..Size(sendBuf) :
         /\ n < Size(sendBuf) => cuts < traffic.cuts
         /\ cuts' = IF n < Size(sendBuf) THEN cuts + 1 ELSE cuts
         /\ stream' = stream \o SubSeq(sendBuf.data, 1, n)
         /\ sendBuf' = SkipBytes(sendBuf, n)
    /\ UNCHANGED <<traffic, next, recvBuf, pc, out>>
-----------------------------------------------------------------------------
(* recvData: what has come, RecvLen bytes at a time; it ends with a part     *)
(* that is not full, also an empty one.                                      *)
RecvData ==
    /\ pc = "recv" \/ (pc = "wait" /\ stream # <<>>)
    /\ LET n == IF Len(stream) < RecvLen THEN Len(stream) ELSE RecvLen IN
         /\ recvBuf' = Write(recvBuf, SubSeq(stream, 1, n), TRUE)
         /\ stream' = SubSeq(stream, n + 1, Len(stream))
         /\ pc' = IF n = RecvLen THEN "recv" ELSE "extract"
    /\ UNCHANGED <<traffic, next, cuts, sendBuf, out>>

(* processError: goes on behind the next check code, or drops everything.    *)
ProcessError_Stay(b) ==     \* mutant: skips to the check code, not behind it
    LET dest == Find(b, Code) IN IF dest # Size(b) THEN SkipTo(b, dest) ELSE Clear(b)
ProcessError_Clear(b) == Clear(b)     \* mutant: drops everything
ProcessError(b) ==
    LET dest == Find(b, Code) IN
    IF dest # Size(b) THEN SkipTo(b, dest + Len(Code)) ELSE Clear(b)

(* checkRequest, HrpcProtocol::parse and extractFuncName on the server, up   *)
(* to the call of the function.                                              *)
NoCall == [kind |-> "error"]
ExtractFuncName(b, seq, type) ==
    LET length == PeekFront(b, 2)
        name == Get(b, 2, length)
        dot == {i \in 1..Len(name) : name[i] = Dot}
        pos == CHOOSE i \in dot : \A j \in dot : i <= j
    IN  IF Size(b) < 1 \/ length <= 1 \/ dot = {} THEN NoCall
        ELSE [kind |-> CASE type = Type.request -> "request"
                         [] type = Type.oneway -> "oneway"
                         [] OTHER -> "error",
              seq |-> seq, object |-> SubSeq(name, 1, pos - 1),
              func |-> SubSeq(name, pos + 1, Len(name)),
              data |-> SkipBytes(b, 2 + length).data]
Parse(b) ==
    IF Size(b) < 6 THEN NoCall
    ELSE LET b4 == SkipBytes(b, 4)
             call == ExtractFuncName(SkipBytes(b4, 1), PeekFront(b, 4), PeekFront(b4, 1))
         IN  IF call.kind = "error" \/ call.object # ObjectName THEN NoCall ELSE call
CheckRequest(b) ==
    LET length == PeekFront(b, 1) IN
    IF length > 0 /\ Get(b, 1, length) = HRPC
    THEN Parse(SkipBytes(b, 1 + length)) ELSE NoCall

(* parseHrpc, processHrpc and processHeart on the client.                    *)
ProcessHrpc(b) ==
    LET b4 == SkipBytes(b, 4) IN
    IF PeekFront(b4, 1) # Type.response THEN NoCall
    ELSE [kind |-> "response", seq |-> PeekFront(b, 4), data |-> SkipBytes(b4, 1).data]
ProcessHeart(b) ==
    IF Size(b) = 1 /\ PeekFront(b, 1) = HeartRequest THEN [kind |-> "heart"] ELSE NoCall
ParseHrpc(b) ==
    LET length == PeekFront(b, 1)
        b1 == SkipBytes(b, 1)
        name == Get(b1, 0, length)
    IN  IF Size(b) < 1 + Len(HRPC) \/ length <= 0 THEN NoCall
        ELSE CASE name = HRPC -> ProcessHrpc(SkipBytes(b1, length))
               [] name = HEART -> ProcessHeart(SkipBytes(b1, length))
               [] OTHER -> NoCall

(* extractPackage: the next package is complete and sound, unsound, or not   *)
(* all there.  The caller takes one that is not empty and asks again.        *)
Announced == PeekFront(recvBuf, 4)
Awaits ==
    Size(recvBuf) > 4 =>
        Announced > 0 /\ Announced <= MaxPackage /\ Size(recvBuf) < 4 + Announced
Sound == Announced > 0 /\ Announced <= MaxPackage /\ Get(recvBuf, Announced, 4) = Code

ExtractPackage ==
    /\ pc = "extract"
    /\ ~Awaits /\ Sound
    /\ LET msg == GetToBuffer(recvBuf, 4, Announced - 4) IN
       out' = IF Size(msg) = 0 THEN out
              ELSE Append(out, IF traffic.to = "server" THEN CheckRequest(msg) ELSE ParseHrpc(msg))
    /\ recvBuf' = SkipBytes(recvBuf, 4 + Announced)
    /\ UNCHANGED <<traffic, next, cuts, sendBuf, stream, pc>>

ExtractError ==
    /\ pc = "extract"
    /\ ~Awaits /\ ~Sound
    /\ recvBuf' = ProcessError(recvBuf)
    /\ UNCHANGED <<traffic, next, cuts, sendBuf, stream, pc, out>>

ExtractEnd ==
    /\ pc = "extract"
    /\ Awaits
    /\ pc' = "wait"
    /\ UNCHANGED <<traffic, next, cuts, sendBuf, stream, recvBuf, out>>

ReceiverStep == RecvData \/ ExtractPackage \/ ExtractError \/ ExtractEnd
Next == PushData \/ SendData \/ ReceiverStep

Spec == Init /\ [][Next]_vars
-----------------------------------------------------------------------------
Messages == traffic.messages
Sent == 1..Len(Messages)
AllReceived ==
    next > Len(Messages) /\ Size(sendBuf) = 0 /\ stream = <<>> /\ pc = "wait"

(* The positions of both buffers stay inside their memory through partial    *)
(* sends, partial packages, growth and moves, and every byte that travels is *)
(* one that was written.                                                     *)
BuffersFit ==
    /\ Fits(sendBuf) /\ Fits(recvBuf)
    /\ \A bytes \in {sendBuf.data, stream, recvBuf.data} :
         \A i \in 1..Len(bytes) : bytes[i] \in Byte

(* However the stream is cut, and whatever heads found room, the receiver    *)
(* makes of the packages what was sent, in order, and nothing else.          *)
Delivered == traffic.damage.at = 0 =>
    /\ Len(out) <= Len(Messages)
    /\ \A i \in 1..Len(out) : out[i] = Messages[i]
    /\ AllReceived => Len(out) = Len(Messages)

(* A damaged package costs itself, at most the one behind it, and at most    *)
(* one more for every partial send: those before it and the later ones       *)
(* arrive (processError, ConnectionBase.cpp:205), unless the receiver still  *)
(* waits for bytes a false length announces.  The next one goes with a check *)
(* code that was damaged; another one whenever processError drops the first  *)
(* bytes of a check code that was cut, and takes the rest for a length.      *)
Recovers == LET at == traffic.damage.at IN
    at > 0 /\ AllReceived /\ recvBuf.data = <<>> =>
        \A i \in Sent \ (at..(at + 1 + cuts)) : \E j \in 1..Len(out) : out[j] = Messages[i]

(* The receiver gets through what it has (the loop of readEvent ends): each  *)
(* error consumes something, also when all that is left is damaged.          *)
ErrorsConsume ==
    pc = "extract" /\ ~Awaits /\ ~Sound =>
        Size(ProcessError(recvBuf)) < Size(recvBuf)
-----------------------------------------------------------------------------
(* What BuffersFit relies on: the data of the two buffers never begin in the *)
(* room in front, since heads go into the buffer of a package only.          *)
Memory == [data : Seq(Byte), cur : Nat, before : Nat, cap : Nat]
Roomy(b) == b \in Memory /\ b.before <= b.cur /\ End(b) <= b.cap

TypeOK ==
    /\ traffic \in Traffic
    /\ next \in 1..(Len(Messages) + 1)
    /\ cuts \in 0..traffic.cuts
    /\ stream \in Seq(Byte)
    /\ pc \in {"wait", "recv", "extract"}

(* What Delivered relies on: the bytes under way are the packages of the     *)
(* messages sent and not extracted, p[i] being where package i ends; and the *)
(* receiver waits only when it has no whole package.                         *)
UnderWay == recvBuf.data \o stream \o sendBuf.data
LinedUp(bytes, messages, k, l) == \E p \in [k..l -> 0..Len(bytes)] :
    /\ p[k] = 0 /\ p[l] = Len(bytes)
    /\ \A i, j \in k..l : i <= j => p[i] <= p[j]
    /\ \A i \in (k + 1)..l :
         LET package == Package(messages[i]).data IN
         /\ p[i] = p[i - 1] + Len(package)
         /\ \A j \in 1..Len(package) : bytes[p[i - 1] + j] = package[j]
InStep == traffic.damage.at = 0 =>
    /\ out \in Seq(Message(traffic.to))
    /\ Len(out) < next
    /\ \A i \in 1..Len(out) : out[i] = Messages[i]
    /\ LinedUp(UnderWay, Messages, Len(out), next - 1)
    /\ pc = "wait" => Awaits

FrameInv == TypeOK /\ Roomy(sendBuf) /\ Roomy(recvBuf)
-----------------------------------------------------------------------------
(* What Recovers relies on.  All bytes of a conversation in a row; package i *)
(* ends at Ends(t, i).                                                       *)
Laid(t) ==
    LET laid[i \in 0..Len(t.messages)] ==
          IF i = 0 THEN <<>> ELSE laid[i - 1] \o SentBytes(t, i)
    IN  laid
Line(t) == Laid(t)[Len(t.messages)]
Ends(t, i) == Len(Laid(t)[i])

(* Nothing in the data is escaped, so a receiver that has lost its place may *)
(* take data for a check code, or for a package.  In a conversation it is to *)
(* get over, check codes stand at the end of packages only, and nothing      *)
(* reads as a package but the undamaged ones.                                *)
CodeAt(line, x) == \A i \in 1..4 : line[x + i] = Code[i]
ReadsAsPackage(line, x) == LET n == IntOf(SubSeq(line, x + 1, x + 4)) IN
    /\ 0 < n /\ n <= MaxPackage /\ x + 4 + n <= Len(line)
    /\ CodeAt(line, x + n)
Unambiguous(t) == LET line == Line(t) IN
    /\ \A i \in 1..Len(t.messages) : Sendable(t.messages[i])
    /\ \A x \in 0..(Len(line) - 4) : CodeAt(line, x) =>
         \E i \in 1..Len(t.messages) : x + 4 = Ends(t, i)
    /\ \A x \in 0..(Len(line) - 4) : ReadsAsPackage(line, x) =>
         \E i \in 1..Len(t.messages) : x = Ends(t, i - 1) /\ i # t.damage.at
ASSUME DamageAssumption == \A t \in Traffic : t.damage.at > 0 => Unambiguous(t)

(* Where the receiver reads, and where what it has received and what has     *)
(* been sent to it end.  A partial send pays for a position inside a         *)
(* package, the receiver for a package it loses when it drops its bytes and  *)
(* goes on at such a position.                                               *)
Front == Ends(traffic, next - 1) - Len(UnderWay)
Edge == Front + Size(recvBuf)
Brink == Edge + Len(stream)
Torn(t, x) == IF \E i \in 0..Len(t.messages) : x = Ends(t, i) THEN 0 ELSE 1
Debt ==
    (IF pc # "recv" /\ Front < Edge THEN Torn(traffic, Edge) ELSE 0)
      + (IF Front < Brink /\ (pc = "recv" \/ Edge < Brink) THEN Torn(traffic, Brink) ELSE 0)

(* In front of the receiver begins a package, or it is inside package g and  *)
(* goes on behind the check code of g, when that is still to come, else      *)
(* behind the next.                                                          *)
CodeAhead(t, x, g) ==
    IF x + 4 <= Ends(t, g) /\ ~(g = t.damage.at /\ t.damage.kind = "code") THEN 1 ELSE 0
OnTrack == LET at == traffic.damage.at IN at > 0 =>
    /\ out \in Seq(Message(traffic.to))
    /\ 0 <= Front
    /\ \A j \in 1..Len(UnderWay) : UnderWay[j] = Line(traffic)[Front + j]
    /\ \A i \in 1..(next - 1) : Ends(traffic, i) <= Front =>
         \/ i \in at..(at + 1 + cuts)
         \/ \E j \in 1..Len(out) : out[j] = Messages[i]
    /\ Debt <= cuts
    /\ \/ \E k \in 0..(next - 1) : Front = Ends(traffic, k)
       \/ \E g \in at..(next - 1) :
            /\ Ends(traffic, g - 1) < Front /\ Front < Ends(traffic, g)
            /\ g + Debt <= at + cuts + CodeAhead(traffic, Front, g)
=============================================================================
