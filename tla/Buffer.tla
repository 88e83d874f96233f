------------------------------- MODULE Buffer -------------------------------
(* hrpc_buffer.cpp, class Hrpc_Buffer: a byte buffer with room in front of   *)
(* its data for the heads of the protocols.  A buffer is a record of its     *)
(* data (the bytes from _cur to _end), _cur, _cap and _before; the bytes     *)
(* outside the data are whatever was there, Junk when they are read.         *)
EXTENDS Integers, Sequences

CONSTANTS
    Before,     \* room in front of a new buffer, 32 by default
    MinLen,     \* the smallest buffer, 32
    DefaultLen, \* the default buffer, 256
    Junk        \* a byte that nobody wrote

Byte == {n \in Nat : n <= 255}

(* optimizeSpace must not find reason to move the data of a buffer that has  *)
(* all its room in front, and memory does not grow backwards.                *)
ASSUME BufferAssumption ==
    /\ Before \in Nat /\ MinLen \in Nat \ {0} /\ DefaultLen \in Nat
    /\ Junk \notin Byte

Size(b) == Len(b.data)
End(b) == b.cur + Len(b.data)
FreeSize(b) == b.cap - End(b)
BeforeSize(b) == b.cur

(* The constructor, and the state clear() returns to.                        *)
NewWith(len, before) ==
    [data |-> <<>>, cur |-> before, before |-> before,
     cap |-> (IF len <= MinLen THEN MinLen ELSE len) + before]
NewBuffer == NewWith(DefaultLen, Before)
Clear(b) == [b EXCEPT !.data = <<>>, !.cur = b.before]

(* Integers are written most significant byte first, two's complement.  The  *)
(* values of the model have 32 bits at most, wider ones repeat the sign.     *)
Weight == <<1, 256, 65536, 16777216>>
BytesOf(width, v) == [i \in 1..width |->
    IF width - i >= 4 THEN (IF v < 0 THEN 255 ELSE 0)
    ELSE (v \div Weight[width - i + 1]) % 256]
IntOf(bytes) ==
    LET n == Len(bytes)
        sign == IF bytes[1] >= 128 THEN -1 ELSE 0
        at(k) == IF k < n THEN bytes[n - k] ELSE -255 * sign
    IN  IF \E i \in 1..n : bytes[i] = Junk THEN Junk
        ELSE 256 * (256 * (256 * (256 * sign + at(3)) + at(2)) + at(1)) + at(0)
-----------------------------------------------------------------------------
(* optimizeSpace: when the data begin in the last 30 per cent, they move to  *)
(* the front.                                                                *)
OptimizeSpace(b) == IF 10 * b.cur > 7 * b.cap THEN [b EXCEPT !.cur = b.before] ELSE b

(* expandBuffer: new memory of len bytes, the data after the room in front.  *)
Expand(b, len) == [b EXCEPT !.cap = len, !.cur = b.before]

(* write, pushData: bytes to the end; with flag, the space is optimised      *)
(* first.                                                                    *)
Growth_NoRoom(b, n) == 2 * (Size(b) + n)     \* mutant: forgets the room in front
Growth(b, n) == 2 * (Size(b) + n) + b.before
Write(b, bytes, flag) ==
    LET o == IF flag THEN OptimizeSpace(b) ELSE b
        e == IF Len(bytes) <= FreeSize(o) THEN o ELSE Expand(o, Growth(o, Len(bytes)))
    IN  [e EXCEPT !.data = @ \o bytes]
AppendInt(b, width, v, flag) == Write(b, BytesOf(width, v), flag)

(* appendFront, appendFrontInt: bytes before the data.  Without the room     *)
(* they return false and leave the buffer as it is.                          *)
AppendFront(b, bytes) ==
    IF b.cur >= Len(bytes)
    THEN [b EXCEPT !.cur = @ - Len(bytes), !.data = bytes \o @]
    ELSE b
AppendFrontInt(b, width, v) == AppendFront(b, BytesOf(width, v))

(* overWriteInt: bytes in the middle of the data.                            *)
OverWriteInt(b, pos, width, v) ==
    IF pos + width > Size(b) THEN b
    ELSE [b EXCEPT !.data = SubSeq(@, 1, pos) \o BytesOf(width, v)
                              \o SubSeq(@, pos + width + 1, Len(@))]

(* skipBytes refuses to go beyond the end; skipTo takes the position found.  *)
SkipBytes(b, n) ==
    IF Size(b) >= n
    THEN [b EXCEPT !.cur = @ + n, !.data = SubSeq(@, n + 1, Len(@))]
    ELSE b
SkipTo(b, pos) ==
    IF pos > 0 /\ pos <= Size(b) THEN SkipBytes(b, pos) ELSE b
-----------------------------------------------------------------------------
(* What is read at pos: beyond the data lies junk.                           *)
Bytes(b, pos, len) == [i \in 1..len |->
    IF pos + i <= Size(b) THEN b.data[pos + i] ELSE Junk]

(* peekInt: an exception when fewer bytes are left, and get: empty; both     *)
(* compare with _end, as if the data began at 0.                             *)
PeekFails(b, width, pos) == End(b) >= pos /\ End(b) - pos < width
PeekInt(b, width, pos) == IntOf(Bytes(b, pos, width))
PeekFront(b, width) == PeekInt(b, width, 0)

Get(b, pos, len) == IF pos + len > End(b) THEN <<>> ELSE Bytes(b, pos, len)
GetToBuffer(b, pos, len) ==
    IF pos + len > End(b) THEN NewWith(32, Before)
    ELSE Write(NewWith(len, Before), Bytes(b, pos, len), TRUE)

(* find: where the bytes first occur, counted from the data; end() if they   *)
(* do not.                                                                   *)
Find(b, bytes) ==
    LET at == {i \in 0..(Size(b) - Len(bytes)) :
                 SubSeq(b.data, i + 1, i + Len(bytes)) = bytes}
    IN  IF at = {} THEN Size(b) ELSE CHOOSE i \in at : \A j \in at : i <= j
-----------------------------------------------------------------------------
(* All of a buffer is inside its memory, and its data never begin where      *)
(* optimizeSpace would have to move them back: its loop copies forwards.     *)
Fits(b) ==
    /\ b.cur \in 0..b.cap
    /\ End(b) <= b.cap
    /\ b.cur < b.before => 10 * b.cur <= 7 * b.cap
=============================================================================
