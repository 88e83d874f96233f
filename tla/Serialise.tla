----------------------------- MODULE Serialise ------------------------------
(* hrpc_serializeStream.h/.cpp, class Hrpc_SerializeStream: the values of a  *)
(* call in a buffer, each with a number (seq) and its type.  A type is a     *)
(* record [is], with [of] for the elements of a vector or the values of a    *)
(* map and [key] for the keys of a map.  Strings are sequences of bytes, a   *)
(* float is the integer with its bits, a map is a function.  Of the 64-bit    *)
(* integers there are those of 32 bits, the integers of TLC.                 *)
EXTENDS Buffer, SequencesExt

CONSTANTS
    MaxSeq,     \* the largest number, 127
    Types,      \* the types in use, a sequence: what a type is made of comes first
    Values      \* the values of each type

Tag == [Int8 |-> 1, Int16 |-> 2, Int32 |-> 3, Int64 |-> 4, float |-> 5,
        bool |-> 6, string |-> 7, vector |-> 8, map |-> 9]
GetDataType(t) == Tag[t.is]
Width == [Int8 |-> 1, Int16 |-> 2, Int32 |-> 4, Int64 |-> 8, float |-> 4, bool |-> 1]

Sizes == 2      \* bytes of a size or a count (Int16)

InUse == Range(Types)
Int8 == {n \in Int : -128 <= n /\ n <= 127}
Int16 == {n \in Int : -32768 <= n /\ n <= 32767}
Int32 == {n \in Int : -2147483647 - 1 <= n /\ n <= 2147483647}
IsType(t, parts) ==
    \/ \E s \in DOMAIN Width \cup {"string"} : t = [is |-> s]
    \/ \E e \in parts : t = [is |-> "vector", of |-> e]
    \/ \E k, e \in parts : t = [is |-> "map", key |-> k, of |-> e]
IsValue(t, v) ==
    CASE t.is = "bool" -> v \in BOOLEAN
      [] t.is = "string" -> v \in Seq(Byte)
      [] t.is = "vector" -> v \in Seq(Values[t.of])
      [] t.is = "map" -> /\ IsFiniteSet(DOMAIN v) /\ DOMAIN v \subseteq Values[t.key]
                         /\ v \in [DOMAIN v -> Values[t.of]]
      [] t.is = "Int8" -> v \in Int8
      [] t.is = "Int16" -> v \in Int16
      [] OTHER -> v \in Int32

ASSUME SerialiseAssumption ==
    /\ MaxSeq \in 15..127
    /\ Types \in Seq(InUse)
    /\ \A i \in DOMAIN Types : IsType(Types[i], {Types[j] : j \in 1..(i - 1)})
    /\ \A t \in InUse : \A v \in Values[t] : IsValue(t, v)
-----------------------------------------------------------------------------
(* writeData: an element of its type and its number of elements goes before  *)
(* the elements of a vector or a map.  (The elements of a map are in the     *)
(* order of its keys in the code; the reader does not depend on it.)         *)
WriteData[t \in InUse] == [v \in Values[t] |->
    CASE t.is = "vector" ->
           <<GetDataType(t.of)>> \o BytesOf(Sizes, Len(v))
             \o FlattenSeq([i \in 1..Len(v) |-> WriteData[t.of][v[i]]])
      [] t.is = "map" ->
           LET keys == SetToSeq(DOMAIN v) IN
           <<16 * GetDataType(t.key) + GetDataType(t.of)>> \o BytesOf(Sizes, Len(keys))
             \o FlattenSeq([i \in 1..Len(keys) |->
                              WriteData[t.key][keys[i]] \o WriteData[t.of][v[keys[i]]]])
      [] t.is = "bool" -> IF v THEN <<1>> ELSE <<0>>
      [] t.is = "string" -> BytesOf(Sizes, Len(v)) \o v
      [] OTHER -> BytesOf(Width[t.is], v)]

(* setDataHead: type and number share a byte, a number of 15 or more has one *)
(* of its own; a place for the size of the element follows.                  *)
SetDataHead_NoByte(seq, t) ==     \* mutant: 15 is put where it says "in the next byte"
    IF seq <= 15 THEN <<16 * GetDataType(t) + seq>> \o BytesOf(Sizes, 0)
    ELSE <<16 * GetDataType(t) + 15, seq>> \o BytesOf(Sizes, 0)
SetDataHead_NoType(seq, t) ==     \* mutant: the type of a number of 15 or more is lost
    IF seq < 15 THEN <<16 * GetDataType(t) + seq>> \o BytesOf(Sizes, 0)
    ELSE <<15, seq>> \o BytesOf(Sizes, 0)
SetDataHead(seq, t) ==
    IF seq < 15 THEN <<16 * GetDataType(t) + seq>> \o BytesOf(Sizes, 0)
    ELSE <<16 * GetDataType(t) + 15, seq>> \o BytesOf(Sizes, 0)

(* setDataBody: the element, and then its size into the place kept for it.   *)
SetDataBody(b, t, v) ==
    LET pos == Size(b) - Sizes
        w == Write(b, WriteData[t][v], TRUE)
    IN  OverWriteInt(w, pos, Sizes, Size(w) - pos - Sizes)

(* write, writeTo.  The numbers are those of parameters, from 0; a number    *)
(* beyond MaxSeq is an exception.                                            *)
WriteFails(seq) == seq > MaxSeq
WriteTo(b, seq, t, v) == SetDataBody(Write(b, SetDataHead(seq, t), TRUE), t, v)
-----------------------------------------------------------------------------
(* What a read returns: where it ends and what it read; an exception.        *)
Read1(pos, v) == [pos |-> pos, value |-> v]
Thrown == [pos |-> -1, value |-> Junk]
Absent == [pos |-> -2, value |-> Junk]

(* The sizes are compared without a sign: a position beyond the end passes.  *)
Has(b, pos, n) == pos > Size(b) \/ Size(b) - pos >= n
Peek(b, width, pos) ==
    IF ~Has(b, pos, width) \/ PeekFails(b, width, pos) THEN Thrown
    ELSE Read1(pos + width, PeekInt(b, width, pos))

(* find: goes from element to element by their sizes.  Where the data of the *)
(* element begin and the type it has, Absent, or an exception for a size     *)
(* that is negative.                                                         *)
FindFrom(b, seq) ==
    LET find[cur \in Nat] ==
          LET head == PeekInt(b, 1, cur)
              type == (head % 256) \div 16
              far == head % 16 = 15
              number == IF far THEN PeekInt(b, 1, cur + 1) ELSE head % 16
              size == cur + IF far THEN 2 ELSE 1
          IN  IF cur >= Size(b) \/ (far /\ Size(b) - cur < 2) THEN Absent
              ELSE IF number = seq THEN Read1(size + Sizes, type)
              ELSE IF Size(b) - size < Sizes THEN Absent
              ELSE IF PeekInt(b, Sizes, size) < 0 THEN Thrown
              ELSE find[size + Sizes + PeekInt(b, Sizes, size)]
    IN  find
Find1(b, seq) == FindFrom(b, seq)[0]

ReadString(b, pos) ==
    LET length == Peek(b, Sizes, pos)
        s == Get(b, length.pos, length.value)
    IN  IF length.pos < 0 \/ length.value < 0 THEN Thrown
        ELSE IF length.value = 0 THEN Read1(length.pos, <<>>)
        ELSE IF s = <<>> THEN Thrown
        ELSE Read1(length.pos + length.value, s)

(* readData: an exception unless the element has the type that is asked for, *)
(* down to the elements of its elements.  A map is read as its keys and      *)
(* values in turn; a key that comes again replaces the value.                *)
AsMap(items) ==
    LET n == Len(items) \div 2
        last(k) == CHOOSE i \in 1..n : /\ items[2 * i - 1] = k
                                       /\ \A j \in (i + 1)..n : items[2 * j - 1] # k
    IN  [k \in {items[2 * i - 1] : i \in 1..n} |-> items[2 * last(k)]]

(* Elements of the tag that is asked for, read by the readers in turn.       *)
ReadItems(readers, pos, count) ==
    LET items[k \in 0..count] ==
          IF k = 0 THEN Read1(pos, <<>>)
          ELSE LET before == items[k - 1]
                   item == readers[((k - 1) % Len(readers)) + 1][before.pos]
               IN  IF before.pos < 0 \/ item.pos < 0 THEN Thrown
                   ELSE Read1(item.pos, Append(before.value, item.value))
    IN  items[count]

ReadElements(b, pos, tag, readers) ==
    LET count == PeekInt(b, Sizes, pos + 1) IN
    IF \/ ~Has(b, pos, 1 + Sizes) \/ PeekFails(b, 1 + Sizes, pos)
       \/ PeekInt(b, 1, pos) % 256 # tag \/ count < 0
    THEN Thrown
    ELSE ReadItems(readers, pos + 1 + Sizes, Len(readers) * count)

ReadData(b) ==
    LET read[t \in InUse] == [pos \in Nat |->
          CASE t.is = "vector" -> ReadElements(b, pos, GetDataType(t.of), <<read[t.of]>>)
            [] t.is = "map" ->
                 LET items == ReadElements(b, pos, 16 * GetDataType(t.key) + GetDataType(t.of),
                                           <<read[t.key], read[t.of]>>)
                 IN  IF items.pos < 0 THEN Thrown ELSE Read1(items.pos, AsMap(items.value))
            [] t.is = "bool" ->
                 LET r == Peek(b, 1, pos) IN
                 IF r.pos < 0 \/ r.value \notin {0, 1} THEN Thrown ELSE Read1(r.pos, r.value = 1)
            [] t.is = "string" -> ReadString(b, pos)
            [] OTHER -> Peek(b, Width[t.is], pos)]
    IN  read

(* read: Absent leaves the variable of the caller as it was.                 *)
ReadFrom(b, seq, t) ==
    LET at == Find1(b, seq) IN
    IF at.pos < 0 THEN at
    ELSE IF at.value # GetDataType(t) THEN Thrown
    ELSE ReadData(b)[t][at.pos]
=============================================================================
