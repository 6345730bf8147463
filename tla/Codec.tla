------------------------------- MODULE Codec -------------------------------
(* The reflection codec of src/utils/serialize.go: strucWalker's explicit   *)
(* stack walk over a value, the Serialize and Deserialize callbacks run on  *)
(* each node it visits, and the SerializeBytes / DeserializeBytes pair.     *)
(*                                                                         *)
(* Types are records: uint of w bytes, string, bytes ([]byte), slice of an  *)
(* element type, struct of field types, custom (BytesWithoutLengthPrefix,  *)
(* a struct of one []byte with its own codec on the pointer receiver) and  *)
(* iface (an interface field holding a pointer to a custom).  A []byte or  *)
(* string value is a blob [tag, len]: its content is abstracted to a tag.  *)
(* A stream is a sequence of items: ["uint", w, x] is a w-byte little-     *)
(* endian integer, ["raw", tag, n] the n content bytes of a blob.          *)
EXTENDS Naturals, Integers, Sequences, SequencesExt

CONSTANTS
    Tags,           \* blob contents
    Lens,           \* blob lengths
    UintVals,       \* values of uint fields
    MaxSliceLen,    \* longest slice of a value
    NoTag,          \* the tag of the empty blob and of zero-filled buffers
    PacketType,     \* the type sent with Serialize and read back with Deserialize
    SignType,       \* the type getBufferToSign serializes
    Forged,         \* streams a remote peer crafts
    Pairs,          \* the codec pairs exercised: "reflect", "sign", "bytes"
    NoValue,        \* nothing sent or decoded yet
    Panic,          \* the decoder panicked
    DecodeError     \* the decoder returned an error

-----------------------------------------------------------------------------
(* Types and values                                                       *)

UintT(w) == [k |-> "uint", w |-> w]
StringT == [k |-> "string"]
BytesT == [k |-> "bytes"]
SliceT(e) == [k |-> "slice", elem |-> e]
StructT(fs) == [k |-> "struct", fields |-> fs]
CustomT == [k |-> "custom"]
IfaceT == [k |-> "iface"]

Blob(tag, n) == IF n = 0 THEN [tag |-> NoTag, len |-> 0] ELSE [tag |-> tag, len |-> n]
EmptyBlob == Blob(NoTag, 0)
Blobs == {Blob(t, n) : t \in Tags, n \in Lens}

\* What a uint field holds after it was decoded from the bytes of another
\* field: a number no uint of the sent value has.
Junk == -1
JunkBlob == [tag |-> NoTag, len |-> Junk]

\* Type of the node at path p of a value of type t (reflect Field / Index).
RECURSIVE TypeAt(_, _)
TypeAt(t, p) ==
    IF p = << >> THEN t
    ELSE TypeAt(CASE t.k = "struct" -> t.fields[Head(p)]
                  [] t.k = "custom" -> BytesT
                  [] t.k = "slice"  -> t.elem, Tail(p))

RECURSIVE ValueAt(_, _)
ValueAt(v, p) == IF p = << >> THEN v ELSE ValueAt(v[Head(p)], Tail(p))

RECURSIVE SetAt(_, _, _)
SetAt(v, p, x) ==
    IF p = << >> THEN x ELSE [v EXCEPT ![Head(p)] = SetAt(v[Head(p)], Tail(p), x)]

\* reflect's zero value of a type; a custom holds a nil []byte, an
\* interface is nil.
RECURSIVE ZeroOf(_)
ZeroOf(t) ==
    CASE t.k = "uint" -> 0
      [] t.k \in {"string", "bytes"} -> EmptyBlob
      [] t.k = "slice" -> << >>
      [] t.k = "struct" -> [i \in DOMAIN t.fields |-> ZeroOf(t.fields[i])]
      [] t.k \in {"custom", "iface"} -> <<EmptyBlob>>

\* The values of a type the model sends; a struct's are the tuples of its
\* fields' values.
RECURSIVE ValuesOf(_), TupleValues(_)
TupleValues(fs) ==
    IF fs = << >> THEN {<< >>}
    ELSE {<<x>> \o r : x \in ValuesOf(Head(fs)), r \in TupleValues(Tail(fs))}

ValuesOf(t) ==
    CASE t.k = "uint" -> UintVals
      [] t.k \in {"string", "bytes"} -> Blobs
      [] t.k = "slice" -> UNION {[1..n -> ValuesOf(t.elem)] : n \in 0..MaxSliceLen}
      [] t.k = "struct" -> TupleValues(t.fields)
      [] t.k \in {"custom", "iface"} -> {<<b>> : b \in Blobs}

-----------------------------------------------------------------------------
(* The wire format of spec 4.A, the reference the codec is checked against *)

RawItems(b) == IF b.len = 0 THEN << >> ELSE <<[k |-> "raw", tag |-> b.tag, n |-> b.len]>>
UintItem(w, x) == [k |-> "uint", w |-> w, x |-> x]

RECURSIVE RefEncode(_, _)
RefEncode(t, v) ==
    CASE t.k = "uint" -> <<UintItem(t.w, v)>>
      [] t.k \in {"string", "bytes"} -> <<UintItem(2, v.len)>> \o RawItems(v)
      [] t.k = "slice" ->
            <<UintItem(4, Len(v))>> \o FlattenSeq([i \in DOMAIN v |-> RefEncode(t.elem, v[i])])
      [] t.k = "struct" -> FlattenSeq([i \in DOMAIN v |-> RefEncode(t.fields[i], v[i])])
      [] t.k \in {"custom", "iface"} -> RawItems(v[1])

ItemSize(it) == IF it.k = "uint" THEN it.w ELSE it.n
StreamSize(s) == FoldLeft(LAMBDA acc, it : acc + ItemSize(it), 0, s)

-----------------------------------------------------------------------------
(* Reading a stream: binary.Read of a fixed-size value or of a []byte.     *)
(* At the end of the stream the read fails and the variable keeps its      *)
(* zero value; bytes of another field decode as Junk.                      *)

ReadUint(in, w) ==
    CASE in = << >> -> [ok |-> FALSE, x |-> 0, in |-> in]
      [] Head(in).k = "uint" /\ Head(in).w = w -> [ok |-> TRUE, x |-> Head(in).x, in |-> Tail(in)]
      [] OTHER -> [ok |-> TRUE, x |-> Junk, in |-> Tail(in)]

\* binary.Read into make([]byte, n).
ReadRaw(in, n) ==
    CASE n = Junk -> [ok |-> TRUE, b |-> JunkBlob, in |-> in]
      [] n = 0 -> [ok |-> TRUE, b |-> EmptyBlob, in |-> in]
      [] in = << >> -> [ok |-> FALSE, b |-> Blob(NoTag, n), in |-> in]
      [] Head(in).k = "raw" /\ Head(in).n = n -> [ok |-> TRUE, b |-> Blob(Head(in).tag, n), in |-> Tail(in)]
      [] OTHER -> [ok |-> TRUE, b |-> JunkBlob, in |-> Tail(in)]

-----------------------------------------------------------------------------
(* The callbacks of Serialize and Deserialize on the node at path p.       *)
(* st is the walk's state: the value v, the input in, the output out, the  *)
(* slices allocated so far and whether it panicked.                         *)

\* BytesWithoutLengthPrefix.Serialize: Bytes is written as it is, with no
\* length before it.
CustomSerialize(x) == RawItems(x[1])

\* BytesWithoutLengthPrefix.Deserialize: r.Read into Bytes[:] reads as
\* many bytes as the buffer already holds.
CustomDeserialize(in, x) == ReadRaw(in, x[1].len)

\* Serialize's callback: a custom codec writes its bytes (a
\* BytesWithoutLengthPrefix writes Bytes as they are), a uint its width,
\* a string or []byte a uint16 length then the bytes, a slice a uint32
\* count.
SerializeCallback(t, p, st) ==
    LET ty == TypeAt(t, p)
        x == ValueAt(st.v, p)
    IN [st EXCEPT !.out = @ \o
          CASE ty.k \in {"custom", "iface"} -> CustomSerialize(x)
            [] ty.k = "uint" -> <<UintItem(ty.w, x)>>
            [] ty.k \in {"string", "bytes"} -> <<UintItem(2, x.len % 2^16)>> \o RawItems(x)
            [] ty.k = "slice" -> <<UintItem(4, Len(x))>>]

\* Mutant of DeserializeCallback: a slice count read as uint16.
DeserializeCallbackU16Count(t, p, st) ==
    LET ty == TypeAt(t, p)
        x == ValueAt(st.v, p)
    IN CASE ty.k = "custom" ->
              LET d == CustomDeserialize(st.in, x) IN [st EXCEPT !.v = SetAt(@, p, <<d.b>>), !.in = d.in]
         [] ty.k = "iface" -> [st EXCEPT !.err = TRUE]
         [] ty.k = "uint" ->
              LET r == ReadUint(st.in, ty.w) IN [st EXCEPT !.v = SetAt(@, p, r.x), !.in = r.in]
         [] ty.k \in {"string", "bytes"} ->
              LET l == ReadUint(st.in, 2)
                  d == ReadRaw(l.in, l.x)
              IN [st EXCEPT !.v = SetAt(@, p, d.b), !.in = d.in]
         [] ty.k = "slice" ->
              LET c == ReadUint(st.in, 2)
              IN [st EXCEPT !.v = SetAt(@, p, [i \in 1..c.x |-> ZeroOf(ty.elem)]), !.in = c.in,
                            !.allocs = @ \cup {[count |-> c.x, remaining |-> StreamSize(c.in)]}]

\* Deserialize's callback: every read error is ignored.  A custom codec
\* reads into its current buffer (BytesWithoutLengthPrefix reads
\* len(Bytes) bytes, none for a zero value); an interface has no case and
\* panics; a slice count allocates that many zero elements.
DeserializeCallback(t, p, st) ==
    LET ty == TypeAt(t, p)
        x == ValueAt(st.v, p)
    IN CASE ty.k = "custom" ->
              LET d == CustomDeserialize(st.in, x) IN [st EXCEPT !.v = SetAt(@, p, <<d.b>>), !.in = d.in]
         [] ty.k = "iface" -> [st EXCEPT !.err = TRUE]
         [] ty.k = "uint" ->
              LET r == ReadUint(st.in, ty.w) IN [st EXCEPT !.v = SetAt(@, p, r.x), !.in = r.in]
         [] ty.k \in {"string", "bytes"} ->
              LET l == ReadUint(st.in, 2)
                  d == ReadRaw(l.in, l.x)
              IN [st EXCEPT !.v = SetAt(@, p, d.b), !.in = d.in]
         [] ty.k = "slice" ->
              LET c == ReadUint(st.in, 4)
              IN [st EXCEPT !.v = SetAt(@, p, [i \in 1..c.x |-> ZeroOf(ty.elem)]), !.in = c.in,
                            !.allocs = @ \cup {[count |-> c.x, remaining |-> StreamSize(c.in)]}]

Callback(mode, t, p, st) ==
    IF mode = "ser" THEN SerializeCallback(t, p, st) ELSE DeserializeCallback(t, p, st)

-----------------------------------------------------------------------------
(* strucWalker: a stack of frames [p, i, addr] (the reflect.Value at path  *)
(* p, the first child still to visit, whether it is addressable).           *)

\* The node's children: NumField of a struct, Len of a slice (read when
\* the frame is popped, after Deserialize allocated it).
NumChildren(t, p, st) ==
    LET ty == TypeAt(t, p)
    IN CASE ty.k = "struct" -> Len(ty.fields)
         [] ty.k = "custom" -> 1
         [] ty.k = "slice" -> Len(ValueAt(st.v, p))

\* Mutant of step: the child is pushed under its parent's continuation.
StepPushSwapped(mode, t, f, i, stack, st) ==
    LET ep == Append(f.p, i + 1)
        ety == TypeAt(t, ep)
        eaddr == TypeAt(t, f.p).k = "slice" \/ f.addr
        up == [p |-> f.p, i |-> i + 1, addr |-> f.addr]
        down == [p |-> ep, i |-> 0, addr |-> eaddr]
    IN CASE ety.k \in {"struct", "custom"} /\ ~(ety.k = "custom" /\ eaddr) ->
              [cont |-> FALSE, stack |-> stack \o <<down, up>>, st |-> st]
         [] ety.k = "slice" ->
              [cont |-> FALSE, stack |-> stack \o <<down, up>>, st |-> Callback(mode, t, ep, st)]
         [] OTHER -> [cont |-> TRUE, stack |-> stack, st |-> Callback(mode, t, ep, st)]

\* step(i, v, el): a struct child without a usable custom codec, and a
\* slice child after its callback, push the parent's continuation (i+1)
\* and then the child, and end the parent's loop; any other child gets
\* the callback.  Slice elements are addressable, struct fields are when
\* their struct is.
Step(mode, t, f, i, stack, st) ==
    LET ep == Append(f.p, i + 1)
        ety == TypeAt(t, ep)
        eaddr == TypeAt(t, f.p).k = "slice" \/ f.addr
        up == [p |-> f.p, i |-> i + 1, addr |-> f.addr]
        down == [p |-> ep, i |-> 0, addr |-> eaddr]
    IN CASE ety.k \in {"struct", "custom"} /\ ~(ety.k = "custom" /\ eaddr) ->
              [cont |-> FALSE, stack |-> stack \o <<up, down>>, st |-> st]
         [] ety.k = "slice" ->
              [cont |-> FALSE, stack |-> stack \o <<up, down>>, st |-> Callback(mode, t, ep, st)]
         [] OTHER -> [cont |-> TRUE, stack |-> stack, st |-> Callback(mode, t, ep, st)]

\* The loop over a popped struct's fields or slice's elements from i.
RECURSIVE Loop(_, _, _, _, _, _)
Loop(mode, t, f, i, stack, st) ==
    IF i >= NumChildren(t, f.p, st) THEN [stack |-> stack, st |-> st]
    ELSE LET s == Step(mode, t, f, i, stack, st)
         IN IF s.cont THEN Loop(mode, t, f, i + 1, s.stack, s.st)
            ELSE [stack |-> s.stack, st |-> s.st]

\* The main loop: pop the last frame; an addressable custom gets the
\* callback, a struct or slice runs its loop, anything else the callback.
RECURSIVE strucWalker(_, _, _, _)
strucWalker(mode, t, stack, st) ==
    IF stack = << >> \/ st.err THEN st
    ELSE LET f == Last(stack)
             ty == TypeAt(t, f.p)
         IN CASE ty.k = "custom" /\ f.addr ->
                   strucWalker(mode, t, Front(stack), Callback(mode, t, f.p, st))
              [] ty.k \in {"struct", "custom", "slice"} ->
                   LET r == Loop(mode, t, f, f.i, Front(stack), st)
                   IN strucWalker(mode, t, r.stack, r.st)
              [] OTHER -> strucWalker(mode, t, Front(stack), Callback(mode, t, f.p, st))

WalkState(v, in) == [v |-> v, in |-> in, out |-> << >>, allocs |-> {}, err |-> FALSE]

\* Serialize(struc): the root is addressable when a pointer was passed.
Serialize(t, v, byPtr) ==
    strucWalker("ser", t, <<[p |-> << >>, i |-> 0, addr |-> byPtr]>>, WalkState(v, << >>)).out

\* Deserialize(&packet, r) into a zero value; it always returns nil.
Deserialize(t, in) ==
    strucWalker("de", t, <<[p |-> << >>, i |-> 0, addr |-> TRUE]>>, WalkState(ZeroOf(t), in))

\* SerializeBytes: the low and the high byte of len(data), then data.
SerializeBytes(b) ==
    <<UintItem(2, (b.len % 256) + 256 * ((b.len \div 256) % 256))>> \o RawItems(b)

\* DeserializeBytes: the length is read as an int16; make([]byte, size)
\* panics on a negative size; a failed read returns the error.
DeserializeBytes(in) ==
    LET l == ReadUint(in, 2)
        size == IF l.x >= 2^15 THEN l.x - 2^16 ELSE l.x
        d == ReadRaw(l.in, size)
    IN CASE ~l.ok -> DecodeError
         [] size < 0 -> Panic
         [] ~d.ok -> DecodeError
         [] OTHER -> d.b

-----------------------------------------------------------------------------
(* The codec in use: a value is serialized on one node and deserialized on *)
(* the other (utils.Serialize(packet) and utils.Deserialize(&packet, ...)  *)
(* in connection.go), or a remote sends a stream of its own.               *)

VARIABLES
    wire,           \* the bytes on the wire
    sent,           \* [t, v, pair] of the value serialized, or NoValue
    decoded,        \* what the receiver decoded, Panic, DecodeError or NoValue
    allocs          \* the slices Deserialize allocated: [count, remaining]

vars == <<wire, sent, decoded, allocs>>

\* No exchange in progress: the next packet may be sent.
Idle == wire = << >> /\ sent = NoValue

SentBy(pair) == sent # NoValue /\ sent.pair = pair

\* utils.Serialize(packet) of a packet passed by value, as every call in
\* connection.go does.
SendPacket(v) ==
    /\ "reflect" \in Pairs
    /\ Idle
    /\ wire' = Serialize(PacketType, v, FALSE)
    /\ sent' = [t |-> PacketType, v |-> v, pair |-> "reflect"]
    /\ decoded' = NoValue
    /\ allocs' = {}

\* ChangeKey.getBufferToSign: changeKeyToSign by value, its payload a
\* BytesWithoutLengthPrefix behind the Serializable interface.
SendToSign(v) ==
    /\ "sign" \in Pairs
    /\ Idle
    /\ wire' = Serialize(SignType, v, FALSE)
    /\ sent' = [t |-> SignType, v |-> v, pair |-> "sign"]
    /\ decoded' = NoValue
    /\ allocs' = {}

\* SerializeBytes(data).
SendBytes(b) ==
    /\ "bytes" \in Pairs
    /\ Idle
    /\ wire' = SerializeBytes(b)
    /\ sent' = [t |-> BytesT, v |-> b, pair |-> "bytes"]
    /\ decoded' = NoValue
    /\ allocs' = {}

\* A remote peer's own stream.
Forge(s) ==
    /\ Idle
    /\ wire' = s
    /\ sent' = NoValue
    /\ decoded' = NoValue
    /\ allocs' = {}

\* utils.Deserialize(&packet, bytes.NewBuffer(payload)) of what arrived.
Receive ==
    /\ decoded = NoValue
    /\ sent = NoValue \/ SentBy("reflect")
    /\ LET r == Deserialize(PacketType, wire)
       IN /\ decoded' = IF r.err THEN Panic ELSE r.v
          /\ allocs' = r.allocs
    /\ UNCHANGED <<wire, sent>>

\* DeserializeBytes of what SerializeBytes sent.
ReceiveBytes ==
    /\ decoded = NoValue
    /\ SentBy("bytes")
    /\ decoded' = DeserializeBytes(wire)
    /\ UNCHANGED <<wire, sent, allocs>>

\* The exchange is over (a signed form is hashed, not sent back): the next
\* packet may go.
Done ==
    /\ decoded # NoValue \/ SentBy("sign")
    /\ wire' = << >>
    /\ sent' = NoValue
    /\ decoded' = NoValue
    /\ allocs' = {}

Init ==
    /\ wire = << >>
    /\ sent = NoValue
    /\ decoded = NoValue
    /\ allocs = {}

Next ==
    \/ \E v \in ValuesOf(PacketType) : SendPacket(v)
    \/ \E v \in ValuesOf(SignType) : SendToSign(v)
    \/ \E b \in Blobs : SendBytes(b)
    \/ \E s \in Forged : Forge(s)
    \/ Receive
    \/ ReceiveBytes
    \/ Done

Spec == Init /\ [][Next]_vars

-----------------------------------------------------------------------------
(* Properties                                                             *)

\* Spec 4.A: Serialize produces the wire format of the table, fields in
\* declared order, a uint16 length before a string or []byte, a uint32
\* count before the elements of a list, a custom codec's bytes as they
\* are.  It depends on strucWalker visiting a struct's nested fields and a
\* slice's elements before the fields after them.
EncodingFollowsSpec ==
    sent # NoValue => wire = RefEncode(sent.t, sent.v)

\* Spec 8 (codec round trip): what the receiver decodes is what was sent,
\* for Serialize/Deserialize and for SerializeBytes/DeserializeBytes.
RoundTrip ==
    (sent # NoValue /\ decoded # NoValue) => decoded = sent.v

\* Spec 4.A: decoding allocates nothing beyond the decoded value; a count
\* larger than the remaining input is a LengthOverflow error.  Every list
\* element of the packet takes at least one byte.
AllocationBounded ==
    \A a \in allocs : a.count <= a.remaining

=============================================================================
