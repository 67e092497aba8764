-------------------------------- MODULE Wire --------------------------------
(***************************************************************************)
(* One direction of the transport: poll_write cuts a write into frames,    *)
(* FrameCodec encodes them, the bytes arrive in pieces of any size, the    *)
(* reader task's FramedRead decodes what is complete, and each stream's    *)
(* RecvBuffer hands the bytes to read_into.  The two sides have their own  *)
(* limits on frames.                                                       *)
(*                                                                         *)
(* The wire is a sequence of bytes.  Byte n of a stream has the value n.   *)
(* Credit is external: what is acquired is anything up to what was asked   *)
(* for (FlowControl.tla).                                                  *)
(***************************************************************************)
EXTENDS Integers, Sequences

CONSTANTS
    StreamIds,
    Controls,   \* the other frames that may be sent
    MaxControls,\* bound: how many of them
    MaxBytes,   \* bound: the bytes written to a stream
    Limits,     \* the values of Config::max_frame_size that the sides may have
    Ceiling     \* ABSOLUTE_MAX_PAYLOAD

VARIABLES
    sendMax, recvMax,   \* Config::max_frame_size of the sender and the receiver
    version,            \* the protocol version of the sender
    written,            \* bytes the application has written to each stream
    sent,               \* frames encoded so far
    wire,               \* bytes under way
    src,                \* FramedRead's buffer
    decoded,            \* frames decoded so far
    recv,               \* RecvBuffer.queue of each stream
    read,               \* bytes the application has read from each stream
    failed              \* the tasks that an error of the codec has ended

config == <<sendMax, recvMax, version>>
vars == <<config, written, sent, wire, src, decoded, recv, read, failed>>

ProtocolVersion == 1
HeaderLen == 12

Lesser(a, b) == IF a <= b THEN a ELSE b

----------------------------------------------------------------------------
\* Frames and their fields as numbers.

Data(id, flags, payload) == [type |-> "Data", id |-> id, flags |-> flags, payload |-> payload]
WindowUpdate(id, flags, delta) ==
    [type |-> "WindowUpdate", id |-> id, flags |-> flags, meta |-> delta]
Ping(flags, opaque) == [type |-> "Ping", id |-> 0, flags |-> flags, meta |-> opaque]
GoAway(code) == [type |-> "GoAway", id |-> 0, flags |-> {}, code |-> code]

\* FrameType and ErrorCode by their numbers on the wire.
Types == <<"Data", "WindowUpdate", "Ping", "GoAway">>
Codes == <<"Normal", "ProtocolError", "InternalError", "FlowControlError", "StreamLimit",
           "InvalidVersion", "Timeout">>

Known(name) == [name |-> name, raw |-> 0]
Unknown(v) == [name |-> "Unknown", raw |-> v]

NumberIn(names, name) == CHOOSE n \in 0..Len(names) - 1 : names[n + 1] = name

AsU32(code) == IF code.name = "Unknown" THEN code.raw ELSE NumberIn(Codes, code.name)

FromU32Short(v) == IF v < Len(Codes) - 1 THEN Known(Codes[v + 1]) ELSE Unknown(v)

FromU32(v) == IF v < Len(Codes) THEN Known(Codes[v + 1]) ELSE Unknown(v)

Bit == [SYN |-> 1, ACK |-> 2, FIN |-> 4, RST |-> 8]

Bits(flags) ==
    LET bit(f) == IF f \in flags THEN Bit[f] ELSE 0
    IN  bit("SYN") + bit("ACK") + bit("FIN") + bit("RST")

FromBits(bits) == {f \in DOMAIN Bit : (bits \div Bit[f]) % 2 = 1}

Byte == 256
Word == 65536

\* to_be_bytes of the lower 16 and 32 bits of v.
BE16(v) == <<(v \div Byte) % Byte, v % Byte>>
BE32(v) == BE16(v \div Word) \o BE16(v)

\* from_be_bytes of the bytes from position i.
U16(bytes, i) == Byte * bytes[i] + bytes[i + 1]
U32(bytes, i) == Word * U16(bytes, i) + U16(bytes, i + 2)

----------------------------------------------------------------------------
\* FrameCodec.

\* The limit of a codec made for max_frame_size.
Limit(max) == Lesser(max, Ceiling)

IsData(frame) == frame.type = "Data"

\* The header's length field.
Length(frame) ==
    CASE frame.type = "Data" -> Len(frame.payload)
      [] frame.type = "GoAway" -> AsU32(frame.code)
      [] OTHER -> frame.meta

Encode(frame) ==
    <<version, NumberIn(Types, frame.type)>> \o BE16(Bits(frame.flags))
        \o BE32(frame.id) \o BE32(Length(frame))
        \o (IF IsData(frame) THEN frame.payload ELSE <<>>)

EncodeFails(frame) == IsData(frame) /\ Len(frame.payload) > Limit(sendMax)

\* Header::decode.
Header(bytes) ==
    [version |-> bytes[1], type |-> bytes[2], flags |-> U16(bytes, 3),
     id |-> U32(bytes, 5), length |-> U32(bytes, 9)]

\* Only a Data frame has a payload; in the others the length is metadata.
PayloadLen(h) == IF h.type = 0 THEN h.length ELSE 0

\* The checks of the header, then the limit.
DecodeFails(bytes) ==
    LET h == Header(bytes) IN
    \/ h.version # ProtocolVersion \/ h.type >= Len(Types) \/ h.flags > 15
    \/ PayloadLen(h) > Limit(recvMax)

\* Where the first frame ends.
Total(bytes) == HeaderLen + PayloadLen(Header(bytes))

ReadyLater(bytes) ==
    /\ Len(bytes) >= HeaderLen
    /\ DecodeFails(bytes) \/ Len(bytes) > Total(bytes)

\* decode returns something else than Ok(None): an error or a whole frame.
Ready(bytes) ==
    /\ Len(bytes) >= HeaderLen
    /\ DecodeFails(bytes) \/ Len(bytes) >= Total(bytes)

\* The frame decode returns.
Decoded(bytes) ==
    LET h == Header(bytes)
        flags == FromBits(h.flags)
    IN  CASE h.type = 0 -> Data(h.id, flags, SubSeq(bytes, HeaderLen + 1, Total(bytes)))
          [] h.type = 1 -> WindowUpdate(h.id, flags, h.length)
          [] h.type = 2 -> Ping(flags, h.length)
          [] h.type = 3 -> GoAway(FromU32(h.length))

Rest(bytes) == SubSeq(bytes, Total(bytes) + 1, Len(bytes))

----------------------------------------------------------------------------
\* What a field of four bytes can hold.
IsU32(v) == v \in Nat /\ v \div Word < Word

\* From<u32> makes an Unknown of the other numbers only.
IsErrorCode(c) ==
    \/ c \in {Known(Codes[i]) : i \in 1..Len(Codes)}
    \/ c = Unknown(c.raw) /\ IsU32(c.raw) /\ c.raw >= Len(Codes)

\* A frame without payload.
IsControl(f) ==
    /\ IsU32(f.id) /\ f.flags \subseteq DOMAIN Bit
    /\ \/ f.type = "Data" /\ f = Data(f.id, f.flags, <<>>)
       \/ f.type = "WindowUpdate" /\ f = WindowUpdate(f.id, f.flags, f.meta) /\ IsU32(f.meta)
       \/ f.type = "Ping" /\ f = Ping(f.flags, f.meta) /\ IsU32(f.meta)
       \/ f.type = "GoAway" /\ f = GoAway(f.code) /\ IsErrorCode(f.code)

ASSUME WireAssumption ==
    /\ \A s \in StreamIds : IsU32(s)
    /\ \A f \in Controls : IsControl(f)
    /\ \A max \in Limits : IsU32(max) /\ max > 0
    /\ MaxBytes \in Nat /\ IsU32(Ceiling)

----------------------------------------------------------------------------
Init ==
    /\ sendMax \in Limits /\ recvMax \in Limits /\ version \in {ProtocolVersion, ProtocolVersion + 1}
    /\ written = [s \in StreamIds |-> 0] /\ recv = [s \in StreamIds |-> <<>>]
    /\ read = [s \in StreamIds |-> <<>>]
    /\ sent = <<>> /\ decoded = <<>> /\ wire = <<>> /\ src = <<>>
    /\ failed = {}

\* The frame goes through the queue to the writer task, which encodes it.  What
\* is sent to a reader task that has ended does not matter.
Send(frame) ==
    /\ failed = {}
    /\ IF EncodeFails(frame)
       THEN failed' = failed \cup {"writer"} /\ UNCHANGED <<sent, wire>>
       ELSE sent' = Append(sent, frame) /\ wire' = wire \o Encode(frame) /\ UNCHANGED failed

AsksForAll(n) == n

\* What poll_write asks for, of a buffer of n bytes.
Want(n) == Lesser(n, sendMax)

\* poll_write, which takes what it acquires of what it asks for.
Write(s) ==
    \E n \in 1..MaxBytes - written[s] : \E k \in 1..Want(n) :
        /\ Send(Data(s, {}, [i \in 1..k |-> written[s] + i]))
        /\ written' = [written EXCEPT ![s] = @ + k]
        /\ UNCHANGED <<config, src, decoded, recv, read>>

\* Any other frame: the handshake, FIN, RST, window updates, pings, GoAway.
Control(frame) ==
    /\ Len(SelectSeq(sent, LAMBDA f : f \in Controls)) < MaxControls
    /\ Send(frame)
    /\ UNCHANGED <<config, written, src, decoded, recv, read>>

\* FramedRead reads more only when its buffer holds no whole frame.
Arrive ==
    /\ "reader" \notin failed /\ ~Ready(src)
    /\ \E k \in 1..Len(wire) :
          /\ src' = src \o SubSeq(wire, 1, k)
          /\ wire' = SubSeq(wire, k + 1, Len(wire))
    /\ UNCHANGED <<config, written, sent, decoded, recv, read, failed>>

Overwrite(q, chunk) == <<chunk>>

\* RecvBuffer::push.
Push(q, chunk) == IF chunk = <<>> THEN q ELSE Append(q, chunk)

\* The reader task decodes a frame and dispatches it; an error ends the session.
Decode ==
    /\ "reader" \notin failed /\ Ready(src)
    /\ IF DecodeFails(src)
       THEN failed' = failed \cup {"reader"} /\ UNCHANGED <<src, decoded, recv>>
       ELSE LET frame == Decoded(src) IN
            /\ decoded' = Append(decoded, frame) /\ src' = Rest(src)
            /\ recv' = IF IsData(frame) THEN [recv EXCEPT ![frame.id] = Push(@, frame.payload)]
                       ELSE recv
            /\ UNCHANGED failed
    /\ UNCHANGED <<config, written, sent, wire, read>>

\* RecvBuffer::read_into a buffer with room for n bytes: the bytes it copies
\* and the chunks it leaves.
ReadInto[q \in Seq(Seq(Nat)), n \in Nat] ==
    IF n = 0 \/ q = <<>> THEN [bytes |-> <<>>, queue |-> q]
    ELSE LET front == Head(q)
             k == Lesser(n, Len(front))
             left == SubSeq(front, k + 1, Len(front))
             more == ReadInto[IF left = <<>> THEN Tail(q) ELSE <<left>> \o Tail(q), n - k]
         IN  [bytes |-> SubSeq(front, 1, k) \o more.bytes, queue |-> more.queue]

\* poll_read, with a buffer of n bytes.
Read(s) ==
    \E n \in 1..MaxBytes :
        /\ recv[s] # <<>>
        /\ LET r == ReadInto[recv[s], n] IN
           /\ read' = [read EXCEPT ![s] = @ \o r.bytes]
           /\ recv' = [recv EXCEPT ![s] = r.queue]
        /\ UNCHANGED <<config, written, sent, wire, src, decoded, failed>>

Next ==
    \/ \E s \in StreamIds : Write(s) \/ Read(s)
    \/ \E frame \in Controls : Control(frame)
    \/ Arrive \/ Decode

Spec == Init /\ [][Next]_vars

\* The transport delivers, the reader task runs, and the application reads.
FairSpec ==
    /\ Spec
    /\ WF_vars(Arrive \/ Decode) /\ \A s \in StreamIds : WF_vars(Read(s))

----------------------------------------------------------------------------
(* However the bytes are split on their way, the receiver decodes the      *)
(* frames that were sent, in order and unchanged: flags, metadata and error *)
(* codes included.                                                         *)
FramesIntact ==
    Len(decoded) <= Len(sent) /\ decoded = SubSeq(sent, 1, Len(decoded))

(* The codec ends the session only if the sender speaks another version or *)
(* its max_frame_size is above the receiver's, or above the 16 MiB that no *)
(* codec lets through, its own included.                                   *)
FailsForACause ==
    failed # {} => version # ProtocolVersion \/ sendMax > Limit(recvMax) \/ sendMax > Ceiling

(* Every byte written gets read, unless the codec ends the session: ever   *)
(* again the reader has caught up with the writer.                         *)
BytesArrive ==
    \A s \in StreamIds : []<>(Len(read[s]) = written[s] \/ failed # {})
=============================================================================
