----------------------------- MODULE WireProofs -----------------------------
(***************************************************************************)
(* What the codec brings across, for any frames, limits and splits.        *)
(***************************************************************************)
EXTENDS Wire, SequenceTheorems, TLAPS

USE SMTT(60)

(* The arithmetic of bytes and words.                                      *)
LEMMA Digits ==
    /\ Byte \in Nat /\ Word \in Nat /\ 15 < Word
    /\ \A v \in Nat : /\ (v \div Byte) % Byte \in Nat /\ v % Byte \in Nat
                      /\ Byte * ((v \div Byte) % Byte) + (v % Byte) = v % Word
    /\ \A v \in Nat : v \div Word \in Nat /\ v % Word \in Nat /\ Word * (v \div Word) + (v % Word) = v
    /\ \A v \in Nat : v < Word => v % Word = v
<1>1. Byte = 256 /\ Word = 65536
  BY DEF Byte, Word
<1>2. ASSUME NEW v \in Nat
      PROVE  /\ (v \div 256) % 256 \in Nat /\ v % 256 \in Nat
             /\ 256 * ((v \div 256) % 256) + (v % 256) = v % 65536
  OBVIOUS
<1>3. ASSUME NEW v \in Nat
      PROVE  v \div 65536 \in Nat /\ v % 65536 \in Nat /\ 65536 * (v \div 65536) + (v % 65536) = v
  OBVIOUS
<1>4. ASSUME NEW v \in Nat, v < 65536 PROVE v % 65536 = v
  BY <1>4
<1>5. \A v \in Nat : /\ (v \div Byte) % Byte \in Nat /\ v % Byte \in Nat
                    /\ Byte * ((v \div Byte) % Byte) + (v % Byte) = v % Word
  BY <1>2 DEF Byte, Word
<1>6. \A v \in Nat : v \div Word \in Nat /\ v % Word \in Nat /\ Word * (v \div Word) + (v % Word) = v
  BY <1>3 DEF Word
<1>7. \A v \in Nat : v < Word => v % Word = v
  BY <1>4 DEF Word
<1>8. Byte \in Nat /\ Word \in Nat /\ 15 < Word
  BY <1>1
<1> QED
  BY ZenonT(60), <1>5, <1>6, <1>7, <1>8

(* u16::to_be_bytes, and back: the lower 16 bits.                          *)
LEMMA BE16Facts ==
    ASSUME NEW v \in Nat
    PROVE  /\ BE16(v) \in Seq(Nat) /\ Len(BE16(v)) = 2
           /\ U16(BE16(v), 1) = v % Word
<1>1. ASSUME NEW x \in Nat, NEW y \in Nat
      PROVE  <<x, y>> \in Seq(Nat) /\ Len(<<x, y>>) = 2 /\ U16(<<x, y>>, 1) = Byte * x + y
  BY Digits DEF U16
<1> QED
  BY ZenonT(60), <1>1, Digits DEF BE16

\* c is a followed by b.
Joined(a, b, c) ==
    /\ c \in Seq(Nat) /\ Len(c) = Len(a) + Len(b)
    /\ \A i \in 1..Len(a) : c[i] = a[i]
    /\ \A i \in 1..Len(b) : c[Len(a) + i] = b[i]

(* The bytes of a concatenation.                                           *)
LEMMA ConcatFacts ==
    ASSUME NEW a \in Seq(Nat), NEW b \in Seq(Nat)
    PROVE  Joined(a, b, a \o b)
BY DEF Joined

(* The numbers in a concatenation are those of its parts: the two halves   *)
(* of a u32 or of the first four bytes of a header,                        *)
LEMMA Join22 ==
    ASSUME NEW a \in Seq(Nat), NEW b \in Seq(Nat), NEW c, Joined(a, b, c), Len(a) = 2, Len(b) = 2
    PROVE  /\ c \in Seq(Nat) /\ Len(c) = 4 /\ c[1] = a[1] /\ c[2] = a[2]
           /\ U16(c, 1) = U16(a, 1) /\ U16(c, 3) = U16(b, 1)
<1>1. /\ c \in Seq(Nat) /\ Len(c) = 4
      /\ c[1] = a[1] /\ c[2] = a[2] /\ c[3] = b[1] /\ c[4] = b[2]
  BY DEF Joined
<1> QED
  BY <1>1 DEF U16

(* the stream id behind them,                                              *)
LEMMA Join44 ==
    ASSUME NEW a \in Seq(Nat), NEW b \in Seq(Nat), NEW c, Joined(a, b, c), Len(a) = 4, Len(b) = 4
    PROVE  /\ c \in Seq(Nat) /\ Len(c) = 8 /\ c[1] = a[1] /\ c[2] = a[2]
           /\ U16(c, 3) = U16(a, 3) /\ U32(c, 5) = U32(b, 1)
<1>1. /\ c \in Seq(Nat) /\ Len(c) = 8
      /\ c[1] = a[1] /\ c[2] = a[2] /\ c[3] = a[3] /\ c[4] = a[4]
      /\ c[5] = b[1] /\ c[6] = b[2] /\ c[7] = b[3] /\ c[8] = b[4]
  BY DEF Joined
<1>2. U16(c, 3) = U16(a, 3) /\ U16(c, 5) = U16(b, 1) /\ U16(c, 7) = U16(b, 3)
  BY <1>1 DEF U16
<1> QED
  BY <1>1, <1>2 DEF U32

(* and the length at the end.                                              *)
LEMMA Join84 ==
    ASSUME NEW a \in Seq(Nat), NEW b \in Seq(Nat), NEW c, Joined(a, b, c), Len(a) = 8, Len(b) = 4
    PROVE  /\ c \in Seq(Nat) /\ Len(c) = 12 /\ c[1] = a[1] /\ c[2] = a[2]
           /\ U16(c, 3) = U16(a, 3) /\ U32(c, 5) = U32(a, 5) /\ U32(c, 9) = U32(b, 1)
<1>1. /\ c \in Seq(Nat) /\ Len(c) = 12
      /\ c[1] = a[1] /\ c[2] = a[2] /\ c[3] = a[3] /\ c[4] = a[4]
      /\ c[5] = a[5] /\ c[6] = a[6] /\ c[7] = a[7] /\ c[8] = a[8]
      /\ c[9] = b[1] /\ c[10] = b[2] /\ c[11] = b[3] /\ c[12] = b[4]
  BY DEF Joined
<1>2. /\ U16(c, 3) = U16(a, 3) /\ U16(c, 5) = U16(a, 5) /\ U16(c, 7) = U16(a, 7)
      /\ U16(c, 9) = U16(b, 1) /\ U16(c, 11) = U16(b, 3)
  BY <1>1 DEF U16
<1> QED
  BY <1>1, <1>2 DEF U32

(* u32::to_be_bytes, and back.                                             *)
LEMMA BE32Facts ==
    ASSUME NEW v, IsU32(v)
    PROVE  /\ BE32(v) \in Seq(Nat) /\ Len(BE32(v)) = 4
           /\ U32(BE32(v), 1) = v
<1> DEFINE h == v \div Word
           a == BE16(h)
           b == BE16(v)
           c == a \o b
<1>1. v \in Nat /\ h \in Nat /\ h % Word = h /\ v % Word \in Nat
  BY ZenonT(60), Digits DEF IsU32
<1>2. Word * h + (v % Word) = v
  BY ZenonT(60), <1>1, Digits
<1>3. /\ a \in Seq(Nat) /\ Len(a) = 2 /\ U16(a, 1) = h
      /\ b \in Seq(Nat) /\ Len(b) = 2 /\ U16(b, 1) = v % Word
  BY ZenonT(60), <1>1, BE16Facts
<1>4. BE32(v) = c
  BY DEF BE32
<1> HIDE DEF a, b
<1>5. Joined(a, b, c)
  BY ZenonT(60), <1>3, ConcatFacts
<1> HIDE DEF c
<1>6. c \in Seq(Nat) /\ Len(c) = 4 /\ U16(c, 1) = h /\ U16(c, 3) = v % Word
  BY <1>3, <1>5, Join22
<1>7. ASSUME NEW x, NEW y PROVE U16(c, 1) = x /\ U16(c, 3) = y => U32(c, 1) = Word * x + y
  BY DEF U32
<1> QED
  BY ZenonT(60), <1>2, <1>4, <1>6, <1>7

(* The bits of a set of flags, and back.                                   *)
LEMMA FlagFacts ==
    ASSUME NEW flags \in SUBSET DOMAIN Bit
    PROVE  /\ Bits(flags) \in Nat /\ Bits(flags) <= 15
           /\ FromBits(Bits(flags)) = flags
<1> DEFINE bit(f) == IF f \in flags THEN Bit[f] ELSE 0
<1>1. DOMAIN Bit = {"SYN", "ACK", "FIN", "RST"}
  BY DEF Bit
<1>2. Bit["SYN"] = 1 /\ Bit["ACK"] = 2 /\ Bit["FIN"] = 4 /\ Bit["RST"] = 8
  BY DEF Bit
<1>3. Bits(flags) = bit("SYN") + bit("ACK") + bit("FIN") + bit("RST")
  BY DEF Bits
<1>4. Bits(flags) \in 0..15
  BY <1>2, <1>3
<1>5. ASSUME NEW f \in DOMAIN Bit PROVE (Bits(flags) \div Bit[f]) % 2 = 1 <=> f \in flags
  BY <1>1, <1>2, <1>3
<1> QED
  BY <1>4, <1>5 DEF FromBits

(* The numbers of the types of frames.                                     *)
LEMMA NumberFacts ==
    /\ NumberIn(Types, "Data") = 0 /\ NumberIn(Types, "WindowUpdate") = 1
    /\ NumberIn(Types, "Ping") = 2 /\ NumberIn(Types, "GoAway") = 3
    /\ Len(Types) = 4
BY DEF NumberIn, Types

(* ErrorCode::as_u32, and back.                                            *)
LEMMA CodeFacts ==
    ASSUME NEW c, IsErrorCode(c)
    PROVE  IsU32(AsU32(c)) /\ FromU32(AsU32(c)) = c
<1>1. Len(Codes) = 7
  BY DEF Codes
<1>2. CASE c = Unknown(c.raw) /\ IsU32(c.raw) /\ c.raw >= Len(Codes)
  BY <1>1, <1>2 DEF AsU32, FromU32, Unknown, IsU32
<1>3. ASSUME NEW i \in 1..Len(Codes), c = Known(Codes[i]) PROVE IsU32(AsU32(c)) /\ FromU32(AsU32(c)) = c
  <2>1. Codes[i] # "Unknown"
    BY <1>1, <1>3 DEF Codes
  <2>2. \A j \in 1..Len(Codes) : Codes[j] = Codes[i] => j = i
    BY <1>1 DEF Codes
  <2>3. NumberIn(Codes, Codes[i]) = i - 1
    BY <1>1, <2>2 DEF NumberIn
  <2>4. AsU32(c) = i - 1
    BY <1>3, <2>1, <2>3 DEF AsU32, Known
  <2> QED
    <3>1. i - 1 \in Nat /\ i - 1 < 7
      BY <1>1
    <3>2. IsU32(i - 1)
      BY <3>1 DEF IsU32, Word
    <3>3. FromU32(i - 1) = Known(Codes[i])
      BY <1>1, <3>1 DEF FromU32
    <3> QED
      BY ZenonT(60), <1>3, <2>4, <3>2, <3>3
<1> QED
  BY <1>2, <1>3 DEF IsErrorCode

\* A frame that poll_write or a control frame's sender hands to the writer.
Sendable(f) ==
    \/ IsControl(f)
    \/ /\ IsU32(f.id) /\ f.flags \subseteq DOMAIN Bit
       /\ f.type = "Data" /\ f = Data(f.id, f.flags, f.payload)
       /\ f.payload \in Seq(Nat) /\ IsU32(Len(f.payload)) /\ Len(f.payload) <= sendMax

Head12(f) ==
    <<version, NumberIn(Types, f.type)>> \o BE16(Bits(f.flags)) \o BE32(f.id) \o BE32(Length(f))

Body(f) == IF IsData(f) THEN f.payload ELSE <<>>

(* What the fields of a frame to send may be.                              *)
LEMMA FieldFacts ==
    ASSUME NEW f, Sendable(f)
    PROVE  /\ f.type \in {"Data", "WindowUpdate", "Ping", "GoAway"}
           /\ NumberIn(Types, f.type) \in 0..3
           /\ IsU32(f.id) /\ f.flags \in SUBSET DOMAIN Bit /\ IsU32(Length(f))
           /\ Body(f) \in Seq(Nat)
<1>1. f.type \in {"Data", "WindowUpdate", "Ping", "GoAway"}
  BY DEF Sendable, IsControl
<1>2. NumberIn(Types, f.type) \in 0..3
  BY <1>1, NumberFacts
<1>3. IsU32(f.id) /\ f.flags \in SUBSET DOMAIN Bit
  BY DEF Sendable, IsControl
<1>4. CASE f.type = "Data"
  <2>1. f.payload \in Seq(Nat) /\ IsU32(Len(f.payload))
    <3>1. CASE f = Data(f.id, f.flags, <<>>)
      <4>1. f.payload = <<>>
        BY <3>1 DEF Data
      <4>2. 0 \in Nat /\ 0 \div Word < Word
        BY DEF Word
      <4> QED
        BY <4>1, <4>2 DEF IsU32
    <3>2. CASE ~IsControl(f)
      BY <3>2 DEF Sendable
    <3> QED
      BY <1>4, <3>1, <3>2 DEF IsControl
  <2> QED
    BY <1>1, <1>2, <1>3, <1>4, <2>1 DEF Length, Body, IsData
<1>5. CASE f.type = "GoAway"
  <2>1. IsU32(AsU32(f.code))
    BY <1>5, CodeFacts DEF Sendable, IsControl
  <2> QED
    BY <1>1, <1>2, <1>3, <1>5, <2>1 DEF Length, Body, IsData
<1>6. CASE f.type \in {"WindowUpdate", "Ping"}
  <2>1. IsU32(f.meta)
    BY <1>6 DEF Sendable, IsControl
  <2> QED
    BY <1>1, <1>2, <1>3, <1>6, <2>1 DEF Length, Body, IsData
<1> QED
  BY <1>1, <1>4, <1>5, <1>6

(* The header as the bytes have it.                                        *)
LEMMA HeadFacts ==
    ASSUME NEW f, Sendable(f), version \in Nat
    PROVE  /\ Head12(f) \in Seq(Nat) /\ Len(Head12(f)) = 12
           /\ Head12(f)[1] = version /\ Head12(f)[2] = NumberIn(Types, f.type)
           /\ U16(Head12(f), 3) = Bits(f.flags)
           /\ U32(Head12(f), 5) = f.id /\ U32(Head12(f), 9) = Length(f)
<1> DEFINE a == <<version, NumberIn(Types, f.type)>>
           b == BE16(Bits(f.flags))
           c == BE32(f.id)
           d == BE32(Length(f))
<1>0. Head12(f) = a \o b \o c \o d
  BY DEF Head12
<1>1. a \in Seq(Nat) /\ Len(a) = 2 /\ a[1] = version /\ a[2] = NumberIn(Types, f.type)
  BY FieldFacts
<1>2. b \in Seq(Nat) /\ Len(b) = 2 /\ U16(b, 1) = Bits(f.flags)
  <2>1. Bits(f.flags) \in Nat /\ Bits(f.flags) <= 15
    BY ZenonT(60), FieldFacts, FlagFacts
  <2>2. ASSUME NEW n \in Nat, n <= 15 PROVE n % Word = n
    BY <2>2, Digits
  <2> QED
    BY ZenonT(60), <2>1, <2>2, BE16Facts
<1>3. c \in Seq(Nat) /\ Len(c) = 4 /\ U32(c, 1) = f.id
  BY ZenonT(60), FieldFacts, BE32Facts
<1>4. d \in Seq(Nat) /\ Len(d) = 4 /\ U32(d, 1) = Length(f)
  BY ZenonT(60), FieldFacts, BE32Facts
<1> HIDE DEF a, b, c, d
<1> DEFINE e == a \o b
           g == e \o c
<1>5. Joined(a, b, e)
  BY ZenonT(60), <1>1, <1>2, ConcatFacts
<1> HIDE DEF e
<1>6. e \in Seq(Nat) /\ Len(e) = 4 /\ e[1] = a[1] /\ e[2] = a[2] /\ U16(e, 3) = U16(b, 1)
  BY <1>1, <1>2, <1>5, Join22
<1>7. Joined(e, c, g)
  BY ZenonT(60), <1>3, <1>6, ConcatFacts
<1> HIDE DEF g
<1>8. /\ g \in Seq(Nat) /\ Len(g) = 8 /\ g[1] = e[1] /\ g[2] = e[2]
      /\ U16(g, 3) = U16(e, 3) /\ U32(g, 5) = U32(c, 1)
  BY ZenonT(60), <1>3, <1>6, <1>7, Join44
<1>9. Joined(g, d, Head12(f))
  BY ZenonT(60), <1>0, <1>4, <1>8, ConcatFacts DEF e, g
<1>10. /\ Head12(f) \in Seq(Nat) /\ Len(Head12(f)) = 12
       /\ Head12(f)[1] = g[1] /\ Head12(f)[2] = g[2] /\ U16(Head12(f), 3) = U16(g, 3)
       /\ U32(Head12(f), 5) = U32(g, 5) /\ U32(Head12(f), 9) = U32(d, 1)
  BY ZenonT(60), <1>4, <1>8, <1>9, Join84
<1> QED
  BY ZenonT(60), <1>1, <1>2, <1>3, <1>4, <1>6, <1>8, <1>10

(* A frame is its header and its payload.                                  *)
LEMMA EncodeFacts ==
    ASSUME NEW f, Sendable(f), version \in Nat
    PROVE  /\ Joined(Head12(f), Body(f), Encode(f))
           /\ Len(Head12(f)) = 12 /\ Len(Body(f)) \in Nat
           /\ Encode(f) \in Seq(Nat) /\ Len(Encode(f)) = 12 + Len(Body(f))
<1>1. Encode(f) = Head12(f) \o Body(f)
  BY ZenonT(60) DEF Encode, Head12, Body
<1>2. Head12(f) \in Seq(Nat) /\ Len(Head12(f)) = 12 /\ Body(f) \in Seq(Nat)
  BY ZenonT(60), HeadFacts, FieldFacts
<1>3. Joined(Head12(f), Body(f), Encode(f))
  BY ZenonT(60), <1>1, <1>2, ConcatFacts
<1>4. ASSUME NEW a, NEW b \in Seq(Nat), NEW c, Joined(a, b, c), Len(a) = 12
      PROVE  c \in Seq(Nat) /\ Len(c) = 12 + Len(b) /\ Len(b) \in Nat
  BY <1>4 DEF Joined
<1> QED
  BY ZenonT(60), <1>2, <1>3, <1>4

\* The bytes begin with the header of f.
Begins(bytes, f) == \A i \in 1..12 : bytes[i] = Head12(f)[i]

(* Header::decode gets the fields from the bytes.                          *)
LEMMA HeaderFacts ==
    ASSUME NEW f, Sendable(f), version \in Nat, NEW bytes, Begins(bytes, f)
    PROVE  Header(bytes) = [version |-> version, type |-> NumberIn(Types, f.type),
                            flags |-> Bits(f.flags), id |-> f.id, length |-> Length(f)]
<1> DEFINE h == Head12(f)
<1>1. h[1] = version /\ h[2] = NumberIn(Types, f.type) /\ U16(h, 3) = Bits(f.flags)
      /\ U32(h, 5) = f.id /\ U32(h, 9) = Length(f)
  BY ZenonT(60), HeadFacts
<1>2. \A i \in 1..12 : bytes[i] = h[i]
  BY ZenonT(60) DEF Begins
<1> HIDE DEF h
<1>3. ASSUME NEW i \in {3, 5, 7, 9, 11} PROVE U16(bytes, i) = U16(h, i)
  <2>1. bytes[i] = h[i] /\ bytes[i + 1] = h[i + 1]
    BY <1>2
  <2> QED
    BY ZenonT(60), <2>1 DEF U16
<1>4. U16(bytes, 3) = U16(h, 3) /\ U16(bytes, 5) = U16(h, 5) /\ U16(bytes, 7) = U16(h, 7)
      /\ U16(bytes, 9) = U16(h, 9) /\ U16(bytes, 11) = U16(h, 11)
  BY <1>3
<1>5. U32(bytes, 5) = U32(h, 5)
  BY <1>4 DEF U32
<1>6. U32(bytes, 9) = U32(h, 9)
  BY <1>4 DEF U32
<1>7. bytes[1] = h[1] /\ bytes[2] = h[2]
  BY <1>2
<1> QED
  BY ZenonT(60), <1>1, <1>4, <1>5, <1>6, <1>7 DEF Header

(* What decode makes of the header of f: the checks, the limit, the end.   *)
LEMMA LimitFacts ==
    ASSUME NEW f, Sendable(f), version \in Nat, NEW bytes, Begins(bytes, f)
    PROVE  /\ Total(bytes) = 12 + Len(Body(f))
           /\ DecodeFails(bytes) => version # ProtocolVersion \/ Len(Body(f)) > Limit(recvMax)
<1> DEFINE h == Header(bytes)
<1>0. h = [version |-> version, type |-> NumberIn(Types, f.type), flags |-> Bits(f.flags),
           id |-> f.id, length |-> Length(f)]
  BY ZenonT(60), HeaderFacts
<1>1. h.version = version /\ h.type = NumberIn(Types, f.type) /\ h.flags = Bits(f.flags)
      /\ h.length = Length(f)
  BY <1>0
<1>2. f.type \in {"Data", "WindowUpdate", "Ping", "GoAway"} /\ f.flags \in SUBSET DOMAIN Bit
  BY ZenonT(60), FieldFacts
<1>3. PayloadLen(h) = Len(Body(f))
  <2> HIDE DEF h
  <2>1. CASE f.type = "Data"
    BY <1>1, <2>1, NumberFacts DEF PayloadLen, Length, Body, IsData
  <2>2. CASE f.type # "Data"
    BY <1>1, <1>2, <2>2, NumberFacts DEF PayloadLen, Body, IsData
  <2> QED
    BY <2>1, <2>2
<1>4. ~(h.type >= Len(Types)) /\ ~(h.flags > 15)
  <2>1. h.type \in 0..3 /\ Len(Types) = 4
    BY ZenonT(60), <1>1, FieldFacts, NumberFacts
  <2>2. h.flags \in Nat /\ h.flags <= 15
    BY ZenonT(60), <1>1, <1>2, FlagFacts
  <2> QED
    BY <2>1, <2>2
<1> QED
  BY ZenonT(60), <1>1, <1>3, <1>4 DEF DecodeFails, Total, HeaderLen

(* The frame decode returns is the frame that was encoded.                 *)
LEMMA DecodedFacts ==
    ASSUME NEW f, Sendable(f), version \in Nat, NEW bytes \in Seq(Nat), Begins(bytes, f),
           12 + Len(Body(f)) <= Len(bytes),
           \A i \in 1..Len(Body(f)) : bytes[12 + i] = Body(f)[i]
    PROVE  Decoded(bytes) = f
<1> DEFINE h == Header(bytes)
           flags == FromBits(h.flags)
<1>0. h = [version |-> version, type |-> NumberIn(Types, f.type), flags |-> Bits(f.flags),
           id |-> f.id, length |-> Length(f)]
  BY ZenonT(60), HeaderFacts
<1>1. h.type = NumberIn(Types, f.type) /\ h.flags = Bits(f.flags) /\ h.id = f.id /\ h.length = Length(f)
  BY <1>0
<1>2. f.type \in {"Data", "WindowUpdate", "Ping", "GoAway"}
  BY ZenonT(60), FieldFacts
<1>3. flags = f.flags
  BY ZenonT(60), <1>1, FieldFacts, FlagFacts
<1>4. Decoded(bytes) = CASE h.type = 0 -> Data(h.id, flags, SubSeq(bytes, HeaderLen + 1, Total(bytes)))
                         [] h.type = 1 -> WindowUpdate(h.id, flags, h.length)
                         [] h.type = 2 -> Ping(flags, h.length)
                         [] h.type = 3 -> GoAway(FromU32(h.length))
  BY DEF Decoded
<1> HIDE DEF h, flags
<1>5. CASE f.type = "Data"
  <2>1. f = Data(f.id, f.flags, f.payload) /\ f.payload \in Seq(Nat) /\ Body(f) = f.payload
    <3>1. IsControl(f) => f = Data(f.id, f.flags, <<>>)
      BY <1>5 DEF IsControl
    <3>2. IsControl(f) => f.payload = <<>>
      BY <3>1 DEF Data
    <3>3. f = Data(f.id, f.flags, f.payload)
      BY <3>1, <3>2 DEF Sendable
    <3> QED
      BY <1>5, <3>3, FieldFacts DEF Body, IsData
  <2>2. SubSeq(bytes, HeaderLen + 1, Total(bytes)) = f.payload
    <3>1. Total(bytes) = 12 + Len(f.payload) /\ Len(f.payload) \in Nat
      BY <2>1, LimitFacts
    <3>2. \A i \in 1..Len(f.payload) : bytes[12 + i] = f.payload[i]
      BY <2>1
    <3>3. 12 + Len(f.payload) <= Len(bytes)
      BY <2>1
    <3>4. SubSeq(bytes, 13, 12 + Len(f.payload)) = f.payload
      BY <2>1, <3>1, <3>2, <3>3
    <3>5. HeaderLen + 1 = 13
      BY DEF HeaderLen
    <3> QED
      BY ZenonT(60), <3>1, <3>4, <3>5
  <2>3. Decoded(bytes) = Data(h.id, flags, SubSeq(bytes, HeaderLen + 1, Total(bytes)))
    BY <1>1, <1>4, <1>5, NumberFacts
  <2> QED
    BY ZenonT(60), <1>1, <1>3, <2>1, <2>2, <2>3
<1>6. CASE f.type = "WindowUpdate"
  <2>1. f = WindowUpdate(f.id, f.flags, f.meta) /\ Length(f) = f.meta
    BY <1>6 DEF Sendable, IsControl, Length
  <2>2. Decoded(bytes) = WindowUpdate(h.id, flags, h.length)
    BY <1>1, <1>4, <1>6, NumberFacts
  <2> QED
    BY ZenonT(60), <1>1, <1>3, <2>1, <2>2
<1>7. CASE f.type = "Ping"
  <2>1. f = Ping(f.flags, f.meta) /\ Length(f) = f.meta
    BY <1>7 DEF Sendable, IsControl, Length
  <2>2. Decoded(bytes) = Ping(flags, h.length)
    BY <1>1, <1>4, <1>7, NumberFacts
  <2> QED
    BY ZenonT(60), <1>1, <1>3, <2>1, <2>2
<1>8. CASE f.type = "GoAway"
  <2>1. f = GoAway(f.code) /\ IsErrorCode(f.code) /\ Length(f) = AsU32(f.code)
    BY <1>8 DEF Sendable, IsControl, Length
  <2>2. Decoded(bytes) = GoAway(FromU32(h.length))
    BY <1>1, <1>4, <1>8, NumberFacts
  <2> QED
    BY ZenonT(60), <1>1, <2>1, <2>2, CodeFacts
<1> QED
  BY ZenonT(60), <1>2, <1>5, <1>6, <1>7, <1>8

----------------------------------------------------------------------------
\* The m bytes b are those of the n pieces e, which end at the places cut.
Size(piece) == Len(piece)

IsPiece(cut, e, b, i) ==
    /\ Size(e[i]) \in Nat /\ cut[i] = cut[i - 1] + Size(e[i])
    /\ \A k \in cut[i - 1] + 1..cut[i] : b[k] = e[i][k - cut[i - 1]]

IsCut(cut, n, e, b, m) ==
    /\ cut \in [0..n -> Nat] /\ cut[0] = 0 /\ cut[n] = m
    /\ \A i, j \in 0..n : i <= j => cut[i] <= cut[j]
    /\ \A i \in 1..n : IsPiece(cut, e, b, i)

(* Where the pieces are.                                                   *)
LEMMA CutFacts ==
    ASSUME NEW n \in Nat, NEW m, NEW cut, NEW e, NEW b, IsCut(cut, n, e, b, m)
    PROVE  /\ \A i \in 0..n : cut[i] \in Nat /\ cut[i] <= m
           /\ \A i \in 1..n : cut[i - 1] \in Nat /\ cut[i] \in Nat /\ cut[i] <= m
BY DEF IsCut

(* The same pieces.                                                        *)
LEMMA CutSame ==
    ASSUME NEW n \in Nat, NEW m \in Nat, NEW cut, NEW e, NEW b, IsCut(cut, n, e, b, m),
           NEW e2, NEW b2, \A i \in 1..n : e2[i] = e[i], \A k \in 1..m : b2[k] = b[k]
    PROVE  IsCut(cut, n, e2, b2, m)
<1>1. ASSUME NEW i \in 1..n PROVE IsPiece(cut, e2, b2, i)
  <2>1. cut[i - 1] \in Nat /\ cut[i] \in Nat /\ cut[i] <= m
    BY ZenonT(60), CutFacts
  <2>2. IsPiece(cut, e, b, i) /\ e2[i] = e[i]
    BY ZenonT(60) DEF IsCut
  <2>3. cut[i - 1] + 1..cut[i] \subseteq 1..m
    BY <2>1
  <2> QED
    BY ZenonT(60), <2>2, <2>3 DEF IsPiece
<1> QED
  BY ZenonT(60), <1>1 DEF IsCut

\* Behind the n pieces of m bytes there is one more, of l bytes.
More(e, b, n, m, e2, b2, l) ==
    /\ l = Size(e2[n + 1]) /\ \A i \in 1..n : e2[i] = e[i]
    /\ \A k \in 1..m : b2[k] = b[k]
    /\ \A j \in 1..l : b2[m + j] = e2[n + 1][j]

\* The first of the n pieces of m bytes has l bytes and is gone.
Fewer(e, b, n, m, e2, b2, l) ==
    /\ l = Size(e[1]) /\ \A i \in 1..n - 1 : e2[i] = e[i + 1]
    /\ \A k \in 1..m - l : b2[k] = b[l + k]

(* A piece more at the end.                                                *)
LEMMA CutMore ==
    ASSUME NEW n \in Nat, NEW m \in Nat, NEW cut, NEW e, NEW b, IsCut(cut, n, e, b, m),
           NEW e2, NEW b2, NEW l \in Nat, More(e, b, n, m, e2, b2, l)
    PROVE  \E c : IsCut(c, n + 1, e2, b2, m + l)
<1> USE DEF More
<1> DEFINE c == [i \in 0..n + 1 |-> IF i <= n THEN cut[i] ELSE m + l]
<1>0. \A i \in 0..n : cut[i] \in Nat /\ cut[i] <= m
  BY ZenonT(60), CutFacts
<1>1. /\ c \in [0..n + 1 -> Nat] /\ c[n + 1] = m + l
      /\ \A i \in 0..n : c[i] = cut[i]
  BY <1>0
<1> HIDE DEF c
<1>2. \A i, j \in 0..n + 1 : i <= j => c[i] <= c[j]
  <2>1. \A i, j \in 0..n : i <= j => cut[i] <= cut[j]
    BY ZenonT(60) DEF IsCut
  <2> TAKE i, j \in 0..n + 1
  <2>2. CASE i \in 0..n /\ j \in 0..n
    BY ZenonT(60), <1>1, <2>1, <2>2
  <2>3. CASE i \in 0..n /\ j = n + 1
    <3>1. c[i] = cut[i] /\ cut[i] \in Nat /\ cut[i] <= m /\ c[j] = m + l
      BY ZenonT(60), <1>0, <1>1, <2>3
    <3> QED
      BY <3>1
  <2>4. CASE i = n + 1
    BY <1>1, <2>4
  <2> QED
    BY <2>2, <2>3, <2>4
<1>3. ASSUME NEW i \in 1..n PROVE IsPiece(c, e2, b2, i)
  <2>0. IsCut(cut, n, e2, b2, m)
    BY ZenonT(60), CutSame
  <2>1. IsPiece(cut, e2, b2, i)
    BY ZenonT(60), <2>0 DEF IsCut
  <2>2. i \in 0..n /\ i - 1 \in 0..n
    OBVIOUS
  <2> QED
    BY ZenonT(60), <1>1, <2>1, <2>2 DEF IsPiece
<1>4. IsPiece(c, e2, b2, n + 1)
  <2>1. c[n] = m /\ c[n + 1] = m + l /\ (n + 1) - 1 = n
    BY <1>1 DEF IsCut
  <2>2. ASSUME NEW k \in m + 1..m + l PROVE b2[k] = e2[n + 1][k - m]
    <3>1. k - m \in 1..l /\ m + (k - m) = k
      OBVIOUS
    <3> QED
      BY ZenonT(60), <3>1
  <2> QED
    BY ZenonT(60), <2>1, <2>2 DEF IsPiece
<1>5. \A i \in 1..n + 1 : IsPiece(c, e2, b2, i)
  <2>1. \A i \in 1..n + 1 : i \in 1..n \/ i = n + 1
    OBVIOUS
  <2> QED
    BY ZenonT(60), <1>3, <1>4, <2>1
<1>6. c[0] = 0
  <2>1. 0 \in 0..n
    OBVIOUS
  <2> QED
    BY ZenonT(60), <1>1, <2>1 DEF IsCut
<1> QED
  BY ZenonT(60), <1>1, <1>2, <1>5, <1>6 DEF IsCut

(* The first piece gone.                                                   *)
LEMMA CutFewer ==
    ASSUME NEW n \in Nat, n > 0, NEW m \in Nat, NEW cut, NEW e, NEW b, IsCut(cut, n, e, b, m),
           NEW e2, NEW b2, NEW l \in Nat, Fewer(e, b, n, m, e2, b2, l)
    PROVE  \E c : IsCut(c, n - 1, e2, b2, m - l)
<1> USE DEF Fewer
<1> DEFINE c == [i \in 0..n - 1 |-> cut[i + 1] - l]
<1>0. 0 \in 0..n /\ 1 \in 0..n /\ 1 \in 1..n /\ n \in 1..n /\ 1 - 1 = 0 /\ 0 + l = l
  OBVIOUS
<1>1. cut[1] = l
  <2>1. IsPiece(cut, e, b, 1) /\ cut[0] = 0
    BY ZenonT(60), <1>0 DEF IsCut
  <2> QED
    BY <2>1 DEF IsPiece
<1>2. ASSUME NEW i \in 1..n PROVE cut[i] \in Nat /\ l <= cut[i] /\ cut[i] <= m
  <2>1. i \in 0..n /\ 1 <= i
    OBVIOUS
  <2> QED
    BY ZenonT(60), <1>0, <1>1, <2>1, CutFacts DEF IsCut
<1>3. ASSUME NEW i \in 0..n - 1 PROVE i + 1 \in 1..n /\ c[i] = cut[i + 1] - l /\ c[i] \in Nat
  <2>1. i + 1 \in 1..n
    OBVIOUS
  <2> QED
    BY <1>2, <2>1
<1>4. c \in [0..n - 1 -> Nat]
  BY <1>3
<1> HIDE DEF c
<1>5. c[0] = 0 /\ c[n - 1] = m - l
  <2>1. 0 \in 0..n - 1 /\ n - 1 \in 0..n - 1 /\ (n - 1) + 1 = n /\ 0 + 1 = 1
    OBVIOUS
  <2>2. cut[n] = m
    BY ZenonT(60) DEF IsCut
  <2>3. c[0] = cut[0 + 1] - l /\ c[n - 1] = cut[(n - 1) + 1] - l
    BY ZenonT(60), <1>3, <2>1
  <2> QED
    BY <1>1, <2>1, <2>2, <2>3
<1>6. ASSUME NEW i \in 0..n - 1, NEW j \in 0..n - 1, i <= j PROVE c[i] <= c[j]
  <2>1. i + 1 \in 0..n /\ j + 1 \in 0..n /\ i + 1 <= j + 1
    BY <1>6
  <2>2. cut[i + 1] <= cut[j + 1]
    BY ZenonT(60), <2>1 DEF IsCut
  <2>3. c[i] = cut[i + 1] - l /\ c[j] = cut[j + 1] - l /\ i + 1 \in 1..n /\ j + 1 \in 1..n
    BY ZenonT(60), <1>3
  <2>4. cut[i + 1] \in Nat /\ cut[j + 1] \in Nat
    BY ZenonT(60), <1>2, <2>3
  <2> QED
    BY <2>2, <2>3, <2>4
<1>7. ASSUME NEW i \in 1..n - 1 PROVE IsPiece(c, e2, b2, i)
  <2>0. i + 1 \in 1..n /\ i \in 1..n /\ (i + 1) - 1 = i /\ i \in 0..n - 1 /\ i - 1 \in 0..n - 1
        /\ (i - 1) + 1 = i
    OBVIOUS
  <2>1. c[i] = cut[i + 1] - l /\ c[i - 1] = cut[i] - l
    BY ZenonT(60), <1>3, <2>0
  <2>2. Size(e[i + 1]) \in Nat /\ cut[i + 1] = cut[i] + Size(e[i + 1]) /\ e2[i] = e[i + 1]
        /\ \A k \in cut[i] + 1..cut[i + 1] : b[k] = e[i + 1][k - cut[i]]
    <3>1. IsPiece(cut, e, b, i + 1)
      BY ZenonT(60), <2>0 DEF IsCut
    <3> QED
      BY ZenonT(60), <2>0, <3>1 DEF IsPiece
  <2>3. cut[i] \in Nat /\ cut[i + 1] \in Nat /\ l <= cut[i] /\ cut[i + 1] <= m
    BY ZenonT(60), <1>2, <2>0
  <2>4. c[i] = c[i - 1] + Size(e2[i])
    <3>1. cut[i + 1] - l = (cut[i] - l) + Size(e[i + 1])
      BY <2>2, <2>3
    <3> QED
      BY ZenonT(60), <2>1, <2>2, <3>1
  <2>5. ASSUME NEW k \in c[i - 1] + 1..c[i] PROVE b2[k] = e2[i][k - c[i - 1]]
    <3>1. k \in 1..m - l /\ l + k \in cut[i] + 1..cut[i + 1] /\ (l + k) - cut[i] = k - c[i - 1]
      BY <2>1, <2>3
    <3> QED
      BY ZenonT(60), <2>2, <3>1
  <2> QED
    BY ZenonT(60), <2>2, <2>4, <2>5 DEF IsPiece
<1> QED
  BY ZenonT(60), <1>4, <1>5, <1>6, <1>7 DEF IsCut

(* The first piece is where the bytes begin.                               *)
LEMMA CutFirst ==
    ASSUME NEW n \in Nat, n > 0, NEW m \in Nat, NEW cut, NEW e, NEW b, IsCut(cut, n, e, b, m),
           NEW l \in Nat, l = Size(e[1])
    PROVE  l <= m /\ \A j \in 1..l : b[j] = e[1][j]
<1>0. 0 \in 0..n /\ 1 \in 0..n /\ 1 \in 1..n /\ 1 - 1 = 0 /\ 0 + l = l /\ 0 + 1 = 1
  OBVIOUS
<1>1. IsPiece(cut, e, b, 1) /\ cut[0] = 0
  BY ZenonT(60), <1>0 DEF IsCut
<1>4. cut[1] = l /\ \A k \in 1..l : b[k] = e[1][k - 0]
  BY <1>1 DEF IsPiece
<1>2. l <= m
  BY ZenonT(60), <1>0, <1>4, CutFacts
<1>3. ASSUME NEW j \in 1..l PROVE b[j] = e[1][j]
  <2>1. j - 0 = j
    OBVIOUS
  <2> QED
    BY ZenonT(60), <1>4, <2>1
<1> QED
  BY ZenonT(60), <1>2, <1>3

Names == {Codes[i] : i \in 1..Len(Codes)} \cup {"Unknown"}

Frames ==
    [type: {"Data"}, id: Nat, flags: SUBSET DOMAIN Bit, payload: Seq(Nat)]
    \cup [type: {"WindowUpdate", "Ping"}, id: Nat, flags: SUBSET DOMAIN Bit, meta: Nat]
    \cup [type: {"GoAway"}, id: Nat, flags: SUBSET DOMAIN Bit, code: [name: Names, raw: Nat]]

Typed ==
    /\ sendMax \in Limits /\ recvMax \in Limits /\ version \in Nat
    /\ written \in [StreamIds -> Nat]
    /\ sent \in Seq(Frames) /\ decoded \in Seq(Frames)
    /\ wire \in Seq(Nat) /\ src \in Seq(Nat)

SentInv == \A i \in 1..Len(sent) : Sendable(sent[i])

OrderInv == Len(decoded) <= Len(sent) /\ \A i \in 1..Len(decoded) : decoded[i] = sent[i]

\* What is under way: the bytes, and the frames sent and not yet decoded.
Bytes == src \o wire
Left == Len(sent) - Len(decoded)
Pieces == [i \in 1..Left |-> Encode(sent[Len(decoded) + i])]

\* The bytes under way are those of the frames not yet decoded.
CutInv == \E cut : IsCut(cut, Left, Pieces, Bytes, Len(src) + Len(wire))

IInv == Typed /\ SentInv /\ OrderInv /\ CutInv /\ FailsForACause

(* A frame to send is of one of the types.                                 *)
LEMMA SendableFrame ==
    ASSUME NEW f, Sendable(f)
    PROVE  f \in Frames
<1>1. f.type \in {"Data", "WindowUpdate", "Ping", "GoAway"} /\ f.id \in Nat
      /\ f.flags \in SUBSET DOMAIN Bit
  BY FieldFacts DEF IsU32
<1>2. CASE f.type = "Data"
  <2>1. ASSUME NEW p \in Seq(Nat) PROVE Data(f.id, f.flags, p) \in Frames
    BY <1>1 DEF Data, Frames
  <2>2. <<>> \in Seq(Nat)
    OBVIOUS
  <2> QED
    BY ZenonT(60), <1>2, <2>1, <2>2 DEF Sendable, IsControl
<1>3. CASE f.type = "WindowUpdate"
  <2>1. f = WindowUpdate(f.id, f.flags, f.meta) /\ f.meta \in Nat
    BY <1>3 DEF Sendable, IsControl, IsU32
  <2> QED
    BY <1>1, <2>1 DEF WindowUpdate, Frames
<1>4. CASE f.type = "Ping"
  <2>1. f = Ping(f.flags, f.meta) /\ f.meta \in Nat
    BY <1>4 DEF Sendable, IsControl, IsU32
  <2> QED
    BY <1>1, <2>1 DEF Ping, Frames
<1>5. CASE f.type = "GoAway"
  <2>1. f = GoAway(f.code) /\ IsErrorCode(f.code)
    BY <1>5 DEF Sendable, IsControl
  <2>2. f.code \in [name: Names, raw: Nat]
    <3>1. ASSUME NEW v \in Nat PROVE Unknown(v) \in [name: Names, raw: Nat]
      BY DEF Unknown, Names
    <3>2. ASSUME NEW i \in 1..Len(Codes) PROVE Known(Codes[i]) \in [name: Names, raw: Nat]
      <4>1. Codes[i] \in Names
        BY ZenonT(60), <3>2 DEF Names
      <4> QED
        BY <4>1 DEF Known
    <3> QED
      BY ZenonT(60), <2>1, <3>1, <3>2 DEF IsErrorCode, IsU32
  <2> QED
    BY <1>1, <2>1, <2>2 DEF GoAway, Frames
<1> QED
  BY ZenonT(60), <1>1, <1>2, <1>3, <1>4, <1>5

(* The limits are those of a u32.                                          *)
LEMMA Smaller ==
    ASSUME NEW m, IsU32(m), NEW k \in Nat, k <= m
    PROVE  IsU32(k)
<1>1. ASSUME NEW x \in Nat, NEW y \in Nat, x <= y, y \div 65536 < 65536 PROVE x \div 65536 < 65536
  BY <1>1
<1> QED
  BY <1>1 DEF IsU32, Word

(* What is encoded does not depend on what a step changes.                 *)
LEMMA EncodeSame ==
    ASSUME UNCHANGED config, NEW f
    PROVE  /\ Encode(f)' = Encode(f) /\ Sendable(f)' = Sendable(f)
           /\ version' = version /\ sendMax' = sendMax /\ recvMax' = recvMax
<1>1. version' = version /\ sendMax' = sendMax /\ recvMax' = recvMax
  BY ZenonT(60) DEF config
<1>2. Encode(f)' = Encode(f)
  BY ZenonT(60), <1>1 DEF Encode
<1>3. Sendable(f)' = Sendable(f)
  BY ZenonT(60), <1>1 DEF Sendable
<1> QED
  BY ZenonT(60), <1>1, <1>2, <1>3

(* The types of what is under way.                                         *)
LEMMA WayFacts ==
    ASSUME Typed, SentInv, OrderInv
    PROVE  /\ Left \in Nat /\ Len(src) + Len(wire) \in Nat /\ Joined(src, wire, Bytes)
           /\ \A i \in 1..Left : /\ Len(decoded) + i \in 1..Len(sent)
                               /\ Pieces[i] = Encode(sent[Len(decoded) + i])
                               /\ Sendable(sent[Len(decoded) + i])
                               /\ Encode(sent[Len(decoded) + i]) \in Seq(Nat)
<1>1. Left \in Nat /\ Len(src) + Len(wire) \in Nat
      /\ \A i \in 1..Left : Len(decoded) + i \in 1..Len(sent)
  BY DEF Typed, OrderInv, Left
<1>2. Joined(src, wire, Bytes)
  BY ConcatFacts DEF Typed, Bytes
<1>3. ASSUME NEW i \in 1..Left
      PROVE  /\ Pieces[i] = Encode(sent[Len(decoded) + i])
             /\ Sendable(sent[Len(decoded) + i])
             /\ Encode(sent[Len(decoded) + i]) \in Seq(Nat)
  <2>1. Sendable(sent[Len(decoded) + i])
    BY ZenonT(60), <1>1, <1>3 DEF SentInv
  <2>2. Encode(sent[Len(decoded) + i]) \in Seq(Nat)
    BY ZenonT(60), <2>1, EncodeFacts DEF Typed
  <2>3. Pieces[i] = Encode(sent[Len(decoded) + i])
    BY ZenonT(60), <1>3 DEF Pieces
  <2> QED
    BY ZenonT(60), <2>1, <2>2, <2>3
<1> QED
  BY ZenonT(60), <1>1, <1>2, <1>3

(* The bytes of a concatenation of three.                                  *)
LEMMA ThreeParts ==
    ASSUME NEW a \in Seq(Nat), NEW b \in Seq(Nat), NEW c \in Seq(Nat)
    PROVE  /\ \A k \in 1..Len(a) + Len(b) : (a \o (b \o c))[k] = (a \o b)[k]
           /\ \A j \in 1..Len(c) : (a \o (b \o c))[(Len(a) + Len(b)) + j] = c[j]
<1>1. \A k \in 1..Len(a) + Len(b) : (a \o (b \o c))[k] = (a \o b)[k]
  OBVIOUS
<1>2. \A j \in 1..Len(c) : (a \o (b \o c))[(Len(a) + Len(b)) + j] = c[j]
  OBVIOUS
<1> QED
  BY ZenonT(60), <1>1, <1>2

(* A frame that is sent, or that the sender's codec refuses.               *)
LEMMA SendStep ==
    ASSUME IInv, NEW f, Sendable(f), Send(f), UNCHANGED <<config, src, decoded>>,
           written' \in [StreamIds -> Nat], EncodeFails(f) => sendMax > Ceiling
    PROVE  IInv'
<1> USE DEF IInv
<1>0. /\ version' = version /\ sendMax' = sendMax /\ recvMax' = recvMax /\ src' = src /\ decoded' = decoded
  BY ZenonT(60) DEF config
<1>1. ASSUME NEW g PROVE Encode(g)' = Encode(g) /\ Sendable(g)' = Sendable(g)
  BY ZenonT(60), EncodeSame
<1>2. CASE EncodeFails(f)
  <2>1. sent' = sent /\ wire' = wire
    BY ZenonT(60), <1>2 DEF Send
  <2>2. Typed' /\ OrderInv'
    BY ZenonT(60), <1>0, <2>1 DEF Typed, OrderInv
  <2>3. SentInv'
    BY ZenonT(60), <1>1, <2>1 DEF SentInv
  <2>4. Left' = Left /\ Bytes' = Bytes /\ Pieces' = Pieces
    BY ZenonT(60), <1>0, <1>1, <2>1 DEF Left, Bytes, Pieces
  <2>5. CutInv'
    BY ZenonT(60), <1>0, <2>1, <2>4 DEF CutInv
  <2>6. FailsForACause'
    BY ZenonT(60), <1>0, <1>2 DEF FailsForACause
  <2> QED
    BY ZenonT(60), <2>2, <2>3, <2>5, <2>6
<1>3. CASE ~EncodeFails(f)
  <2> DEFINE e == Encode(f)
  <2>1. sent' = Append(sent, f) /\ wire' = wire \o e /\ failed' = failed
    BY ZenonT(60), <1>3 DEF Send
  <2>2. e \in Seq(Nat) /\ f \in Frames
    BY ZenonT(60), EncodeFacts, SendableFrame DEF Typed
  <2> HIDE DEF e
  <2>3. /\ sent' \in Seq(Frames) /\ Len(sent') = Len(sent) + 1 /\ sent'[Len(sent) + 1] = f
        /\ \A i \in 1..Len(sent) : sent'[i] = sent[i]
    BY <2>1, <2>2 DEF Typed
  <2>4. wire' \in Seq(Nat) /\ Len(wire') = Len(wire) + Len(e)
        /\ (\A i \in 1..Len(wire) : wire'[i] = wire[i])
        /\ (\A i \in 1..Len(e) : wire'[Len(wire) + i] = e[i])
    BY <2>1, <2>2 DEF Typed
  <2>5. Typed'
    BY ZenonT(60), <1>0, <2>3, <2>4 DEF Typed
  <2>6. OrderInv'
    BY <1>0, <2>3 DEF OrderInv, Typed
  <2>7. SentInv'
    <3> SUFFICES ASSUME NEW i \in 1..Len(sent) + 1 PROVE Sendable(sent'[i])
      BY ZenonT(60), <1>1, <2>3 DEF SentInv
    <3>1. CASE i = Len(sent) + 1
      BY ZenonT(60), <2>3, <3>1
    <3>2. CASE i \in 1..Len(sent)
      BY ZenonT(60), <2>3, <3>2 DEF SentInv
    <3> QED
      BY <3>1, <3>2 DEF Typed
  <2>8. CutInv'
    <3>1. PICK cut : IsCut(cut, Left, Pieces, Bytes, Len(src) + Len(wire))
      BY ZenonT(60) DEF CutInv
    <3>0. PICK n \in Nat, m \in Nat, l \in Nat : n = Left /\ m = Len(src) + Len(wire) /\ l = Len(e)
      BY <2>2, WayFacts
    <3>2. Left' = n + 1 /\ n \in Nat /\ m \in Nat /\ l \in Nat /\ Len(src)' + Len(wire)' = m + l
      BY <1>0, <2>2, <2>3, <2>4, <3>0 DEF Left, Typed, OrderInv
    <3>3. Pieces'[n + 1] = e
      <4>1. n + 1 \in 1..Left' /\ Len(decoded)' + (n + 1) = Len(sent) + 1
        BY <1>0, <3>0, <3>2 DEF Left, Typed
      <4>2. Pieces'[n + 1] = Encode(sent[Len(decoded) + (n + 1)])'
        BY ZenonT(60), <4>1 DEF Pieces
      <4>3. Encode(sent[Len(decoded) + (n + 1)])' = Encode(f)
        <5>1. sent[Len(decoded) + (n + 1)]' = f
          BY ZenonT(60), <2>3, <4>1
        <5> QED
          BY ZenonT(60), <1>0, <5>1 DEF Encode
      <4> QED
        BY ZenonT(60), <4>2, <4>3 DEF e
    <3>4. ASSUME NEW i \in 1..n PROVE Pieces'[i] = Pieces[i]
      <4>1. i \in 1..Left' /\ Len(decoded) + i \in 1..Len(sent) /\ i \in 1..Left
        BY <3>0, <3>2 DEF Left, Typed
      <4>2. sent'[Len(decoded) + i] = sent[Len(decoded) + i] /\ Len(decoded)' = Len(decoded)
        BY ZenonT(60), <1>0, <2>3, <4>1
      <4>3. Pieces'[i] = Encode(sent[Len(decoded) + i])'
        BY ZenonT(60), <4>1 DEF Pieces
      <4>4. Pieces[i] = Encode(sent[Len(decoded) + i])
        BY ZenonT(60), <4>1 DEF Pieces
      <4>5. Encode(sent[Len(decoded) + i])' = Encode(sent[Len(decoded) + i])
        BY ZenonT(60), <1>0, <4>2 DEF Encode
      <4> QED
        BY ZenonT(60), <4>3, <4>4, <4>5
    <3>5. Bytes' = src \o (wire \o e) /\ Bytes = src \o wire
      BY ZenonT(60), <1>0, <2>1 DEF Bytes
    <3>6. (\A k \in 1..m : Bytes'[k] = Bytes[k]) /\ (\A j \in 1..l : Bytes'[m + j] = e[j])
      BY ZenonT(60), <2>2, <3>0, <3>5, ThreeParts DEF Typed
    <3>7. \E c : IsCut(c, n + 1, Pieces', Bytes', m + l)
      <4>1. IsCut(cut, n, Pieces, Bytes, m)
        BY ZenonT(60), <3>0, <3>1
      <4>2. More(Pieces, Bytes, n, m, Pieces', Bytes', l)
        BY ZenonT(60), <3>0, <3>3, <3>4, <3>6 DEF More, Size
      <4> QED
        BY ZenonT(60), <4>1, <4>2, CutMore
    <3> QED
      BY ZenonT(60), <3>2, <3>7 DEF CutInv
  <2>9. FailsForACause'
    BY ZenonT(60), <1>0, <2>1 DEF FailsForACause
  <2> QED
    BY ZenonT(60), <2>5, <2>6, <2>7, <2>8, <2>9
<1> QED
  BY ZenonT(60), <1>2, <1>3

(* What a step that leaves the frames, the codecs and the failures alone   *)
(* has to show.                                                            *)
LEMMA KeepStep ==
    ASSUME IInv, UNCHANGED <<config, written, sent, decoded, failed>>,
           src' \in Seq(Nat), wire' \in Seq(Nat),
           Len(src') + Len(wire') = Len(src) + Len(wire), src' \o wire' = src \o wire
    PROVE  IInv'
<1> USE DEF IInv
<1>0. /\ version' = version /\ sendMax' = sendMax /\ recvMax' = recvMax /\ written' = written
      /\ sent' = sent /\ decoded' = decoded /\ failed' = failed
  BY ZenonT(60) DEF config
<1>1. ASSUME NEW g PROVE Encode(g)' = Encode(g) /\ Sendable(g)' = Sendable(g)
  BY ZenonT(60), EncodeSame
<1>2. Typed' /\ OrderInv'
  BY ZenonT(60), <1>0 DEF Typed, OrderInv
<1>3. SentInv'
  BY ZenonT(60), <1>0, <1>1 DEF SentInv
<1>4. Left' = Left /\ Bytes' = Bytes /\ Pieces' = Pieces
  BY ZenonT(60), <1>0, <1>1 DEF Left, Bytes, Pieces
<1>5. CutInv'
  BY ZenonT(60), <1>4 DEF CutInv
<1>6. FailsForACause'
  BY ZenonT(60), <1>0 DEF FailsForACause
<1> QED
  BY ZenonT(60), <1>2, <1>3, <1>5, <1>6

(* How a concatenation of three is grouped does not matter.                *)
LEMMA Regroup ==
    ASSUME NEW a \in Seq(Nat), NEW b \in Seq(Nat), NEW c \in Seq(Nat)
    PROVE  (a \o b) \o c = a \o (b \o c)
<1> DEFINE u == (a \o b) \o c
           v == a \o (b \o c)
<1>1. u \in Seq(Nat) /\ v \in Seq(Nat) /\ Len(u) = Len(v)
  OBVIOUS
<1>2. \A i \in 1..Len(u) : u[i] = v[i]
  OBVIOUS
<1> HIDE DEF u, v
<1>3. u = v
  BY ZenonT(60), <1>1, <1>2, SeqEqual
<1> QED
  BY ZenonT(60), <1>3 DEF u, v

(* Moving bytes from the wire to the buffer.                               *)
LEMMA Moved ==
    ASSUME NEW a \in Seq(Nat), NEW b \in Seq(Nat), NEW k \in 1..Len(b)
    PROVE  /\ a \o SubSeq(b, 1, k) \in Seq(Nat) /\ SubSeq(b, k + 1, Len(b)) \in Seq(Nat)
           /\ Len(a \o SubSeq(b, 1, k)) + Len(SubSeq(b, k + 1, Len(b))) = Len(a) + Len(b)
           /\ (a \o SubSeq(b, 1, k)) \o SubSeq(b, k + 1, Len(b)) = a \o b
<1> DEFINE x == SubSeq(b, 1, k)
           y == SubSeq(b, k + 1, Len(b))
<1>1. x \in Seq(Nat) /\ Len(x) = k /\ y \in Seq(Nat) /\ Len(y) = Len(b) - k
  OBVIOUS
<1>2. x \o y = b
  <2>1. 1 \in 1..Len(b) + 1 /\ k \in (1 - 1)..Len(b) /\ Len(b) \in k..Len(b)
    OBVIOUS
  <2> QED
    BY ZenonT(60), <2>1, ConcatAdjacentSubSeq, SubSeqFull
<1> HIDE DEF x, y
<1>3. a \o x \in Seq(Nat) /\ Len(a \o x) = Len(a) + Len(x)
  BY ZenonT(60), <1>1, ConcatProperties
<1>4. Len(a \o x) + Len(y) = Len(a) + Len(b)
  <2> HIDE DEF x, y
  <2>1. Len(a) \in Nat /\ Len(b) \in Nat
    BY ZenonT(60), LenProperties
  <2> QED
    BY <1>1, <1>3, <2>1
<1>5. (a \o x) \o y = a \o (x \o y)
  BY ZenonT(60), <1>1, Regroup
<1>6. (a \o x) \o y = a \o b
  BY ZenonT(60), <1>2, <1>5
<1> QED
  BY ZenonT(60), <1>1, <1>3, <1>4, <1>6 DEF x, y

(* FramedRead's reads only move bytes from the wire to its buffer.         *)
LEMMA ArriveStep ==
    ASSUME IInv, Arrive
    PROVE  IInv'
<1>1. PICK k \in 1..Len(wire) : src' = src \o SubSeq(wire, 1, k) /\ wire' = SubSeq(wire, k + 1, Len(wire))
  BY ZenonT(60) DEF Arrive
<1>2. src \in Seq(Nat) /\ wire \in Seq(Nat)
  BY ZenonT(60) DEF IInv, Typed
<1>3. UNCHANGED <<config, written, sent, decoded, failed>>
  BY ZenonT(60) DEF Arrive
<1>4. /\ src' \in Seq(Nat) /\ wire' \in Seq(Nat)
      /\ Len(src') + Len(wire') = Len(src) + Len(wire) /\ src' \o wire' = src \o wire
  BY ZenonT(60), <1>1, <1>2, Moved
<1> QED
  BY ZenonT(60), <1>3, <1>4, KeepStep

(* poll_read does not touch them.                                          *)
LEMMA ReadStep ==
    ASSUME IInv, NEW s \in StreamIds, Read(s)
    PROVE  IInv'
<1>1. UNCHANGED <<config, written, sent, decoded, failed>> /\ src' = src /\ wire' = wire
  BY ZenonT(60) DEF Read
<1> QED
  BY ZenonT(60), <1>1, KeepStep DEF IInv, Typed

(* poll_write asks for no more than the sender's limit.                    *)
LEMMA WriteStep ==
    ASSUME IInv, NEW s \in StreamIds, Write(s)
    PROVE  IInv'
<1>0. PICK n \in 1..MaxBytes - written[s] : \E k \in 1..Want(n) :
           /\ Send(Data(s, {}, [i \in 1..k |-> written[s] + i]))
           /\ written' = [written EXCEPT ![s] = @ + k]
           /\ UNCHANGED <<config, src, decoded>>
  BY ZenonT(60) DEF Write
<1>1. PICK k \in 1..Want(n) :
           /\ Send(Data(s, {}, [i \in 1..k |-> written[s] + i]))
           /\ written' = [written EXCEPT ![s] = @ + k]
           /\ UNCHANGED <<config, src, decoded>>
  BY ZenonT(60), <1>0
<1> DEFINE p == [i \in 1..k |-> written[s] + i]
           f == Data(s, {}, p)
<1>2. written[s] \in Nat /\ sendMax \in Nat /\ IsU32(sendMax) /\ IsU32(s)
  BY ZenonT(60), WireAssumption DEF IInv, Typed, IsU32
<1>3. k \in Nat /\ k <= sendMax
  BY <1>2, WireAssumption DEF Want, Lesser
<1>4. p \in Seq(Nat) /\ Len(p) = k
  BY <1>2, <1>3
<1>5. written' \in [StreamIds -> Nat]
  BY <1>1, <1>2, <1>3 DEF IInv, Typed
<1> HIDE DEF p
<1>6. f.id = s /\ f.flags = {} /\ f.type = "Data" /\ f.payload = p /\ {} \subseteq DOMAIN Bit
  BY DEF Data
<1> HIDE DEF f
<1>7. f = Data(f.id, f.flags, f.payload)
  BY ZenonT(60), <1>6 DEF f
<1>8. IsU32(Len(p)) /\ Len(p) <= sendMax
  BY ZenonT(60), <1>2, <1>3, <1>4, Smaller
<1>9. Sendable(f)
  BY ZenonT(60), <1>2, <1>4, <1>6, <1>7, <1>8 DEF Sendable
<1>10. EncodeFails(f) => sendMax > Ceiling
  <2>1. Ceiling \in Nat
    BY ZenonT(60), WireAssumption DEF IsU32
  <2> QED
    BY <1>2, <1>3, <1>4, <1>6, <2>1 DEF EncodeFails, Limit, Lesser
<1>11. Send(f)
  BY ZenonT(60), <1>1 DEF f, p
<1> QED
  BY ZenonT(60), <1>1, <1>5, <1>9, <1>10, <1>11, SendStep

(* The frames without payload are within every limit.                      *)
LEMMA ControlStep ==
    ASSUME IInv, NEW f \in Controls, Control(f)
    PROVE  IInv'
<1>1. Send(f) /\ UNCHANGED <<config, src, decoded>> /\ written' = written
  BY ZenonT(60) DEF Control
<1>2. IsControl(f) /\ Sendable(f)
  BY ZenonT(60), WireAssumption DEF Sendable
<1>3. ~EncodeFails(f)
  <2>1. CASE f.type = "Data"
    <3>1. f = Data(f.id, f.flags, <<>>)
      BY ZenonT(60), <1>2, <2>1 DEF IsControl
    <3>2. f.payload = <<>>
      BY <3>1 DEF Data
    <3>3. Limit(sendMax) \in Nat
      BY WireAssumption DEF Limit, Lesser, IInv, Typed, IsU32
    <3> QED
      BY <3>2, <3>3 DEF EncodeFails
  <2> QED
    BY ZenonT(60), <2>1 DEF EncodeFails, IsData
<1> QED
  BY ZenonT(60), <1>1, <1>2, <1>3, SendStep DEF IInv, Typed

(* A body is within the sender's limit.                                    *)
LEMMA BodyFacts ==
    ASSUME NEW f, Sendable(f), sendMax \in Nat
    PROVE  Len(Body(f)) \in Nat /\ Len(Body(f)) <= sendMax
<1>1. Body(f) \in Seq(Nat)
  BY ZenonT(60), FieldFacts
<1>2. CASE ~IsData(f) \/ IsControl(f)
  <2>1. Body(f) = <<>>
    <3>1. CASE ~IsData(f)
      BY ZenonT(60), <3>1 DEF Body
    <3>2. CASE IsControl(f) /\ IsData(f)
      <4>1. f = Data(f.id, f.flags, <<>>)
        BY ZenonT(60), <3>2 DEF IsControl, IsData
      <4>2. f.payload = <<>>
        BY <4>1 DEF Data
      <4> QED
        BY ZenonT(60), <3>2, <4>2 DEF Body
    <3> QED
      BY ZenonT(60), <1>2, <3>1, <3>2
  <2> QED
    BY <2>1
<1>3. CASE IsData(f) /\ ~IsControl(f)
  <2>1. Body(f) = f.payload /\ Len(f.payload) <= sendMax
    BY ZenonT(60), <1>3 DEF Body, Sendable
  <2> QED
    BY <1>1, <2>1
<1> QED
  BY ZenonT(60), <1>2, <1>3

(* When the buffer holds a header, the first frame under way is at its     *)
(* start, as far as the buffer goes.                                       *)
LEMMA FirstFrame ==
    ASSUME Typed, SentInv, OrderInv, CutInv, Len(src) >= 12
    PROVE  /\ Left > 0 /\ Len(decoded) + 1 \in 1..Len(sent)
           /\ Sendable(sent[Len(decoded) + 1])
           /\ \A j \in 1..Len(src) : j <= Len(Encode(sent[Len(decoded) + 1]))
                                     => src[j] = Encode(sent[Len(decoded) + 1])[j]
<1>1. PICK cut : IsCut(cut, Left, Pieces, Bytes, Len(src) + Len(wire))
  BY ZenonT(60) DEF CutInv
<1>2. Left \in Nat /\ Len(src) \in Nat /\ Len(wire) \in Nat /\ Joined(src, wire, Bytes)
  BY WayFacts DEF Typed
<1>3. Left > 0
  <2>1. CASE Left = 0
    <3>1. cut[0] = 0 /\ cut[Left] = Len(src) + Len(wire)
      BY ZenonT(60), <1>1 DEF IsCut
    <3> QED
      BY <1>2, <2>1, <3>1
  <2> QED
    BY <1>2, <2>1
<1>4. 1 \in 1..Left
  BY <1>2, <1>3
<1> DEFINE f == sent[Len(decoded) + 1]
<1>5. Len(decoded) + 1 \in 1..Len(sent) /\ Pieces[1] = Encode(f) /\ Sendable(f) /\ Encode(f) \in Seq(Nat)
  BY ZenonT(60), <1>4, WayFacts
<1>6. PICK l \in Nat : l = Len(Encode(f))
  BY <1>5
<1>7. \A j \in 1..l : Bytes[j] = Pieces[1][j]
  <2>1. Len(src) + Len(wire) \in Nat /\ l = Size(Pieces[1])
    BY ZenonT(60), <1>5, <1>6, WayFacts DEF Size
  <2> QED
    BY <1>1, <1>2, <1>3, <2>1, CutFirst
<1>8. ASSUME NEW j \in 1..Len(src), j <= Len(Encode(f)) PROVE src[j] = Encode(f)[j]
  <2>1. j \in 1..l
    BY <1>2, <1>6, <1>8
  <2>2. Bytes[j] = src[j]
    BY ZenonT(60), <1>2 DEF Joined
  <2> QED
    BY ZenonT(60), <1>5, <1>7, <2>1, <2>2
<1> QED
  BY ZenonT(60), <1>3, <1>5, <1>8

(* The buffer without the first frame.                                     *)
LEMMA Dropped ==
    ASSUME NEW a \in Seq(Nat), NEW b \in Seq(Nat), NEW l \in Nat, l <= Len(a)
    PROVE  /\ SubSeq(a, l + 1, Len(a)) \in Seq(Nat)
           /\ Len(SubSeq(a, l + 1, Len(a))) = Len(a) - l
           /\ \A k \in 1..(Len(a) + Len(b)) - l : (SubSeq(a, l + 1, Len(a)) \o b)[k] = (a \o b)[l + k]
<1> DEFINE x == SubSeq(a, l + 1, Len(a))
<1>1. x \in Seq(Nat) /\ Len(x) = Len(a) - l /\ \A i \in 1..Len(a) - l : x[i] = a[l + i]
  OBVIOUS
<1> HIDE DEF x
<1> DEFINE u == x \o b
           v == a \o b
<1>2. \A i \in 1..Len(x) + Len(b) : u[i] = IF i <= Len(x) THEN x[i] ELSE b[i - Len(x)]
  BY ZenonT(60), <1>1, ConcatProperties
<1>3. \A i \in 1..Len(a) + Len(b) : v[i] = IF i <= Len(a) THEN a[i] ELSE b[i - Len(a)]
  BY ZenonT(60), ConcatProperties
<1>4. Len(a) \in Nat /\ Len(b) \in Nat
  BY ZenonT(60), LenProperties
<1> HIDE DEF u, v
<1>5. ASSUME NEW k \in 1..(Len(a) + Len(b)) - l PROVE u[k] = v[l + k]
  <2>0. k \in 1..Len(x) + Len(b) /\ l + k \in 1..Len(a) + Len(b)
    BY <1>1, <1>4
  <2>1. CASE k <= Len(a) - l
    <3>1. u[k] = x[k] /\ v[l + k] = a[l + k] /\ k \in 1..Len(a) - l
      <4>1. k <= Len(x) /\ l + k <= Len(a) /\ k \in 1..Len(a) - l
        BY <1>1, <1>4, <2>1
      <4> QED
        BY ZenonT(60), <1>2, <1>3, <2>0, <4>1
    <3> QED
      BY ZenonT(60), <1>1, <3>1
  <2>2. CASE k > Len(a) - l
    <3>1. u[k] = b[k - Len(x)] /\ v[l + k] = b[(l + k) - Len(a)] /\ k - Len(x) = (l + k) - Len(a)
      BY <1>1, <1>2, <1>3, <1>4, <2>0, <2>2
    <3> QED
      BY ZenonT(60), <3>1
  <2> QED
    BY <1>4, <2>1, <2>2
<1> QED
  BY ZenonT(60), <1>1, <1>5 DEF x, u, v

\* c is the header h, then the n bytes b.
Laid(h, b, c, n) ==
    /\ c \in Seq(Nat) /\ Len(c) = 12 + n
    /\ \A j \in 1..12 : c[j] = h[j]
    /\ \A j \in 1..n : c[12 + j] = b[j]

(* The bytes of a header and a body.                                       *)
LEMMA JoinedAt ==
    ASSUME NEW h, NEW b, NEW c, Joined(h, b, c), Len(h) = 12, NEW n \in Nat, n = Len(b)
    PROVE  Laid(h, b, c, n)
BY DEF Joined, Laid

(* What decode makes of the buffer is the first frame under way.           *)
LEMMA DecodeStep ==
    ASSUME IInv, Decode
    PROVE  IInv'
<1> USE DEF IInv
<1>0. /\ version' = version /\ sendMax' = sendMax /\ recvMax' = recvMax /\ written' = written
      /\ sent' = sent /\ wire' = wire /\ UNCHANGED config
  BY ZenonT(60) DEF Decode, config
<1>1. ASSUME NEW g PROVE Encode(g)' = Encode(g) /\ Sendable(g)' = Sendable(g)
  BY ZenonT(60), <1>0, EncodeSame
<1>2. src \in Seq(Nat) /\ Len(src) >= 12 /\ (DecodeFails(src) \/ Len(src) >= Total(src))
  BY ZenonT(60) DEF Decode, Ready, HeaderLen, Typed
<1>3. PICK f : f = sent[Len(decoded) + 1]
  OBVIOUS
<1>4. /\ Left > 0 /\ Len(decoded) + 1 \in 1..Len(sent) /\ Sendable(f)
      /\ \A j \in 1..Len(src) : j <= Len(Encode(f)) => src[j] = Encode(f)[j]
  BY ZenonT(60), <1>2, <1>3, FirstFrame
<1>5. PICK n \in Nat : n = Len(Body(f))
  BY ZenonT(60), <1>4, EncodeFacts DEF Typed
<1>6. /\ Len(Encode(f)) = 12 + n /\ Encode(f) \in Seq(Nat)
      /\ (\A j \in 1..12 : Encode(f)[j] = Head12(f)[j])
      /\ (\A j \in 1..n : Encode(f)[12 + j] = Body(f)[j])
  <2>1. Joined(Head12(f), Body(f), Encode(f)) /\ Len(Head12(f)) = 12
    BY ZenonT(60), <1>4, EncodeFacts DEF Typed
  <2>2. Laid(Head12(f), Body(f), Encode(f), n)
    BY ZenonT(60), <1>5, <2>1, JoinedAt
  <2> QED
    BY ZenonT(60), <2>2 DEF Laid
<1>7. Begins(src, f)
  <2>1. ASSUME NEW p \in Nat, p >= 12, NEW j \in 1..12 PROVE j \in 1..p /\ j <= 12 + n
    BY <2>1
  <2>2. Len(src) \in Nat
    BY ZenonT(60), <1>2, LenProperties
  <2> QED
    BY ZenonT(60), <1>2, <1>4, <1>6, <2>1, <2>2 DEF Begins
<1>8. Total(src) = 12 + n /\ (DecodeFails(src) => version # ProtocolVersion \/ n > Limit(recvMax))
  BY ZenonT(60), <1>4, <1>5, <1>7, LimitFacts DEF Typed
<1>9. CASE DecodeFails(src)
  <2>1. src' = src /\ decoded' = decoded
    BY ZenonT(60), <1>9 DEF Decode
  <2>2. Typed' /\ OrderInv' /\ SentInv'
    BY ZenonT(60), <1>0, <1>1, <2>1 DEF Typed, OrderInv, SentInv
  <2>3. Left' = Left /\ Bytes' = Bytes /\ Pieces' = Pieces
    BY ZenonT(60), <1>0, <1>1, <2>1 DEF Left, Bytes, Pieces
  <2>4. CutInv'
    BY ZenonT(60), <1>0, <2>1, <2>3 DEF CutInv
  <2>5. version # ProtocolVersion \/ sendMax > Limit(recvMax)
    <3>1. sendMax \in Nat /\ Limit(recvMax) \in Nat
      BY WireAssumption DEF Limit, Lesser, Typed, IsU32
    <3>2. n <= sendMax
      BY ZenonT(60), <1>4, <1>5, <3>1, BodyFacts
    <3> QED
      BY <1>8, <1>9, <3>1, <3>2
  <2>6. FailsForACause'
    <3>1. Limit(recvMax)' = Limit(recvMax)
      BY ZenonT(60), <1>0 DEF Limit
    <3> QED
      BY ZenonT(60), <1>0, <2>5, <3>1 DEF FailsForACause
  <2> QED
    BY ZenonT(60), <2>2, <2>4, <2>6
<1>10. CASE ~DecodeFails(src)
  <2>1. 12 + n <= Len(src)
    BY <1>2, <1>8, <1>10
  <2>2. Decoded(src) = f
    <3>1. ASSUME NEW j \in 1..n PROVE src[12 + j] = Body(f)[j]
      <4>1. 12 + j \in 1..Len(src) /\ 12 + j <= Len(Encode(f))
        BY <1>2, <1>6, <2>1
      <4> QED
        BY ZenonT(60), <1>4, <1>6, <4>1
    <3> QED
      BY ZenonT(60), <1>2, <1>4, <1>5, <1>7, <2>1, <3>1, DecodedFacts DEF Typed
  <2>3. PICK l \in Nat : l = 12 + n
    OBVIOUS
  <2>4. decoded' = Append(decoded, f) /\ src' = SubSeq(src, l + 1, Len(src)) /\ failed' = failed
    BY ZenonT(60), <1>8, <1>10, <2>2, <2>3 DEF Decode, Rest
  <2>5. /\ decoded' \in Seq(Frames) /\ Len(decoded') = Len(decoded) + 1
        /\ decoded'[Len(decoded) + 1] = f /\ \A i \in 1..Len(decoded) : decoded'[i] = decoded[i]
    <3>1. f \in Frames
      BY ZenonT(60), <1>4, SendableFrame
    <3> QED
      BY <2>4, <3>1 DEF Typed
  <2>6. OrderInv'
    <3>1. Len(decoded') <= Len(sent')
      BY <1>0, <1>4, <2>5 DEF Typed
    <3>2. ASSUME NEW i \in 1..Len(decoded') PROVE decoded'[i] = sent'[i]
      <4>1. CASE i \in 1..Len(decoded)
        BY ZenonT(60), <1>0, <2>5, <4>1 DEF OrderInv
      <4>2. CASE i = Len(decoded) + 1
        BY ZenonT(60), <1>0, <1>3, <2>5, <4>2
      <4> QED
        BY <2>5, <4>1, <4>2 DEF Typed
    <3> QED
      BY ZenonT(60), <3>1, <3>2 DEF OrderInv
  <2>7. src' \in Seq(Nat) /\ Len(src') = Len(src) - l
        /\ \A k \in 1..(Len(src) + Len(wire)) - l : Bytes'[k] = Bytes[l + k]
    <3>1. l <= Len(src) /\ Bytes = src \o wire /\ Bytes' = SubSeq(src, l + 1, Len(src)) \o wire
      BY <1>0, <2>1, <2>3, <2>4 DEF Bytes
    <3> QED
      BY ZenonT(60), <1>2, <2>4, <3>1, Dropped DEF Typed
  <2>8. Typed' /\ SentInv'
    BY ZenonT(60), <1>0, <1>1, <2>5, <2>7 DEF Typed, SentInv
  <2>9. CutInv'
    <3>1. PICK cut : IsCut(cut, Left, Pieces, Bytes, Len(src) + Len(wire))
      BY ZenonT(60) DEF CutInv
    <3>2. PICK k \in Nat, m \in Nat : k = Left /\ m = Len(src) + Len(wire)
      BY ZenonT(60), WayFacts
    <3>3. k > 0 /\ Left' = k - 1 /\ Len(src)' + Len(wire)' = m - l
      BY <1>0, <1>4, <2>5, <2>7, <3>2 DEF Left, Typed
    <3>4. ASSUME NEW i \in 1..k - 1 PROVE Pieces'[i] = Pieces[i + 1]
      <4>1. i \in 1..Left' /\ i + 1 \in 1..Left /\ Len(decoded') + i = Len(decoded) + (i + 1)
        BY <2>5, <3>2, <3>3 DEF Typed
      <4>2. Pieces'[i] = Encode(sent[Len(decoded) + i])' /\ Pieces[i + 1] = Encode(sent[Len(decoded) + (i + 1)])
        BY ZenonT(60), <4>1 DEF Pieces
      <4>3. sent[Len(decoded) + i]' = sent[Len(decoded) + (i + 1)]
        BY ZenonT(60), <1>0, <4>1
      <4>4. Encode(sent[Len(decoded) + i])' = Encode(sent[Len(decoded) + (i + 1)])
        BY ZenonT(60), <1>0, <4>3 DEF Encode
      <4> QED
        BY ZenonT(60), <4>2, <4>4
    <3>5. l = Size(Pieces[1])
      <4>1. 1 \in 1..Left
        BY <3>2, <3>3
      <4> QED
        BY ZenonT(60), <1>3, <1>6, <2>3, <4>1 DEF Pieces, Size
    <3>6. IsCut(cut, k, Pieces, Bytes, m) /\ Fewer(Pieces, Bytes, k, m, Pieces', Bytes', l)
      BY ZenonT(60), <2>7, <3>1, <3>2, <3>4, <3>5 DEF Fewer
    <3> QED
      BY ZenonT(60), <3>3, <3>6, CutFewer DEF CutInv
  <2>10. FailsForACause'
    <3>1. Limit(recvMax)' = Limit(recvMax)
      BY ZenonT(60), <1>0 DEF Limit
    <3> QED
      BY ZenonT(60), <1>0, <2>4, <3>1 DEF FailsForACause
  <2> QED
    BY ZenonT(60), <2>6, <2>8, <2>9, <2>10
<1> QED
  BY ZenonT(60), <1>9, <1>10

(* Before anything is sent nothing is under way.                           *)
LEMMA InitInv == Init => IInv
<1> SUFFICES ASSUME Init PROVE IInv
  OBVIOUS
<1>1. /\ sendMax \in Limits /\ recvMax \in Limits /\ written = [s \in StreamIds |-> 0] /\ failed = {}
      /\ sent = <<>> /\ decoded = <<>> /\ wire = <<>> /\ src = <<>>
  BY ZenonT(60) DEF Init
<1>2. version \in Nat
  BY DEF Init, ProtocolVersion
<1>3. Typed
  BY <1>1, <1>2 DEF Typed
<1>4. SentInv /\ OrderInv /\ FailsForACause
  BY <1>1 DEF SentInv, OrderInv, FailsForACause
<1>5. CutInv
  <2>1. Left = 0 /\ Len(src) + Len(wire) = 0
    BY <1>1 DEF Left
  <2> DEFINE cut == [i \in 0..0 |-> 0]
  <2>2. cut \in [0..0 -> Nat] /\ cut[0] = 0 /\ 1..0 = {} /\ \A i, j \in 0..0 : cut[i] <= cut[j]
    OBVIOUS
  <2> HIDE DEF cut
  <2>3. IsCut(cut, 0, Pieces, Bytes, 0)
    BY <2>2 DEF IsCut
  <2> QED
    BY ZenonT(60), <2>1, <2>3 DEF CutInv
<1> QED
  BY ZenonT(60), <1>3, <1>4, <1>5 DEF IInv

(* Every step keeps the invariant.                                         *)
LEMMA StepInv == IInv /\ [Next]_vars => IInv'
<1> SUFFICES ASSUME IInv, [Next]_vars PROVE IInv'
  OBVIOUS
<1>1. CASE UNCHANGED vars
  <2>1. UNCHANGED <<config, written, sent, decoded, failed>> /\ src' = src /\ wire' = wire
    BY ZenonT(60), <1>1 DEF vars
  <2> QED
    BY ZenonT(60), <2>1, KeepStep DEF IInv, Typed
<1>2. CASE Next
  BY ZenonT(60), <1>2, ReadStep, WriteStep, ControlStep, ArriveStep, DecodeStep DEF Next
<1> QED
  BY ZenonT(60), <1>1, <1>2

(* What is under way is, byte for byte, the frames sent and not yet        *)
(* decoded, and what is decoded is what was sent before them.              *)
THEOREM Invariance == Spec => []IInv
<1>1. Init => IInv
  BY InitInv
<1>2. IInv /\ [Next]_vars => IInv'
  BY StepInv
<1> QED
  BY <1>1, <1>2, PTL DEF Spec

(* FrameCodec brings the frames across in order and unchanged, whatever    *)
(* their number, their sizes and the pieces in which the bytes arrive.     *)
THEOREM Intact == Spec => []FramesIntact
<1>1. IInv => FramesIntact
  <2> SUFFICES ASSUME IInv PROVE FramesIntact
    OBVIOUS
  <2>1. decoded \in Seq(Frames) /\ sent \in Seq(Frames) /\ Len(decoded) <= Len(sent)
        /\ \A i \in 1..Len(decoded) : decoded[i] = sent[i]
    BY ZenonT(60) DEF IInv, Typed, OrderInv
  <2>2. ASSUME NEW S, NEW s \in Seq(S), NEW t \in Seq(S), Len(s) <= Len(t),
               \A i \in 1..Len(s) : s[i] = t[i]
        PROVE  s = SubSeq(t, 1, Len(s))
    BY <2>2
  <2> QED
    BY ZenonT(60), <2>1, <2>2 DEF FramesIntact
<1> QED
  BY <1>1, Invariance, PTL

(* An error of the codec has one of the causes, whatever the limits.       *)
THEOREM Causes == Spec => []FailsForACause
<1>1. IInv => FailsForACause
  BY ZenonT(60) DEF IInv
<1> QED
  BY <1>1, Invariance, PTL

----------------------------------------------------------------------------
\* The fragments of poll_write, up to the receive buffer.

PayloadOf(f, s) == IF IsData(f) /\ f.id = s THEN f.payload ELSE <<>>

\* The payload p holds the bytes of a stream behind the first m, up to n.
Holds(p, m, n) == Len(p) = n - m /\ \A j \in 1..Len(p) : p[j] = m + j

\* The frames hold the first n bytes of s, each of them once and in order: pos lists how many
\* of them are in the frames up to each one.
Covers(pos, frames, s, n) ==
    /\ pos \in [0..Len(frames) -> Nat] /\ pos[0] = 0 /\ pos[Len(frames)] = n
    /\ \A i, j \in 0..Len(frames) : i <= j => pos[i] <= pos[j]
    /\ \A i \in 1..Len(frames) : Holds(PayloadOf(frames[i], s), pos[i - 1], pos[i])

\* What is in frames so far: all that is written, unless the writer task has met an error.
PieceInv ==
    \A s \in StreamIds : \E n \in Nat :
        n <= written[s] /\ (failed = {} => n = written[s]) /\ \E pos : Covers(pos, sent, s, n)

\* What the reader task has decoded of each stream.
InPieces ==
    \A s \in StreamIds : \E n \in Nat : n <= written[s] /\ \E pos : Covers(pos, decoded, s, n)

(* One more frame that holds the next bytes.                               *)
LEMMA CoversMore ==
    ASSUME NEW frames \in Seq(Frames), NEW f \in Frames, NEW s,
           NEW n \in Nat, NEW m \in Nat, n <= m,
           NEW pos, Covers(pos, frames, s, n), Holds(PayloadOf(f, s), n, m)
    PROVE  \E more : Covers(more, Append(frames, f), s, m)
<1>1. PICK l \in Nat : l = Len(frames)
  OBVIOUS
<1>2. PICK more : more = [i \in 0..l + 1 |-> IF i <= l THEN pos[i] ELSE m]
  BY ZenonT(60)
<1>3. PICK longer : longer = Append(frames, f)
  BY ZenonT(60)
<1>4. Len(longer) = l + 1 /\ longer[l + 1] = f /\ \A i \in 1..l : longer[i] = frames[i]
  BY <1>1, <1>3
<1>5. /\ pos \in [0..l -> Nat] /\ pos[0] = 0 /\ pos[l] = n
      /\ \A i, j \in 0..l : i <= j => pos[i] <= pos[j]
      /\ \A i \in 1..l : Holds(PayloadOf(frames[i], s), pos[i - 1], pos[i])
  BY ZenonT(60), <1>1 DEF Covers
<1>6. /\ more \in [0..l + 1 -> Nat] /\ more[l + 1] = m
      /\ \A i \in 0..l : more[i] = pos[i] /\ pos[i] \in Nat
  BY <1>2, <1>5
<1>7. \A i, j \in 0..l + 1 : i <= j => more[i] <= more[j]
  <2> SUFFICES ASSUME NEW i \in 0..l + 1, NEW j \in 0..l + 1, i <= j PROVE more[i] <= more[j]
    OBVIOUS
  <2>1. CASE j \in 0..l
    <3>1. i \in 0..l
      BY <2>1
    <3> QED
      BY <1>5, <1>6, <2>1, <3>1
  <2>2. CASE j = l + 1 /\ i \in 0..l
    <3>1. pos[i] <= n /\ pos[i] \in Nat
      BY <1>5, <1>6, <2>2
    <3> QED
      BY <1>6, <2>2, <3>1
  <2>3. CASE j = l + 1 /\ i = l + 1
    BY <1>6, <2>3
  <2> QED
    BY <2>1, <2>2, <2>3
<1>8. ASSUME NEW i \in 1..l + 1 PROVE Holds(PayloadOf(longer[i], s), more[i - 1], more[i])
  <2>1. CASE i = l + 1
    <3>1. l + 1 - 1 = l /\ l \in 0..l
      OBVIOUS
    <3>2. more[i - 1] = n /\ more[i] = m /\ longer[i] = f
      BY <1>4, <1>5, <1>6, <2>1, <3>1
    <3> QED
      BY ZenonT(60), <3>2
  <2>2. CASE i \in 1..l
    <3>1. i \in 0..l /\ i - 1 \in 0..l
      BY <2>2
    <3> QED
      BY ZenonT(60), <1>4, <1>5, <1>6, <2>2, <3>1
  <2> QED
    BY <2>1, <2>2
<1>9. more[0] = 0
  BY <1>5, <1>6
<1>10. Covers(more, longer, s, m)
  BY ZenonT(60), <1>4, <1>6, <1>7, <1>8, <1>9 DEF Covers
<1> QED
  BY ZenonT(60), <1>3, <1>10

(* The first frames hold the first bytes.                                  *)
LEMMA CoversFirst ==
    ASSUME NEW frames \in Seq(Frames), NEW first \in Seq(Frames), Len(first) <= Len(frames),
           \A i \in 1..Len(first) : first[i] = frames[i],
           NEW s, NEW n \in Nat, NEW pos, Covers(pos, frames, s, n)
    PROVE  \E m \in Nat : m <= n /\ \E less : Covers(less, first, s, m)
<1>1. PICK l \in Nat, k \in Nat : l = Len(frames) /\ k = Len(first) /\ k <= l
  OBVIOUS
<1>2. PICK less : less = [i \in 0..k |-> pos[i]]
  BY ZenonT(60)
<1>3. /\ pos \in [0..l -> Nat] /\ pos[0] = 0 /\ pos[l] = n
      /\ \A i, j \in 0..l : i <= j => pos[i] <= pos[j]
      /\ \A i \in 1..l : Holds(PayloadOf(frames[i], s), pos[i - 1], pos[i])
  BY ZenonT(60), <1>1 DEF Covers
<1>4. /\ \A i \in 0..k : i \in 0..l /\ less[i] = pos[i] /\ pos[i] \in Nat
      /\ less \in [0..k -> Nat]
  BY <1>1, <1>2, <1>3
<1>5. \A i, j \in 0..k : i <= j => less[i] <= less[j]
  BY <1>3, <1>4
<1>6. ASSUME NEW i \in 1..k PROVE Holds(PayloadOf(first[i], s), less[i - 1], less[i])
  <2>1. i \in 1..l /\ i \in 0..k /\ i - 1 \in 0..k /\ first[i] = frames[i]
    BY <1>1
  <2> QED
    BY ZenonT(60), <1>3, <1>4, <2>1
<1>7. k \in 0..k /\ 0 \in 0..k /\ l \in 0..l
  OBVIOUS
<1>8. pos[k] \in Nat /\ pos[k] <= n /\ less[k] = pos[k] /\ less[0] = 0
  BY <1>1, <1>3, <1>4, <1>7
<1>9. Covers(less, first, s, pos[k])
  BY ZenonT(60), <1>1, <1>4, <1>5, <1>6, <1>8 DEF Covers
<1> QED
  BY ZenonT(60), <1>8, <1>9

(* A frame that goes out brings the next bytes of its stream, and those of *)
(* no other.                                                               *)
LEMMA SendPieces ==
    ASSUME Typed, PieceInv, NEW f \in Frames, Send(f), written' \in [StreamIds -> Nat],
           \A s \in StreamIds : written[s] <= written'[s]
                                /\ Holds(PayloadOf(f, s), written[s], written'[s])
    PROVE  PieceInv'
<1> SUFFICES ASSUME NEW s \in StreamIds
             PROVE  \E n \in Nat : /\ n <= written'[s] /\ (failed' = {} => n = written'[s])
                                   /\ \E pos : Covers(pos, sent', s, n)
  BY DEF PieceInv
<1>1. written[s] \in Nat /\ written'[s] \in Nat /\ sent \in Seq(Frames)
  BY DEF Typed
<1>2. PICK n \in Nat : /\ n <= written[s] /\ (failed = {} => n = written[s])
                       /\ \E pos : Covers(pos, sent, s, n)
  BY ZenonT(60) DEF PieceInv
<1>3. PICK pos : Covers(pos, sent, s, n)
  BY ZenonT(60), <1>2
<1>4. CASE EncodeFails(f)
  <2>1. sent' = sent /\ failed' # {}
    BY ZenonT(60), <1>4 DEF Send
  <2>2. n <= written'[s]
    BY <1>1, <1>2
  <2> QED
    BY ZenonT(60), <1>2, <2>1, <2>2
<1>5. CASE ~EncodeFails(f)
  <2>1. sent' = Append(sent, f) /\ failed = {}
    BY ZenonT(60), <1>5 DEF Send
  <2>2. \E more : Covers(more, Append(sent, f), s, written'[s])
    BY ZenonT(60), <1>1, <1>2, <1>3, <2>1, CoversMore
  <2>3. written'[s] <= written'[s]
    BY <1>1
  <2> QED
    BY ZenonT(60), <1>1, <2>1, <2>2, <2>3
<1> QED
  BY <1>4, <1>5

(* poll_write puts the bytes it takes into the frame.                      *)
LEMMA WritePieces ==
    ASSUME IInv, PieceInv, NEW s \in StreamIds, Write(s)
    PROVE  PieceInv'
<1>1. PICK n \in 1..MaxBytes - written[s] : \E k \in 1..Want(n) :
           /\ Send(Data(s, {}, [i \in 1..k |-> written[s] + i]))
           /\ written' = [written EXCEPT ![s] = @ + k]
  BY ZenonT(60) DEF Write
<1>2. PICK k \in 1..Want(n) :
           /\ Send(Data(s, {}, [i \in 1..k |-> written[s] + i]))
           /\ written' = [written EXCEPT ![s] = @ + k]
  BY ZenonT(60), <1>1
<1>3. PICK p : p = [i \in 1..k |-> written[s] + i]
  BY ZenonT(60)
<1>4. PICK f : f = Data(s, {}, p)
  BY ZenonT(60)
<1>5. written \in [StreamIds -> Nat] /\ sendMax \in Nat /\ s \in Nat
  BY ZenonT(60), WireAssumption DEF IInv, Typed, IsU32
<1>6. k \in Nat
  BY <1>5, WireAssumption DEF Want, Lesser
<1>7. p \in Seq(Nat) /\ Len(p) = k /\ \A j \in 1..k : p[j] = written[s] + j
  BY <1>3, <1>5, <1>6
<1>8. f \in Frames /\ IsData(f) /\ f.id = s /\ f.payload = p
  BY <1>4, <1>5, <1>7 DEF Data, Frames, IsData
<1>9. written' \in [StreamIds -> Nat] /\ written'[s] = written[s] + k
  BY <1>2, <1>5, <1>6
<1>10. ASSUME NEW r \in StreamIds
       PROVE  written[r] <= written'[r] /\ Holds(PayloadOf(f, r), written[r], written'[r])
  <2>1. CASE r = s
    <3>1. PayloadOf(f, s) = p
      BY ZenonT(60), <1>8 DEF PayloadOf
    <3>2. Len(p) = written'[s] - written[s] /\ written[s] <= written'[s]
      BY <1>5, <1>6, <1>7, <1>9
    <3>3. Holds(p, written[s], written'[s])
      BY ZenonT(60), <1>7, <3>2 DEF Holds
    <3> QED
      BY ZenonT(60), <2>1, <3>1, <3>2, <3>3
  <2>2. CASE r # s
    <3>1. PayloadOf(f, r) = <<>>
      BY ZenonT(60), <1>8, <2>2 DEF PayloadOf
    <3>2. written'[r] = written[r] /\ written[r] \in Nat
      BY <1>2, <1>5, <2>2
    <3> QED
      BY <3>1, <3>2 DEF Holds
  <2> QED
    BY <2>1, <2>2
<1>11. Send(f)
  BY ZenonT(60), <1>2, <1>3, <1>4
<1> QED
  BY ZenonT(60), <1>8, <1>9, <1>10, <1>11, SendPieces DEF IInv

(* No other frame has a payload.                                           *)
LEMMA ControlPieces ==
    ASSUME IInv, PieceInv, NEW f \in Controls, Control(f)
    PROVE  PieceInv'
<1>1. Send(f) /\ written' = written
  BY ZenonT(60) DEF Control
<1>2. IsControl(f) /\ Sendable(f)
  BY ZenonT(60), WireAssumption DEF Sendable
<1>3. f \in Frames
  BY ZenonT(60), <1>2, SendableFrame
<1>4. written \in [StreamIds -> Nat]
  BY ZenonT(60) DEF IInv, Typed
<1>5. ASSUME NEW s \in StreamIds
      PROVE  written[s] <= written'[s] /\ Holds(PayloadOf(f, s), written[s], written'[s])
  <2>1. PayloadOf(f, s) = <<>>
    <3>1. CASE f.type = "Data"
      <4>1. f = Data(f.id, f.flags, <<>>)
        BY ZenonT(60), <1>2, <3>1 DEF IsControl
      <4>2. f.payload = <<>>
        BY <4>1 DEF Data
      <4> QED
        BY ZenonT(60), <4>2 DEF PayloadOf
    <3> QED
      BY ZenonT(60), <3>1 DEF PayloadOf, IsData
  <2> QED
    BY <1>1, <1>4, <2>1 DEF Holds
<1> QED
  BY ZenonT(60), <1>1, <1>3, <1>4, <1>5, SendPieces DEF IInv

(* Every step keeps the bytes of each stream in order.                     *)
LEMMA PieceStep ==
    ASSUME IInv, PieceInv, [Next]_vars
    PROVE  PieceInv'
<1>1. ASSUME UNCHANGED <<written, sent>>, failed' = {} => failed = {} PROVE PieceInv'
  BY ZenonT(60), <1>1 DEF PieceInv
<1>2. CASE UNCHANGED vars
  BY ZenonT(60), <1>1, <1>2 DEF vars
<1>3. ASSUME NEW s \in StreamIds, Read(s) PROVE PieceInv'
  BY ZenonT(60), <1>1, <1>3 DEF Read
<1>4. CASE Arrive
  BY ZenonT(60), <1>1, <1>4 DEF Arrive
<1>5. CASE Decode
  <2>1. failed' = {} => failed = {}
    BY <1>5 DEF Decode
  <2> QED
    BY ZenonT(60), <1>1, <1>5, <2>1 DEF Decode
<1> QED
  BY ZenonT(60), <1>2, <1>3, <1>4, <1>5, WritePieces, ControlPieces DEF Next

(* The Data frames that the reader task has decoded hold the bytes that    *)
(* were written to each stream from the first on, each of them once and in *)
(* order, however poll_write has cut them: nothing is missing, doubled or  *)
(* overtaken on the way to the receive buffer.                             *)
THEOREM PiecesInOrder ==
    Spec => []InPieces
<1>1. Init => PieceInv
  <2> SUFFICES ASSUME Init, NEW s \in StreamIds
               PROVE  \E n \in Nat : /\ n <= written[s] /\ (failed = {} => n = written[s])
                                     /\ \E pos : Covers(pos, sent, s, n)
    BY ZenonT(60) DEF PieceInv
  <2>1. written[s] = 0 /\ sent = <<>>
    BY DEF Init
  <2>2. PICK pos : pos = [i \in 0..0 |-> 0]
    BY ZenonT(60)
  <2>3. Covers(pos, <<>>, s, 0)
    BY <2>2 DEF Covers
  <2>4. 0 \in Nat /\ 0 <= 0
    OBVIOUS
  <2> QED
    BY ZenonT(60), <2>1, <2>3, <2>4
<1>2. IInv /\ PieceInv /\ [Next]_vars => PieceInv'
  BY PieceStep
<1>3. IInv /\ PieceInv => InPieces
  <2> SUFFICES ASSUME IInv, PieceInv, NEW s \in StreamIds
               PROVE  \E n \in Nat : n <= written[s] /\ \E pos : Covers(pos, decoded, s, n)
    BY ZenonT(60) DEF InPieces
  <2>1. /\ decoded \in Seq(Frames) /\ sent \in Seq(Frames) /\ Len(decoded) <= Len(sent)
        /\ written[s] \in Nat /\ \A i \in 1..Len(decoded) : decoded[i] = sent[i]
    BY ZenonT(60) DEF IInv, Typed, OrderInv
  <2>2. PICK n \in Nat : n <= written[s] /\ \E pos : Covers(pos, sent, s, n)
    BY ZenonT(60) DEF PieceInv
  <2>3. PICK pos : Covers(pos, sent, s, n)
    BY ZenonT(60), <2>2
  <2>4. PICK m \in Nat : m <= n /\ \E less : Covers(less, decoded, s, m)
    BY ZenonT(60), <2>1, <2>3, CoversFirst
  <2>5. m <= written[s]
    BY <2>1, <2>2, <2>4
  <2> QED
    BY ZenonT(60), <2>4, <2>5
<1> QED
  BY <1>1, <1>2, <1>3, Invariance, PTL DEF Spec
=============================================================================
