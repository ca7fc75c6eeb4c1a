---------------------------- MODULE CodecsProofs ----------------------------
(***************************************************************************)
(* Proofs about Codecs: the checksums, the IP header and the TCP header,   *)
(* for any bytes; and about Config, for any file and flags.                *)
(***************************************************************************)
EXTENDS Codecs, Config, IpHeaderProofs

-----------------------------------------------------------------------------
(* Packets as SendPacket builds them.                                      *)

BuiltHeader(context, data, sum) == I!Built(Src, Dst, I!ProtoUDP, context, data, sum)

LEMMA SentFields ==
  ASSUME NEW context \in Contexts, NEW data \in Seq(Byte), 20 + Len(data) <= MaxPacket,
         NEW sum \in Word
  PROVE  LET h == BuiltHeader(context, data, sum)
         IN  /\ InRange(h) /\ h.IHL = 5 /\ h.TotalLen = 20 + Len(data)
             /\ h.TOS = context.tos /\ h.ID = context.id /\ h.Flags = context.flags
             /\ h.FragOffset = 0 /\ h.TTL = context.ttl /\ h.Protocol = 17
             /\ h.Checksum = sum /\ h.Src = Src /\ h.Dst = Dst
<1>1. context \in ContextSet /\ 17 \in Byte /\ I!ProtoUDP = 17
  BY ContextsAssumption DEF Byte, Below, I!ProtoUDP
<1> QED
  BY <1>1, AddressAssumption, BuiltFields DEF BuiltHeader

LEMMA SentPacket ==
  ASSUME NEW context \in Contexts, NEW data \in Seq(Byte), 20 + Len(data) <= MaxPacket
  PROVE  \E sum \in Word :
           LET m == I!Marshal(BuiltHeader(context, data, sum))
           IN  /\ I!BuildWithOptions(Src, Dst, I!ProtoUDP, context, data) = m \o data
               /\ VerifyChecksum(m)
<1>1. context \in ContextSet /\ I!ProtoUDP \in Byte
  BY ContextsAssumption DEF Byte, Below, I!ProtoUDP
<1> QED
  BY <1>1, AddressAssumption, BuiltPacket DEF BuiltHeader

-----------------------------------------------------------------------------
(* The state: what was sent, and its bytes but for one change.             *)

SegmentBytes(h, data) == T!SetAndCompute(Src, Dst, T!Marshal(h) \o data)
PacketBytes(context, data) ==
  I!BuildWithOptions(Src, Dst, I!ProtoUDP, context, data)
ForeignBytes(options) ==
  <<0, 1, 0, 2, 0, 0, 0, 3, 0, 0, 0, 4, (5 + Len(options) \div 4) * 16, 2>>
  \o <<255, 255, 0, 0, 0, 0>> \o options

OneByteOff(b) == \E k \in DOMAIN b, d \in Changes : wire = [b EXCEPT ![k] = (@ + d) % 256]
Carries(b) == (~item.changed => wire = b) /\ (item.changed => OneByteOff(b))

SegmentInv ==
  item.kind = "segment" =>
    /\ item.header \in TcpHeaders /\ item.data \in TcpPayloads /\ item.changed \in BOOLEAN
    /\ item = [kind |-> "segment", header |-> item.header, data |-> item.data,
               changed |-> item.changed]
    /\ Carries(SegmentBytes(item.header, item.data))
PacketInv ==
  item.kind = "packet" =>
    /\ item.context \in Contexts /\ item.data \in IpPayloads /\ item.changed \in BOOLEAN
    /\ item = [kind |-> "packet", context |-> item.context, data |-> item.data,
               changed |-> item.changed]
    /\ Carries(PacketBytes(item.context, item.data))
HeaderInv ==
  item.kind = "header" => item.header \in IpHeaders /\ wire = I!Marshal(item.header)
ForeignInv ==
  item.kind = "foreign" => item.options \in OptionFields /\ wire = ForeignBytes(item.options)
PartsInv ==
  item.kind = "parts" =>
    \E first \in {a \in Parts : Len(a) % 2 = 0}, second \in Parts :
      /\ item.data = first \o second
      /\ wire = I!Bytes16(I!ChecksumCombine(I!Checksum(first), I!Checksum(second)))

WireInv == SegmentInv /\ PacketInv /\ HeaderInv /\ ForeignInv /\ PartsInv

LEMMA WireInductive == Spec => []WireInv
<1>1. Init => WireInv
  BY DEF Init, Nothing, WireInv, SegmentInv, PacketInv, HeaderInv, ForeignInv, PartsInv
<1>2. WireInv /\ [Next]_vars => WireInv'
  <2> SUFFICES ASSUME WireInv, [Next]_vars PROVE WireInv'
    OBVIOUS
  <2>1. CASE SendSegment
    <3>1. PICK h \in TcpHeaders, data \in TcpPayloads :
            /\ item' = [kind |-> "segment", header |-> h, data |-> data, changed |-> FALSE]
            /\ wire' = SegmentBytes(h, data)
      BY <2>1 DEF SendSegment, SegmentBytes
    <3> QED
      BY <3>1 DEF WireInv, SegmentInv, PacketInv, HeaderInv, ForeignInv, PartsInv, Carries
  <2>2. CASE SendPacket
    <3>1. PICK context \in Contexts, data \in IpPayloads :
            /\ item' = [kind |-> "packet", context |-> context, data |-> data,
                        changed |-> FALSE]
            /\ wire' = PacketBytes(context, data)
      BY <2>2 DEF SendPacket, PacketBytes
    <3> QED
      BY <3>1 DEF WireInv, SegmentInv, PacketInv, HeaderInv, ForeignInv, PartsInv, Carries
  <2>3. CASE ForwardPacket
    BY <2>3 DEF ForwardPacket, WireInv, SegmentInv, PacketInv, HeaderInv, ForeignInv, PartsInv
  <2>4. CASE ReceiveSegment
    <3>1. PICK options \in OptionFields :
            /\ item' = [kind |-> "foreign", options |-> options, changed |-> FALSE]
            /\ wire' = ForeignBytes(options)
      BY <2>4 DEF ReceiveSegment, ForeignBytes
    <3> QED
      BY <3>1 DEF WireInv, SegmentInv, PacketInv, HeaderInv, ForeignInv, PartsInv
  <2>5. CASE SumParts
    <3>1. PICK first \in {a \in Parts : Len(a) % 2 = 0}, second \in Parts :
            /\ item' = [kind |-> "parts", data |-> first \o second, changed |-> FALSE]
            /\ wire' = I!Bytes16(I!ChecksumCombine(I!Checksum(first), I!Checksum(second)))
      BY <2>5 DEF SumParts
    <3>2. item'.kind = "parts" /\ item'.data = first \o second
      BY <3>1
    <3>3. PartsInv'
      BY <3>1, <3>2 DEF PartsInv
    <3> QED
      BY <3>2, <3>3 DEF WireInv, SegmentInv, PacketInv, HeaderInv, ForeignInv
  <2>6. CASE Change
    <3>1. item.kind \in {"segment", "packet"} /\ ~item.changed
      BY <2>6 DEF Change
    <3>2. PICK k \in DOMAIN wire, d \in Changes : wire' = [wire EXCEPT ![k] = (@ + d) % 256]
      BY <2>6 DEF Change
    <3>3. item' = [item EXCEPT !.changed = TRUE]
      BY <2>6 DEF Change
    <3>4. CASE item.kind = "segment"
      <4>1. /\ item = [kind |-> "segment", header |-> item.header, data |-> item.data,
                       changed |-> item.changed]
            /\ item.header \in TcpHeaders /\ item.data \in TcpPayloads
            /\ wire = SegmentBytes(item.header, item.data)
        BY <3>1, <3>4 DEF WireInv, SegmentInv, Carries
      <4>2. item' = [kind |-> "segment", header |-> item.header, data |-> item.data,
                     changed |-> TRUE]
        <5>1. PICK x, data, changed :
                /\ item = [kind |-> "segment", header |-> x, data |-> data, changed |-> changed]
                /\ x = item.header /\ data = item.data
          BY <4>1
        <5>2. item' = [kind |-> "segment", header |-> x, data |-> data, changed |-> TRUE]
          BY <3>3, <5>1
        <5> QED
          BY <5>1, <5>2
      <4>3. OneByteOff(SegmentBytes(item.header, item.data))'
        <5>1. item'.header = item.header /\ item'.data = item.data
          BY <4>2
        <5>2. SegmentBytes(item.header, item.data)' = SegmentBytes(item.header, item.data)
          BY <5>1 DEF SegmentBytes
        <5> QED
          BY <3>2, <4>1, <5>2 DEF OneByteOff
      <4>4. SegmentInv'
        BY <4>1, <4>2, <4>3 DEF SegmentInv, Carries
      <4> QED
        BY <4>2, <4>4 DEF WireInv, PacketInv, HeaderInv, ForeignInv, PartsInv
    <3>5. CASE item.kind = "packet"
      <4>1. /\ item = [kind |-> "packet", context |-> item.context, data |-> item.data,
                       changed |-> item.changed]
            /\ item.context \in Contexts /\ item.data \in IpPayloads
            /\ wire = PacketBytes(item.context, item.data)
        BY <3>1, <3>5 DEF WireInv, PacketInv, Carries
      <4>2. item' = [kind |-> "packet", context |-> item.context, data |-> item.data,
                     changed |-> TRUE]
        <5>1. PICK x, data, changed :
                /\ item = [kind |-> "packet", context |-> x, data |-> data, changed |-> changed]
                /\ x = item.context /\ data = item.data
          BY <4>1
        <5>2. item' = [kind |-> "packet", context |-> x, data |-> data, changed |-> TRUE]
          BY <3>3, <5>1
        <5> QED
          BY <5>1, <5>2
      <4>3. OneByteOff(PacketBytes(item.context, item.data))'
        <5>1. item'.context = item.context /\ item'.data = item.data
          BY <4>2
        <5>2. PacketBytes(item.context, item.data)' = PacketBytes(item.context, item.data)
          BY <5>1 DEF PacketBytes
        <5> QED
          BY <3>2, <4>1, <5>2 DEF OneByteOff
      <4>4. PacketInv'
        BY <4>1, <4>2, <4>3 DEF PacketInv, Carries
      <4> QED
        BY <4>2, <4>4 DEF WireInv, SegmentInv, HeaderInv, ForeignInv, PartsInv
    <3> QED
      BY <3>1, <3>4, <3>5
  <2>7. CASE UNCHANGED vars
    BY <2>7 DEF vars, WireInv, SegmentInv, PacketInv, HeaderInv, ForeignInv, PartsInv,
                Carries, OneByteOff
  <2> QED
    BY <2>1, <2>2, <2>3, <2>4, <2>5, <2>6, <2>7 DEF Next
<1> QED
  BY <1>1, <1>2, PTL DEF Spec

-----------------------------------------------------------------------------

(* A checksum computed in parts, the first of an even length, is that of   *)
(* the whole, whatever carries each sum has: ChecksumCombine of            *)
(* internal/ip/checksum.go.                                                *)
THEOREM PartsSum == Spec => []PartsCombine
<1>1. WireInv => PartsCombine
  <2> SUFFICES ASSUME WireInv, item.kind = "parts"
               PROVE  wire = I!Bytes16(I!Checksum(item.data))
    BY DEF PartsCombine
  <2>1. PICK first \in {a \in Parts : Len(a) % 2 = 0}, second \in Parts :
          /\ item.data = first \o second
          /\ wire = I!Bytes16(I!ChecksumCombine(I!Checksum(first), I!Checksum(second)))
    BY DEF WireInv, PartsInv
  <2>2. first \in Seq(Byte) /\ second \in Seq(Byte) /\ Len(first) % 2 = 0
    BY DataAssumption
  <2>3. ChecksumCombine(Checksum(first), Checksum(second)) = Checksum(item.data)
    BY <2>1, <2>2, CombinedChecksum
  <2> QED
    BY <2>1, <2>3, SameInIp
<1> QED
  BY <1>1, WireInductive, PTL

LEMMA BuiltArrives ==
  ASSUME NEW context \in Contexts, NEW data \in Seq(Byte), 20 + Len(data) <= MaxPacket,
         NEW w, w = PacketBytes(context, data)
  PROVE  LET p == I!Parse(w)
             h == p.IPHeader
         IN  /\ p.ok /\ p.Payload = data
             /\ h.TotalLen = Len(w)
             /\ h.Src = Src /\ h.Dst = Dst /\ h.Protocol = I!ProtoUDP
             /\ [ttl |-> h.TTL, tos |-> h.TOS, flags |-> h.Flags, id |-> h.ID] = context
             /\ h.FragOffset = 0
             /\ I!VerifyChecksum(I!Marshal(h))
<1>1. PICK sum \in Word :
        LET m == I!Marshal(BuiltHeader(context, data, sum))
        IN  w = m \o data /\ VerifyChecksum(m)
  BY SentPacket DEF PacketBytes
<1> DEFINE g == BuiltHeader(context, data, sum)
           m == I!Marshal(g)
<1>2. /\ InRange(g) /\ g.IHL = 5 /\ g.TotalLen = 20 + Len(data)
      /\ g.TOS = context.tos /\ g.ID = context.id /\ g.Flags = context.flags
      /\ g.FragOffset = 0 /\ g.TTL = context.ttl /\ g.Protocol = 17
      /\ g.Checksum = sum /\ g.Src = Src /\ g.Dst = Dst
  BY SentFields
<1> HIDE DEF g
<1>3. Says(m, g) /\ Len(m) = 4 * g.IHL
  BY <1>2, MarshalledHeader
<1>4. w = m \o data /\ VerifyChecksum(m)
  BY <1>1 DEF g
<1> HIDE DEF m
<1>5. Says(w, g) /\ Len(w) = Len(m) + Len(data) /\ Behind(w, 4 * g.IHL, data)
  <2>1. m \in Seq(Byte)
    BY <1>3 DEF Says
  <2>2. Joins(w, m, data, Byte)
    BY <1>4, <2>1, Joined
  <2> QED
    BY <1>2, <1>3, <2>2, SaysWithData
<1>6. I!ParseHeader(w) = ReadBack(g)
  <2>1. g.TotalLen >= 4 * g.IHL
    BY <1>2
  <2> QED
    BY <1>2, <1>5, <2>1, ParsedHeader
<1> DEFINE h == ReadBack(g)
<1>7. /\ h.ok /\ h.Version = g.Version /\ h.IHL = g.IHL /\ h.TOS = g.TOS
      /\ h.TotalLen = g.TotalLen /\ h.ID = g.ID /\ h.Flags = g.Flags
      /\ h.FragOffset = g.FragOffset /\ h.TTL = g.TTL /\ h.Protocol = g.Protocol
      /\ h.Checksum = g.Checksum /\ h.Src = g.Src /\ h.Dst = g.Dst
      /\ h.Options = g.Options
  BY <1>2 DEF ReadBack, Fields, InRange
<1> HIDE DEF h
<1>8. I!Parse(w) = [ok |-> TRUE, IPHeader |-> h,
                    Payload |-> SubSeq(w, I!HeaderLen(h) + 1, Len(w))]
  BY <1>6, <1>7 DEF I!Parse, I!Payload, h
<1>9. SubSeq(w, I!HeaderLen(h) + 1, Len(w)) = data
  <2>1. I!HeaderLen(h) = 20 /\ 4 * g.IHL = 20
    BY <1>2, <1>7 DEF I!HeaderLen
  <2> QED
    BY <1>5, <2>1 DEF Behind
<1>10. I!Marshal(h) = m
  <2>1. /\ I!HeaderLen(h) = I!HeaderLen(g) /\ I!FlagsInPlace(h) = I!FlagsInPlace(g)
        /\ I!BytesNeeded(h) = I!BytesNeeded(g)
    BY <1>7 DEF I!HeaderLen, I!FlagsInPlace, I!BytesNeeded
  <2> QED
    BY <1>7, <2>1 DEF I!Marshal, m
<1>11. I!VerifyChecksum(I!Marshal(h))
  BY <1>4, <1>10, SameInIp
<1>12. h.TotalLen = Len(w)
  <2>1. Len(m) = 20
    BY <1>2, <1>3
  <2> QED
    BY <1>2, <1>5, <1>7, <2>1
<1>13. [ttl |-> h.TTL, tos |-> h.TOS, flags |-> h.Flags, id |-> h.ID] = context
  BY <1>2, <1>7, ContextsAssumption DEF ContextSet
<1>14. I!Parse(w).ok /\ I!Parse(w).IPHeader = h /\ I!Parse(w).Payload = data
  BY <1>8, <1>9
<1>15. /\ h.Src = Src /\ h.Dst = Dst /\ h.Protocol = I!ProtoUDP /\ h.FragOffset = 0
  BY <1>2, <1>7 DEF I!ProtoUDP
<1> QED
  BY <1>11, <1>12, <1>13, <1>14, <1>15

(* Packets built by internal/ip/builder.go say their length, verify, and   *)
(* parse to the arguments of Build, or are refused when they are too long; *)
(* headers passed on keep their fields and options.                        *)
THEOREM PacketsParse == Spec => []PacketsArrive
<1>1. WireInv => PacketsArrive
  <2> SUFFICES ASSUME WireInv PROVE PacketsArrive
    OBVIOUS
  <2>1. ASSUME item.kind = "packet", ~item.changed
        PROVE  IF I!MinHeaderLen + Len(item.data) > MaxPacket
               THEN wire = I!PacketTooLarge
               ELSE LET p == I!Parse(wire)
                        h == p.IPHeader
                    IN  /\ p.ok /\ p.Payload = item.data
                        /\ h.TotalLen = Len(wire)
                        /\ h.Src = Src /\ h.Dst = Dst /\ h.Protocol = I!ProtoUDP
                        /\ [ttl |-> h.TTL, tos |-> h.TOS, flags |-> h.Flags,
                            id |-> h.ID] = item.context
                        /\ h.FragOffset = 0
                        /\ I!VerifyChecksum(I!Marshal(h))
    <3>1. /\ item.context \in Contexts /\ item.data \in Seq(Byte)
          /\ wire = PacketBytes(item.context, item.data)
      BY <2>1, DataAssumption DEF WireInv, PacketInv, Carries
    <3>2. CASE I!MinHeaderLen + Len(item.data) > MaxPacket
      BY <3>1, <3>2 DEF PacketBytes, I!BuildWithOptions
    <3>3. CASE ~ (I!MinHeaderLen + Len(item.data) > MaxPacket)
      <4>1. 20 + Len(item.data) <= MaxPacket
        BY <3>1, <3>3, MaxPacketAssumption DEF I!MinHeaderLen, Word, Below
      <4> QED
        BY <3>1, <3>3, <4>1, BuiltArrives
    <3> QED
      BY <3>2, <3>3
  <2>2. ASSUME item.kind = "header"
        PROVE  IF item.header.IHL < 5
               THEN wire = I!Panic
               ELSE I!ParseHeader(wire).ok /\ I!ParseHeader(wire) = item.header
    <3> DEFINE g == item.header
    <3>1. g \in IpHeaders /\ wire = I!Marshal(g)
      BY <2>2 DEF WireInv, HeaderInv
    <3>2. /\ g \in IpHeaderSet /\ g.ok = TRUE /\ g.TotalLen >= 4 * g.IHL
          /\ Len(g.Options) = (IF g.IHL < 5 THEN 0 ELSE 4 * g.IHL - 20)
      BY <3>1, IpHeadersAssumption
    <3> HIDE DEF g
    <3>3. CASE g.IHL < 5
      <4>1. I!HeaderLen(g) < 20
        BY <3>2, <3>3 DEF I!HeaderLen, IpHeaderSet, Below
      <4>2. I!BytesNeeded(g) = 20
        <5>1. g.Dst \in Address
          BY <3>2 DEF IpHeaderSet
        <5>2. Len(g.Dst) = 4
          BY <5>1 DEF Address
        <5>3. g.Dst # <<>>
          BY <5>2
        <5> QED
          BY <5>3 DEF I!BytesNeeded, I!MinHeaderLen
      <4>3. wire = I!Panic
        BY <3>1, <4>1, <4>2 DEF I!Marshal
      <4> QED
        BY <3>3, <4>3 DEF g
    <3>4. CASE ~ (g.IHL < 5)
      <4>1. InRange(g)
        BY <3>2, <3>4 DEF IpHeaderSet, InRange, Below
      <4>2. I!ParseHeader(wire) = ReadBack(g)
        BY <3>1, <3>2, <4>1, MarshalledHeader, ParsedHeader
      <4>3. ReadBack(g) = g
        <5>1. g.ok = TRUE
          BY <3>2
        <5>2. g.Version = 4
          BY <3>2 DEF IpHeaderSet
        <5>3. g = [ok |-> g.ok, Version |-> g.Version, IHL |-> g.IHL, TOS |-> g.TOS,
                   TotalLen |-> g.TotalLen, ID |-> g.ID, Flags |-> g.Flags,
                   FragOffset |-> g.FragOffset, TTL |-> g.TTL, Protocol |-> g.Protocol,
                   Checksum |-> g.Checksum, Src |-> g.Src, Dst |-> g.Dst,
                   Options |-> g.Options]
          BY <3>2 DEF IpHeaderSet
        <5> QED
          BY <5>1, <5>2, <5>3 DEF ReadBack, Fields
      <4>4. ReadBack(g).ok
        BY DEF ReadBack, Fields
      <4> QED
        BY <3>4, <4>2, <4>3, <4>4 DEF g
    <3> QED
      BY <3>3, <3>4
  <2> QED
    BY <2>1, <2>2 DEF PacketsArrive
<1> QED
  BY <1>1, WireInductive, PTL

-----------------------------------------------------------------------------
(* A changed byte.                                                         *)

LEMMA ByteAfter ==
  ASSUME NEW x \in Byte, NEW d \in Changes
  PROVE  (x + d) % 256 \in Byte /\ (x + d) % 256 # x
<1>1. x \in Nat /\ x < 256 /\ d \in Nat /\ d < 256 /\ d # 0
  BY ChangeAssumption DEF Byte, Below
<1> QED
  BY <1>1 DEF Byte, Below

LEMMA ChangedByte ==
  ASSUME NEW b \in Seq(Byte), NEW k \in DOMAIN b, NEW d \in Changes,
         NEW w, w = [b EXCEPT ![k] = (@ + d) % 256]
  PROVE  k \in 1 .. Len(b) /\ Differs(w, b, k)
<1>1. k \in 1 .. Len(b)
  OBVIOUS
<1>2. b[k] \in Byte
  BY <1>1, Entries
<1>3. (b[k] + d) % 256 \in Byte /\ (b[k] + d) % 256 # b[k]
  BY <1>2, ByteAfter
<1> QED
  BY <1>1, <1>3 DEF Differs

LEMMA PacketBytesAreBytes ==
  ASSUME NEW context \in Contexts, NEW data \in Seq(Byte)
  PROVE  PacketBytes(context, data) \in Seq(Byte)
<1>1. CASE I!MinHeaderLen + Len(data) > MaxPacket
  <2>1. PacketBytes(context, data) = <<>>
    BY <1>1 DEF PacketBytes, I!BuildWithOptions, I!PacketTooLarge
  <2> QED
    BY <2>1
<1>2. CASE ~ (I!MinHeaderLen + Len(data) > MaxPacket)
  <2>1. 20 + Len(data) <= MaxPacket
    BY <1>2, MaxPacketAssumption DEF I!MinHeaderLen, Word, Below
  <2>2. PICK sum \in Word :
          PacketBytes(context, data) = I!Marshal(BuiltHeader(context, data, sum)) \o data
    BY <2>1, SentPacket DEF PacketBytes
  <2> DEFINE h == BuiltHeader(context, data, sum)
  <2>3. InRange(h)
    BY <2>1, SentFields
  <2> HIDE DEF h
  <2>4. I!Marshal(h) \in Seq(Byte)
    BY <2>3, MarshalledHeader DEF Says
  <2> QED
    BY <2>2, <2>4 DEF h
<1> QED
  BY <1>1, <1>2

\* A packet with one byte of its header changed does not verify.
LEMMA PacketChangeShows ==
  ASSUME NEW context \in Contexts, NEW data \in Seq(Byte),
         NEW b, b = PacketBytes(context, data), NEW k \in DOMAIN b,
         NEW w, Differs(w, b, k), Behind(w, 20, data)
  PROVE  ~ VerifyChecksum(SubSeq(w, 1, 20))
<1>1. 20 + Len(data) <= MaxPacket
  <2> SUFFICES ASSUME ~ (20 + Len(data) <= MaxPacket) PROVE FALSE
    OBVIOUS
  <2>1. I!MinHeaderLen + Len(data) > MaxPacket
    BY MaxPacketAssumption DEF I!MinHeaderLen, Word, Below
  <2>2. b = <<>>
    BY <2>1 DEF PacketBytes, I!BuildWithOptions, I!PacketTooLarge
  <2> QED
    BY <2>2
<1>2. PICK sum \in Word :
        LET m == I!Marshal(BuiltHeader(context, data, sum))
        IN  b = m \o data /\ VerifyChecksum(m)
  BY <1>1, SentPacket DEF PacketBytes
<1>3. PICK m : m = I!Marshal(BuiltHeader(context, data, sum))
  OBVIOUS
<1>4. b = m \o data /\ VerifyChecksum(m) /\ m \in Seq(Byte) /\ Len(m) = 20
  <2> DEFINE g == BuiltHeader(context, data, sum)
  <2>1. InRange(g) /\ g.IHL = 5
    BY <1>1, SentFields
  <2>2. m = I!Marshal(g) /\ b = m \o data /\ VerifyChecksum(m)
    BY <1>2, <1>3
  <2> HIDE DEF g
  <2>3. Says(m, g) /\ Len(m) = 4 * g.IHL
    BY <2>1, <2>2, MarshalledHeader
  <2> QED
    BY <2>1, <2>2, <2>3 DEF Says
<1>5. PICK n \in Nat : n = 20
  OBVIOUS
<1>6. /\ Len(m) = n /\ Len(data) \in Nat
      /\ b \in Seq(Byte) /\ Len(b) = n + Len(data)
      /\ \A i \in 1 .. n : b[i] = m[i]
      /\ \A i \in 1 .. Len(data) : b[n + i] = data[i]
  <2>1. Joins(b, m, data, Byte)
    BY <1>4, Joined
  <2>2. Len(m) = n /\ Len(data) \in Nat
    BY <1>4, <1>5
  <2> QED
    BY <2>1, <2>2 DEF Joins
<1>7. k \in 1 .. Len(b)
  BY <1>6
<1>8. /\ w \in Seq(Byte) /\ Len(w) = n + Len(data) /\ w[k] # b[k]
      /\ \A i \in 1 .. n + Len(data) : i # k => w[i] = b[i]
  BY <1>6 DEF Differs
<1>9. PICK header : header = SubSeq(w, 1, n)
  OBVIOUS
<1>10. header \in Seq(Byte) /\ Len(header) = n /\ \A i \in 1 .. n : header[i] = w[i]
  <2>1. Len(w) >= n
    BY <1>6, <1>8
  <2> QED
    BY <1>8, <1>9, <2>1, FirstOf
<1>11. k \in 1 .. n
  <2> SUFFICES ASSUME k > n PROVE FALSE
    BY <1>6, <1>7
  <2> DEFINE j == k - n
  <2>1. j \in 1 .. Len(data) /\ n + j = k
    BY <1>6, <1>7
  <2>2. b[k] = data[j]
    BY <1>6, <2>1
  <2>3. SubSeq(w, n + 1, Len(w)) = data
    BY <1>5 DEF Behind
  <2> HIDE DEF j
  <2>4. SubSeq(w, n + 1, Len(w))[j] = w[n + j]
    BY <1>6, <1>8, <2>1
  <2> QED
    BY <1>8, <2>1, <2>2, <2>3, <2>4
<1>12. k \in 1 .. Len(m) /\ Differs(header, m, k)
  <2>1. \A i \in 1 .. n : i \in 1 .. n + Len(data)
    BY <1>6
  <2>2. header[k] # m[k]
    BY <1>6, <1>8, <1>10, <1>11
  <2>3. \A i \in 1 .. n : i # k => header[i] = m[i]
    BY <1>6, <1>8, <1>10, <2>1
  <2> QED
    BY <1>6, <1>10, <1>11, <2>2, <2>3 DEF Differs
<1>13. PICK more \in Nat : more = 0
  OBVIOUS
<1>14. Rest(more + Words(m)) = 65535
  <2>1. more + Words(m) = Words(m)
    BY <1>4, <1>13, WeightedBytes
  <2> QED
    BY <1>4, <2>1, VerifiedBytes
<1>15. Rest(more + Words(header)) # 65535
  <2>1. m \in Seq(Byte)
    BY <1>4
  <2> QED
    BY <1>12, <1>14, <2>1, OtherByteShows
<1>16. ~ VerifyChecksum(header)
  <2>1. more + Words(header) = Words(header)
    BY <1>10, <1>13, WeightedBytes
  <2> QED
    BY <1>10, <1>15, <2>1, VerifiedBytes
<1> QED
  BY <1>5, <1>9, <1>16

-----------------------------------------------------------------------------
(* The checksum of a segment.                                              *)

LEMMA SameInTcp ==
  /\ \A n : T!Bytes16(n) = Bytes16(n)
  /\ \A b, i : T!Uint16(b, i) = Uint16(b, i)
  /\ \A src, dst, s : T!TCPChecksum(src, dst, s) = TCPChecksum(src, dst, s)
  /\ \A src, dst, s : T!Verify(src, dst, s) = Verify(src, dst, s)
  /\ \A src, dst, s : T!SetAndCompute(src, dst, s) = SetAndCompute(src, dst, s)
<1>1. \A n : T!Bytes16(n) = Bytes16(n)
  BY DEF T!Bytes16, Bytes16
<1>2. \A b, i : T!Uint16(b, i) = Uint16(b, i)
  BY DEF T!Uint16, Uint16
<1>3. \A n : T!Fold(n) = Fold(n)
  BY DEF T!Fold, Fold
<1>4. \A data : T!Words(data) = Words(data)
  BY DEF T!Words, Words, T!Total, Total
<1>5. \A src, dst, s : T!PseudoHeader(src, dst, s) = PseudoHeader(src, dst, s)
  BY <1>4 DEF T!PseudoHeader, PseudoHeader, T!ProtoTCP, ProtoTCP
<1>6. \A src, dst, s : T!TCPChecksum(src, dst, s) = TCPChecksum(src, dst, s)
  BY <1>3, <1>4, <1>5 DEF T!TCPChecksum, TCPChecksum, T!Not16, Not16
<1>7. \A s, sum : T!WithChecksum(s, sum) = WithChecksum(s, sum)
  BY DEF T!WithChecksum, WithChecksum
<1>8. \A src, dst, s : T!Verify(src, dst, s) = Verify(src, dst, s)
  BY <1>6 DEF T!Verify, Verify
<1>9. \A src, dst, s : T!SetAndCompute(src, dst, s) = SetAndCompute(src, dst, s)
  BY <1>6, <1>7 DEF T!SetAndCompute, SetAndCompute
<1> QED
  BY <1>1, <1>2, <1>6, <1>8, <1>9

LEMMA PseudoHeaderNat ==
  ASSUME NEW s \in Seq(Byte), NEW t \in Seq(Byte), Len(s) = Len(t)
  PROVE  /\ PseudoHeader(Src, Dst, s) \in Nat
         /\ PseudoHeader(Src, Dst, s) = PseudoHeader(Src, Dst, t)
<1>1. Words(Src) \in Nat /\ Words(Dst) \in Nat
  BY AddressAssumption, WeightedBytes DEF Address
<1>2. Len(s) \in Nat
  OBVIOUS
<1> QED
  BY <1>1, <1>2 DEF PseudoHeader, ProtoTCP

LEMMA VerifiedSegment ==
  ASSUME NEW s \in Seq(Byte)
  PROVE  Verify(Src, Dst, s) <=> Rest(PseudoHeader(Src, Dst, s) + Words(s)) = 65535
<1>1. PICK n : n = PseudoHeader(Src, Dst, s) + Words(s)
  OBVIOUS
<1>2. n \in Nat
  BY <1>1, PseudoHeaderNat, WeightedBytes
<1>3. Fold(n) = Rest(n) /\ Rest(n) \in Nat
  BY <1>2, FoldIsRest, RestRange
<1> QED
  BY <1>1, <1>3 DEF Verify, TCPChecksum, Not16

\* The bytes that SetAndCompute leaves and writes.
SumSet(w, s) ==
  /\ w \in Seq(Byte) /\ Len(w) = Len(s)
  /\ \A i \in 1 .. Len(s) : i # 17 /\ i # 18 => w[i] = s[i]

LEMMA SegmentSummed ==
  ASSUME NEW s \in Seq(Byte), Len(s) >= 20, NEW w, w = SetAndCompute(Src, Dst, s)
  PROVE  SumSet(w, s) /\ Verify(Src, Dst, w)
<1> DEFINE c == WithChecksum(s, 0)
           sum == TCPChecksum(Src, Dst, c)
<1>0. Len(s) \in Nat /\ 17 \in 1 .. Len(s) /\ 18 \in 1 .. Len(s)
  OBVIOUS
<1>1. /\ c \in Seq(Byte) /\ Len(c) = Len(s) /\ c[17] = 0 /\ c[18] = 0
      /\ \A i \in 1 .. Len(s) : i # 17 /\ i # 18 => c[i] = s[i]
  <2>1. 0 \in Byte /\ 0 \div 256 = 0 /\ 0 % 256 = 0
    BY DEF Byte, Below
  <2>2. c = [s EXCEPT ![17] = 0, ![18] = 0]
    BY <2>1 DEF WithChecksum
  <2> HIDE DEF c
  <2> QED
    BY <1>0, <2>1, <2>2
<1>2. w = WithChecksum(s, sum)
  BY <1>0 DEF SetAndCompute
<1> HIDE DEF c
<1> DEFINE more == PseudoHeader(Src, Dst, c)
<1>3. sum = 65535 - Rest(more + Words(c)) /\ sum \in Word
  <2>1. PICK n : n = more + Words(c)
    OBVIOUS
  <2>2. n \in Nat
    <3>1. more \in Nat
      BY <1>1, PseudoHeaderNat
    <3>2. Words(c) \in Nat
      BY <1>1, WeightedBytes
    <3> HIDE DEF more
    <3> QED
      BY <2>1, <3>1, <3>2
  <2>3. Fold(n) = Rest(n) /\ Rest(n) \in Nat /\ Rest(n) <= 65535
    BY <2>2, FoldIsRest, RestRange
  <2> QED
    BY <2>1, <2>3 DEF TCPChecksum, Not16, Word, Below
<1> HIDE DEF sum
<1>4. PICK high, low : high = sum \div 256 /\ low = sum % 256
  OBVIOUS
<1>5. high \in Byte /\ low \in Byte /\ high * 256 + low = sum
  <2>1. sum \in Nat /\ sum < 65536
    BY <1>3 DEF Word, Below
  <2>2. /\ high \in Nat /\ high < 256 /\ low \in Nat /\ low < 256
        /\ high * 256 + low = sum
    BY <1>4, <2>1
  <2> QED
    BY <2>2 DEF Byte, Below
<1>6. w = [s EXCEPT ![17] = high, ![18] = low]
  BY <1>2, <1>4 DEF WithChecksum
<1>7. /\ w \in Seq(Byte) /\ Len(w) = Len(s) /\ w[17] = high /\ w[18] = low
      /\ \A i \in 1 .. Len(s) : i # 17 /\ i # 18 => w[i] = s[i]
  BY <1>0, <1>5, <1>6
<1>8. more \in Nat /\ PseudoHeader(Src, Dst, w) = more
  BY <1>1, <1>7, PseudoHeaderNat
<1> HIDE DEF more
<1>9. Rest(more + Words(w)) = 65535
  <2> DEFINE k == 17
  <2>1. /\ k \in 1 .. Len(c) /\ k + 1 \in 1 .. Len(c) /\ k % 2 = 1 /\ Len(w) = Len(c)
        /\ \A i \in 1 .. Len(c) : i # k /\ i # k + 1 => w[i] = c[i]
        /\ c[k] = 0 /\ c[k + 1] = 0
        /\ w[k] * 256 + w[k + 1] = 65535 - Rest(more + Words(c))
    BY <1>0, <1>1, <1>3, <1>5, <1>7
  <2> HIDE DEF k
  <2> QED
    BY <1>1, <1>7, <1>8, <2>1, FieldCompletes
<1>10. Verify(Src, Dst, w)
  BY <1>7, <1>8, <1>9, VerifiedSegment
<1> QED
  BY <1>7, <1>10 DEF SumSet

LEMMA SegmentChangeShows ==
  ASSUME NEW b \in Seq(Byte), Verify(Src, Dst, b), NEW k \in 1 .. Len(b),
         NEW w, Differs(w, b, k)
  PROVE  ~ Verify(Src, Dst, w)
<1>1. w \in Seq(Byte) /\ Len(w) = Len(b)
  BY DEF Differs
<1>2. PICK more \in Nat : more = PseudoHeader(Src, Dst, b)
  BY PseudoHeaderNat
<1>3. PseudoHeader(Src, Dst, w) = more
  BY <1>1, <1>2, PseudoHeaderNat
<1>4. Rest(more + Words(b)) = 65535
  BY <1>2, VerifiedSegment
<1>5. Rest(more + Words(w)) # 65535
  BY <1>4, OtherByteShows
<1>6. Verify(Src, Dst, w) <=> Rest(PseudoHeader(Src, Dst, w) + Words(w)) = 65535
  BY <1>1, VerifiedSegment
<1> QED
  BY <1>3, <1>5, <1>6

-----------------------------------------------------------------------------
(* The bytes of options.                                                   *)

LEMMA EncodedOption ==
  ASSUME NEW o \in TcpOptionSet
  PROVE  T!Encode(o) \in Seq(Byte) /\ Len(T!Encode(o)) >= 1
<1>1. o.Kind \in Byte /\ o.Length \in Byte /\ o.Data \in Seq(Byte)
  BY DEF TcpOptionSet
<1>2. CASE o.Kind \in {T!OptEndOfList, T!OptNOP}
  BY <1>1, <1>2 DEF T!Encode
<1>3. CASE o.Kind \notin {T!OptEndOfList, T!OptNOP}
  <2>1. T!Encode(o) = <<o.Kind, o.Length>> \o o.Data
    BY <1>3 DEF T!Encode
  <2>2. <<o.Kind, o.Length>> \in Seq(Byte) /\ Len(<<o.Kind, o.Length>>) = 2
    BY <1>1
  <2>3. Joins(T!Encode(o), <<o.Kind, o.Length>>, o.Data, Byte)
    BY <1>1, <2>1, <2>2, Joined
  <2>4. Len(o.Data) \in Nat
    BY <1>1
  <2> QED
    BY <2>2, <2>3, <2>4 DEF Joins
<1> QED
  BY <1>2, <1>3

\* The bytes from option i on, when those from the next on are tail.
EncodedFrom(options, i, tail) ==
  IF i > Len(options) THEN <<>>
  ELSE IF options[i].Kind = T!OptEndOfList THEN T!Encode(options[i])
  ELSE T!Encode(options[i]) \o tail

LEMMA EncodedFromBytes ==
  ASSUME NEW options \in Seq(TcpOptionSet), NEW i \in 1 .. Len(options) + 1,
         NEW tail \in Seq(Byte)
  PROVE  EncodedFrom(options, i, tail) \in Seq(Byte)
<1>1. CASE i > Len(options)
  BY <1>1 DEF EncodedFrom
<1>2. CASE ~ (i > Len(options))
  <2>1. i \in 1 .. Len(options)
    BY <1>2
  <2>2. options[i] \in TcpOptionSet
    BY <2>1, Entries
  <2>3. T!Encode(options[i]) \in Seq(Byte)
    BY <2>2, EncodedOption
  <2>4. T!Encode(options[i]) \o tail \in Seq(Byte)
    BY <2>3
  <2> QED
    BY <1>2, <2>3, <2>4 DEF EncodedFrom
<1> QED
  BY <1>1, <1>2

\* e has the bytes from option i on at i, for every i from first.
Encodes(e, options, first) ==
  /\ e \in [first .. Len(options) + 1 -> Seq(Byte)]
  /\ \A i \in first .. Len(options) + 1 : e[i] = EncodedFrom(options, i, e[i + 1])

LEMMA SomethingEncodes ==
  ASSUME NEW options \in Seq(TcpOptionSet)
  PROVE  \E e : Encodes(e, options, 1)
<1> DEFINE n == Len(options)
           S == {j \in 0 .. n : \E e : Encodes(e, options, n + 1 - j)}
<1>0. n \in Nat
  OBVIOUS
<1>1. 0 \in S
  <2> DEFINE e == [i \in n + 1 .. n + 1 |-> <<>>]
  <2>1. e \in [n + 1 .. n + 1 -> Seq(Byte)]
    OBVIOUS
  <2>2. \A i \in n + 1 .. n + 1 : e[i] = EncodedFrom(options, i, e[i + 1])
    <3> TAKE i \in n + 1 .. n + 1
    <3>1. i > Len(options)
      BY <1>0
    <3>2. EncodedFrom(options, i, e[i + 1]) = <<>>
      BY <3>1 DEF EncodedFrom
    <3> QED
      BY <3>2
  <2> HIDE DEF e
  <2>3. Encodes(e, options, n + 1 - 0)
    BY <1>0, <2>1, <2>2 DEF Encodes
  <2> QED
    BY <1>0, <2>3
<1>2. ASSUME NEW j \in 0 .. n - 1, j \in S PROVE j + 1 \in S
  <2> DEFINE k == n + 1 - j
             p == k - 1
  <2>1. PICK e : Encodes(e, options, k)
    BY <1>2
  <2>2. k \in Nat /\ p \in 1 .. n /\ p + 1 = k /\ n + 1 - (j + 1) = p
    BY <1>0
  <2> HIDE DEF k, p
  <2> DEFINE b == EncodedFrom(options, p, e[k])
             f == [i \in p .. n + 1 |-> IF i = p THEN b ELSE e[i]]
  <2>3. e \in [k .. n + 1 -> Seq(Byte)] /\ k \in k .. n + 1
    BY <1>0, <2>1, <2>2 DEF Encodes
  <2>4. b \in Seq(Byte)
    <3>1. e[k] \in Seq(Byte) /\ p \in 1 .. Len(options) + 1
      BY <1>0, <2>2, <2>3
    <3> QED
      BY <3>1, EncodedFromBytes
  <2> HIDE DEF b
  <2>5. f \in [p .. n + 1 -> Seq(Byte)]
    BY <1>0, <2>2, <2>3, <2>4
  <2>6. f[p] = b /\ f[p + 1] = e[k] /\ \A i \in k .. n + 1 : f[i] = e[i]
    BY <1>0, <2>2
  <2>7. \A i \in p .. n + 1 : f[i] = EncodedFrom(options, i, f[i + 1])
    <3> TAKE i \in p .. n + 1
    <3>1. CASE i = p
      BY <2>6, <3>1 DEF b
    <3>2. CASE i # p /\ i <= n
      <4>1. i \in k .. n + 1 /\ i + 1 \in k .. n + 1
        BY <1>0, <2>2, <3>2
      <4>2. f[i] = e[i] /\ f[i + 1] = e[i + 1]
        BY <2>6, <4>1
      <4>3. e[i] = EncodedFrom(options, i, e[i + 1])
        BY <2>1, <4>1 DEF Encodes
      <4> QED
        BY <4>2, <4>3
    <3>3. CASE i = n + 1
      <4>1. i \in k .. n + 1 /\ i > Len(options)
        BY <1>0, <2>2, <3>3
      <4>2. f[i] = EncodedFrom(options, i, e[i + 1])
        BY <2>1, <2>6, <4>1 DEF Encodes
      <4> QED
        BY <4>1, <4>2 DEF EncodedFrom
    <3> QED
      BY <1>0, <2>2, <3>1, <3>2, <3>3
  <2> HIDE DEF f
  <2>8. Encodes(f, options, p)
    BY <2>5, <2>7 DEF Encodes
  <2> QED
    BY <1>0, <2>2, <2>8
<1> HIDE DEF S
<1>3. \A j \in 0 .. n : j \in S
  BY <1>0, <1>1, <1>2, UpwardInduction
<1>4. n \in S
  BY <1>0, <1>3
<1>5. \E e : Encodes(e, options, n + 1 - n)
  BY <1>4 DEF S
<1>6. n + 1 - n = 1
  BY <1>0
<1> QED
  BY <1>5, <1>6

\* There is one way to encode options.
LEMMA SameEncoding ==
  ASSUME NEW options \in Seq(TcpOptionSet), NEW e, NEW f,
         \A i \in 1 .. Len(options) + 1 : e[i] = EncodedFrom(options, i, e[i + 1]),
         \A i \in 1 .. Len(options) + 1 : f[i] = EncodedFrom(options, i, f[i + 1])
  PROVE  e[1] = f[1]
<1>1. PICK n \in Nat : n = Len(options)
  OBVIOUS
<1> DEFINE S == {j \in 0 .. n : f[n + 1 - j] = e[n + 1 - j]}
<1>2. 0 \in S
  <2>1. n + 1 - 0 = n + 1 /\ n + 1 \in 1 .. n + 1 /\ n + 1 > Len(options)
    BY <1>1
  <2>2. f[n + 1] = <<>> /\ e[n + 1] = <<>>
    BY <1>1, <2>1 DEF EncodedFrom
  <2> QED
    BY <2>1, <2>2
<1>3. ASSUME NEW j \in 0 .. n - 1, j \in S PROVE j + 1 \in S
  <2> DEFINE p == n + 1 - (j + 1)
  <2>1. p \in 1 .. n + 1 /\ p + 1 = n + 1 - j /\ j + 1 \in 0 .. n
    OBVIOUS
  <2>2. f[p + 1] = e[p + 1]
    BY <1>3, <2>1
  <2> HIDE DEF p
  <2>3. f[p] = e[p]
    BY <1>1, <2>1, <2>2
  <2> QED
    BY <2>1, <2>3 DEF p
<1> HIDE DEF S
<1>4. \A j \in 0 .. n : j \in S
  BY <1>2, <1>3, UpwardInduction
<1>5. n \in S /\ n + 1 - n = 1
  BY <1>4
<1> QED
  BY <1>5 DEF S

LEMMA OptionBytesEncode ==
  ASSUME NEW options \in Seq(TcpOptionSet)
  PROVE  \E e : Encodes(e, options, 1) /\ T!OptionBytes(options) = e[1]
<1> DEFINE n == Len(options)
           f == CHOOSE e : e = [i \in 1 .. n + 1 |->
                                  IF i > Len(options) THEN <<>>
                                  ELSE IF options[i].Kind = T!OptEndOfList
                                  THEN T!Encode(options[i])
                                  ELSE T!Encode(options[i]) \o e[i + 1]]
<1>1. T!OptionBytes(options) = f[1]
  BY DEF T!OptionBytes
<1>2. PICK e : Encodes(e, options, 1)
  BY SomethingEncodes
<1>3. e = [i \in 1 .. n + 1 |-> EncodedFrom(options, i, e[i + 1])]
  BY <1>2 DEF Encodes
<1>4. \A g : [i \in 1 .. n + 1 |-> EncodedFrom(options, i, g[i + 1])]
             = [i \in 1 .. n + 1 |->
                  IF i > Len(options) THEN <<>>
                  ELSE IF options[i].Kind = T!OptEndOfList
                  THEN T!Encode(options[i])
                  ELSE T!Encode(options[i]) \o g[i + 1]]
  BY DEF EncodedFrom
<1>5. f = [i \in 1 .. n + 1 |-> EncodedFrom(options, i, f[i + 1])]
  <2> DEFINE Made(g) == [i \in 1 .. n + 1 |->
                           IF i > Len(options) THEN <<>>
                           ELSE IF options[i].Kind = T!OptEndOfList
                           THEN T!Encode(options[i])
                           ELSE T!Encode(options[i]) \o g[i + 1]]
  <2>1. e = Made(e) /\ f = CHOOSE g : g = Made(g)
    BY <1>3, <1>4
  <2>2. [i \in 1 .. n + 1 |-> EncodedFrom(options, i, f[i + 1])] = Made(f)
    BY <1>4
  <2> HIDE DEF Made, f
  <2>3. f = Made(f)
    BY <2>1
  <2> QED
    BY <2>2, <2>3
<1> HIDE DEF f
<1>6. f[1] = e[1]
  <2>1. \A i \in 1 .. n + 1 : f[i] = EncodedFrom(options, i, f[i + 1])
    BY <1>5
  <2>2. \A i \in 1 .. n + 1 : e[i] = EncodedFrom(options, i, e[i + 1])
    BY <1>3
  <2> QED
    BY <2>1, <2>2, SameEncoding
<1> QED
  BY <1>1, <1>2, <1>6

LEMMA NoOptionBytes == T!OptionBytes(<<>>) = <<>>
<1>1. <<>> \in Seq(TcpOptionSet) /\ Len(<<>>) = 0
  OBVIOUS
<1>2. PICK e : Encodes(e, <<>>, 1) /\ T!OptionBytes(<<>>) = e[1]
  BY <1>1, OptionBytesEncode
<1>3. e[1] = EncodedFrom(<<>>, 1, e[1 + 1])
  BY <1>1, <1>2 DEF Encodes
<1>4. 1 > Len(<<>>)
  BY <1>1
<1> QED
  BY <1>2, <1>3, <1>4 DEF EncodedFrom

\* An option before others is encoded before them.
LEMMA FirstEncoded ==
  ASSUME NEW o \in TcpOptionSet, o.Kind # 0, NEW v \in Seq(TcpOptionSet),
         NEW options, Joins(options, <<o>>, v, TcpOptionSet)
  PROVE  T!OptionBytes(options) = T!Encode(o) \o T!OptionBytes(v)
<1>1. PICK l \in Nat : l = Len(v)
  OBVIOUS
<1>2. /\ options \in Seq(TcpOptionSet) /\ Len(options) = l + 1 /\ options[1] = o
      /\ \A i \in 1 .. l : options[1 + i] = v[i]
  <2>1. Len(<<o>>) = 1 /\ <<o>>[1] = o /\ 1 \in 1 .. 1
    OBVIOUS
  <2> QED
    BY <1>1, <2>1 DEF Joins
<1>3. PICK e : Encodes(e, v, 1) /\ T!OptionBytes(v) = e[1]
  BY OptionBytesEncode
<1>4. PICK g : Encodes(g, options, 1) /\ T!OptionBytes(options) = g[1]
  BY <1>2, OptionBytesEncode
<1>5. PICK b : b = T!Encode(o) \o e[1]
  OBVIOUS
<1> DEFINE h == [i \in 1 .. l + 2 |-> IF i = 1 THEN b ELSE e[i - 1]]
<1>6. h[1] = b /\ \A i \in 1 .. l + 1 : h[i + 1] = e[i]
  <2>1. 1 \in 1 .. l + 2
    BY <1>1
  <2>2. ASSUME NEW i \in 1 .. l + 1 PROVE h[i + 1] = e[i]
    <3>1. i + 1 \in 1 .. l + 2 /\ i + 1 # 1 /\ (i + 1) - 1 = i
      BY <1>1
    <3> QED
      BY <3>1
  <2> QED
    BY <2>1, <2>2
<1> HIDE DEF h
<1>7. \A i \in 1 .. Len(options) + 1 : h[i] = EncodedFrom(options, i, h[i + 1])
  <2> TAKE i \in 1 .. Len(options) + 1
  <2>1. CASE i = 1
    <3>1. h[1 + 1] = e[1] /\ ~ (1 > Len(options))
      BY <1>1, <1>2, <1>6
    <3>2. EncodedFrom(options, 1, e[1]) = b
      BY <1>2, <1>5, <3>1 DEF EncodedFrom, T!OptEndOfList
    <3> QED
      BY <1>6, <2>1, <3>1, <3>2
  <2>2. CASE i # 1
    <3>1. PICK j \in 1 .. l + 1 : i = j + 1
      <4>1. i - 1 \in 1 .. l + 1 /\ i = (i - 1) + 1
        BY <1>1, <1>2, <2>2
      <4> QED
        BY <4>1
    <3>2. h[i] = e[j]
      BY <1>6, <3>1
    <3>3. e[j] = EncodedFrom(v, j, e[j + 1])
      BY <1>1, <1>3, <3>1 DEF Encodes
    <3>4. CASE j = l + 1
      <4>1. j > Len(v) /\ i > Len(options)
        BY <1>1, <1>2, <3>1, <3>4
      <4> QED
        BY <3>2, <3>3, <4>1 DEF EncodedFrom
    <3>5. CASE j # l + 1
      <4>1. /\ j \in 1 .. l /\ j + 1 \in 1 .. l + 1 /\ i = 1 + j
            /\ ~ (j > Len(v)) /\ ~ (i > Len(options))
        BY <1>1, <1>2, <3>1, <3>5
      <4>2. options[i] = v[j]
        BY <1>2, <4>1
      <4>3. h[i + 1] = e[j + 1]
        BY <1>6, <3>1, <4>1
      <4> QED
        BY <3>2, <3>3, <4>1, <4>2, <4>3 DEF EncodedFrom
    <3> QED
      BY <3>4, <3>5
  <2> QED
    BY <2>1, <2>2
<1>8. \A i \in 1 .. Len(options) + 1 : g[i] = EncodedFrom(options, i, g[i + 1])
  BY <1>4 DEF Encodes
<1>9. g[1] = h[1]
  BY <1>2, <1>7, <1>8, SameEncoding
<1> QED
  BY <1>3, <1>4, <1>5, <1>6, <1>9

-----------------------------------------------------------------------------
(* Parsing options.                                                        *)

Before(option, rest) == IF rest.ok THEN T!Parsed(<<option>> \o rest.value) ELSE rest

\* The options from byte i on, when f has those from a later byte on.
ParsedFrom(w, i, f) ==
  IF i > Len(w) THEN T!Parsed(<<>>)
  ELSE CASE w[i] = T!OptEndOfList -> T!Parsed(<<>>)
         [] w[i] = T!OptNOP -> Before(T!Bodiless(T!OptNOP), f[i + 1])
         [] OTHER -> IF T!Fits(w, i) THEN Before(T!OptionAt(w, i), f[i + w[i + 1]])
                     ELSE T!Malformed

Parses(f, w, first) ==
  /\ f = [i \in first .. Len(w) + 1 |-> f[i]]
  /\ \A i \in first .. Len(w) + 1 : f[i] = ParsedFrom(w, i, f)

\* ParsedFrom looks at later bytes only.
LEMMA ParsesLater ==
  ASSUME NEW w \in Seq(Byte), NEW i \in 1 .. Len(w) + 1, NEW f, NEW g,
         \A j \in i + 1 .. Len(w) + 1 : f[j] = g[j]
  PROVE  ParsedFrom(w, i, f) = ParsedFrom(w, i, g)
<1> DEFINE n == Len(w)
<1>0. n \in Nat /\ i \in Nat /\ 1 <= i /\ i <= n + 1
  OBVIOUS
<1>1. CASE i > n
  BY <1>1 DEF ParsedFrom
<1>2. CASE i <= n
  <2>1. f[i + 1] = g[i + 1]
    BY <1>0, <1>2
  <2>2. T!Fits(w, i) => f[i + w[i + 1]] = g[i + w[i + 1]]
    <3> HAVE T!Fits(w, i)
    <3>1. i + 1 <= n /\ w[i + 1] >= 2 /\ i + w[i + 1] - 1 <= n
      BY DEF T!Fits
    <3>2. w[i + 1] \in Nat
      <4>1. i + 1 \in 1 .. Len(w)
        BY <1>0, <3>1
      <4>2. w[i + 1] \in Byte
        BY <4>1, Entries
      <4> QED
        BY <4>2 DEF Byte, Below
    <3> DEFINE j == i + w[i + 1]
    <3>3. j \in i + 1 .. n + 1
      BY <1>0, <3>1, <3>2
    <3> HIDE DEF j
    <3>4. f[j] = g[j]
      BY <3>3
    <3> QED
      BY <3>4 DEF j
  <2> QED
    BY <2>1, <2>2 DEF ParsedFrom
<1> QED
  BY <1>0, <1>1, <1>2

LEMMA SomethingParses ==
  ASSUME NEW w \in Seq(Byte)
  PROVE  \E f : Parses(f, w, 1)
<1> DEFINE n == Len(w)
           S == {j \in 0 .. n : \E f : Parses(f, w, n + 1 - j)}
<1>0. n \in Nat
  OBVIOUS
<1>1. 0 \in S
  <2> DEFINE f == [i \in n + 1 .. n + 1 |-> T!Parsed(<<>>)]
  <2>1. f = [i \in n + 1 .. n + 1 |-> f[i]]
    OBVIOUS
  <2>2. \A i \in n + 1 .. n + 1 : f[i] = ParsedFrom(w, i, f)
    <3> TAKE i \in n + 1 .. n + 1
    <3>1. i > Len(w)
      BY <1>0
    <3>2. ParsedFrom(w, i, f) = T!Parsed(<<>>)
      BY <3>1 DEF ParsedFrom
    <3> QED
      BY <3>2
  <2> HIDE DEF f
  <2>3. Parses(f, w, n + 1 - 0)
    BY <1>0, <2>1, <2>2 DEF Parses
  <2> QED
    BY <1>0, <2>3
<1>2. ASSUME NEW j \in 0 .. n - 1, j \in S PROVE j + 1 \in S
  <2> DEFINE k == n + 1 - j
             p == k - 1
  <2>1. PICK f : Parses(f, w, k)
    BY <1>2
  <2>2. k \in Nat /\ p \in 1 .. n /\ p + 1 = k /\ n + 1 - (j + 1) = p
    BY <1>0
  <2> HIDE DEF k, p
  <2> DEFINE b == ParsedFrom(w, p, f)
             g == [i \in p .. n + 1 |-> IF i = p THEN b ELSE f[i]]
  <2> HIDE DEF b
  <2>3. g[p] = b /\ \A i \in k .. n + 1 : g[i] = f[i]
    BY <1>0, <2>2
  <2>4. g = [i \in p .. n + 1 |-> g[i]]
    OBVIOUS
  <2> HIDE DEF g
  <2>5. \A i \in p .. n + 1 : g[i] = ParsedFrom(w, i, g)
    <3> TAKE i \in p .. n + 1
    <3>0. i \in 1 .. Len(w) + 1 /\ \A l \in i + 1 .. Len(w) + 1 : l \in k .. n + 1
      BY <1>0, <2>2
    <3>1. ParsedFrom(w, i, f) = ParsedFrom(w, i, g)
      <4>1. \A l \in i + 1 .. Len(w) + 1 : f[l] = g[l]
        BY <2>3, <3>0
      <4> QED
        BY <3>0, <4>1, ParsesLater
    <3>2. CASE i = p
      BY <2>3, <3>1, <3>2 DEF b
    <3>3. CASE i # p
      <4>1. i \in k .. n + 1
        BY <1>0, <2>2, <3>3
      <4>2. f[i] = ParsedFrom(w, i, f)
        BY <2>1, <4>1 DEF Parses
      <4> QED
        BY <2>3, <3>1, <4>1, <4>2
    <3> QED
      BY <3>2, <3>3
  <2>6. Parses(g, w, p)
    BY <2>4, <2>5 DEF Parses
  <2> QED
    BY <1>0, <2>2, <2>6
<1> HIDE DEF S
<1>3. \A j \in 0 .. n : j \in S
  BY <1>0, <1>1, <1>2, UpwardInduction
<1>4. n \in S
  BY <1>0, <1>3
<1>5. \E f : Parses(f, w, n + 1 - n)
  BY <1>4 DEF S
<1>6. n + 1 - n = 1
  BY <1>0
<1> QED
  BY <1>5, <1>6

LEMMA ParseOptionsParses ==
  ASSUME NEW w \in Seq(Byte)
  PROVE  \E f : Parses(f, w, 1) /\ T!ParseOptions(w) = f[1]
<1> DEFINE Follows(option, rest) ==
             IF rest.ok THEN T!Parsed(<<option>> \o rest.value) ELSE rest
           Body(f, i) ==
             IF i > Len(w) THEN T!Parsed(<<>>)
             ELSE CASE w[i] = T!OptEndOfList -> T!Parsed(<<>>)
                    [] w[i] = T!OptNOP -> Follows(T!Bodiless(T!OptNOP), f[i + 1])
                    [] OTHER -> IF T!Fits(w, i)
                                THEN Follows(T!OptionAt(w, i), f[i + w[i + 1]])
                                ELSE T!Malformed
           f == CHOOSE g : g = [i \in 1 .. Len(w) + 1 |-> Body(g, i)]
<1>1. T!ParseOptions(w) = f[1]
  BY DEF T!ParseOptions
<1>2. PICK g : Parses(g, w, 1)
  BY SomethingParses
<1>3. \A h, i : Body(h, i) = ParsedFrom(w, i, h)
  BY DEF ParsedFrom, Before
<1>4. g = [i \in 1 .. Len(w) + 1 |-> g[i]]
  BY <1>2 DEF Parses
<1>5. \A i \in 1 .. Len(w) + 1 : g[i] = Body(g, i)
  BY <1>2, <1>3 DEF Parses
<1> HIDE DEF Body
<1>6. g = [i \in 1 .. Len(w) + 1 |-> Body(g, i)]
  BY <1>4, <1>5
<1>7. f = [i \in 1 .. Len(w) + 1 |-> Body(f, i)]
  BY <1>6
<1> HIDE DEF f
<1>8. f = [i \in 1 .. Len(w) + 1 |-> f[i]]
  BY <1>7
<1>9. \A i \in 1 .. Len(w) + 1 : f[i] = ParsedFrom(w, i, f)
  BY <1>3, <1>7
<1>10. Parses(f, w, 1)
  BY <1>8, <1>9 DEF Parses
<1> QED
  BY <1>1, <1>10

-----------------------------------------------------------------------------
(* What is encoded is parsed again.                                        *)

MeantTo(options, n) ==
  /\ \A i \in 1 .. n : options[i].Kind # T!OptEndOfList
  /\ n < Len(options) => options[n + 1].Kind = T!OptEndOfList

LEMMA MeantOptions ==
  ASSUME NEW options \in Seq(TcpOptionSet)
  PROVE  \E n \in 0 .. Len(options) :
           MeantTo(options, n) /\ Meant(options) = SubSeq(options, 1, n)
<1> DEFINE S == {n \in 0 .. Len(options) :
                   n < Len(options) => options[n + 1].Kind = T!OptEndOfList}
<1>1. Len(options) \in Nat /\ Len(options) \in S /\ S \in SUBSET Nat
  OBVIOUS
<1>2. PICK n \in S : \A m \in S : n <= m
  <2> HIDE DEF S
  <2>1. S # {}
    BY <1>1
  <2> QED
    BY <1>1, <2>1, LeastNumber
<1>3. n \in 0 .. Len(options) /\ (n < Len(options) => options[n + 1].Kind = T!OptEndOfList)
  OBVIOUS
<1>4. \A i \in 1 .. n : options[i].Kind # T!OptEndOfList
  <2> SUFFICES ASSUME NEW i \in 1 .. n, options[i].Kind = T!OptEndOfList PROVE FALSE
    OBVIOUS
  <2>1. i - 1 \in 0 .. Len(options) /\ (i - 1) + 1 = i /\ ~ (n <= i - 1)
    BY <1>1, <1>3
  <2>2. i - 1 \in S
    BY <2>1
  <2> QED
    BY <1>2, <2>1, <2>2
<1>5. \E l \in 0 .. Len(options) : MeantTo(options, l)
  BY <1>3, <1>4 DEF MeantTo
<1>6. Meant(options)
        = SubSeq(options, 1, CHOOSE l \in 0 .. Len(options) : MeantTo(options, l))
  BY DEF Meant, MeantTo
<1> QED
  BY <1>5, <1>6

LEMMA PartOf ==
  ASSUME NEW S, NEW w \in Seq(S), NEW data \in Seq(S), NEW n \in Nat,
         n + Len(data) <= Len(w), \A i \in 1 .. Len(data) : w[n + i] = data[i]
  PROVE  SubSeq(w, n + 1, n + Len(data)) = data
<1> DEFINE e == SubSeq(w, n + 1, n + Len(data))
<1>1. Len(data) \in Nat
  OBVIOUS
<1>2. e = [i \in 1 .. Len(data) |-> w[n + i]]
  <2>1. e = [i \in 1 .. n + Len(data) - (n + 1) + 1 |-> w[i + (n + 1) - 1]]
    BY DEF SubSeq
  <2>2. n + Len(data) - (n + 1) + 1 = Len(data)
    BY <1>1
  <2>3. \A i \in 1 .. Len(data) : i + (n + 1) - 1 = n + i
    BY <1>1
  <2> HIDE DEF e
  <2> QED
    BY <2>1, <2>2, <2>3
<1>3. e = [i \in 1 .. Len(data) |-> data[i]]
  BY <1>2
<1>4. data = [i \in 1 .. Len(data) |-> data[i]]
  OBVIOUS
<1> QED
  BY <1>3, <1>4

\* The bytes b are in w behind q bytes; there are only zeros behind q bytes.
At(w, q, b) == q + Len(b) <= Len(w) /\ \A j \in 1 .. Len(b) : w[q + j] = b[j]
Zeros(w, q) == \A j \in 1 .. Len(w) : j > q => w[j] = 0

LEMMA AtBoth ==
  ASSUME NEW w \in Seq(Byte), NEW q \in Nat, NEW s \in Seq(Byte), NEW t \in Seq(Byte),
         NEW x, Joins(x, s, t, Byte), At(w, q, x)
  PROVE  At(w, q, s) /\ At(w, q + Len(s), t)
<1>1. /\ Len(x) = Len(s) + Len(t) /\ Len(s) \in Nat /\ Len(t) \in Nat /\ Len(w) \in Nat
      /\ \A i \in 1 .. Len(s) : x[i] = s[i]
      /\ \A i \in 1 .. Len(t) : x[Len(s) + i] = t[i]
      /\ q + Len(x) <= Len(w) /\ \A j \in 1 .. Len(x) : w[q + j] = x[j]
  BY DEF Joins, At
<1>2. At(w, q, s)
  BY <1>1 DEF At
<1>3. At(w, q + Len(s), t)
  <2>1. (q + Len(s)) + Len(t) <= Len(w)
    BY <1>1
  <2>2. \A i \in 1 .. Len(t) : w[(q + Len(s)) + i] = t[i]
    <3> TAKE i \in 1 .. Len(t)
    <3>1. Len(s) + i \in 1 .. Len(x) /\ (q + Len(s)) + i = q + (Len(s) + i)
      BY <1>1
    <3> QED
      BY <1>1, <3>1
  <2> QED
    BY <2>1, <2>2 DEF At
<1> QED
  BY <1>2, <1>3

\* Wherever b is, with only zeros behind it, f finds these options.
Reads(w, f, b, options) ==
  \A q \in 0 .. Len(w) :
    At(w, q, b) /\ Zeros(w, q + Len(b)) => f[q + 1] = T!Parsed(options)

LEMMA ParsedCases ==
  ASSUME NEW w, NEW i, NEW f, ~ (i > Len(w))
  PROVE  /\ w[i] = 0 => ParsedFrom(w, i, f) = T!Parsed(<<>>)
         /\ w[i] = 1 => ParsedFrom(w, i, f) = Before(T!Bodiless(1), f[i + 1])
         /\ w[i] # 0 /\ w[i] # 1 /\ T!Fits(w, i)
              => ParsedFrom(w, i, f) = Before(T!OptionAt(w, i), f[i + w[i + 1]])
         /\ w[i] # 0 /\ w[i] # 1 /\ ~ T!Fits(w, i) => ParsedFrom(w, i, f) = T!Malformed
<1> DEFINE first == Before(T!Bodiless(1), f[i + 1])
           second == Before(T!OptionAt(w, i), f[i + w[i + 1]])
           ended == T!Parsed(<<>>)
           x == w[i]
<1>1. ParsedFrom(w, i, f) = CASE x = 0 -> ended
                              [] x = 1 -> first
                              [] OTHER -> IF T!Fits(w, i) THEN second ELSE T!Malformed
  BY DEF ParsedFrom, T!OptEndOfList, T!OptNOP
<1> HIDE DEF first, second, ended, x
<1>2. /\ x = 0 => ParsedFrom(w, i, f) = ended
      /\ x = 1 => ParsedFrom(w, i, f) = first
      /\ x # 0 /\ x # 1 /\ T!Fits(w, i) => ParsedFrom(w, i, f) = second
      /\ x # 0 /\ x # 1 /\ ~ T!Fits(w, i) => ParsedFrom(w, i, f) = T!Malformed
  BY <1>1
<1> QED
  BY <1>2 DEF first, second, ended, x

EndsList(b) == b = <<>> \/ b = <<0>>

LEMMA ReadsEnd ==
  ASSUME NEW w \in Seq(Byte), NEW f, Parses(f, w, 1), NEW b, EndsList(b)
  PROVE  Reads(w, f, b, <<>>)
<1> SUFFICES ASSUME NEW q \in 0 .. Len(w), At(w, q, b), Zeros(w, q + Len(b))
             PROVE  f[q + 1] = T!Parsed(<<>>)
  BY DEF Reads
<1>1. Len(w) \in Nat /\ q + 1 \in 1 .. Len(w) + 1
  OBVIOUS
<1>2. f[q + 1] = ParsedFrom(w, q + 1, f)
  BY <1>1 DEF Parses
<1>3. CASE q = Len(w)
  <2>1. q + 1 > Len(w)
    BY <1>1, <1>3
  <2> QED
    BY <1>2, <2>1 DEF ParsedFrom
<1>4. CASE q # Len(w)
  <2>1. q + 1 \in 1 .. Len(w) /\ ~ (q + 1 > Len(w)) /\ q \in Nat
    BY <1>1, <1>4
  <2>2. w[q + 1] = 0
    <3>1. CASE b = <<>>
      <4>1. q + Len(b) = q
        BY <2>1, <3>1
      <4>2. Zeros(w, q) /\ q + 1 > q
        BY <2>1, <4>1
      <4> QED
        BY <2>1, <4>2 DEF Zeros
    <3>2. CASE b = <<0>>
      <4>1. 1 \in 1 .. Len(b) /\ b[1] = 0
        BY <3>2
      <4> QED
        BY <4>1 DEF At
    <3> QED
      BY <3>1, <3>2 DEF EndsList
  <2>3. ParsedFrom(w, q + 1, f) = T!Parsed(<<>>)
    <3> DEFINE i == q + 1
    <3>1. ~ (i > Len(w)) /\ w[i] = 0
      BY <2>1, <2>2
    <3> HIDE DEF i
    <3>2. ParsedFrom(w, i, f) = T!Parsed(<<>>)
      BY <3>1, ParsedCases
    <3> QED
      BY <3>2 DEF i
  <2> QED
    BY <1>2, <2>3
<1> QED
  BY <1>3, <1>4

LEMMA OptionFound ==
  ASSUME NEW w \in Seq(Byte), NEW q \in Nat, NEW o \in TcpOptionSet, WellFormed(o),
         o.Kind # 0, o.Kind # 1, At(w, q, T!Encode(o))
  PROVE  /\ q + 1 \in 1 .. Len(w) /\ w[q + 1] = o.Kind /\ w[q + 2] = o.Length
         /\ T!Fits(w, q + 1) /\ T!OptionAt(w, q + 1) = o
         /\ Len(T!Encode(o)) = o.Length
<1>1. o.Kind \in Byte /\ o.Length \in Byte /\ o.Data \in Seq(Byte) /\ Len(o.Data) \in Nat
  BY DEF TcpOptionSet
<1>2. o.Length = 2 + Len(o.Data)
  BY DEF WellFormed, T!OptEndOfList, T!OptNOP
<1> DEFINE c == T!Encode(o)
           h == <<o.Kind, o.Length>>
<1>3. c = h \o o.Data
  BY DEF T!Encode, T!OptEndOfList, T!OptNOP
<1>4. h \in Seq(Byte) /\ Len(h) = 2 /\ h[1] = o.Kind /\ h[2] = o.Length
  BY <1>1
<1> HIDE DEF c, h
<1>5. Joins(c, h, o.Data, Byte)
  BY <1>1, <1>3, <1>4, Joined
<1>6. At(w, q, h) /\ At(w, q + 2, o.Data)
  <2>1. At(w, q, c)
    BY DEF c
  <2> QED
    BY <1>1, <1>4, <1>5, <2>1, AtBoth
<1>7. w[q + 1] = o.Kind /\ w[q + 2] = o.Length
  <2>1. 1 \in 1 .. Len(h) /\ 2 \in 1 .. Len(h)
    BY <1>4
  <2> QED
    BY <1>4, <1>6, <2>1 DEF At
<1>8. /\ (q + 2) + Len(o.Data) <= Len(w)
      /\ \A j \in 1 .. Len(o.Data) : w[(q + 2) + j] = o.Data[j]
  BY <1>6 DEF At
<1>9. PICK l \in Nat, n \in Nat : l = Len(o.Data) /\ n = Len(w)
  BY <1>1
<1>10. PICK x : x = o.Length
  OBVIOUS
<1>11. x = 2 + l /\ w[q + 2] = x /\ (q + 2) + l <= n
  BY <1>2, <1>7, <1>8, <1>9, <1>10
<1>12. /\ q + 1 \in 1 .. n /\ (q + 1) + 1 = q + 2 /\ (q + 1) + 2 = (q + 2) + 1
       /\ (q + 1) + 1 <= n /\ x >= 2 /\ (q + 1) + x - 1 = (q + 2) + l
  BY <1>11
<1>13. T!Fits(w, q + 1)
  BY <1>9, <1>11, <1>12 DEF T!Fits
<1>14. T!DataAt(w, q + 1) = o.Data
  <2> DEFINE m == q + 2
  <2>0. m \in Nat
    OBVIOUS
  <2>1. m + Len(o.Data) <= Len(w)
    BY <1>8
  <2>2. \A j \in 1 .. Len(o.Data) : w[m + j] = o.Data[j]
    BY <1>8
  <2> HIDE DEF m
  <2>3. SubSeq(w, m + 1, m + Len(o.Data)) = o.Data
    BY <1>1, <2>0, <2>1, <2>2, PartOf
  <2>4. T!DataAt(w, q + 1) = SubSeq(w, (q + 1) + 2, (q + 1) + w[(q + 1) + 1] - 1)
    BY DEF T!DataAt
  <2>5. (q + 1) + 2 = m + 1 /\ (q + 1) + w[(q + 1) + 1] - 1 = m + Len(o.Data)
    BY <1>9, <1>11, <1>12 DEF m
  <2> QED
    BY <2>3, <2>4, <2>5
<1>15. T!OptionAt(w, q + 1) = o
  <2>1. (q + 1) + 1 = q + 2
    OBVIOUS
  <2>2. T!OptionAt(w, q + 1) = [Kind |-> o.Kind, Length |-> o.Length, Data |-> o.Data]
    BY <1>7, <1>14, <2>1 DEF T!OptionAt
  <2>3. o = [Kind |-> o.Kind, Length |-> o.Length, Data |-> o.Data]
    BY DEF TcpOptionSet
  <2> QED
    BY <2>2, <2>3
<1>16. Len(c) = o.Length
  BY <1>2, <1>4, <1>5 DEF Joins
<1> QED
  BY <1>7, <1>9, <1>12, <1>13, <1>15, <1>16 DEF c

LEMMA ReadsOption ==
  ASSUME NEW w \in Seq(Byte), NEW f, Parses(f, w, 1),
         NEW o \in TcpOptionSet, WellFormed(o), o.Kind # 0,
         NEW tail \in Seq(Byte), NEW rest, Reads(w, f, tail, rest),
         NEW b, Joins(b, T!Encode(o), tail, Byte),
         NEW options, options = <<o>> \o rest
  PROVE  Reads(w, f, b, options)
<1> SUFFICES ASSUME NEW q \in 0 .. Len(w), At(w, q, b), Zeros(w, q + Len(b))
             PROVE  f[q + 1] = T!Parsed(options)
  BY DEF Reads
<1> DEFINE c == T!Encode(o)
<1>1. c \in Seq(Byte) /\ Len(c) \in Nat /\ Len(c) >= 1 /\ Len(w) \in Nat /\ q \in Nat
  BY EncodedOption
<1>2. Joins(b, c, tail, Byte)
  OBVIOUS
<1> HIDE DEF c
<1>3. At(w, q, c) /\ At(w, q + Len(c), tail)
  BY <1>1, <1>2, AtBoth
<1>4. f[q + Len(c) + 1] = T!Parsed(rest)
  <2> DEFINE p == q + Len(c)
  <2>1. p \in 0 .. Len(w)
    BY <1>1, <1>3 DEF At
  <2>2. p + Len(tail) = q + Len(b)
    <3>1. Len(b) = Len(c) + Len(tail)
      BY <1>2 DEF Joins
    <3>2. Len(tail) \in Nat
      OBVIOUS
    <3> QED
      BY <1>1, <3>1, <3>2
  <2>3. Zeros(w, p + Len(tail))
    BY <2>2
  <2>4. At(w, p, tail)
    BY <1>3
  <2> HIDE DEF p
  <2>5. f[p + 1] = T!Parsed(rest)
    BY <2>1, <2>3, <2>4 DEF Reads
  <2> QED
    BY <2>5 DEF p
<1>5. Before(o, T!Parsed(rest)) = T!Parsed(options)
  BY DEF Before, T!Parsed
<1>6. f[q + 1] = ParsedFrom(w, q + 1, f) /\ q + 1 \in 1 .. Len(w)
  <2>1. q + 1 \in 1 .. Len(w)
    BY <1>1, <1>3 DEF At
  <2>2. q + 1 \in 1 .. Len(w) + 1
    BY <1>1, <2>1
  <2> QED
    BY <2>1, <2>2 DEF Parses
<1>7. CASE o.Kind = 1
  <2>1. o = T!Bodiless(1)
    BY <1>7 DEF WellFormed, T!OptEndOfList, T!OptNOP
  <2>2. c = <<1>>
    BY <1>7 DEF c, T!Encode, T!OptNOP
  <2>3. Len(c) = 1 /\ c[1] = 1
    BY <2>2
  <2>4. w[q + 1] = 1
    BY <1>3, <2>3 DEF At
  <2>5. f[(q + 1) + 1] = T!Parsed(rest)
    BY <1>4, <2>3
  <2> QED
    BY <1>5, <1>6, <2>1, <2>4, <2>5 DEF ParsedFrom, T!OptEndOfList, T!OptNOP
<1>8. CASE o.Kind # 1
  <2>1. /\ w[q + 1] = o.Kind /\ w[q + 2] = o.Length
        /\ T!Fits(w, q + 1) /\ T!OptionAt(w, q + 1) = o /\ Len(c) = o.Length
    BY <1>1, <1>3, <1>8, OptionFound DEF c
  <2>2. (q + 1) + 1 = q + 2 /\ (q + 1) + o.Length = q + Len(c) + 1
    <3>1. PICK l \in Nat : l = Len(c)
      BY <1>1
    <3>2. (q + 1) + 1 = q + 2 /\ (q + 1) + l = q + l + 1
      BY <1>1
    <3> QED
      BY <2>1, <3>1, <3>2
  <2>3. f[(q + 1) + w[(q + 1) + 1]] = T!Parsed(rest)
    BY <1>4, <2>1, <2>2
  <2> QED
    BY <1>5, <1>6, <1>8, <2>1, <2>3 DEF ParsedFrom, T!OptEndOfList, T!OptNOP
<1> QED
  BY <1>7, <1>8

LEMMA FirstAndRest ==
  ASSUME NEW S, NEW s \in Seq(S), NEW m \in 1 .. Len(s), NEW i \in 1 .. m
  PROVE  SubSeq(s, i, m) = <<s[i]>> \o SubSeq(s, i + 1, m)
<1> DEFINE r == SubSeq(s, i + 1, m)
           l == m - i
<1>1. r \in Seq(S) /\ Len(r) = l /\ l \in Nat /\ \A j \in 1 .. l : r[j] = s[i + j]
  OBVIOUS
<1>2. SubSeq(s, i, m) = [j \in 1 .. l + 1 |-> s[i + j - 1]]
  OBVIOUS
<1>3. <<s[i]>> \in Seq(S) /\ Len(<<s[i]>>) = 1 /\ <<s[i]>>[1] = s[i]
  OBVIOUS
<1> HIDE DEF r, l
<1>4. PICK x : x = <<s[i]>> \o r
  OBVIOUS
<1>5. x \in Seq(S) /\ Len(x) = l + 1 /\ x[1] = s[i] /\ \A j \in 1 .. l : x[1 + j] = r[j]
  <2>1. Joins(x, <<s[i]>>, r, S)
    BY <1>1, <1>3, <1>4, Joined
  <2> QED
    BY <1>1, <1>3, <2>1 DEF Joins
<1>6. \A j \in 1 .. l + 1 : x[j] = s[i + j - 1]
  <2> TAKE j \in 1 .. l + 1
  <2>1. CASE j = 1
    <3>1. i + 1 - 1 = i
      OBVIOUS
    <3> QED
      BY <1>5, <2>1, <3>1
  <2>2. CASE j # 1
    <3>1. j - 1 \in 1 .. l /\ 1 + (j - 1) = j /\ i + (j - 1) = i + j - 1
      BY <1>1, <2>2
    <3> QED
      BY <1>1, <1>5, <3>1
  <2> QED
    BY <2>1, <2>2
<1>7. x = [j \in 1 .. l + 1 |-> x[j]]
  BY <1>5
<1>8. SubSeq(s, i, m) = x
  BY <1>2, <1>6, <1>7
<1> QED
  BY <1>4, <1>8 DEF r

LEMMA OptionsReadBack ==
  ASSUME NEW options \in Seq(TcpOptionSet),
         \A i \in 1 .. Len(options) : WellFormed(options[i]),
         NEW e, Encodes(e, options, 1),
         NEW w \in Seq(Byte), At(w, 0, e[1]), Zeros(w, Len(e[1]))
  PROVE  T!ParseOptions(w) = T!Parsed(Meant(options))
<1>1. PICK m \in 0 .. Len(options) :
        MeantTo(options, m) /\ Meant(options) = SubSeq(options, 1, m)
  BY MeantOptions
<1>2. PICK f : Parses(f, w, 1) /\ T!ParseOptions(w) = f[1]
  BY ParseOptionsParses
<1> DEFINE S == {j \in 0 .. m : Reads(w, f, e[m + 1 - j], SubSeq(options, m + 1 - j, m))}
<1>3. m \in Nat /\ Len(options) \in Nat /\ m <= Len(options)
  OBVIOUS
<1>4. \A i \in 1 .. Len(options) + 1 : e[i] \in Seq(Byte)
  BY DEF Encodes
<1>5. \A i \in 1 .. Len(options) + 1 : e[i] = EncodedFrom(options, i, e[i + 1])
  BY DEF Encodes
<1>6. 0 \in S
  <2>1. m + 1 - 0 = m + 1 /\ m + 1 \in 1 .. Len(options) + 1
    BY <1>3
  <2>2. SubSeq(options, m + 1, m) = <<>>
    BY <1>3
  <2>3. e[m + 1] = <<>> \/ e[m + 1] = <<0>>
    <3>1. e[m + 1] = EncodedFrom(options, m + 1, e[m + 1 + 1])
      BY <1>5, <2>1
    <3>2. CASE m = Len(options)
      <4>1. m + 1 > Len(options)
        BY <1>3, <3>2
      <4> QED
        BY <3>1, <4>1 DEF EncodedFrom
    <3>3. CASE m < Len(options)
      <4>1. ~ (m + 1 > Len(options)) /\ options[m + 1].Kind = 0
        BY <1>1, <1>3, <3>3 DEF MeantTo, T!OptEndOfList
      <4>2. e[m + 1] = T!Encode(options[m + 1])
        BY <3>1, <4>1 DEF EncodedFrom, T!OptEndOfList
      <4>3. T!Encode(options[m + 1]) = <<0>>
        BY <4>1 DEF T!Encode, T!OptEndOfList
      <4> QED
        BY <4>2, <4>3
    <3> QED
      BY <1>3, <3>2, <3>3
  <2>4. Reads(w, f, e[m + 1], <<>>)
    BY <1>2, <2>3, ReadsEnd DEF EndsList
  <2>5. Reads(w, f, e[m + 1 - 0], SubSeq(options, m + 1 - 0, m))
    <3>1. m + 1 - 0 = m + 1
      BY <1>3
    <3> QED
      BY <2>2, <2>4, <3>1
  <2> QED
    BY <1>3, <2>5
<1>7. ASSUME NEW j \in 0 .. m - 1, j \in S PROVE j + 1 \in S
  <2> DEFINE i == m + 1 - (j + 1)
  <2>1. i \in 1 .. m /\ i + 1 = m + 1 - j /\ j + 1 \in 0 .. m
    BY <1>3
  <2>2. Reads(w, f, e[i + 1], SubSeq(options, i + 1, m))
    BY <1>7, <2>1
  <2> HIDE DEF i
  <2>3. i \in 1 .. Len(options) /\ ~ (i > Len(options)) /\ i + 1 \in 1 .. Len(options) + 1
    BY <1>3, <2>1
  <2> DEFINE o == options[i]
  <2>4. o \in TcpOptionSet /\ WellFormed(o) /\ o.Kind # 0
    <3>1. options[i].Kind # 0
      BY <1>1, <2>1 DEF MeantTo, T!OptEndOfList
    <3>2. options[i] \in TcpOptionSet
      BY <2>3, Entries
    <3> QED
      BY <2>3, <3>1, <3>2
  <2>5. e[i] = T!Encode(o) \o e[i + 1]
    <3>1. e[i] = EncodedFrom(options, i, e[i + 1])
      <4>1. i \in 1 .. Len(options) + 1
        BY <1>3, <2>3
      <4> QED
        BY <1>5, <4>1
    <3> QED
      BY <2>3, <2>4, <3>1 DEF EncodedFrom, T!OptEndOfList
  <2>6. SubSeq(options, i, m) = <<o>> \o SubSeq(options, i + 1, m)
    <3>1. CASE m \in 1 .. Len(options)
      BY <2>1, <3>1, FirstAndRest
    <3> QED
      BY <1>3, <2>1, <3>1
  <2> HIDE DEF o
  <2>7. Joins(e[i], T!Encode(o), e[i + 1], Byte)
    <3>1. T!Encode(o) \in Seq(Byte) /\ e[i + 1] \in Seq(Byte)
      BY <1>4, <2>3, <2>4, EncodedOption
    <3> QED
      BY <2>5, <3>1, Joined
  <2>8. Reads(w, f, e[i], SubSeq(options, i, m))
    <3>1. e[i + 1] \in Seq(Byte)
      BY <1>4, <2>3
    <3> QED
      BY <1>2, <2>2, <2>4, <2>6, <2>7, <3>1, ReadsOption
  <2> QED
    BY <2>1, <2>8 DEF i
<1> HIDE DEF S
<1>8. \A j \in 0 .. m : j \in S
  BY <1>3, <1>6, <1>7, UpwardInduction
<1>9. Reads(w, f, e[1], SubSeq(options, 1, m))
  <2>1. m \in S /\ m + 1 - m = 1
    BY <1>3, <1>8
  <2> QED
    BY <2>1 DEF S
<1>10. f[0 + 1] = T!Parsed(SubSeq(options, 1, m))
  <2>1. 0 \in 0 .. Len(w)
    OBVIOUS
  <2>2. 0 + Len(e[1]) = Len(e[1])
    <3>1. e[1] \in Seq(Byte)
      BY <1>3, <1>4
    <3> QED
      BY <3>1
  <2> QED
    BY <1>9, <2>1, <2>2 DEF Reads
<1> QED
  BY <1>1, <1>2, <1>10

LEMMA PaddedBytes ==
  ASSUME NEW b \in Seq(Byte), Len(b) <= 40, NEW w, w = T!Pad(b)
  PROVE  /\ w \in Seq(Byte) /\ Len(w) <= 40 /\ Len(w) % 4 = 0 /\ Len(w) >= Len(b)
         /\ At(w, 0, b) /\ Zeros(w, Len(b))
<1> DEFINE n == Len(b)
           p == (4 - (n % 4)) % 4
           z == [i \in 1 .. p |-> 0]
<1>1. n \in Nat
  OBVIOUS
<1>2. p \in Nat /\ n + p <= 40 /\ (n + p) % 4 = 0
  <2> HIDE DEF n
  <2> QED
    BY <1>1 DEF n
<1>3. w = b \o z
  BY DEF T!Pad, T!OptEndOfList
<1>4. z \in Seq(Byte) /\ Len(z) = p /\ \A i \in 1 .. p : z[i] = 0
  <2> HIDE DEF p
  <2>1. 0 \in Byte
    BY DEF Byte, Below
  <2>2. z \in [1 .. p -> Byte]
    BY <2>1
  <2> QED
    BY <1>2, <2>2
<1> HIDE DEF z
<1>5. Joins(w, b, z, Byte)
  BY <1>3, <1>4, Joined
<1> HIDE DEF p
<1>6. w \in Seq(Byte) /\ Len(w) = n + p
  BY <1>4, <1>5 DEF Joins
<1>7. At(w, 0, b)
  <2>1. \A i \in 1 .. Len(b) : w[i] = b[i]
    BY <1>5 DEF Joins
  <2>2. \A i \in 1 .. Len(b) : 0 + i = i
    OBVIOUS
  <2> QED
    BY <1>1, <1>2, <1>6, <2>1, <2>2 DEF At
<1>8. Zeros(w, Len(b))
  <2> SUFFICES ASSUME NEW j \in 1 .. Len(w), j > n PROVE w[j] = 0
    BY DEF Zeros
  <2>1. j - n \in 1 .. p /\ n + (j - n) = j
    BY <1>1, <1>2, <1>6
  <2>2. \A i \in 1 .. Len(z) : w[Len(b) + i] = z[i]
    BY <1>5 DEF Joins
  <2> QED
    BY <1>4, <2>1, <2>2
<1> QED
  BY <1>1, <1>2, <1>6, <1>7, <1>8

-----------------------------------------------------------------------------
(* Options of other implementations.                                       *)

\* Options as they are found: none ends the list, and they fit into room bytes.
Found(v, room) ==
  /\ v \in Seq(TcpOptionSet)
  /\ \A i \in 1 .. Len(v) : WellFormed(v[i]) /\ v[i].Kind # 0
  /\ Len(T!OptionBytes(v)) <= room

FoundOrNot(x, room) == x = T!Malformed \/ \E v : x = T!Parsed(v) /\ Found(v, room)

LEMMA FoundNone ==
  ASSUME NEW room \in Nat
  PROVE  FoundOrNot(T!Parsed(<<>>), room)
<1>1. <<>> \in Seq(TcpOptionSet) /\ Len(<<>>) = 0
  OBVIOUS
<1>2. Found(<<>>, room)
  BY <1>1, NoOptionBytes DEF Found
<1> QED
  BY <1>2 DEF FoundOrNot

LEMMA FoundBefore ==
  ASSUME NEW o \in TcpOptionSet, WellFormed(o), o.Kind # 0, NEW x, NEW room \in Nat,
         FoundOrNot(x, room)
  PROVE  FoundOrNot(Before(o, x), room + Len(T!Encode(o)))
<1>1. CASE x = T!Malformed
  <2>1. Before(o, x) = T!Malformed
    BY <1>1 DEF Before, T!Malformed
  <2> QED
    BY <2>1 DEF FoundOrNot
<1>2. ASSUME NEW v, x = T!Parsed(v), Found(v, room)
      PROVE  FoundOrNot(Before(o, x), room + Len(T!Encode(o)))
  <2>1. PICK options : options = <<o>> \o v
    OBVIOUS
  <2>2. Before(o, x) = T!Parsed(options)
    BY <1>2, <2>1 DEF Before, T!Parsed
  <2>3. v \in Seq(TcpOptionSet) /\ <<o>> \in Seq(TcpOptionSet)
    BY <1>2 DEF Found
  <2>4. Joins(options, <<o>>, v, TcpOptionSet)
    BY <2>1, <2>3, Joined
  <2>5. T!OptionBytes(options) = T!Encode(o) \o T!OptionBytes(v)
    BY <2>3, <2>4, FirstEncoded
  <2>6. Len(T!OptionBytes(options)) <= room + Len(T!Encode(o))
    <3>1. PICK b : b = T!OptionBytes(v)
      OBVIOUS
    <3>2. PICK c : c = T!Encode(o)
      OBVIOUS
    <3>3. PICK bytes : bytes = T!OptionBytes(options)
      OBVIOUS
    <3>4. b \in Seq(Byte)
      <4>1. PICK e : Encodes(e, v, 1) /\ T!OptionBytes(v) = e[1]
        BY <2>3, OptionBytesEncode
      <4>2. 1 \in 1 .. Len(v) + 1
        BY <2>3
      <4> QED
        BY <3>1, <4>1, <4>2 DEF Encodes
    <3>5. c \in Seq(Byte)
      BY <3>2, EncodedOption
    <3>6. Joins(bytes, c, b, Byte)
      BY <2>5, <3>1, <3>2, <3>3, <3>4, <3>5, Joined
    <3>7. Len(bytes) = Len(c) + Len(b) /\ Len(c) \in Nat /\ Len(b) \in Nat /\ Len(b) <= room
      BY <1>2, <3>1, <3>4, <3>5, <3>6 DEF Joins, Found
    <3>8. Len(bytes) <= room + Len(c)
      BY <3>7
    <3> QED
      BY <3>2, <3>3, <3>8
  <2>7. options \in Seq(TcpOptionSet)
    BY <2>4 DEF Joins
  <2>8. \A i \in 1 .. Len(options) : WellFormed(options[i]) /\ options[i].Kind # 0
    <3> TAKE i \in 1 .. Len(options)
    <3>1. PICK l \in Nat : l = Len(v)
      BY <2>3
    <3>2. /\ Len(options) = 1 + l /\ options[1] = o
          /\ \A j \in 1 .. l : options[1 + j] = v[j]
      <4>1. Len(<<o>>) = 1 /\ <<o>>[1] = o /\ 1 \in 1 .. 1
        OBVIOUS
      <4> QED
        BY <2>4, <3>1, <4>1 DEF Joins
    <3>3. CASE i = 1
      BY <3>2, <3>3
    <3>4. CASE i # 1
      <4>1. i - 1 \in 1 .. l /\ 1 + (i - 1) = i
        BY <3>1, <3>2, <3>4
      <4>2. options[i] = v[i - 1]
        BY <3>2, <4>1
      <4> QED
        BY <1>2, <3>1, <4>1, <4>2 DEF Found
    <3> QED
      BY <3>3, <3>4
  <2>9. Found(options, room + Len(T!Encode(o)))
    BY <2>6, <2>7, <2>8 DEF Found
  <2> QED
    BY <2>2, <2>9 DEF FoundOrNot
<1> QED
  BY <1>1, <1>2 DEF FoundOrNot

LEMMA PieceOf ==
  ASSUME NEW S, NEW w \in Seq(S), NEW a \in Nat, 1 <= a, NEW m \in Nat, a + m - 1 <= Len(w)
  PROVE  SubSeq(w, a, a + m - 1) \in Seq(S) /\ Len(SubSeq(w, a, a + m - 1)) = m
OBVIOUS

\* The option at i, if it fits, is one of the bytes up to the next.
LEMMA OptionRead ==
  ASSUME NEW w \in Seq(Byte), NEW i \in 1 .. Len(w), T!Fits(w, i),
         w[i] # 0, w[i] # 1, NEW o, o = T!OptionAt(w, i)
  PROVE  /\ o \in TcpOptionSet /\ WellFormed(o) /\ o.Kind # 0
         /\ Len(T!Encode(o)) = w[i + 1]
         /\ w[i + 1] \in Nat /\ w[i + 1] >= 2 /\ i + w[i + 1] <= Len(w) + 1
<1>1. PICK n \in Nat : n = Len(w)
  OBVIOUS
<1>2. PICK l : l = w[i + 1]
  OBVIOUS
<1>3. i \in 1 .. n /\ i + 1 <= n /\ l >= 2 /\ i + l - 1 <= n
  BY <1>1, <1>2 DEF T!Fits
<1>4. w[i] \in Byte /\ l \in Byte
  <2>1. i + 1 \in 1 .. Len(w)
    BY <1>1, <1>3
  <2> QED
    BY <1>2, <2>1, Entries
<1>5. l \in Nat
  BY <1>4 DEF Byte, Below
<1>6. PICK data : data = SubSeq(w, i + 2, i + l - 1)
  OBVIOUS
<1>7. data \in Seq(Byte) /\ Len(data) = l - 2
  <2>1. PICK m \in Nat : m = l - 2
    BY <1>3, <1>5
  <2>2. i + 2 \in Nat /\ 1 <= i + 2 /\ i + l - 1 = (i + 2) + m - 1 /\ (i + 2) + m - 1 <= n
    <3>1. i \in Nat /\ 1 <= i /\ i + (m + 2) - 1 <= n /\ l = m + 2
      BY <1>3, <1>5, <2>1
    <3> QED
      BY <3>1
  <2>3. data = SubSeq(w, i + 2, (i + 2) + m - 1)
    BY <1>6, <2>2
  <2>4. data \in Seq(Byte) /\ Len(data) = m
    BY <1>1, <2>2, <2>3, PieceOf
  <2> QED
    BY <2>1, <2>4
<1>8. o = [Kind |-> w[i], Length |-> l, Data |-> data]
  BY <1>2, <1>6 DEF T!OptionAt, T!DataAt
<1>9. o.Kind = w[i] /\ o.Length = l /\ o.Data = data /\ o \in TcpOptionSet
  BY <1>4, <1>7, <1>8 DEF TcpOptionSet
<1>10. o.Length = 2 + Len(o.Data)
  BY <1>5, <1>7, <1>9
<1>11. WellFormed(o)
  BY <1>9, <1>10 DEF WellFormed, T!OptEndOfList, T!OptNOP
<1>12. Len(T!Encode(o)) = l
  <2>1. PICK c : c = T!Encode(o)
    OBVIOUS
  <2>2. PICK h : h = <<o.Kind, o.Length>>
    OBVIOUS
  <2>3. c = h \o data
    BY <1>9, <2>1, <2>2 DEF T!Encode, T!OptEndOfList, T!OptNOP
  <2>4. h \in Seq(Byte) /\ Len(h) = 2
    BY <1>4, <1>9, <2>2
  <2>5. Joins(c, h, data, Byte)
    BY <1>7, <2>3, <2>4, Joined
  <2>6. Len(c) = l
    BY <1>5, <1>7, <2>4, <2>5 DEF Joins
  <2> QED
    BY <2>1, <2>6
<1>13. i + l <= n + 1
  BY <1>3, <1>5
<1> QED
  BY <1>1, <1>2, <1>3, <1>5, <1>9, <1>11, <1>12, <1>13

LEMMA ParsedAreFound ==
  ASSUME NEW w \in Seq(Byte)
  PROVE  FoundOrNot(T!ParseOptions(w), Len(w))
<1>1. PICK n \in Nat : n = Len(w)
  OBVIOUS
<1>2. PICK f : Parses(f, w, 1) /\ T!ParseOptions(w) = f[1]
  BY ParseOptionsParses
<1> DEFINE S == {j \in Nat : j <= n => FoundOrNot(f[n + 1 - j], j)}
<1>3. ASSUME NEW j \in Nat, \A m \in 0 .. j - 1 : m \in S PROVE j \in S
  <2> SUFFICES ASSUME j <= n PROVE FoundOrNot(f[n + 1 - j], j)
    OBVIOUS
  <2>1. PICK i \in 1 .. n + 1 : i = n + 1 - j
    <3>1. n + 1 - j \in 1 .. n + 1
      OBVIOUS
    <3> QED
      BY <3>1
  <2>2. f[i] = ParsedFrom(w, i, f)
    BY <1>1, <1>2, <2>1 DEF Parses
  <2>3. ASSUME NEW m \in 1 .. j PROVE FoundOrNot(f[i + m], j - m)
    <3>1. j - m \in 0 .. j - 1 /\ j - m <= n /\ n + 1 - (j - m) = i + m
      BY <2>1
    <3>2. FoundOrNot(f[n + 1 - (j - m)], j - m)
      BY <1>3, <3>1
    <3> QED
      BY <3>1, <3>2
  <2> HIDE DEF S
  <2>4. FoundOrNot(ParsedFrom(w, i, f), j)
    <3>1. CASE i > n
      <4>1. ParsedFrom(w, i, f) = T!Parsed(<<>>)
        BY <1>1, <3>1 DEF ParsedFrom
      <4> QED
        BY <4>1, FoundNone
    <3>2. CASE i <= n
      <4>1. ~ (i > Len(w)) /\ i \in 1 .. Len(w) /\ j >= 1
        BY <1>1, <2>1, <3>2
      <4>2. CASE w[i] = 0
        <5>1. ParsedFrom(w, i, f) = T!Parsed(<<>>)
          BY <4>1, <4>2, ParsedCases
        <5> QED
          BY <5>1, FoundNone
      <4>3. CASE w[i] = 1
        <5>1. ParsedFrom(w, i, f) = Before(T!Bodiless(1), f[i + 1])
          BY <4>1, <4>3, ParsedCases
        <5>2. FoundOrNot(f[i + 1], j - 1)
          <6>1. 1 \in 1 .. j
            BY <4>1
          <6> QED
            BY <2>3, <6>1
        <5>3. PICK o : o = T!Bodiless(1)
          OBVIOUS
        <5>4. o \in TcpOptionSet /\ WellFormed(o) /\ o.Kind # 0 /\ Len(T!Encode(o)) = 1
          <6>1. 0 \in Byte /\ 1 \in Byte /\ <<>> \in Seq(Byte)
            BY DEF Byte, Below
          <6>2. o \in TcpOptionSet /\ o.Kind = 1
            BY <5>3, <6>1 DEF TcpOptionSet, T!Bodiless
          <6>3. T!Encode(o) = <<1>>
            BY <6>2 DEF T!Encode, T!OptNOP
          <6>4. WellFormed(o)
            BY <5>3, <6>2 DEF WellFormed, T!OptNOP
          <6> QED
            BY <6>2, <6>3, <6>4
        <5>5. j - 1 \in Nat /\ (j - 1) + 1 = j
          BY <4>1
        <5>6. FoundOrNot(Before(o, f[i + 1]), (j - 1) + Len(T!Encode(o)))
          BY <5>2, <5>4, <5>5, FoundBefore
        <5> QED
          BY <5>1, <5>3, <5>4, <5>5, <5>6
      <4>4. CASE w[i] # 0 /\ w[i] # 1 /\ T!Fits(w, i)
        <5>1. PICK o : o = T!OptionAt(w, i)
          OBVIOUS
        <5>2. PICK l : l = w[i + 1]
          OBVIOUS
        <5>3. ParsedFrom(w, i, f) = Before(o, f[i + l])
          BY <4>1, <4>4, <5>1, <5>2, ParsedCases
        <5>4. /\ o \in TcpOptionSet /\ WellFormed(o) /\ o.Kind # 0
              /\ Len(T!Encode(o)) = l /\ l \in Nat /\ l >= 2 /\ i + l <= Len(w) + 1
          BY <4>1, <4>4, <5>1, <5>2, OptionRead
        <5>5. l \in 1 .. j /\ j - l \in Nat /\ (j - l) + l = j
          <6>1. l \in Nat /\ l >= 2 /\ i + l <= n + 1
            BY <1>1, <5>4
          <6> QED
            BY <2>1, <6>1
        <5>6. FoundOrNot(f[i + l], j - l)
          BY <2>3, <5>5
        <5>7. FoundOrNot(Before(o, f[i + l]), (j - l) + Len(T!Encode(o)))
          BY <5>4, <5>5, <5>6, FoundBefore
        <5> QED
          BY <5>3, <5>4, <5>5, <5>7
      <4>5. CASE w[i] # 0 /\ w[i] # 1 /\ ~ T!Fits(w, i)
        <5>1. ParsedFrom(w, i, f) = T!Malformed
          BY <4>1, <4>5, ParsedCases
        <5> QED
          BY <5>1 DEF FoundOrNot
      <4> QED
        BY <4>2, <4>3, <4>4, <4>5
    <3> QED
      BY <3>1, <3>2
  <2> QED
    BY <2>1, <2>2, <2>4
<1> HIDE DEF S
<1>4. \A j \in Nat : j \in S
  BY <1>3, StrongInduction
<1>5. FoundOrNot(f[n + 1 - n], n) /\ n + 1 - n = 1
  BY <1>4 DEF S
<1> QED
  BY <1>1, <1>2, <1>5

-----------------------------------------------------------------------------
(* The TCP header.                                                         *)

\* The bytes b begin with those of the header h, whose options take n bytes.
SaysPorts(b, h) ==
  /\ b[1] * 256 + b[2] = h.SrcPort /\ b[3] * 256 + b[4] = h.DstPort
  /\ b[5] * 256 + b[6] = h.SeqNum[1] /\ b[7] * 256 + b[8] = h.SeqNum[2]
  /\ b[9] * 256 + b[10] = h.AckNum[1] /\ b[11] * 256 + b[12] = h.AckNum[2]
SaysOffset(b, h, n) ==
  /\ b[13] = 80 + 4 * n /\ b[14] = h.Flags
  /\ b[15] * 256 + b[16] = h.Window /\ b[19] * 256 + b[20] = h.Urgent

LEMMA OffsetOfOptions ==
  ASSUME NEW n \in Nat, n <= 40, n % 4 = 0
  PROVE  LET offset == ((20 + n) % 256) \div 4
             b == (offset * 16) % 256
         IN  /\ b = 80 + 4 * n /\ b \in Byte
             /\ b \div 16 = 5 + n \div 4 /\ 4 * (b \div 16) = 20 + n
<1>1. PICK m \in Nat : n = 4 * m
  BY n = 4 * (n \div 4)
<1>2. m <= 10 /\ (20 + n) % 256 = 20 + n /\ (20 + n) \div 4 = 5 + m
  BY <1>1
<1>3. ((5 + m) * 16) % 256 = 80 + 16 * m /\ 80 + 16 * m = 80 + 4 * n
  BY <1>1, <1>2
<1>4. (80 + 16 * m) \div 16 = 5 + m /\ n \div 4 = m /\ 4 * (5 + m) = 20 + n
  BY <1>1, <1>2
<1>5. 80 + 4 * n \in Byte
  BY <1>1, <1>2 DEF Byte, Below
<1> QED
  BY <1>2, <1>3, <1>4, <1>5

Begins(x, s, n) == \A i \in Nat : 1 <= i /\ i <= n => x[i] = s[i]

LEMMA JoinedFirst ==
  ASSUME NEW S, NEW s, NEW t, NEW x, Joins(x, s, t, S), NEW n \in Nat, Len(s) = n
  PROVE  Begins(x, s, n)
BY DEF Joins, Begins

LEMMA MarshalledSegment ==
  ASSUME NEW h \in TcpHeaderSet, NEW p \in Seq(Byte), Len(p) <= 40, Len(p) % 4 = 0,
         p = T!Pad(T!OptionBytes(h.Options)), NEW b, b = T!Marshal(h)
  PROVE  /\ b \in Seq(Byte) /\ Len(b) = 20 + Len(p)
         /\ SaysPorts(b, h) /\ SaysOffset(b, h, Len(p)) /\ At(b, 20, p)
<1>1. /\ h.SrcPort \in Word /\ h.DstPort \in Word
      /\ h.SeqNum[1] \in Word /\ h.SeqNum[2] \in Word
      /\ h.AckNum[1] \in Word /\ h.AckNum[2] \in Word
      /\ h.Flags \in Byte /\ h.Window \in Word /\ h.Checksum \in Word /\ h.Urgent \in Word
  BY DEF TcpHeaderSet
<1> DEFINE n == Len(p)
           place == (T!DataOffset(h.Options) * 16) % 256
<1>2. n \in Nat /\ n <= 40
  OBVIOUS
<1>3. place = 80 + 4 * n /\ place \in Byte
  <2>1. T!DataOffset(h.Options) = ((20 + n) % 256) \div 4
    BY DEF T!DataOffset, T!MinHeaderLen
  <2> HIDE DEF n
  <2> QED
    BY <1>2, <2>1, OffsetOfOptions DEF n
<1> HIDE DEF place
<1> DEFINE a1 == Bytes16(h.SrcPort)
           a2 == Bytes16(h.DstPort)
           a3 == Bytes16(h.SeqNum[1])
           a4 == Bytes16(h.SeqNum[2])
           a5 == Bytes16(h.AckNum[1])
           a6 == Bytes16(h.AckNum[2])
           a7 == <<place, h.Flags>>
           a8 == Bytes16(h.Window)
           a9 == Bytes16(h.Checksum)
           a10 == Bytes16(h.Urgent)
<1>4. /\ a1 \in Seq(Byte) /\ Len(a1) = 2 /\ a1[1] * 256 + a1[2] = h.SrcPort
      /\ a2 \in Seq(Byte) /\ Len(a2) = 2 /\ a2[1] * 256 + a2[2] = h.DstPort
      /\ a3 \in Seq(Byte) /\ Len(a3) = 2 /\ a3[1] * 256 + a3[2] = h.SeqNum[1]
      /\ a4 \in Seq(Byte) /\ Len(a4) = 2 /\ a4[1] * 256 + a4[2] = h.SeqNum[2]
      /\ a5 \in Seq(Byte) /\ Len(a5) = 2 /\ a5[1] * 256 + a5[2] = h.AckNum[1]
      /\ a6 \in Seq(Byte) /\ Len(a6) = 2 /\ a6[1] * 256 + a6[2] = h.AckNum[2]
  BY <1>1, BytesOfWord
<1>5. /\ a8 \in Seq(Byte) /\ Len(a8) = 2 /\ a8[1] * 256 + a8[2] = h.Window
      /\ a9 \in Seq(Byte) /\ Len(a9) = 2
      /\ a10 \in Seq(Byte) /\ Len(a10) = 2 /\ a10[1] * 256 + a10[2] = h.Urgent
  BY <1>1, BytesOfWord
<1>6. a7 \in Seq(Byte) /\ Len(a7) = 2 /\ a7[1] = place /\ a7[2] = h.Flags
  BY <1>1, <1>3
<1>7. b = a1 \o a2 \o a3 \o a4 \o a5 \o a6 \o a7 \o a8 \o a9 \o a10 \o p
  BY SameInTcp DEF T!Marshal, place
<1> HIDE DEF a1, a2, a3, a4, a5, a6, a7, a8, a9, a10
<1>8. PICK s : s = a1 \o a2 \o a3 \o a4 \o a5 \o a6
  OBVIOUS
<1>9. PICK s7 : s7 = s \o a7
  OBVIOUS
<1>10. PICK s8 : s8 = s7 \o a8
  OBVIOUS
<1>11. PICK s9 : s9 = s8 \o a9
  OBVIOUS
<1>12. PICK s10 : s10 = s9 \o a10
  OBVIOUS
<1>13. b = s10 \o p
  BY <1>7, <1>8, <1>9, <1>10, <1>11, <1>12
<1>14. /\ s \in Seq(Byte) /\ Len(s) = 12
       /\ s[1] = a1[1] /\ s[2] = a1[2] /\ s[3] = a2[1] /\ s[4] = a2[2]
       /\ s[5] = a3[1] /\ s[6] = a3[2] /\ s[7] = a4[1] /\ s[8] = a4[2]
       /\ s[9] = a5[1] /\ s[10] = a5[2] /\ s[11] = a6[1] /\ s[12] = a6[2]
  <2>1. InPairs(s, a1, a2, a3, a4, a5, a6)
    BY <1>8 DEF InPairs
  <2>2. s \in Seq(Byte) /\ TwelveBytes(s, a1, a2, a3, a4, a5, a6)
    BY <1>4, <2>1, SixPairs
  <2> QED
    BY <2>2 DEF TwelveBytes
<1>15. SaysPorts(s, h)
  BY <1>4, <1>14 DEF SaysPorts
<1>16. Joins(s7, s, a7, Byte)
  BY <1>6, <1>9, <1>14, Joined
<1>17. s7 \in Seq(Byte) /\ Len(s7) = 14
  BY <1>6, <1>14, <1>16 DEF Joins
<1>18. Joins(s8, s7, a8, Byte)
  BY <1>5, <1>10, <1>17, Joined
<1>19. s8 \in Seq(Byte) /\ Len(s8) = 16
  BY <1>5, <1>17, <1>18 DEF Joins
<1>20. Joins(s9, s8, a9, Byte)
  BY <1>5, <1>11, <1>19, Joined
<1>21. s9 \in Seq(Byte) /\ Len(s9) = 18
  BY <1>5, <1>19, <1>20 DEF Joins
<1>22. Joins(s10, s9, a10, Byte)
  BY <1>5, <1>12, <1>21, Joined
<1>23. s10 \in Seq(Byte) /\ Len(s10) = 20
  BY <1>5, <1>21, <1>22 DEF Joins
<1>24. Joins(b, s10, p, Byte)
  BY <1>13, <1>23, Joined
<1>25. b \in Seq(Byte) /\ Len(b) = 20 + Len(p)
  BY <1>23, <1>24 DEF Joins
<1>26. /\ \A i \in Nat : 1 <= i /\ i <= 20 => b[i] = s10[i]
       /\ \A i \in Nat : 1 <= i /\ i <= 18 => b[i] = s9[i]
       /\ \A i \in Nat : 1 <= i /\ i <= 16 => b[i] = s8[i]
       /\ \A i \in Nat : 1 <= i /\ i <= 14 => b[i] = s7[i]
       /\ \A i \in Nat : 1 <= i /\ i <= 12 => b[i] = s[i]
  <2>1. 20 \in Nat /\ 18 \in Nat /\ 16 \in Nat /\ 14 \in Nat /\ 12 \in Nat
    OBVIOUS
  <2>2. Begins(b, s10, 20) /\ Begins(s10, s9, 18) /\ Begins(s9, s8, 16)
    BY <1>19, <1>20, <1>21, <1>22, <1>23, <1>24, <2>1, JoinedFirst, Zenon
  <2>3. Begins(s8, s7, 14) /\ Begins(s7, s, 12)
    BY <1>14, <1>16, <1>17, <1>18, <2>1, JoinedFirst, Zenon
  <2> QED
    BY <2>2, <2>3 DEF Begins
<1>27. SaysPorts(b, h)
  BY <1>15, <1>26 DEF SaysPorts
<1>28. s7[13] = place /\ s7[14] = h.Flags
  <2>1. \A i \in 1 .. Len(a7) : s7[12 + i] = a7[i]
    BY <1>14, <1>16 DEF Joins
  <2>2. s7[12 + 1] = a7[1] /\ s7[12 + 2] = a7[2]
    BY <1>6, <2>1
  <2> QED
    BY <1>6, <2>2
<1>29. s8[15] = a8[1] /\ s8[16] = a8[2]
  <2>1. \A i \in 1 .. Len(a8) : s8[14 + i] = a8[i]
    BY <1>17, <1>18 DEF Joins
  <2>2. s8[14 + 1] = a8[1] /\ s8[14 + 2] = a8[2]
    BY <1>5, <2>1
  <2> QED
    BY <2>2
<1>30. s10[19] = a10[1] /\ s10[20] = a10[2]
  <2>1. \A i \in 1 .. Len(a10) : s10[18 + i] = a10[i]
    BY <1>21, <1>22 DEF Joins
  <2>2. s10[18 + 1] = a10[1] /\ s10[18 + 2] = a10[2]
    BY <1>5, <2>1
  <2> QED
    BY <2>2
<1>31. SaysOffset(b, h, Len(p))
  BY <1>3, <1>5, <1>26, <1>28, <1>29, <1>30 DEF SaysOffset
<1>32. At(b, 20, p)
  <2>1. \A i \in 1 .. Len(p) : b[20 + i] = p[i]
    BY <1>23, <1>24 DEF Joins
  <2> QED
    BY <1>2, <1>25, <2>1 DEF At
<1> QED
  BY <1>25, <1>27, <1>31, <1>32

TcpFields(src, dst, seq, ack, offset, flags, window, sum, urgent, options) ==
  [SrcPort |-> src, DstPort |-> dst, SeqNum |-> seq, AckNum |-> ack,
   DataOffset |-> offset, Flags |-> flags, Window |-> window, Checksum |-> sum,
   Urgent |-> urgent, Options |-> options]

TcpRead(h, offset, sum, options) ==
  TcpFields(h.SrcPort, h.DstPort, h.SeqNum, h.AckNum, offset, h.Flags, h.Window, sum,
            h.Urgent, options)

\* A header is what was sent, but for the two fields that Marshal fills in.
ReadsAs(read, sent, offset, sum, options) ==
  [read EXCEPT !.DataOffset = offset, !.Checksum = sum] = [sent EXCEPT !.Options = options]

LEMMA ReadAsSent ==
  ASSUME NEW h, NEW offset, NEW sum, NEW options, NEW offset2, NEW sum2, NEW options2,
         NEW sent, sent = TcpRead(h, offset2, sum2, options),
         NEW read, read = TcpRead(h, offset, sum, options2)
  PROVE  ReadsAs(read, sent, offset2, sum2, options2)
<1> DEFINE same == TcpRead(h, offset2, sum2, options2)
<1>1. [read EXCEPT !.DataOffset = offset2, !.Checksum = sum2] = same
  <2> DEFINE between == TcpRead(h, offset2, sum, options2)
  <2>1. [TcpRead(h, offset, sum, options2) EXCEPT !.DataOffset = offset2] = between
    BY DEF TcpRead, TcpFields
  <2>2. [TcpRead(h, offset2, sum, options2) EXCEPT !.Checksum = sum2] = same
    BY DEF TcpRead, TcpFields
  <2> HIDE DEF between, same
  <2>3. [read EXCEPT !.DataOffset = offset2] = between
    BY Zenon, <2>1
  <2>4. [between EXCEPT !.Checksum = sum2] = same
    BY Zenon, <2>2 DEF between
  <2> QED
    BY Zenon, <2>3, <2>4
<1>2. [sent EXCEPT !.Options = options2] = same
  <2>1. [TcpRead(h, offset2, sum2, options) EXCEPT !.Options = options2] = same
    BY DEF TcpRead, TcpFields
  <2> HIDE DEF same
  <2> QED
    BY Zenon, <2>1
<1> HIDE DEF same
<1> QED
  BY Zenon, <1>1, <1>2 DEF ReadsAs

LEMMA ParseNothing == T!ParseOptions(<<>>) = T!Parsed(<<>>)
<1>1. <<>> \in Seq(Byte) /\ Len(<<>>) = 0
  OBVIOUS
<1>2. PICK f : Parses(f, <<>>, 1) /\ T!ParseOptions(<<>>) = f[1]
  BY <1>1, ParseOptionsParses
<1>3. f[1] = ParsedFrom(<<>>, 1, f)
  BY <1>1, <1>2 DEF Parses
<1>4. 1 > Len(<<>>)
  BY <1>1
<1>5. ParsedFrom(<<>>, 1, f) = T!Parsed(<<>>)
  BY <1>4 DEF ParsedFrom
<1> QED
  BY <1>2, <1>3, <1>5

LEMMA ParsedSegment ==
  ASSUME NEW h \in TcpHeaderSet, NEW p \in Seq(Byte), Len(p) <= 40, Len(p) % 4 = 0,
         NEW w \in Seq(Byte), SaysPorts(w, h), SaysOffset(w, h, Len(p)), At(w, 20, p)
  PROVE  T!ParseHeader(w)
           = IF ~ T!ParseOptions(p).ok THEN T!Malformed
             ELSE T!Parsed(TcpRead(h, 5 + Len(p) \div 4, w[17] * 256 + w[18],
                                   T!ParseOptions(p).value))
<1> DEFINE n == Len(p)
           offset == w[13] \div 16
           found == IF offset = 5 THEN T!Parsed(<<>>)
                    ELSE T!ParseOptions(SubSeq(w, 21, 4 * offset))
           seq == <<w[5] * 256 + w[6], w[7] * 256 + w[8]>>
           ack == <<w[9] * 256 + w[10], w[11] * 256 + w[12]>>
           refused == \/ Len(w) < 20
                      \/ offset < 5
                      \/ Len(w) < 4 * offset
                      \/ ~ found.ok
           value == TcpFields(w[1] * 256 + w[2], w[3] * 256 + w[4], seq, ack, offset,
                              w[14], w[15] * 256 + w[16], w[17] * 256 + w[18],
                              w[19] * 256 + w[20], found.value)
<1>1. n \in Nat /\ n <= 40 /\ n % 4 = 0
  OBVIOUS
<1>2. T!ParseHeader(w) = IF refused THEN T!Malformed ELSE T!Parsed(value)
  <2>1. /\ T!Uint16(w, 1) = w[1] * 256 + w[2] /\ T!Uint16(w, 3) = w[3] * 256 + w[4]
        /\ T!Uint16(w, 5) = w[5] * 256 + w[6] /\ T!Uint16(w, 7) = w[7] * 256 + w[8]
        /\ T!Uint16(w, 9) = w[9] * 256 + w[10] /\ T!Uint16(w, 11) = w[11] * 256 + w[12]
        /\ T!Uint16(w, 15) = w[15] * 256 + w[16]
        /\ T!Uint16(w, 17) = w[17] * 256 + w[18]
        /\ T!Uint16(w, 19) = w[19] * 256 + w[20]
    BY DEF T!Uint16
  <2> DEFINE read == TcpFields(T!Uint16(w, 1), T!Uint16(w, 3),
                               <<T!Uint16(w, 5), T!Uint16(w, 7)>>,
                               <<T!Uint16(w, 9), T!Uint16(w, 11)>>, offset, w[14],
                               T!Uint16(w, 15), T!Uint16(w, 17), T!Uint16(w, 19),
                               found.value)
  <2>2. T!ParseHeader(w) = IF refused THEN T!Malformed ELSE T!Parsed(read)
    BY DEF T!ParseHeader, T!MinHeaderLen, TcpFields
  <2>3. read = value
    <3> HIDE DEF offset, found
    <3> QED
      BY <2>1
  <2> HIDE DEF refused, read, value
  <2> QED
    BY <2>2, <2>3
<1>3. offset = 5 + n \div 4 /\ 4 * offset = 20 + n
  <2>1. w[13] = 80 + 4 * n
    BY DEF SaysOffset
  <2> HIDE DEF n
  <2>2. (80 + 4 * n) \div 16 = 5 + n \div 4 /\ 4 * ((80 + 4 * n) \div 16) = 20 + n
    BY <1>1, OffsetOfOptions
  <2> QED
    BY <2>1, <2>2
<1> HIDE DEF offset
<1>4. found = T!ParseOptions(p)
  <2>1. CASE n = 0
    <3>1. p = <<>> /\ offset = 5
      BY <1>3, <2>1
    <3> QED
      BY <3>1, ParseNothing
  <2>2. CASE n # 0
    <3>1. offset # 5
      BY <1>1, <1>3, <2>2
    <3>2. PICK k \in Nat : k = 20
      OBVIOUS
    <3>3. k + Len(p) <= Len(w) /\ \A i \in 1 .. Len(p) : w[k + i] = p[i]
      BY <3>2 DEF At
    <3>4. SubSeq(w, k + 1, k + Len(p)) = p
      BY <3>3, PartOf
    <3>5. 21 = k + 1 /\ 4 * offset = k + Len(p)
      BY <1>3, <3>2
    <3>6. SubSeq(w, 21, 4 * offset) = p
      BY <3>4, <3>5
    <3> QED
      BY <3>1, <3>6
  <2> QED
    BY <2>1, <2>2
<1> HIDE DEF found
<1>5. refused <=> ~ T!ParseOptions(p).ok
  <2>1. Len(w) \in Nat /\ 20 + n <= Len(w)
    BY DEF At
  <2>2. ~ (Len(w) < 20 \/ offset < 5 \/ Len(w) < 4 * offset)
    BY <1>1, <1>3, <2>1
  <2> QED
    BY <1>4, <2>2
<1>6. value = TcpRead(h, 5 + n \div 4, w[17] * 256 + w[18], T!ParseOptions(p).value)
  <2>1. seq = h.SeqNum /\ ack = h.AckNum
    <3>1. /\ h.SeqNum = <<h.SeqNum[1], h.SeqNum[2]>>
          /\ h.AckNum = <<h.AckNum[1], h.AckNum[2]>>
      BY DEF TcpHeaderSet
    <3>2. /\ w[5] * 256 + w[6] = h.SeqNum[1] /\ w[7] * 256 + w[8] = h.SeqNum[2]
          /\ w[9] * 256 + w[10] = h.AckNum[1] /\ w[11] * 256 + w[12] = h.AckNum[2]
      BY DEF SaysPorts
    <3> QED
      BY <3>1, <3>2
  <2>2. w[1] * 256 + w[2] = h.SrcPort /\ w[3] * 256 + w[4] = h.DstPort
    BY DEF SaysPorts
  <2>3. /\ w[14] = h.Flags /\ w[15] * 256 + w[16] = h.Window
        /\ w[19] * 256 + w[20] = h.Urgent
    BY DEF SaysOffset
  <2>4. PICK sum : sum = w[17] * 256 + w[18]
    OBVIOUS
  <2>5. PICK place : place = 5 + n \div 4 /\ offset = place
    BY <1>3
  <2> HIDE DEF seq, ack
  <2> QED
    BY <1>4, <2>1, <2>2, <2>3, <2>4, <2>5 DEF TcpRead
<1> HIDE DEF refused, value
<1> QED
  BY <1>2, <1>5, <1>6

\* Where the bytes of a header of another implementation say what.
ForeignHeader ==
  [SrcPort |-> 1, DstPort |-> 2, SeqNum |-> <<0, 3>>, AckNum |-> <<0, 4>>,
   DataOffset |-> 0, Flags |-> 2, Window |-> 65535, Checksum |-> 0, Urgent |-> 0,
   Options |-> <<>>]

LEMMA ForeignSegment ==
  ASSUME NEW options \in OptionFields, NEW w, w = ForeignBytes(options)
  PROVE  /\ options \in Seq(Byte) /\ Len(options) <= 40 /\ Len(options) % 4 = 0
         /\ ForeignHeader \in TcpHeaderSet /\ w \in Seq(Byte)
         /\ SaysPorts(w, ForeignHeader) /\ SaysOffset(w, ForeignHeader, Len(options))
         /\ At(w, 20, options)
<1>1. options \in Seq(Byte) /\ Len(options) <= 40 /\ Len(options) % 4 = 0
  BY DataAssumption, OptionFieldsAssumption
<1>2. ForeignHeader \in TcpHeaderSet
  <2>1. /\ 0 \in Word /\ 1 \in Word /\ 2 \in Word /\ 3 \in Word /\ 4 \in Word /\ 65535 \in Word
        /\ 0 \in Byte /\ 2 \in Byte
    BY DEF Word, Byte, Below
  <2>2. <<>> \in Seq(TcpOptionSet)
    OBVIOUS
  <2> QED
    BY <2>1, <2>2 DEF ForeignHeader, TcpHeaderSet
<1>3. PICK n \in Nat : n = Len(options)
  BY <1>1
<1>4. PICK place : place = (5 + n \div 4) * 16
  OBVIOUS
<1>5. place = 80 + 4 * n /\ place \in Byte
  <2>1. n <= 40 /\ n % 4 = 0
    BY <1>1, <1>3
  <2>2. PICK m \in Nat : n = 4 * m
    BY <2>1, n = 4 * (n \div 4)
  <2>3. n \div 4 = m /\ m <= 10
    BY <2>1, <2>2
  <2>4. place = (5 + m) * 16
    BY <1>4, <2>3
  <2>5. place = 80 + 4 * n /\ place < 256 /\ place \in Nat
    BY <2>2, <2>3, <2>4
  <2> QED
    BY <2>5 DEF Byte, Below
<1>6. PICK a : a = <<0, 1, 0, 2, 0, 0, 0, 3, 0, 0, 0, 4, place, 2>>
  OBVIOUS
<1>7. PICK b : b = <<255, 255, 0, 0, 0, 0>>
  OBVIOUS
<1>8. /\ 0 \in Byte /\ 1 \in Byte /\ 2 \in Byte /\ 3 \in Byte /\ 4 \in Byte
      /\ 255 \in Byte
  BY DEF Byte, Below
<1>9. /\ a \in Seq(Byte) /\ Len(a) = 14
      /\ a[1] = 0 /\ a[2] = 1 /\ a[3] = 0 /\ a[4] = 2 /\ a[5] = 0 /\ a[6] = 0
      /\ a[7] = 0 /\ a[8] = 3 /\ a[9] = 0 /\ a[10] = 0 /\ a[11] = 0 /\ a[12] = 4
      /\ a[13] = place /\ a[14] = 2
  BY <1>5, <1>6, <1>8
<1>10. /\ b \in Seq(Byte) /\ Len(b) = 6
       /\ b[1] = 255 /\ b[2] = 255 /\ b[3] = 0 /\ b[4] = 0 /\ b[5] = 0 /\ b[6] = 0
  BY <1>7, <1>8
<1>11. PICK s : s = a \o b
  OBVIOUS
<1>12. w = s \o options
  BY <1>3, <1>4, <1>6, <1>7, <1>11 DEF ForeignBytes
<1>13. Joins(s, a, b, Byte)
  BY <1>9, <1>10, <1>11, Joined
<1>14. s \in Seq(Byte) /\ Len(s) = 20
  BY <1>9, <1>10, <1>13 DEF Joins
<1>15. Joins(w, s, options, Byte)
  BY <1>1, <1>12, <1>14, Joined
<1>16. w \in Seq(Byte) /\ Len(w) = 20 + n /\ Begins(w, s, 20)
  <2>1. w \in Seq(Byte) /\ Len(w) = 20 + n
    BY <1>3, <1>14, <1>15 DEF Joins
  <2>2. PICK k \in Nat : k = 20
    OBVIOUS
  <2>3. Begins(w, s, k)
    BY <1>14, <1>15, <2>2, JoinedFirst
  <2> QED
    BY <2>1, <2>2, <2>3
<1>17. Begins(s, a, 14)
  <2>1. PICK k \in Nat : k = 14
    OBVIOUS
  <2>2. Begins(s, a, k)
    BY <1>9, <1>13, <2>1, JoinedFirst
  <2> QED
    BY <2>1, <2>2
<1>18. Begins(w, a, 14)
  BY <1>16, <1>17 DEF Begins
<1>19. /\ s[15] = 255 /\ s[16] = 255 /\ s[17] = 0 /\ s[18] = 0 /\ s[19] = 0 /\ s[20] = 0
  <2>1. \A i \in 1 .. Len(b) : s[14 + i] = b[i]
    <3>1. \A i \in 1 .. Len(b) : s[Len(a) + i] = b[i]
      BY <1>13 DEF Joins
    <3>2. Len(a) = 14
      BY <1>9
    <3> QED
      BY <3>1, <3>2
  <2>2. /\ s[14 + 1] = b[1] /\ s[14 + 2] = b[2] /\ s[14 + 3] = b[3] /\ s[14 + 4] = b[4]
        /\ s[14 + 5] = b[5] /\ s[14 + 6] = b[6]
    BY <1>10, <2>1
  <2> QED
    BY <1>10, <2>2
<1>20. /\ w[1] = 0 /\ w[2] = 1 /\ w[3] = 0 /\ w[4] = 2 /\ w[5] = 0 /\ w[6] = 0
       /\ w[7] = 0 /\ w[8] = 3 /\ w[9] = 0 /\ w[10] = 0 /\ w[11] = 0 /\ w[12] = 4
       /\ w[13] = place /\ w[14] = 2
  BY <1>9, <1>18 DEF Begins
<1>21. w[15] = 255 /\ w[16] = 255 /\ w[19] = 0 /\ w[20] = 0
  BY <1>16, <1>19 DEF Begins
<1>22. SaysPorts(w, ForeignHeader)
  BY <1>20 DEF SaysPorts, ForeignHeader
<1>23. SaysOffset(w, ForeignHeader, Len(options))
  <2>1. w[13] = 80 + 4 * Len(options)
    BY <1>3, <1>5, <1>20
  <2> QED
    BY <1>20, <1>21, <2>1 DEF SaysOffset, ForeignHeader
<1>24. At(w, 20, options)
  <2>1. \A i \in 1 .. Len(options) : w[20 + i] = options[i]
    BY <1>14, <1>15 DEF Joins
  <2> QED
    BY <1>3, <1>16, <2>1 DEF At
<1> QED
  BY <1>1, <1>2, <1>16, <1>22, <1>23, <1>24

\* Options that were found are marshalled to what is parsed to them again.
LEMMA FoundReadBack ==
  ASSUME NEW h \in TcpHeaderSet, NEW room \in Nat, room <= 40, Found(h.Options, room)
  PROVE  \E offset, sum :
           T!ParseHeader(T!Marshal(h)) = T!Parsed(TcpRead(h, offset, sum, h.Options))
<1>1. PICK v : v = h.Options
  OBVIOUS
<1>2. /\ v \in Seq(TcpOptionSet) /\ Len(T!OptionBytes(v)) <= room
      /\ \A i \in 1 .. Len(v) : WellFormed(v[i]) /\ v[i].Kind # 0
  BY <1>1 DEF Found
<1>3. PICK e : Encodes(e, v, 1) /\ T!OptionBytes(v) = e[1]
  BY <1>2, OptionBytesEncode
<1>4. e[1] \in Seq(Byte)
  <2>1. 1 \in 1 .. Len(v) + 1
    BY <1>2
  <2> QED
    BY <1>3, <2>1 DEF Encodes
<1>5. Len(e[1]) <= 40
  <2>1. PICK n \in Nat : n = Len(e[1])
    BY <1>4
  <2>2. n <= room
    BY <1>2, <1>3, <2>1
  <2>3. n <= 40
    BY <2>2
  <2> QED
    BY <2>1, <2>3
<1>6. PICK p : p = T!Pad(e[1])
  OBVIOUS
<1>7. /\ p \in Seq(Byte) /\ Len(p) <= 40 /\ Len(p) % 4 = 0
      /\ At(p, 0, e[1]) /\ Zeros(p, Len(e[1]))
  BY <1>4, <1>5, <1>6, PaddedBytes
<1>8. T!ParseOptions(p) = T!Parsed(Meant(v))
  BY <1>2, <1>3, <1>7, OptionsReadBack
<1>9. Meant(v) = v
  <2>1. PICK n \in 0 .. Len(v) : MeantTo(v, n) /\ Meant(v) = SubSeq(v, 1, n)
    BY <1>2, MeantOptions
  <2>2. n = Len(v)
    <3> SUFFICES ASSUME n < Len(v) PROVE FALSE
      BY <1>2
    <3>1. n + 1 \in 1 .. Len(v)
      BY <1>2
    <3>2. v[n + 1].Kind = 0
      BY <2>1 DEF MeantTo, T!OptEndOfList
    <3> QED
      BY <1>2, <3>1, <3>2
  <2>3. SubSeq(v, 1, Len(v)) = v
    BY <1>2
  <2> QED
    BY <2>1, <2>2, <2>3
<1>10. PICK b : b = T!Marshal(h)
  OBVIOUS
<1>11. /\ b \in Seq(Byte)
       /\ SaysPorts(b, h) /\ SaysOffset(b, h, Len(p)) /\ At(b, 20, p)
  BY <1>1, <1>3, <1>6, <1>7, <1>10, MarshalledSegment
<1>12. T!ParseHeader(b)
         = IF ~ T!ParseOptions(p).ok THEN T!Malformed
           ELSE T!Parsed(TcpRead(h, 5 + Len(p) \div 4, b[17] * 256 + b[18],
                                 T!ParseOptions(p).value))
  BY <1>7, <1>11, ParsedSegment
<1>13. T!ParseOptions(p).ok /\ T!ParseOptions(p).value = v
  BY <1>8, <1>9 DEF T!Parsed
<1>14. PICK offset, sum : offset = 5 + Len(p) \div 4 /\ sum = b[17] * 256 + b[18]
  OBVIOUS
<1>15. T!ParseHeader(b) = T!Parsed(TcpRead(h, offset, sum, v))
  BY <1>12, <1>13, <1>14
<1> QED
  BY <1>1, <1>10, <1>15

\* A segment sent: its bytes, and those of its options.
LEMMA SentSegment ==
  ASSUME NEW h \in TcpHeaders, NEW data \in TcpPayloads, NEW w, w = SegmentBytes(h, data)
  PROVE  \E p \in Seq(Byte) :
           /\ Len(p) <= 40 /\ Len(p) % 4 = 0
           /\ T!ParseOptions(p) = T!Parsed(Meant(h.Options))
           /\ w \in Seq(Byte) /\ Verify(Src, Dst, w)
           /\ SaysPorts(w, h) /\ SaysOffset(w, h, Len(p)) /\ At(w, 20, p)
           /\ Behind(w, 20 + Len(p), data)
<1>1. /\ h \in TcpHeaderSet /\ \A i \in DOMAIN h.Options : WellFormed(h.Options[i])
      /\ Len(T!OptionBytes(h.Options)) <= 40
  BY TcpHeadersAssumption
<1>2. h.Options \in Seq(TcpOptionSet) /\ data \in Seq(Byte)
  BY <1>1, DataAssumption DEF TcpHeaderSet
<1>3. \A i \in 1 .. Len(h.Options) : WellFormed(h.Options[i])
  BY <1>1, <1>2
<1>4. PICK e : Encodes(e, h.Options, 1) /\ T!OptionBytes(h.Options) = e[1]
  BY <1>2, OptionBytesEncode
<1>5. PICK p : p = T!Pad(e[1])
  OBVIOUS
<1>6. e[1] \in Seq(Byte) /\ Len(e[1]) <= 40
  <2>1. 1 \in 1 .. Len(h.Options) + 1
    BY <1>2
  <2> QED
    BY <1>1, <1>4, <2>1 DEF Encodes
<1>7. /\ p \in Seq(Byte) /\ Len(p) <= 40 /\ Len(p) % 4 = 0
      /\ At(p, 0, e[1]) /\ Zeros(p, Len(e[1]))
  BY <1>5, <1>6, PaddedBytes
<1>8. T!ParseOptions(p) = T!Parsed(Meant(h.Options))
  BY <1>2, <1>3, <1>4, <1>7, OptionsReadBack
<1>9. PICK m : m = T!Marshal(h)
  OBVIOUS
<1>10. /\ m \in Seq(Byte) /\ Len(m) = 20 + Len(p)
       /\ SaysPorts(m, h) /\ SaysOffset(m, h, Len(p)) /\ At(m, 20, p)
  BY <1>1, <1>4, <1>5, <1>7, <1>9, MarshalledSegment
<1>11. PICK s : s = m \o data
  OBVIOUS
<1>12. w = SetAndCompute(Src, Dst, s)
  BY <1>9, <1>11, SameInTcp DEF SegmentBytes
<1>13. Joins(s, m, data, Byte)
  BY <1>2, <1>10, <1>11, Joined
<1>14. PICK l \in Nat : l = Len(p)
  BY <1>7
<1>15. /\ s \in Seq(Byte) /\ Len(s) = (20 + l) + Len(data) /\ Len(data) \in Nat
       /\ \A i \in 1 .. 20 + l : s[i] = m[i]
       /\ \A i \in 1 .. Len(data) : s[(20 + l) + i] = data[i]
  BY <1>2, <1>10, <1>13, <1>14 DEF Joins
<1>16. SumSet(w, s) /\ Verify(Src, Dst, w)
  <2>1. Len(s) >= 20
    BY <1>14, <1>15
  <2> QED
    BY <1>12, <1>15, <2>1, SegmentSummed
<1>17. /\ w \in Seq(Byte) /\ Len(w) = (20 + l) + Len(data)
       /\ \A i \in 1 .. (20 + l) + Len(data) : i # 17 /\ i # 18 => w[i] = s[i]
  BY <1>15, <1>16 DEF SumSet
<1>18. \A i \in Nat : 1 <= i /\ i <= 20 + l /\ i # 17 /\ i # 18 => w[i] = m[i]
  <2> TAKE i \in Nat
  <2> HAVE 1 <= i /\ i <= 20 + l /\ i # 17 /\ i # 18
  <2>1. i \in 1 .. 20 + l /\ i \in 1 .. (20 + l) + Len(data)
    BY <1>14, <1>15
  <2> QED
    BY <1>15, <1>17, <2>1
<1>19. \A i \in Nat : 1 <= i /\ i <= 20 /\ i # 17 /\ i # 18 => w[i] = m[i]
  BY <1>14, <1>18
<1>20. SaysPorts(w, h)
  BY <1>10, <1>19 DEF SaysPorts
<1>21. SaysOffset(w, h, Len(p))
  BY <1>10, <1>19 DEF SaysOffset
<1>22. At(w, 20, p)
  <2>1. \A i \in 1 .. l : w[20 + i] = p[i]
    <3> TAKE i \in 1 .. l
    <3>1. 20 + i \in Nat /\ 1 <= 20 + i /\ 20 + i <= 20 + l /\ 20 + i # 17 /\ 20 + i # 18
      BY <1>14
    <3>2. m[20 + i] = p[i]
      BY <1>10, <1>14 DEF At
    <3> QED
      BY <1>18, <3>1, <3>2
  <2> QED
    BY <1>14, <1>15, <1>17, <2>1 DEF At
<1>23. Behind(w, 20 + Len(p), data)
  <2> DEFINE k == 20 + l
  <2>1. k \in Nat /\ Len(w) = k + Len(data)
    BY <1>14, <1>17
  <2>2. \A i \in 1 .. Len(data) : w[k + i] = data[i]
    <3> TAKE i \in 1 .. Len(data)
    <3>1. k + i \in 1 .. (20 + l) + Len(data) /\ k + i # 17 /\ k + i # 18
      BY <1>14, <1>15
    <3>2. s[k + i] = data[i]
      BY <1>15
    <3> QED
      BY <1>17, <3>1, <3>2
  <2> HIDE DEF k
  <2>3. SubSeq(w, k + 1, Len(w)) = data
    BY <1>2, <1>17, <2>1, <2>2, EndOf
  <2> QED
    BY <1>14, <2>3 DEF Behind, k
<1> QED
  BY <1>7, <1>8, <1>16, <1>17, <1>20, <1>21, <1>22, <1>23

(* The checksum that SetAndCompute leaves in a segment, and that of a      *)
(* header that was built, tell every change of one byte.                   *)
THEOREM ChangesShow == Spec => []ChangesDetected
<1>1. WireInv => ChangesDetected
  <2> SUFFICES ASSUME WireInv PROVE ChangesDetected
    OBVIOUS
  <2>1. ASSUME item.kind = "segment", item.changed PROVE ~ T!Verify(Src, Dst, wire)
    <3>1. /\ item.header \in TcpHeaders /\ item.data \in TcpPayloads
          /\ OneByteOff(SegmentBytes(item.header, item.data))
      BY <2>1 DEF WireInv, SegmentInv, Carries
    <3>2. PICK b : b = SegmentBytes(item.header, item.data)
      OBVIOUS
    <3>3. b \in Seq(Byte) /\ Verify(Src, Dst, b)
      BY <3>1, <3>2, SentSegment
    <3>4. PICK k \in DOMAIN b, d \in Changes : wire = [b EXCEPT ![k] = (@ + d) % 256]
      BY <3>1, <3>2 DEF OneByteOff
    <3>5. k \in 1 .. Len(b) /\ Differs(wire, b, k)
      BY <3>3, <3>4, ChangedByte
    <3>6. ~ Verify(Src, Dst, wire)
      BY <3>3, <3>5, SegmentChangeShows
    <3> QED
      BY <3>6, SameInTcp
  <2>2. ASSUME item.kind = "packet", item.changed, SubSeq(wire, 21, Len(wire)) = item.data
        PROVE  ~ I!VerifyChecksum(SubSeq(wire, 1, 20))
    <3>1. /\ item.context \in Contexts /\ item.data \in Seq(Byte)
          /\ OneByteOff(PacketBytes(item.context, item.data))
      BY <2>2, DataAssumption DEF WireInv, PacketInv, Carries
    <3>2. PICK b : b = PacketBytes(item.context, item.data)
      OBVIOUS
    <3>3. PICK k \in DOMAIN b, d \in Changes : wire = [b EXCEPT ![k] = (@ + d) % 256]
      BY <3>1, <3>2 DEF OneByteOff
    <3>4. b \in Seq(Byte)
      BY <3>1, <3>2, PacketBytesAreBytes
    <3>5. Differs(wire, b, k)
      BY <3>3, <3>4, ChangedByte
    <3>6. Behind(wire, 20, item.data)
      BY <2>2 DEF Behind
    <3>7. ~ VerifyChecksum(SubSeq(wire, 1, 20))
      BY <3>1, <3>2, <3>5, <3>6, PacketChangeShows
    <3> QED
      BY <3>7, SameInIp
  <2> QED
    BY <2>1, <2>2 DEF ChangesDetected
<1> QED
  BY <1>1, WireInductive, PTL

(* A segment sent by internal/tcp is verified and parsed to what was sent, *)
(* whatever its options: nothing is lost in the padding, the data offset   *)
(* and the checksum field.                                                 *)
THEOREM SegmentsParse == Spec => []SegmentsArrive
<1>1. WireInv => SegmentsArrive
  <2> SUFFICES ASSUME WireInv, item.kind = "segment", ~item.changed
               PROVE  LET parsed == T!ParseHeader(wire)
                      IN  /\ T!Verify(Src, Dst, wire)
                          /\ parsed.ok
                          /\ [parsed.value EXCEPT !.DataOffset = item.header.DataOffset,
                                                  !.Checksum = item.header.Checksum]
                               = [item.header EXCEPT !.Options = Meant(@)]
                          /\ SubSeq(wire, 4 * parsed.value.DataOffset + 1, Len(wire))
                               = item.data
    BY DEF SegmentsArrive
  <2>1. PICK h \in TcpHeaders, data \in TcpPayloads :
          h = item.header /\ data = item.data /\ wire = SegmentBytes(h, data)
    BY DEF WireInv, SegmentInv, Carries
  <2>2. PICK p \in Seq(Byte) :
          /\ Len(p) <= 40 /\ Len(p) % 4 = 0
          /\ T!ParseOptions(p) = T!Parsed(Meant(h.Options))
          /\ wire \in Seq(Byte) /\ Verify(Src, Dst, wire)
          /\ SaysPorts(wire, h) /\ SaysOffset(wire, h, Len(p)) /\ At(wire, 20, p)
          /\ Behind(wire, 20 + Len(p), data)
    BY <2>1, SentSegment
  <2>3. h \in TcpHeaderSet
    BY TcpHeadersAssumption
  <2>4. PICK offset : offset = 5 + Len(p) \div 4
    OBVIOUS
  <2>5. PICK sum : sum = wire[17] * 256 + wire[18]
    OBVIOUS
  <2> DEFINE value == TcpRead(h, offset, sum, Meant(h.Options))
  <2>6. T!ParseHeader(wire) = T!Parsed(value)
    <3>1. T!ParseOptions(p).ok /\ T!ParseOptions(p).value = Meant(h.Options)
      BY <2>2 DEF T!Parsed
    <3>2. T!ParseHeader(wire)
            = IF ~ T!ParseOptions(p).ok THEN T!Malformed
              ELSE T!Parsed(TcpRead(h, 5 + Len(p) \div 4, wire[17] * 256 + wire[18],
                                    T!ParseOptions(p).value))
      BY <2>2, <2>3, ParsedSegment
    <3> QED
      BY <2>4, <2>5, <3>1, <3>2
  <2>7. T!Parsed(value).ok /\ T!Parsed(value).value = value
    BY DEF T!Parsed
  <2>8. [value EXCEPT !.DataOffset = h.DataOffset, !.Checksum = h.Checksum]
          = [h EXCEPT !.Options = Meant(@)]
    <3>1. h = TcpRead(h, h.DataOffset, h.Checksum, h.Options)
      BY <2>3 DEF TcpHeaderSet, TcpRead, TcpFields
    <3>2. PICK read : read = value
      OBVIOUS
    <3> HIDE DEF value
    <3>3. read = TcpRead(h, offset, sum, Meant(h.Options))
      BY Zenon, <3>2 DEF value
    <3>4. PICK offset2, sum2, options1, options2 :
            /\ offset2 = h.DataOffset /\ sum2 = h.Checksum
            /\ options1 = h.Options /\ options2 = Meant(h.Options)
      OBVIOUS
    <3>5. PICK sent : sent = h
      OBVIOUS
    <3>6. sent = TcpRead(h, offset2, sum2, options1) /\ read = TcpRead(h, offset, sum, options2)
      BY Zenon, <3>1, <3>3, <3>4, <3>5
    <3>7. ReadsAs(read, sent, offset2, sum2, options2)
      BY Zenon, <3>6, ReadAsSent
    <3> QED
      BY Zenon, <3>2, <3>4, <3>5, <3>7 DEF ReadsAs
  <2>9. value.DataOffset = offset
    BY DEF TcpRead, TcpFields
  <2>10. SubSeq(wire, 4 * offset + 1, Len(wire)) = data
    <3>1. PICK n \in Nat : n = Len(p)
      BY <2>2
    <3>2. n % 4 = 0 /\ Behind(wire, 20 + n, data)
      BY <2>2, <3>1
    <3>3. 4 * offset = 20 + n
      BY <2>4, <3>1, <3>2
    <3> QED
      BY <3>2, <3>3 DEF Behind
  <2> HIDE DEF value
  <2> QED
    BY <2>1, <2>2, <2>6, <2>7, <2>8, <2>9, <2>10, SameInTcp
<1> QED
  BY <1>1, WireInductive, PTL

(* What ParseHeader makes of the options of another implementation is      *)
(* marshalled to the same again, in no more bytes than they took, and is   *)
(* parsed to the same.                                                     *)
THEOREM ForeignOptionsReadBack == Spec => []ForeignOptionsKept
<1>1. WireInv => ForeignOptionsKept
  <2> SUFFICES ASSUME WireInv, item.kind = "foreign", T!ParseHeader(wire).ok
               PROVE  LET h == T!ParseHeader(wire).value
                          again == T!ParseHeader(T!Marshal(h))
                      IN  /\ again.ok /\ again.value.Options = h.Options
                          /\ Len(T!OptionBytes(h.Options)) <= Len(item.options)
    BY DEF ForeignOptionsKept
  <2>1. PICK options \in OptionFields : options = item.options /\ wire = ForeignBytes(options)
    BY DEF WireInv, ForeignInv
  <2>2. /\ options \in Seq(Byte) /\ Len(options) <= 40 /\ Len(options) % 4 = 0
        /\ ForeignHeader \in TcpHeaderSet /\ wire \in Seq(Byte)
        /\ SaysPorts(wire, ForeignHeader) /\ SaysOffset(wire, ForeignHeader, Len(options))
        /\ At(wire, 20, options)
    BY <2>1, ForeignSegment
  <2>3. PICK offset, sum : /\ offset = 5 + Len(options) \div 4
                           /\ sum = wire[17] * 256 + wire[18]
    OBVIOUS
  <2>4. T!ParseHeader(wire)
          = IF ~ T!ParseOptions(options).ok THEN T!Malformed
            ELSE T!Parsed(TcpRead(ForeignHeader, offset, sum, T!ParseOptions(options).value))
    BY <2>2, <2>3, ParsedSegment
  <2>5. T!ParseOptions(options).ok
    <3>1. ~ T!Malformed.ok
      BY DEF T!Malformed
    <3> QED
      BY <2>4, <3>1
  <2>6. PICK v : T!ParseOptions(options) = T!Parsed(v) /\ Found(v, Len(options))
    <3>1. T!ParseOptions(options) # T!Malformed
      BY <2>5 DEF T!Malformed
    <3> QED
      BY <2>2, <3>1, ParsedAreFound DEF FoundOrNot
  <2>7. PICK h : h = TcpRead(ForeignHeader, offset, sum, v)
    OBVIOUS
  <2>8. T!ParseHeader(wire) = T!Parsed(h)
    <3>1. T!ParseOptions(options).value = v
      BY <2>6 DEF T!Parsed
    <3> QED
      BY <2>4, <2>5, <2>7, <3>1
  <2>9. h.Options = v
    BY <2>7 DEF TcpRead, TcpFields
  <2>10. h \in TcpHeaderSet
    <3>1. offset \in Byte
      <4>1. PICK n \in Nat : n = Len(options)
        BY <2>2
      <4>2. n <= 40
        BY <2>2, <4>1
      <4>3. 5 + n \div 4 \in Nat /\ 5 + n \div 4 < 256
        BY <4>2
      <4> QED
        BY <2>3, <4>1, <4>3 DEF Byte, Below
    <3>2. sum \in Word
      <4>1. 17 \in 1 .. Len(wire) /\ 18 \in 1 .. Len(wire)
        BY <2>2 DEF At
      <4>2. wire[17] \in Byte /\ wire[18] \in Byte
        BY <2>2, <4>1, Entries
      <4>3. PICK a \in Nat, b \in Nat : a = wire[17] /\ b = wire[18] /\ a < 256 /\ b < 256
        BY <4>2 DEF Byte, Below
      <4>4. a * 256 + b \in Nat /\ a * 256 + b < 65536
        BY <4>3
      <4> QED
        BY <2>3, <4>3, <4>4 DEF Word, Below
    <3>3. v \in Seq(TcpOptionSet)
      BY <2>6 DEF Found
    <3> QED
      BY <2>2, <2>7, <3>1, <3>2, <3>3 DEF TcpRead, TcpFields, TcpHeaderSet
  <2>11. Len(options) \in Nat
    BY <2>2
  <2>12. PICK offset2, sum2 :
           T!ParseHeader(T!Marshal(h)) = T!Parsed(TcpRead(h, offset2, sum2, v))
    BY <2>2, <2>6, <2>9, <2>10, <2>11, FoundReadBack
  <2>13. PICK again : again = T!ParseHeader(T!Marshal(h))
    OBVIOUS
  <2>14. again.ok /\ again.value.Options = v
    <3>1. T!Parsed(TcpRead(h, offset2, sum2, v)).ok
      BY DEF T!Parsed
    <3>2. T!Parsed(TcpRead(h, offset2, sum2, v)).value.Options = v
      BY DEF T!Parsed, TcpRead, TcpFields
    <3> QED
      BY <2>12, <2>13, <3>1, <3>2
  <2>15. T!ParseHeader(wire).value = h
    BY <2>8 DEF T!Parsed
  <2>16. Len(T!OptionBytes(v)) <= Len(item.options)
    BY <2>1, <2>6 DEF Found
  <2> QED
    BY <2>9, <2>13, <2>14, <2>15, <2>16
<1> QED
  BY <1>1, WireInductive, PTL

-----------------------------------------------------------------------------
(* The start command.                                                      *)

\* Whatever file and flags give, the settings keep their types, and what is
\* accepted has passed Validate, after which nothing overrides it.
SettingsTyped(settings) ==
  /\ "MTU" \in DOMAIN settings /\ settings["MTU"] \in Int
  /\ "DeviceIP" \in DOMAIN settings /\ settings["DeviceIP"] \in Addresses

ConfigInv == SettingsTyped(cfg) /\ (command = "accepted" => IsValid)

LEMMA OverKeepsType ==
  ASSUME NEW given, Typed(given), NEW settings, SettingsTyped(settings)
  PROVE  SettingsTyped(Over(given, settings))
BY DEF Over, Typed, SettingsTyped

LEMMA DefaultsTyped == SettingsTyped(Defaults)
BY DEF Defaults, SettingsTyped, Addresses

LEMMA ConfigInductive == SpecCommand => []ConfigInv
<1>1. InitCommand => ConfigInv
  BY DefaultsTyped DEF InitCommand, ConfigInv
<1>2. ConfigInv /\ [NextCommand]_commandVars => ConfigInv'
  <2> SUFFICES ASSUME ConfigInv, [NextCommand]_commandVars PROVE ConfigInv'
    OBVIOUS
  <2>1. CASE Load
    <3>1. /\ command' # "accepted"
          /\ \/ cfg' \in {cfg, Defaults}
             \/ \E file \in Files : /\ file.read = "decoded"
                                    /\ cfg' = Over(file.given, Defaults)
      BY <2>1 DEF Load, Step
    <3>2. CASE cfg' \in {cfg, Defaults}
      BY <3>1, <3>2, DefaultsTyped DEF ConfigInv
    <3>3. ASSUME NEW file \in Files, file.read = "decoded",
                 cfg' = Over(file.given, Defaults)
          PROVE  ConfigInv'
      BY <3>1, <3>3, DefaultsTyped, OverKeepsType, SettingsAssumption DEF ConfigInv
    <3> QED
      BY <3>1, <3>2, <3>3
  <2>2. CASE Override
    <3>1. PICK flags \in FlagSets : cfg' = Over(flags, cfg)
      BY <2>2 DEF Override
    <3>2. SettingsTyped(cfg')
      BY <3>1, OverKeepsType, SettingsAssumption DEF ConfigInv
    <3> QED
      BY <2>2, <3>2 DEF ConfigInv, Override, Step
  <2>3. CASE Validate
    BY <2>3 DEF ConfigInv, Validate, Step, IsValid
  <2>4. CASE UNCHANGED commandVars
    BY <2>4 DEF ConfigInv, commandVars, IsValid
  <2> QED
    BY <2>1, <2>2, <2>3, <2>4 DEF NextCommand
<1> QED
  BY <1>1, <1>2, PTL DEF SpecCommand

(* What the start command accepts is taken as it was meant, whatever files *)
(* and flags there are and whichever of them gives a setting: the mode is  *)
(* one that Open knows, a raw socket that opens is bound to the address    *)
(* given, the log level is used, and the MTU lets packets be fragmented    *)
(* (config.go:77-98).                                                      *)
THEOREM ConfigTakenAsMeant == SpecCommand => []AcceptedConfigMeant
<1>1. ConfigInv => AcceptedConfigMeant
  <2> SUFFICES ASSUME ConfigInv, command = "accepted"
               PROVE  AcceptedConfigMeant
    BY DEF AcceptedConfigMeant
  <2>1. IsValid /\ cfg.MTU \in Int /\ cfg.DeviceIP \in Addresses
    BY DEF ConfigInv, SettingsTyped
  <2>2. FragmentsFit(cfg.MTU) /\ cfg.MTU <= LongestPacket
    BY <2>1 DEF IsValid, ValidMTU, FragmentsFit, LongestPacket
  <2>3. BindAddress(cfg.DeviceIP) # "refused" =>
          BindAddress(cfg.DeviceIP) = Named(cfg.DeviceIP)
    <3>1. cfg.DeviceIP \in {"", "IPv4", "IPv6"}
      BY <2>1 DEF IsValid, IsIP, Addresses
    <3> QED
      BY <3>1 DEF BindAddress, AnyAddress, Named
  <2> QED
    BY <2>1, <2>2, <2>3 DEF AcceptedConfigMeant, IsValid, OpenModes, ZapLevels
<1> QED
  BY <1>1, ConfigInductive, PTL
=============================================================================
