------------------------------- MODULE Codecs -------------------------------
(***************************************************************************)
(* The codecs of internal/ip and internal/tcp, from one host to another:   *)
(* one marshals a TCP segment, builds an IP packet or marshals an IP       *)
(* header, the network may change a byte of it, the other verifies and     *)
(* parses.  Or the bytes of a TCP header come from another implementation. *)
(***************************************************************************)
EXTENDS Bytes

CONSTANTS
  Src, Dst,         \* addresses
  TcpHeaders, TcpPayloads,
  IpHeaders,        \* headers as a router may pass them on
  Contexts,         \* what the options of a build make of the defaults
  IpPayloads,
  Parts,            \* pieces of data summed separately
  OptionFields,     \* option fields of other implementations
  Changes           \* by how much the network changes a byte

T == INSTANCE TcpHeader

ASSUME AddressAssumption == Src \in Address /\ Dst \in Address
ASSUME DataAssumption ==
  TcpPayloads \cup IpPayloads \cup Parts \cup OptionFields \subseteq Seq(Byte)
\* What is summed fits into a packet or two: the uint32 of the loops does not
\* wrap below 2^17 bytes (ip/checksum.go:8, 39).
ASSUME LengthAssumption == \A data \in TcpPayloads \cup Parts : Len(data) <= 65535
ASSUME OptionFieldsAssumption ==
  \A options \in OptionFields : Len(options) % 4 = 0 /\ Len(options) <= 40
ASSUME ChangeAssumption == Changes \subseteq Byte \ {0}

\* What a caller sends: fields in the ranges of their types, and options of the
\* length they say whose bytes fit into a header.
TcpOptionSet == [Kind : Byte, Length : Byte, Data : Seq(Byte)]
TcpHeaderSet ==
  [SrcPort : Word, DstPort : Word, SeqNum : Word \X Word, AckNum : Word \X Word,
   DataOffset : Byte, Flags : Byte, Window : Word, Checksum : Word, Urgent : Word,
   Options : Seq(TcpOptionSet)]
WellFormed(o) ==
  IF o.Kind \in {T!OptEndOfList, T!OptNOP} THEN o = T!Bodiless(o.Kind)
                                         ELSE o.Length = 2 + Len(o.Data)

ASSUME TcpHeadersAssumption ==
  \A h \in TcpHeaders :
    /\ h \in TcpHeaderSet
    /\ \A i \in DOMAIN h.Options : WellFormed(h.Options[i])
    /\ Len(T!OptionBytes(h.Options)) <= 40

\* What ParseHeader may find: the options fill the header, if its length is not
\* below that of the fixed fields, and TotalLen covers it.
IpHeaderSet ==
  [ok : BOOLEAN, Version : {4}, IHL : Below(16), TOS : Byte,
   TotalLen : Word, ID : Word, Flags : Below(8), FragOffset : Below(8192),
   TTL : Byte, Protocol : Byte, Checksum : Word, Src : Address, Dst : Address,
   Options : Seq(Byte)]

ASSUME IpHeadersAssumption ==
  \A h \in IpHeaders :
    /\ h \in IpHeaderSet /\ h.ok = TRUE
    /\ Len(h.Options) = (IF h.IHL < 5 THEN 0 ELSE 4 * h.IHL - 20)
    /\ h.TotalLen >= 4 * h.IHL

\* The arguments of the options WithTTL, WithTOS, WithDF and WithID.
ASSUME ContextsAssumption == Contexts \subseteq ContextSet

VARIABLES
  item,             \* what was sent
  wire              \* its bytes

vars == <<item, wire>>

Nothing == [kind |-> "nothing"]

Idle == item.kind = "nothing"

\* newHeader and send of a TCPConn's caller: the segment with its checksum.
SendSegment ==
  /\ Idle
  /\ \E h \in TcpHeaders, data \in TcpPayloads :
       /\ item' = [kind |-> "segment", header |-> h, data |-> data, changed |-> FALSE]
       /\ wire' = T!SetAndCompute(Src, Dst, T!Marshal(h) \o data)

SendPacket ==
  /\ Idle
  /\ \E context \in Contexts, data \in IpPayloads :
       /\ item' = [kind |-> "packet", context |-> context, data |-> data, changed |-> FALSE]
       /\ wire' = I!BuildWithOptions(Src, Dst, I!ProtoUDP, context, data)

ForwardPacket ==
  /\ Idle
  /\ \E h \in IpHeaders :
       /\ item' = [kind |-> "header", header |-> h, changed |-> FALSE]
       /\ wire' = I!Marshal(h)

\* A header of another implementation with this field of options.
ReceiveSegment ==
  /\ Idle
  /\ \E options \in OptionFields :
       /\ item' = [kind |-> "foreign", options |-> options, changed |-> FALSE]
       /\ wire' = <<0, 1, 0, 2, 0, 0, 0, 3, 0, 0, 0, 4, (5 + Len(options) \div 4) * 16, 2>>
                  \o <<255, 255, 0, 0, 0, 0>> \o options

\* The checksums of two pieces are combined to that of the whole.
SumParts ==
  /\ Idle
  /\ \E first \in {a \in Parts : Len(a) % 2 = 0}, second \in Parts :
       /\ item' = [kind |-> "parts", data |-> first \o second, changed |-> FALSE]
       /\ wire' = I!Bytes16(I!ChecksumCombine(I!Checksum(first), I!Checksum(second)))

Change ==
  /\ item.kind \in {"segment", "packet"} /\ ~item.changed
  /\ \E i \in DOMAIN wire, d \in Changes :
       wire' = [wire EXCEPT ![i] = (@ + d) % 256]
  /\ item' = [item EXCEPT !.changed = TRUE]

Init == item = Nothing /\ wire = <<>>

Next == SendSegment \/ SendPacket \/ ForwardPacket \/ ReceiveSegment \/ SumParts \/ Change

Spec == Init /\ [][Next]_vars

-----------------------------------------------------------------------------
(* Properties.                                                             *)

\* The options up to one that ends the list.
Meant(options) ==
  SubSeq(options, 1,
    CHOOSE n \in 0 .. Len(options) :
      /\ \A i \in 1 .. n : options[i].Kind # T!OptEndOfList
      /\ n < Len(options) => options[n + 1].Kind = T!OptEndOfList)

(* A segment whose options take 40 bytes or less is verified and parsed to *)
(* what was sent, and its data begins where the parsed header ends; the    *)
(* padding, the data offset's uint8 and shift, and a checksum field that   *)
(* held something else lose nothing (tcp/header.go:150, checksum.go:38).   *)
SegmentsArrive ==
  item.kind = "segment" /\ ~item.changed =>
    LET parsed == T!ParseHeader(wire)
    IN  /\ T!Verify(Src, Dst, wire)
        /\ parsed.ok
        /\ [parsed.value EXCEPT !.DataOffset = item.header.DataOffset,
                                !.Checksum = item.header.Checksum]
             = [item.header EXCEPT !.Options = Meant(@)]
        /\ SubSeq(wire, 4 * parsed.value.DataOffset + 1, Len(wire)) = item.data

(* A header that ParseHeader accepts, of whatever implementation, is       *)
(* marshalled to one that parses to the same options, and the options it   *)
(* finds lie in the field (tcp/header.go:109-148).                         *)
ForeignOptionsKept ==
  item.kind = "foreign" /\ T!ParseHeader(wire).ok =>
    LET h == T!ParseHeader(wire).value
        again == T!ParseHeader(T!Marshal(h))
    IN  /\ again.ok /\ again.value.Options = h.Options
        /\ Len(T!OptionBytes(h.Options)) <= Len(item.options)

(* A packet that was built says its length and parses to the arguments of  *)
(* Build, with a header checksum that verifies; it is refused when it is   *)
(* too long to say its length.  A header passed on keeps its flags, offset *)
(* and options, and the only ones that ParseHeader accepts and Marshal     *)
(* panics on are those shorter than the fixed fields (ip/builder.go:99,    *)
(* header.go:92).                                                          *)
PacketsArrive ==
  /\ item.kind = "packet" /\ ~item.changed =>
       IF I!MinHeaderLen + Len(item.data) > MaxPacket
       THEN wire = I!PacketTooLarge
       ELSE LET p == I!Parse(wire)
                h == p.IPHeader
            IN  /\ p.ok /\ p.Payload = item.data
                /\ h.TotalLen = Len(wire)
                /\ h.Src = Src /\ h.Dst = Dst /\ h.Protocol = I!ProtoUDP
                /\ [ttl |-> h.TTL, tos |-> h.TOS, flags |-> h.Flags, id |-> h.ID]
                     = item.context
                /\ h.FragOffset = 0
                /\ I!VerifyChecksum(I!Marshal(h))
  /\ item.kind = "header" =>
       IF item.header.IHL < 5
       THEN wire = I!Panic
       ELSE I!ParseHeader(wire).ok /\ I!ParseHeader(wire) = item.header

(* The checksum of a segment, with its pseudo-header, or of a packet's     *)
(* header tells every change of one byte (ip/checksum.go:8, 39).           *)
ChangesDetected ==
  /\ item.kind = "segment" /\ item.changed => ~ T!Verify(Src, Dst, wire)
  /\ item.kind = "packet" /\ item.changed =>
       LET header == SubSeq(wire, 1, 20)
       IN  SubSeq(wire, 21, Len(wire)) = item.data => ~ I!VerifyChecksum(header)

(* A checksum computed in parts, the first of an even length, is that of   *)
(* the whole, whatever carries each sum has (ip/checksum.go:25).           *)
PartsCombine ==
  item.kind = "parts" => wire = I!Bytes16(I!Checksum(item.data))
=============================================================================
