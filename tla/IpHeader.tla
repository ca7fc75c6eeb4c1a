------------------------------ MODULE IpHeader ------------------------------
(***************************************************************************)
(* The IPv4 header, its parser and the packet builder                      *)
(* (internal/ip/header.go, parser.go, builder.go).                         *)
(***************************************************************************)
EXTENDS Checksums

CONSTANT MaxPacket      \* 65535 in the code: what TotalLen can say

FlagDF == 2
FlagMF == 1
ProtoICMP == 1
ProtoUDP == 17
MinHeaderLen == 20

NoHeader == [ok |-> FALSE]

HeaderLen(h) == h.IHL * 4

\* IHL is not compared with 5 here, nor TotalLen with the packet's length:
\* only the dispatcher does that.
ParseHeader(raw) ==
  LET ihl == raw[1] % 16
      totalLen == Uint16(raw, 3)
      flagsAndOffset == Uint16(raw, 7)
  IN  IF \/ Len(raw) < MinHeaderLen
         \/ raw[1] \div 16 # 4
         \/ Len(raw) < ihl * 4
         \/ totalLen < ihl * 4
      THEN NoHeader
      ELSE [ok |-> TRUE, Version |-> 4, IHL |-> ihl, TOS |-> raw[2],
            TotalLen |-> totalLen, ID |-> Uint16(raw, 5),
            Flags |-> flagsAndOffset \div 8192, FragOffset |-> flagsAndOffset % 8192,
            TTL |-> raw[9], Protocol |-> raw[10], Checksum |-> Uint16(raw, 11),
            Src |-> SubSeq(raw, 13, 16), Dst |-> SubSeq(raw, 17, 20),
            Options |-> SubSeq(raw, 21, ihl * 4)]

\* The bytes of an address that is no IPv4 address stay zero, and so does what
\* the options leave of the header.
Address(ip) == IF ip = <<>> THEN <<0, 0, 0, 0>> ELSE ip

FlagsOneBitOff(h) == ((h.Flags * 16384) % 65536) + (h.FragOffset % 8192)
FlagsInPlace(h) == ((h.Flags * 8192) % 65536) + (h.FragOffset % 8192)

\* The code panics when a header length below the fixed fields, which
\* ParseHeader accepts, leaves no room for what is copied: the last address or
\* the options at 20, else the numbers before the addresses.
Panic == <<>>
BytesNeeded(h) ==
  IF h.Dst # <<>> \/ h.Options # <<>> THEN MinHeaderLen
  ELSE IF h.Src # <<>> THEN 16 ELSE 12

Marshal(h) ==
  LET fixed == <<((h.Version * 16) % 256) + (h.IHL % 16), h.TOS>>
               \o Bytes16(h.TotalLen) \o Bytes16(h.ID) \o Bytes16(FlagsInPlace(h))
               \o <<h.TTL, h.Protocol>> \o Bytes16(h.Checksum)
               \o Address(h.Src) \o Address(h.Dst)
  IN  IF HeaderLen(h) < BytesNeeded(h)
      THEN Panic
      ELSE [i \in 1 .. HeaderLen(h) |->
              CASE i <= MinHeaderLen -> fixed[i]
                [] i - MinHeaderLen \in DOMAIN h.Options -> h.Options[i - MinHeaderLen]
                [] OTHER -> 0]

\* To the end of the packet as it was read, behind TotalLen too; nil is <<>>.
Payload(h, raw) == SubSeq(raw, HeaderLen(h) + 1, Len(raw))

\* The upper layers are decoded by gopacket and left out.
Parse(raw) ==
  LET h == ParseHeader(raw)
  IN  IF h.ok THEN [ok |-> TRUE, IPHeader |-> h, Payload |-> Payload(h, raw)]
              ELSE NoHeader

-----------------------------------------------------------------------------
(* The builder.                                                            *)

\* IDGenerator.Next: the counter of 32 bits is cut to 16.
NextID(val) == (val + 1) % 65536

\* What buildContext holds: the defaults, with the identifier drawn, and the
\* options of the caller.
NewContext(id) == [ttl |-> 64, tos |-> 0, flags |-> 0, id |-> id]
WithTTL(context, n) == [context EXCEPT !.ttl = n]
WithTOS(context, n) == [context EXCEPT !.tos = n]
WithDF(context) == [context EXCEPT !.flags = FlagDF]
WithID(context, id) == [context EXCEPT !.id = id]

PacketTooLarge == <<>>

Built(src, dst, proto, context, payload, sum) ==
  [Version |-> 4, IHL |-> MinHeaderLen \div 4, TOS |-> context.tos,
   TotalLen |-> MinHeaderLen + Len(payload), ID |-> context.id,
   Flags |-> context.flags, FragOffset |-> 0, TTL |-> context.ttl,
   Protocol |-> proto, Checksum |-> sum, Src |-> src, Dst |-> dst,
   Options |-> <<>>]

\* The checksum is that of the header marshalled with checksum 0.
BuildWithOptions(src, dst, proto, context, payload) ==
  LET h(sum) == Built(src, dst, proto, context, payload, sum)
  IN  IF MinHeaderLen + Len(payload) > MaxPacket
      THEN PacketTooLarge
      ELSE Marshal(h(Checksum(Marshal(h(0))))) \o payload

Build(src, dst, proto, id, payload) ==
  BuildWithOptions(src, dst, proto, NewContext(id), payload)
==============================================================================
