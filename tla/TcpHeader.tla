------------------------------ MODULE TcpHeader ------------------------------
(***************************************************************************)
(* The TCP header and its options (internal/tcp/header.go).                *)
(*                                                                         *)
(* A 32-bit number is the pair of its 16-bit halves; no operation of the   *)
(* codec looks inside one.  A failed parse is Malformed.                   *)
(***************************************************************************)
EXTENDS Checksums

MinHeaderLen == 20

OptEndOfList == 0
OptNOP == 1

Malformed == [ok |-> FALSE]
Parsed(value) == [ok |-> TRUE, value |-> value]

\* An option without a body has Length 0, as TCPOption{Kind: kind} does.
Bodiless(kind) == [Kind |-> kind, Length |-> 0, Data |-> <<>>]

\* The option at position i, if it has a length and that is in the data.
Fits(data, i) ==
  i + 1 <= Len(data) /\ data[i + 1] >= 2 /\ i + data[i + 1] - 1 <= Len(data)

DataOneShort(data, i) == SubSeq(data, i + 2, i + data[i + 1] - 2)
DataAt(data, i) == SubSeq(data, i + 2, i + data[i + 1] - 1)
OptionAt(data, i) == [Kind |-> data[i], Length |-> data[i + 1], Data |-> DataAt(data, i)]

ParseOptions(data) ==
  LET Before(option, rest) == IF rest.ok THEN Parsed(<<option>> \o rest.value) ELSE rest
      from[i \in 1 .. Len(data) + 1] ==
        IF i > Len(data) THEN Parsed(<<>>)
        ELSE CASE data[i] = OptEndOfList -> Parsed(<<>>)
               [] data[i] = OptNOP -> Before(Bodiless(OptNOP), from[i + 1])
               [] OTHER -> IF Fits(data, i) THEN Before(OptionAt(data, i), from[i + data[i + 1]])
                                      ELSE Malformed
  IN  from[1]

ParseHeader(raw) ==
  LET offset == raw[13] \div 16
      options == IF offset = 5 THEN Parsed(<<>>)
                 ELSE ParseOptions(SubSeq(raw, MinHeaderLen + 1, 4 * offset))
  IN  IF \/ Len(raw) < MinHeaderLen
         \/ offset < 5
         \/ Len(raw) < 4 * offset
         \/ ~ options.ok
      THEN Malformed
      ELSE Parsed([SrcPort |-> Uint16(raw, 1), DstPort |-> Uint16(raw, 3),
                   SeqNum |-> <<Uint16(raw, 5), Uint16(raw, 7)>>,
                   AckNum |-> <<Uint16(raw, 9), Uint16(raw, 11)>>,
                   DataOffset |-> offset, Flags |-> raw[14],
                   Window |-> Uint16(raw, 15), Checksum |-> Uint16(raw, 17),
                   Urgent |-> Uint16(raw, 19), Options |-> options.value])

-----------------------------------------------------------------------------

\* The bytes of the options up to one that ends the list.
Encode(o) == IF o.Kind \in {OptEndOfList, OptNOP} THEN <<o.Kind>>
             ELSE <<o.Kind, o.Length>> \o o.Data

OptionBytes(options) ==
  LET from[i \in 1 .. Len(options) + 1] ==
        IF i > Len(options) THEN <<>>
        ELSE IF options[i].Kind = OptEndOfList THEN Encode(options[i])
        ELSE Encode(options[i]) \o from[i + 1]
  IN  from[1]

\* They are padded to a multiple of four bytes ...
PadNothing(bytes) == bytes
Pad(bytes) == bytes \o [i \in 1 .. (4 - (Len(bytes) % 4)) % 4 |-> OptEndOfList]

\* ... and the length of the header is computed in a uint8, whose low four
\* bits are kept on the wire.
DataOffset(options) == ((MinHeaderLen + Len(Pad(OptionBytes(options)))) % 256) \div 4

Marshal(h) ==
  Bytes16(h.SrcPort) \o Bytes16(h.DstPort)
  \o Bytes16(h.SeqNum[1]) \o Bytes16(h.SeqNum[2])
  \o Bytes16(h.AckNum[1]) \o Bytes16(h.AckNum[2])
  \o <<(DataOffset(h.Options) * 16) % 256, h.Flags>>
  \o Bytes16(h.Window) \o Bytes16(h.Checksum) \o Bytes16(h.Urgent)
  \o Pad(OptionBytes(h.Options))
==============================================================================
