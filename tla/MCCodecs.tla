------------------------------ MODULE MCCodecs ------------------------------
(* The codecs with values at the ends of their fields, and the start command *)
(* beside them.                                                              *)
EXTENDS Codecs, Config, FiniteSets, SequencesExt

-----------------------------------------------------------------------------

\* The MSS option of newHeader, a window scale, SACK permitted, and a SACK
\* that fills the field with two NOPs.
MSS == [Kind |-> 2, Length |-> 4, Data |-> <<5, 180>>]
Scale == [Kind |-> 3, Length |-> 3, Data |-> <<14>>]
Permit == [Kind |-> 4, Length |-> 2, Data |-> <<>>]
SACK == [Kind |-> 5, Length |-> 34, Data |-> [i \in 1 .. 32 |-> 250 + (i % 6)]]
NOP == T!Bodiless(T!OptNOP)
End == T!Bodiless(T!OptEndOfList)

OptionLists ==
  { <<>>, <<MSS>>, <<Scale>>, <<MSS, Permit>>, <<NOP, Scale, MSS>>, <<MSS, End, Scale>>,
    <<SACK, NOP, NOP>>, <<NOP, SACK, MSS>> }

HeadersOfTcp ==
  { [SrcPort |-> ports[1], DstPort |-> ports[2], SeqNum |-> seq, AckNum |-> <<0, 65535>>,
     DataOffset |-> 0, Flags |-> flags, Window |-> 65535, Checksum |-> sum, Urgent |-> 0,
     Options |-> options]
    : ports \in {<<80, 65535>>}, seq \in {<<0, 1>>, <<65535, 65535>>}, flags \in {2, 255},
      sum \in {0, 4660}, options \in OptionLists }

Payloads == {<<>>, <<1>>, <<255, 255, 255>>}

HeaderOfIp(ihl, id, flags, offset, options) ==
  [ok |-> TRUE, Version |-> 4, IHL |-> ihl, TOS |-> 3, TotalLen |-> 65535, ID |-> id,
   Flags |-> flags, FragOffset |-> offset, TTL |-> 255, Protocol |-> 6,
   Checksum |-> 65535, Src |-> Src, Dst |-> Dst, Options |-> options]

\* With options up to 40 bytes, and with lengths below the fixed fields.
HeadersOfIp ==
  { HeaderOfIp(5 + (Len(options) \div 4), id, flags, offset, options)
    : id \in {0, 65535}, flags \in 0 .. 7, offset \in {0, 1, 8191},
      options \in {<<>>, <<7, 4, 4, 0>>, [i \in 1 .. 40 |-> i]} }
  \cup {HeaderOfIp(ihl, 1, 0, 0, <<>>) : ihl \in 0 .. 4}

ContextsOfOptions ==
  LET new == I!NewContext(I!NextID(65534))
  IN  { new, I!NewContext(I!NextID(65535)), I!WithDF(new), I!WithDF(I!WithTTL(new, 1)),
        I!WithTOS(new, 255), I!WithID(new, 258) }

\* Up to the longest packet and one byte more.
PayloadsOfIp == {[i \in 1 .. n |-> 255] : n \in {0, 1, MaxPacket - 20, MaxPacket - 19}}

PartsOfData == UNION {[1 .. n -> {0, 1, 255}] : n \in 0 .. 4}

FieldsOfOptions == [1 .. 4 -> {0, 1, 2, 3, 4, 5}] \cup {<<2, 4, 5, 180, 1, 3, 3, 7>>}

SrcAddress == <<10, 0, 0, 1>>
DstAddress == <<192, 168, 255, 255>>

-----------------------------------------------------------------------------

InitMC == Init /\ InitCommand

NextMC ==
  \/ command = "idle" /\ Next /\ UNCHANGED commandVars
  \/ Idle /\ NextCommand /\ UNCHANGED vars

SpecMC == InitMC /\ [][NextMC]_<<vars, commandVars>>

-----------------------------------------------------------------------------
(* Files and flags on both sides of every limit of Validate.                  *)

Settings(mode, ip, mtu, level, size) ==
  [Mode |-> mode, DeviceIP |-> ip, MTU |-> mtu, LogLevel |-> level, BufSize |-> size]

FilesOfUsers ==
  { [read |-> "absent", given |-> <<>>], [read |-> "bad", given |-> <<>>] }
  \cup [read : {"decoded"},
        given : { Settings(mode, ip, mtu, level, size)
                  : mode \in {"tun", "tap"}, ip \in {"", "IPv4", "IPv6", "invalid"},
                    mtu \in {575, 576, 65535, 65536}, level \in {"warn", "trace"},
                    size \in {0, 1} }]

FlagsOfUsers ==
  { <<>>, [Mode |-> "raw"], [Mode |-> "raw", DeviceIP |-> "IPv4"],
    [MTU |-> 67], [MTU |-> 576], [LogLevel |-> "debug"], [PeerIP |-> "invalid"],
    [Mode |-> "none", MTU |-> 9000] }
=============================================================================
