-------------------------------- MODULE Icmp --------------------------------
(***************************************************************************)
(* ICMP echo (internal/icmp/icmp.go, handler.go): the handler of a request *)
(* builds a reply, for which it draws an identification from the generator *)
(* all builders share, and writes it to the interface, which may fail.     *)
(***************************************************************************)
EXTENDS IpHeader

CONSTANTS
  Packets,
  SrcIP, DstIP, PayloadOf   \* what Dispatch hands to the handler of a packet

VARIABLES
  idGen,          \* defaultIDGen
  id,             \* the identification drawn for the reply to each packet
  reply           \* "none", "built", "written" or "failed", for each packet

vars == <<idGen, id, reply>>

TypeEchoReply == 0
TypeEchoRequest == 8

-----------------------------------------------------------------------------
(* Messages.                                                               *)

NotEcho == [ok |-> FALSE]

\* ErrTooShort and ErrNotEcho end the handler alike.
NeedsData(raw) == Len(raw) <= 8
TooShort(raw) == Len(raw) < 8

ParseEcho(raw) ==
  IF TooShort(raw) \/ raw[1] \notin {TypeEchoRequest, TypeEchoReply}
  THEN NotEcho
  ELSE [ok |-> TRUE, Type |-> raw[1], Code |-> raw[2], Checksum |-> Uint16(raw, 3),
        ID |-> Uint16(raw, 5), Seq |-> Uint16(raw, 7), Data |-> SubSeq(raw, 9, Len(raw))]

MarshalEcho(m) ==
  LET buf(sum) == <<m.Type, m.Code>> \o Bytes16(sum)
                  \o Bytes16(m.ID) \o Bytes16(m.Seq) \o m.Data
  IN  buf(Checksum(buf(0)))

NewEchoReply(req) ==
  [Type |-> TypeEchoReply, Code |-> 0, ID |-> req.ID, Seq |-> req.Seq, Data |-> req.Data]

\* The packet the handler writes.
EchoReply(p) ==
  Build(DstIP[p], SrcIP[p], ProtoICMP, id[p], MarshalEcho(NewEchoReply(ParseEcho(PayloadOf[p]))))

-----------------------------------------------------------------------------
(* HandleIPPayload.                                                        *)

IsRequest(p) == LET m == ParseEcho(PayloadOf[p]) IN m.ok /\ m.Type = TypeEchoRequest

\* The packet is no request.
Ignore(p) == ~ IsRequest(p) /\ UNCHANGED vars

BuildReply(p) ==
  /\ IsRequest(p) /\ reply[p] = "none"
  /\ idGen' = NextID(idGen)
  /\ id' = [id EXCEPT ![p] = idGen']
  /\ reply' = [reply EXCEPT ![p] = "built"]

Write(p) ==
  /\ reply[p] = "built"
  /\ reply' = [reply EXCEPT ![p] = "written"]
  /\ UNCHANGED <<idGen, id>>

WriteFails(p) ==
  /\ reply[p] = "built"
  /\ reply' = [reply EXCEPT ![p] = "failed"]
  /\ UNCHANGED <<idGen, id>>

Init ==
  /\ idGen = 0
  /\ id = [p \in Packets |-> 0]
  /\ reply = [p \in Packets |-> "none"]
=============================================================================
