------------------------------ MODULE MCStack ------------------------------
(* Stack with the packets of a peer: an echo request with data and Ethernet *)
(* padding, one with IP options and no data, one longer than the buffer,   *)
(* another ICMP message and one of a protocol nobody handles.               *)
EXTENDS Stack, TLC

CONSTANTS padded, optional, long, unreachable, udp, icmp1, icmp2

Here == <<10, 0, 0, 1>>
Peer == <<10, 0, 0, 2>>

AskedOf ==
  (padded :> [src |-> Peer, dst |-> Here, id |-> 7, seq |-> 1, data |-> <<255, 3>>])
  @@ (optional :> [src |-> Peer, dst |-> Here, id |-> 7, seq |-> 258, data |-> <<>>])
  @@ (long :> [src |-> Peer, dst |-> Here, id |-> 8, seq |-> 0, data |-> [i \in 1 .. 9 |-> i]])

\* The peer's packet, with checksums the stack does not look at.
PeerPacket(proto, options, payload) ==
  LET length == 20 + Len(options) + Len(payload)
  IN  <<69 + Len(options) \div 4, 0, 0, length>>
      \o <<0, 1, 0, 0, 64, proto, 0, 0>> \o Peer \o Here \o options \o payload

Request(m) == <<8, 0, 0, 0, 0, m.id>> \o <<m.seq \div 256, m.seq % 256>> \o m.data

OfferedBytes ==
  (padded :> PeerPacket(1, <<>>, Request(AskedOf[padded])) \o <<9, 9>>)
  @@ (optional :> PeerPacket(1, <<1, 1, 1, 0>>, Request(AskedOf[optional])))
  @@ (long :> PeerPacket(1, <<>>, Request(AskedOf[long])))
  @@ (unreachable :> PeerPacket(1, <<>>, <<3, 1, 0, 0, 0, 0, 0, 0>>))
  @@ (udp :> PeerPacket(17, <<>>, <<>>))

ProtocolOfHandler == (icmp1 :> 1) @@ (icmp2 :> 1)

\* What goes on at the same time: loops started, packets read, handlers
\* registered, a call of Stats, a cancellation, a Close.
Activity ==
  Cardinality({l \in Loops : loop[l] # "new"}) + Cardinality(Packets \ input)
  + Len(registered) + (IF snapshot = <<>> THEN 0 ELSE 1)
  + (IF cancelled THEN 1 ELSE 0) + (IF closed THEN 1 ELSE 0)

CONSTANT MaxActivity

NextMC == NextStack /\ Activity' <= MaxActivity

SpecMC == InitStack /\ [][NextMC]_stackVars /\ FairnessStack
=============================================================================
