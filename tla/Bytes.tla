-------------------------------- MODULE Bytes --------------------------------
(***************************************************************************)
(* What the codecs work on: numbers of the types byte and uint16, byte     *)
(* slices as sequences, and IP packets as internal/ip builds and parses    *)
(* them.                                                                   *)
(***************************************************************************)
EXTENDS Integers, Sequences

CONSTANT MaxPacket

I == INSTANCE IpHeader

Below(n) == {i \in Nat : i < n}
Byte == Below(256)
Word == Below(65536)
Address == {a \in Seq(Byte) : Len(a) = 4}

\* What options may make of the defaults of a build.
ContextSet == [ttl : Byte, tos : Byte, flags : Below(8), id : Word]

ASSUME MaxPacketAssumption == MaxPacket \in Word
=============================================================================
