------------------------------ MODULE Checksums ------------------------------
(***************************************************************************)
(* The one's complement checksums of IPv4, ICMP and TCP                    *)
(* (internal/ip/checksum.go, internal/tcp/checksum.go).                    *)
(*                                                                         *)
(* Bytes are numbers and byte slices sequences of them; TLA+ counts their  *)
(* elements from 1.  An IP address is its four bytes, or <<>> when To4     *)
(* returns nil.                                                            *)
(***************************************************************************)
EXTENDS Integers, Sequences

\* A big-endian number of 16 bits: how it is read and how it is written.
Uint16(b, i) == b[i] * 256 + b[i + 1]
Bytes16(n) == <<n \div 256, n % 256>>

\* What a loop adds up.
Total(summands) ==
  LET upTo[n \in 0 .. Len(summands)] == IF n = 0 THEN 0 ELSE upTo[n - 1] + summands[n]
  IN  upTo[Len(summands)]

\* The sum of the 16-bit words; a last odd byte is the high half of a word.
WholeWords(data) ==
  Total([i \in 1 .. Len(data) \div 2 |-> Uint16(data, 2 * i - 1)])
Words(data) ==
  Total([i \in 1 .. Len(data) |-> IF i % 2 = 1 THEN data[i] * 256 ELSE data[i]])

\* The carries are added until none is left ...
FoldOnce(sum) == ((sum % 65536) + (sum \div 65536)) % 65536
Fold(sum) ==
  LET fold[s \in Nat] == IF s > 65535 THEN fold[(s % 65536) + (s \div 65536)] ELSE s
  IN  fold[sum]

\* ... and the sum is complemented.
Not16(n) == 65535 - n

Checksum(data) == Not16(Fold(Words(data)))

ChecksumCombine(a, b) == Not16(Fold(Not16(a) + Not16(b)))

VerifyChecksum(data) == Checksum(data) = 0

-----------------------------------------------------------------------------

ProtoTCP == 6

PseudoHeader(src, dst, segment) ==
  (IF src # <<>> /\ dst # <<>> THEN Words(src) + Words(dst) ELSE 0)
  + ProtoTCP + Len(segment)

\* ip.TCPChecksum, and ChecksumCalculator.Compute of these addresses.
TCPChecksum(src, dst, segment) ==
  Not16(Fold(PseudoHeader(src, dst, segment) + Words(segment)))

Verify(src, dst, segment) == TCPChecksum(src, dst, segment) = 0

\* The field is cleared before the sum is taken: it holds an old checksum.
WithChecksum(segment, sum) ==
  [segment EXCEPT ![17] = sum \div 256, ![18] = sum % 256]
SetWithoutClearing(src, dst, segment) ==
  WithChecksum(segment, TCPChecksum(src, dst, segment))
SetAndCompute(src, dst, segment) ==
  IF Len(segment) < 20
  THEN segment
  ELSE WithChecksum(segment, TCPChecksum(src, dst, WithChecksum(segment, 0)))
==============================================================================
