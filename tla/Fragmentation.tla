--------------------------- MODULE Fragmentation ----------------------------
(***************************************************************************)
(* Fragment and NeedsFragmentation (internal/ip/fragment.go).              *)
(*                                                                         *)
(* A packet, or a fragment of one, is a record: its reassembly key, the DF *)
(* and MF flags, its offset and its payload.  Offsets and lengths are in   *)
(* blocks of 8 bytes and an MTU is the number of blocks left beside the    *)
(* header, as the code rounds it down; only the last block of a packet may *)
(* be shorter, and it counts as one.                                       *)
(***************************************************************************)
EXTENDS Integers, Sequences

NeedsFragmentation(p, mtu) == Len(p.data) > mtu

\* Otherwise ErrDontFragment or ErrMTUTooSmall.
CanSend(p, mtu) == NeedsFragmentation(p, mtu) => ~p.df /\ mtu >= 1

\* A packet under the header of p but for the offset and the MF flag.
Under(p, off, mf, data) ==
  [key |-> p.key, df |-> p.df, off |-> off, mf |-> mf, data |-> data]

\* The payload of the fragment of p from its block first on.
More(p, mtu, first) == first + mtu < Len(p.data)
Part(p, mtu, first) ==
  SubSeq(p.data, first + 1, IF More(p, mtu, first) THEN first + mtu ELSE Len(p.data))

\* That fragment.  The last one keeps p's own MF flag: p may be a fragment.
LastClearsMF(p, mtu, first) ==
  Under(p, p.off + first, More(p, mtu, first), Part(p, mtu, first))
RestartsOffset(p, mtu, first) ==
  Under(p, first, More(p, mtu, first) \/ p.mf, Part(p, mtu, first))
Piece(p, mtu, first) ==
  Under(p, p.off + first, More(p, mtu, first) \/ p.mf, Part(p, mtu, first))

Fragment(p, mtu) ==
  IF NeedsFragmentation(p, mtu)
    THEN {Piece(p, mtu, k * mtu) : k \in 0 .. (Len(p.data) - 1) \div mtu}
    ELSE {p}
=============================================================================
