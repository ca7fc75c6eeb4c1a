------------------------- MODULE ReassemblyProofs --------------------------
(***************************************************************************)
(* Proofs about Fragmentation and Reassembly, for any packets, MTUs and    *)
(* age of the groups.                                                      *)
(***************************************************************************)
EXTENDS Reassembly, FiniteSetTheorems, TLAPS

-----------------------------------------------------------------------------
(* Fragments.                                                              *)

\* The fragment of p with its blocks from + 1 .. to.
Cut(p, from, to) ==
  [key |-> p.key, df |-> p.df, off |-> from, mf |-> to < Len(p.data),
   data |-> SubSeq(p.data, from + 1, to)]

IsCut(f, p) ==
  \E from, to \in Nat : from < to /\ to <= Len(p.data) /\ f = Cut(p, from, to)

LEMMA SubSeqFacts ==
  ASSUME NEW s \in Seq(Nat), NEW a \in Nat, NEW b \in Nat, a < b, b <= Len(s)
  PROVE  /\ SubSeq(s, a + 1, b) \in Seq(Nat) /\ Len(SubSeq(s, a + 1, b)) = b - a
         /\ \A i \in 1 .. b - a : SubSeq(s, a + 1, b)[i] = s[a + i]
<1>1. SubSeq(s, a + 1, b) \in Seq(Nat)
  OBVIOUS
<1>2. Len(SubSeq(s, a + 1, b)) = b - a
  OBVIOUS
<1>3. \A i \in 1 .. b - a : SubSeq(s, a + 1, b)[i] = s[a + i]
  OBVIOUS
<1> QED
  BY <1>1, <1>2, <1>3

LEMMA SameSequence ==
  ASSUME NEW s \in Seq(Nat), NEW t \in Seq(Nat), Len(s) = Len(t),
         \A i \in 1 .. Len(s) : s[i] = t[i]
  PROVE  s = t
OBVIOUS

LEMMA CutFacts ==
  ASSUME NEW p \in Packets, NEW from \in Nat, NEW to \in Nat, from < to, to <= Len(p.data)
  PROVE  LET f == Cut(p, from, to)
         IN  /\ f.key = p.key /\ f.df = p.df /\ f.off = from /\ f.mf = (to < Len(p.data))
             /\ f.data \in Seq(Nat) /\ Len(f.data) = to - from
             /\ \A i \in 1 .. to - from : f.data[i] = p.data[from + i]
             /\ Blocks(f) = from + 1 .. to
<1> DEFINE d == SubSeq(p.data, from + 1, to)
<1>1. p.data \in Seq(Nat)
  BY PacketsAssumption
<1>2. d \in Seq(Nat) /\ Len(d) = to - from /\ \A i \in 1 .. to - from : d[i] = p.data[from + i]
  BY <1>1, SubSeqFacts
<1> HIDE DEF d
<1>3. Cut(p, from, to) = [key |-> p.key, df |-> p.df, off |-> from, mf |-> to < Len(p.data),
                          data |-> d]
  BY DEF Cut, d
<1>4. from + (to - from) = to
  OBVIOUS
<1> QED
  BY <1>2, <1>3, <1>4 DEF Blocks

\* Where the fragment that begins at first ends, and what it takes of others.
LEMMA PieceEnds ==
  ASSUME NEW first \in Nat, NEW mtu \in Nat, mtu > 0, NEW len \in Nat, first < len,
         NEW end, end = IF first + mtu < len THEN first + mtu ELSE len
  PROVE  end \in Nat /\ first < end /\ end <= len /\ end <= first + mtu
<1>1. CASE first + mtu < len
  BY <1>1
<1>2. CASE ~ (first + mtu < len)
  BY <1>2
<1> QED
  BY <1>1, <1>2

LEMMA Within ==
  ASSUME NEW a \in Nat, NEW b \in Nat, NEW c \in Nat, NEW d \in Nat, a <= c, d <= b
  PROVE  c + 1 .. d \subseteq a + 1 .. b
OBVIOUS

LEMMA Apart ==
  ASSUME NEW a \in Nat, NEW b \in Nat, NEW c \in Nat, NEW d \in Nat, b <= c
  PROVE  (a + 1 .. b) \cap (c + 1 .. d) = {}
OBVIOUS

\* A fragment tells from where to where it was cut.
LEMMA CutOf ==
  ASSUME NEW p \in Packets, NEW f, IsCut(f, p)
  PROVE  /\ f.key = p.key /\ f.df = p.df /\ f.off \in Nat /\ f.data \in Seq(Nat)
         /\ Len(f.data) \in Nat /\ Len(f.data) > 0
         /\ f.off + Len(f.data) <= Len(p.data)
         /\ f.mf = (f.off + Len(f.data) < Len(p.data))
         /\ \A i \in 1 .. Len(f.data) : f.data[i] = p.data[f.off + i]
         /\ f = Cut(p, f.off, f.off + Len(f.data))
<1>1. PICK from \in Nat, to \in Nat : from < to /\ to <= Len(p.data) /\ f = Cut(p, from, to)
  BY DEF IsCut
<1>0. f.key = p.key /\ f.df = p.df
  BY <1>1 DEF Cut
<1>2. /\ f.off = from /\ f.mf = (to < Len(p.data))
      /\ f.data \in Seq(Nat) /\ Len(f.data) = to - from
      /\ \A i \in 1 .. to - from : f.data[i] = p.data[from + i]
  <2> DEFINE c == Cut(p, from, to)
  <2>0. from < to /\ to <= Len(p.data)
    BY <1>1
  <2>1. /\ c.off = from /\ c.mf = (to < Len(p.data))
        /\ c.data \in Seq(Nat) /\ Len(c.data) = to - from
        /\ \A i \in 1 .. to - from : c.data[i] = p.data[from + i]
    BY <2>0, CutFacts
  <2> HIDE DEF c
  <2>2. f = c
    BY <1>1 DEF c
  <2> QED
    BY <2>1, <2>2
<1>3. to - from \in Nat /\ to - from > 0 /\ from + (to - from) = to
  BY <1>1
<1> QED
  BY <1>0, <1>1, <1>2, <1>3

LEMMA WholeIsCut ==
  ASSUME NEW p \in Packets
  PROVE  p = Cut(p, 0, Len(p.data)) /\ IsCut(p, p)
<1>1. /\ p = [key |-> p.key, df |-> p.df, off |-> 0, mf |-> FALSE, data |-> p.data]
      /\ p.data \in Seq(Nat) /\ Len(p.data) \in Nat /\ Len(p.data) > 0
  BY PacketsAssumption
<1>2. SubSeq(p.data, 0 + 1, Len(p.data)) = p.data
  BY <1>1
<1>3. (Len(p.data) < Len(p.data)) = FALSE
  BY <1>1
<1>4. p = Cut(p, 0, Len(p.data))
  BY <1>1, <1>2, <1>3 DEF Cut
<1> QED
  BY <1>1, <1>4 DEF IsCut

\* The fragment with the end of the packet is the one without MF.
LEMMA LastOf ==
  ASSUME NEW p \in Packets, NEW f, IsCut(f, p)
  PROVE  ~f.mf <=> f.off + Len(f.data) = Len(p.data)
<1>1. f.mf = (f.off + Len(f.data) < Len(p.data))
  BY CutOf
<1>2. ~f.mf <=> ~(f.off + Len(f.data) < Len(p.data))
  BY <1>1, Zenon
<1>3. /\ f.off \in Nat /\ Len(f.data) \in Nat /\ Len(p.data) \in Nat
      /\ f.off + Len(f.data) <= Len(p.data)
  BY CutOf, PacketsAssumption
<1>4. ~(f.off + Len(f.data) < Len(p.data)) <=> f.off + Len(f.data) = Len(p.data)
  BY <1>3
<1> QED
  BY <1>2, <1>4

\* Fragment cuts a fragment of p into fragments of p.
LEMMA PieceIsCut ==
  ASSUME NEW p \in Packets, NEW f, IsCut(f, p), NEW mtu \in Nat, mtu > 0,
         NEW first \in Nat, first < Len(f.data)
  PROVE  LET h == Piece(f, mtu, first)
         IN  /\ IsCut(h, p)
             /\ Blocks(h) \subseteq f.off + first + 1 .. f.off + first + mtu
             /\ Blocks(h) \subseteq Blocks(f)
             /\ Blocks(f) \cap (f.off + first + 1 .. f.off + first + mtu) \subseteq Blocks(h)
             /\ Len(h.data) <= mtu
<1> DEFINE h == Piece(f, mtu, first)
           end == IF first + mtu < Len(f.data) THEN first + mtu ELSE Len(f.data)
           from == f.off + first
           to == f.off + end
<1>1. /\ f.off \in Nat /\ f.data \in Seq(Nat) /\ Len(f.data) \in Nat /\ Len(f.data) > 0
      /\ f.off + Len(f.data) <= Len(p.data)
      /\ f.mf = (f.off + Len(f.data) < Len(p.data))
      /\ \A i \in 1 .. Len(f.data) : f.data[i] = p.data[f.off + i]
      /\ f = Cut(p, f.off, f.off + Len(f.data))
  BY CutOf
<1>2. p.data \in Seq(Nat)
  BY PacketsAssumption
<1>3. /\ end \in Nat /\ first < end /\ end <= Len(f.data) /\ end <= first + mtu
      /\ from \in Nat /\ to \in Nat /\ from < to /\ to <= Len(p.data)
  <2>1. end \in Nat /\ first < end /\ end <= Len(f.data) /\ end <= first + mtu
    BY <1>1, PieceEnds
  <2> HIDE DEF end
  <2>2. PICK off \in Nat, len \in Nat, total \in Nat :
          off = f.off /\ len = Len(f.data) /\ total = Len(p.data)
    BY <1>1, <1>2
  <2>3. end <= len /\ off + len <= total
    BY <1>1, <2>1, <2>2
  <2>4. /\ off + first \in Nat /\ off + end \in Nat
        /\ off + first < off + end /\ off + end <= total
    BY <2>1, <2>3
  <2> QED
    BY <2>1, <2>2, <2>4
<1>4. SubSeq(f.data, first + 1, end) = SubSeq(p.data, from + 1, to)
  <2> HIDE DEF end
  <2>1. /\ Len(SubSeq(f.data, first + 1, end)) = end - first
        /\ SubSeq(f.data, first + 1, end) \in Seq(Nat)
        /\ \A i \in 1 .. end - first : SubSeq(f.data, first + 1, end)[i] = f.data[first + i]
    BY <1>1, <1>3, SubSeqFacts
  <2>2. to - from = end - first
    BY <1>1, <1>3
  <2> HIDE DEF from, to
  <2>3. /\ Len(SubSeq(p.data, from + 1, to)) = end - first
        /\ SubSeq(p.data, from + 1, to) \in Seq(Nat)
        /\ \A i \in 1 .. end - first : SubSeq(p.data, from + 1, to)[i] = p.data[from + i]
    <3>1. from \in Nat /\ to \in Nat /\ from < to /\ to <= Len(p.data)
      BY <1>3
    <3>2. /\ Len(SubSeq(p.data, from + 1, to)) = to - from
          /\ SubSeq(p.data, from + 1, to) \in Seq(Nat)
          /\ \A i \in 1 .. to - from : SubSeq(p.data, from + 1, to)[i] = p.data[from + i]
      BY <1>2, <3>1, SubSeqFacts
    <3> QED
      BY <2>2, <3>2
  <2>4. ASSUME NEW i \in 1 .. end - first
        PROVE  f.data[first + i] = p.data[from + i]
    <3>0. /\ end \in Nat /\ end <= Len(f.data) /\ Len(f.data) \in Nat
          /\ i \in Nat /\ 1 <= i /\ i <= end - first
      BY <1>1, <1>3
    <3>1. first + i \in 1 .. Len(f.data)
      BY <3>0
    <3>2. f.off + (first + i) = from + i
      BY <1>1 DEF from
    <3> QED
      BY <1>1, <3>1, <3>2
  <2> QED
    BY <2>1, <2>3, <2>4, SameSequence
<1>5. (first + mtu < Len(f.data) \/ f.mf) = (to < Len(p.data))
  <2>1. first + mtu < Len(f.data) => to < Len(p.data)
    BY <1>1
  <2>2. ~(first + mtu < Len(f.data)) => (f.mf <=> to < Len(p.data))
    BY <1>1
  <2>3. (first + mtu < Len(f.data) \/ f.mf) <=> (to < Len(p.data))
    BY <2>1, <2>2
  <2> QED
    BY <2>3
<1>6. h = Cut(p, from, to)
  <2>1. h = [key |-> p.key, df |-> p.df, off |-> f.off + first,
             mf |-> (first + mtu < Len(f.data) \/ f.mf),
             data |-> SubSeq(f.data, first + 1, end)]
    <3>1. f.key = p.key /\ f.df = p.df
      BY CutOf
    <3> QED
      BY <3>1 DEF Piece, Under, More, Part
  <2> HIDE DEF h, end, from, to
  <2> QED
    BY <1>4, <1>5, <2>1 DEF Cut, from
<1>7. IsCut(h, p)
  BY <1>3, <1>6 DEF IsCut
<1> HIDE DEF h
<1>8. Blocks(h) = from + 1 .. to
  BY <1>3, <1>6, CutFacts
<1>9. Blocks(f) = f.off + 1 .. f.off + Len(f.data)
  BY DEF Blocks
<1>10. Blocks(h) \subseteq f.off + first + 1 .. f.off + first + mtu
  <2>1. to <= from + mtu /\ from + mtu \in Nat
    <3> HIDE DEF end
    <3>1. PICK off \in Nat : off = f.off
      BY <1>1
    <3>2. off + end <= off + first + mtu /\ off + first + mtu \in Nat
      BY <1>3
    <3> QED
      BY <3>1, <3>2
  <2>2. from + 1 .. to \subseteq from + 1 .. from + mtu
    BY <1>3, <2>1, Within
  <2> QED
    BY <1>8, <2>2
<1>11. Blocks(h) \subseteq Blocks(f)
  <2>1. f.off <= from /\ to <= f.off + Len(f.data) /\ f.off + Len(f.data) \in Nat
    BY <1>1, <1>3
  <2> HIDE DEF from, to
  <2>2. from + 1 .. to \subseteq f.off + 1 .. f.off + Len(f.data)
    BY <1>1, <1>3, <2>1, Within
  <2> QED
    BY <1>8, <1>9, <2>2
<1>12. Blocks(f) \cap (f.off + first + 1 .. f.off + first + mtu) \subseteq Blocks(h)
  <2> SUFFICES ASSUME NEW b \in Blocks(f), b \in f.off + first + 1 .. f.off + first + mtu
               PROVE  b \in from + 1 .. to
    BY <1>8
  <2> HIDE DEF from, to
  <2>1. PICK off \in Nat, len \in Nat : off = f.off /\ len = Len(f.data)
    BY <1>1
  <2>2. b \in off + 1 .. off + len /\ b \in off + first + 1 .. off + first + mtu
    BY <1>9, <2>1
  <2>3. from = off + first /\ to = off + end
    BY <2>1 DEF from, to
  <2>4. b <= off + end
    <3>1. CASE first + mtu < len
      BY <2>1, <2>2, <3>1
    <3>2. CASE ~ (first + mtu < len)
      BY <2>1, <2>2, <3>2
    <3> QED
      BY <3>1, <3>2
  <2> HIDE DEF end
  <2> QED
    BY <1>3, <2>2, <2>3, <2>4
<1>13. Len(h.data) <= mtu
  <2>1. Len(h.data) = to - from
    BY <1>3, <1>6, CutFacts
  <2>2. to - from = end - first
    <3>1. PICK off \in Nat : off = f.off
      BY <1>1
    <3> HIDE DEF end
    <3> QED
      BY <1>3, <3>1
  <2> HIDE DEF end, from, to
  <2> QED
    BY <1>3, <2>1, <2>2
<1> QED
  BY <1>7, <1>10, <1>11, <1>12, <1>13 DEF h

Disjoint(f, h) == Blocks(f) \cap Blocks(h) = {}

LEMMA Multiples ==
  ASSUME NEW i \in Nat, NEW j \in Nat, NEW m \in Nat, i < j
  PROVE  i * m + m <= j * m
OBVIOUS

LEMMA Quotients ==
  ASSUME NEW n \in Nat, NEW m \in Nat, m > 0
  PROVE  n \div m \in Nat /\ \A k \in 0 .. (n \div m) : k * m \in Nat /\ k * m <= n
<1>1. n \div m \in Nat
  OBVIOUS
<1>2. ASSUME NEW k \in 0 .. (n \div m) PROVE k * m \in Nat /\ k * m <= n
  OBVIOUS
<1> QED
  BY <1>1, <1>2

\* The multiple of m at or below x.
LEMMA Places ==
  ASSUME NEW x \in Nat, NEW n \in Nat, NEW m \in Nat, m > 0, x <= n
  PROVE  \E k \in 0 .. (n \div m) : k * m <= x /\ x < k * m + m
<1>1. x \div m \in Nat /\ (x \div m) * m <= x /\ x < (x \div m) * m + m
  OBVIOUS
<1>2. n \div m \in Nat /\ n < (n \div m) * m + m
  OBVIOUS
<1>3. x \div m <= n \div m
  <2>1. PICK i \in Nat, j \in Nat : i = x \div m /\ j = n \div m
    BY <1>1, <1>2
  <2>2. i * m <= x /\ n < j * m + m
    BY <1>1, <1>2, <2>1
  <2>3. ASSUME j < i PROVE FALSE
    <3>1. j * m + m <= i * m
      BY <2>3, Multiples
    <3>2. i * m \in Nat /\ j * m \in Nat
      OBVIOUS
    <3> QED
      BY <2>2, <3>1, <3>2
  <2> QED
    BY <2>1, <2>3
<1>4. x \div m \in 0 .. (n \div m)
  BY <1>1, <1>2, <1>3
<1>5. PICK k : k = x \div m
  OBVIOUS
<1>6. k \in 0 .. (n \div m) /\ k * m <= x /\ x < k * m + m
  BY <1>1, <1>4, <1>5
<1> QED
  BY <1>6

(* What Fragment does to a fragment of p: it gives fragments of p within   *)
(* it, no two of which overlap (fragment.go:42-88).                        *)
LEMMA FragmentCuts ==
  ASSUME NEW p \in Packets, NEW f, IsCut(f, p), NEW mtu \in Nat, CanSend(f, mtu)
  PROVE  /\ \A h \in Fragment(f, mtu) : IsCut(h, p) /\ Blocks(h) \subseteq Blocks(f)
         /\ \A g, h \in Fragment(f, mtu) : g = h \/ Disjoint(g, h)
<1>1. CASE ~NeedsFragmentation(f, mtu)
  BY <1>1 DEF Fragment
<1>2. CASE NeedsFragmentation(f, mtu)
  <2> DEFINE last == (Len(f.data) - 1) \div mtu
  <2>1. /\ mtu > 0 /\ f.off \in Nat /\ Len(f.data) \in Nat /\ Len(f.data) > 0
    BY <1>2, CutOf DEF CanSend
  <2>2. last \in Nat /\ \A k \in 0 .. last : k * mtu \in Nat /\ k * mtu < Len(f.data)
    <3>1. Len(f.data) - 1 \in Nat
      BY <2>1
    <3>2. last \in Nat /\ \A k \in 0 .. last : k * mtu \in Nat /\ k * mtu <= Len(f.data) - 1
      BY <2>1, <3>1, Quotients
    <3> HIDE DEF last
    <3>3. \A x \in Nat : x <= Len(f.data) - 1 => x < Len(f.data)
      BY <2>1
    <3> QED
      BY <3>2, <3>3
  <2>3. Fragment(f, mtu) = {Piece(f, mtu, k * mtu) : k \in 0 .. last}
    BY <1>2 DEF Fragment
  <2> HIDE DEF last
  <2>4. ASSUME NEW k \in 0 .. last
        PROVE  /\ IsCut(Piece(f, mtu, k * mtu), p)
               /\ Blocks(Piece(f, mtu, k * mtu)) \subseteq
                    f.off + k * mtu + 1 .. f.off + k * mtu + mtu
               /\ Blocks(Piece(f, mtu, k * mtu)) \subseteq Blocks(f)
    BY <2>1, <2>2, PieceIsCut
  <2>5. ASSUME NEW i \in 0 .. last, NEW j \in 0 .. last, i < j
        PROVE  Disjoint(Piece(f, mtu, i * mtu), Piece(f, mtu, j * mtu))
    <3>1. i * mtu + mtu <= j * mtu
      BY <2>2, <2>5, Multiples
    <3>2. i * mtu \in Nat /\ j * mtu \in Nat
      BY <2>2
    <3> DEFINE a == i * mtu
               b == j * mtu
    <3>3. /\ Blocks(Piece(f, mtu, a)) \subseteq f.off + a + 1 .. f.off + a + mtu
          /\ Blocks(Piece(f, mtu, b)) \subseteq f.off + b + 1 .. f.off + b + mtu
      BY <2>4
    <3>6. a \in Nat /\ b \in Nat /\ a + mtu <= b
      BY <3>1, <3>2
    <3> HIDE DEF a, b
    <3>7. /\ f.off + a \in Nat /\ f.off + a + mtu \in Nat
          /\ f.off + b \in Nat /\ f.off + b + mtu \in Nat
          /\ f.off + a + mtu <= f.off + b
      <4>1. PICK off \in Nat : off = f.off
        BY <2>1
      <4>2. /\ off + a \in Nat /\ off + a + mtu \in Nat
            /\ off + b \in Nat /\ off + b + mtu \in Nat
            /\ off + a + mtu <= off + b
        BY <3>6
      <4> QED
        BY <4>1, <4>2
    <3>4. (f.off + a + 1 .. f.off + a + mtu) \cap (f.off + b + 1 .. f.off + b + mtu) = {}
      BY <3>7, Apart
    <3>5. Disjoint(Piece(f, mtu, a), Piece(f, mtu, b))
      BY <3>3, <3>4 DEF Disjoint
    <3> QED
      BY <3>5 DEF a, b
  <2>6. ASSUME NEW i \in 0 .. last, NEW j \in 0 .. last
        PROVE  \/ Piece(f, mtu, i * mtu) = Piece(f, mtu, j * mtu)
               \/ Disjoint(Piece(f, mtu, i * mtu), Piece(f, mtu, j * mtu))
    <3>1. i < j \/ i = j \/ j < i
      BY <2>2
    <3> QED
      BY <2>5, <3>1 DEF Disjoint
  <2> QED
    BY <2>3, <2>4, <2>6
<1> QED
  BY <1>1, <1>2

(* The fragments of a packet, or of a fragment of one, fit the MTU, do not *)
(* overlap, and together are the whole of it, for any MTU and length       *)
(* (fragment.go:42-88).                                                    *)
THEOREM FragmentsTile ==
  ASSUME NEW p \in Packets, NEW f, IsCut(f, p), NEW mtu \in Nat, CanSend(f, mtu)
  PROVE  /\ \A h \in Fragment(f, mtu) : Len(h.data) <= mtu
         /\ \A g, h \in Fragment(f, mtu) : g = h \/ Disjoint(g, h)
         /\ UNION {Blocks(h) : h \in Fragment(f, mtu)} = Blocks(f)
<1>1. f.off \in Nat /\ Len(f.data) \in Nat /\ Len(f.data) > 0
  BY CutOf
<1>2. CASE ~NeedsFragmentation(f, mtu)
  BY <1>1, <1>2 DEF Fragment, NeedsFragmentation
<1>3. CASE NeedsFragmentation(f, mtu)
  <2> DEFINE last == (Len(f.data) - 1) \div mtu
             from(k) == f.off + k * mtu
  <2>1. mtu > 0 /\ Len(f.data) - 1 \in Nat
    BY <1>1, <1>3 DEF CanSend
  <2>2. Fragment(f, mtu) = {Piece(f, mtu, k * mtu) : k \in 0 .. last}
    BY <1>3 DEF Fragment
  <2>3. ASSUME NEW k \in 0 .. last
        PROVE  /\ Len(Piece(f, mtu, k * mtu).data) <= mtu
               /\ Blocks(f) \cap (from(k) + 1 .. from(k) + mtu)
                    \subseteq Blocks(Piece(f, mtu, k * mtu))
    <3>1. k * mtu \in Nat /\ k * mtu <= Len(f.data) - 1
      BY <2>1, Quotients
    <3>2. PICK first \in Nat : first = k * mtu
      BY <3>1
    <3>3. first < Len(f.data)
      BY <1>1, <3>1, <3>2
    <3> QED
      BY <2>1, <3>2, <3>3, PieceIsCut
  <2>4. ASSUME NEW b \in Blocks(f)
        PROVE  \E k \in 0 .. last : b \in from(k) + 1 .. from(k) + mtu
    <3>1. PICK off \in Nat, end \in Nat : off = f.off /\ end = Len(f.data) - 1
      BY <1>1, <2>1
    <3>2. b \in off + 1 .. off + (end + 1)
      BY <1>1, <3>1 DEF Blocks
    <3>3. PICK x \in Nat : x <= end /\ b = off + x + 1
      <4>1. b - off - 1 \in Nat /\ b - off - 1 <= end /\ b = off + (b - off - 1) + 1
        BY <3>2
      <4> QED
        BY <4>1
    <3>4. PICK k \in 0 .. (end \div mtu) : k * mtu <= x /\ x < k * mtu + mtu
      BY <2>1, <3>3, Places
    <3>5. PICK first \in Nat : first = k * mtu
      BY <2>1, Quotients
    <3>6. b \in off + first + 1 .. off + first + mtu
      BY <3>3, <3>4, <3>5
    <3>7. k \in 0 .. last
      BY <3>1
    <3> QED
      BY <3>1, <3>5, <3>6, <3>7
  <2> HIDE DEF last, from
  <2>5. Blocks(f) \subseteq UNION {Blocks(h) : h \in Fragment(f, mtu)}
    <3> SUFFICES ASSUME NEW b \in Blocks(f)
                 PROVE  \E h \in Fragment(f, mtu) : b \in Blocks(h)
      OBVIOUS
    <3>1. PICK k \in 0 .. last : b \in from(k) + 1 .. from(k) + mtu
      BY <2>4
    <3>2. b \in Blocks(Piece(f, mtu, k * mtu))
      BY <2>3, <3>1
    <3> QED
      BY <2>2, <3>2
  <2>6. \A h \in Fragment(f, mtu) : Len(h.data) <= mtu
    BY <2>2, <2>3
  <2> QED
    BY <2>5, <2>6, FragmentCuts
<1> QED
  BY <1>2, <1>3, FragmentCuts

-----------------------------------------------------------------------------
(* Groups.                                                                 *)

\* g has the fields of a fragmentGroup.
IsGroup(g) ==
  g \in [fragments : {g.fragments}, totalLen : {g.totalLen},
         received : {g.received}, age : {g.age}]

\* What Add makes of the group g with the fragment f.
Added(g, f, h) ==
  /\ IsGroup(h)
  /\ f.off \in DOMAIN g.fragments => h.fragments = g.fragments /\ h.received = g.received
  /\ f.off \notin DOMAIN g.fragments =>
       /\ h.fragments = [o \in DOMAIN g.fragments \cup {f.off} |->
                           IF o = f.off THEN f ELSE g.fragments[o]]
       /\ h.received = g.received + Len(f.data)
  /\ h.totalLen = (IF f.mf THEN g.totalLen ELSE f.off + Len(f.data))
  /\ h.age = g.age

LEMMA StoreFacts ==
  ASSUME NEW g, NEW f, IsGroup(g), NEW h, h = NoteLength(Store(g, f), f)
  PROVE  Added(g, f, h)
<1> DEFINE s == Store(g, f)
           new == f.off \notin DOMAIN g.fragments
<1>0. h = NoteLength(s, f)
  OBVIOUS
<1>1. CASE ~new
  <2>1. s = g
    BY <1>1 DEF Store
  <2>2. /\ IsGroup(h) /\ h.fragments = g.fragments /\ h.received = g.received
        /\ h.totalLen = (IF f.mf THEN g.totalLen ELSE f.off + Len(f.data))
        /\ h.age = g.age
    BY <1>0, <2>1 DEF NoteLength, IsGroup
  <2> QED
    BY <1>1, <2>2 DEF Added
<1>2. CASE new
  <2>1. /\ IsGroup(s) /\ s.totalLen = g.totalLen /\ s.age = g.age
        /\ s.fragments = [o \in DOMAIN g.fragments \cup {f.off} |->
                            IF o = f.off THEN f ELSE g.fragments[o]]
        /\ s.received = g.received + Len(f.data)
    BY <1>2 DEF Store, StoreAgain, IsGroup
  <2> HIDE DEF s
  <2>3. PICK t : t = s
    OBVIOUS
  <2>4. h = NoteLength(t, f) /\ IsGroup(t)
    BY <1>0, <2>1, <2>3
  <2>2. /\ IsGroup(h) /\ h.fragments = s.fragments /\ h.received = s.received
        /\ h.totalLen = (IF f.mf THEN s.totalLen ELSE f.off + Len(f.data))
        /\ h.age = s.age
    <3>1. CASE f.mf
      BY <2>3, <2>4, <3>1 DEF NoteLength
    <3>2. CASE ~ f.mf
      <4>1. h = [t EXCEPT !.totalLen = f.off + Len(f.data)]
        BY <2>4, <3>2 DEF NoteLength
      <4>2. t = [fragments |-> t.fragments, totalLen |-> t.totalLen,
                 received |-> t.received, age |-> t.age]
        BY <2>4 DEF IsGroup
      <4>3. h = [fragments |-> t.fragments, totalLen |-> f.off + Len(f.data),
                 received |-> t.received, age |-> t.age]
        BY <4>1, <4>2
      <4> QED
        BY <2>3, <3>2, <4>3 DEF IsGroup
    <3> QED
      BY <3>1, <3>2
  <2> QED
    BY <1>2, <2>1, <2>2 DEF Added
<1> QED
  BY <1>1, <1>2

LEMMA AgeFacts ==
  ASSUME NEW g, NEW a, IsGroup(g)
  PROVE  LET h == [g EXCEPT !.age = a]
         IN  /\ IsGroup(h) /\ h.age = a /\ h.fragments = g.fragments
             /\ h.totalLen = g.totalLen /\ h.received = g.received
BY DEF IsGroup

\* The group of f before and after Add.
Before(f) == IF f.key \in Active THEN groups[f.key] ELSE NewGroup
After(f) == NoteLength(Store(Before(f), f), f)

LEMMA NewGroupFacts ==
  /\ IsGroup(NewGroup) /\ NewGroup.age = 0 /\ NewGroup.totalLen = -1
  /\ NewGroup.received = 0 /\ DOMAIN NewGroup.fragments = {}
BY DEF NewGroup, IsGroup

-----------------------------------------------------------------------------
(* Types, on every network.                                                *)

GroupType(g) ==
  /\ IsGroup(g) /\ g.age \in 0 .. MaxAge
  /\ g.totalLen = -1 \/ (g.totalLen \in Nat /\ g.totalLen > 0)
  /\ g.received \in Nat /\ g.received > 0

BaseInv ==
  /\ network \in Networks /\ unsent \subseteq Packets
  /\ \A f \in wire : \E p \in Packets : IsCut(f, p)
  /\ \A k \in Active : GroupType(groups[k])
  /\ IsFiniteSet(Active) /\ groupsActive = Cardinality(Active)

LEMMA AddBase ==
  ASSUME BaseInv, NEW f \in wire, Add(f)
  PROVE  /\ \A k \in Active' : GroupType(groups'[k])
         /\ IsFiniteSet(Active') /\ groupsActive' = Cardinality(Active')
<1> USE DEF BaseInv
<1> DEFINE g == After(f)
           active == IF f.key \in Active THEN groupsActive ELSE groupsActive + 1
<1>1. PICK p \in Packets : IsCut(f, p)
  OBVIOUS
<1>2. f.off \in Nat /\ Len(f.data) \in Nat /\ Len(f.data) > 0
  BY <1>1, CutOf
<1>3. GroupType(g)
  <2>1. /\ IsGroup(Before(f)) /\ Before(f).age \in 0 .. MaxAge
        /\ Before(f).totalLen = -1 \/ (Before(f).totalLen \in Nat /\ Before(f).totalLen > 0)
        /\ Before(f).received \in Nat
        /\ f.off \in DOMAIN Before(f).fragments => Before(f).received > 0
    BY NewGroupFacts, AgeAssumption DEF Before, GroupType
  <2>2. LET new == f.off \notin DOMAIN Before(f).fragments
        IN  /\ IsGroup(g) /\ g.age = Before(f).age
            /\ ~new => g.received = Before(f).received
            /\ new => g.received = Before(f).received + Len(f.data)
            /\ g.totalLen = (IF f.mf THEN Before(f).totalLen ELSE f.off + Len(f.data))
    <3>1. PICK b : b = Before(f)
      OBVIOUS
    <3>2. IsGroup(b) /\ g = NoteLength(Store(b, f), f)
      BY <2>1, <3>1 DEF After
    <3> HIDE DEF g
    <3>3. LET new == f.off \notin DOMAIN b.fragments
          IN  /\ IsGroup(g) /\ g.age = b.age
              /\ ~new => g.received = b.received
              /\ new => g.received = b.received + Len(f.data)
              /\ g.totalLen = (IF f.mf THEN b.totalLen ELSE f.off + Len(f.data))
      <4>1. Added(b, f, g)
        BY <3>2, StoreFacts
      <4> QED
        BY <4>1 DEF Added
    <3> QED
      BY <3>1, <3>3
  <2> HIDE DEF g
  <2>3. g.received \in Nat /\ g.received > 0
    BY <1>2, <2>1, <2>2
  <2>4. g.totalLen = -1 \/ (g.totalLen \in Nat /\ g.totalLen > 0)
    BY <1>2, <2>1, <2>2
  <2> QED
    BY <2>1, <2>2, <2>3, <2>4 DEF GroupType
<1>4. /\ Cardinality(Active) \in Nat
      /\ IsFiniteSet(Active \cup {f.key}) /\ IsFiniteSet(Active \ {f.key})
      /\ Cardinality(Active \cup {f.key}) = active
      /\ Cardinality(Active \ {f.key}) = active - 1
  <2>1. Cardinality(Active) \in Nat
    BY FS_CardinalityType
  <2>2. /\ IsFiniteSet(Active \cup {f.key})
        /\ Cardinality(Active \cup {f.key}) = active
    BY FS_AddElement
  <2>3. /\ IsFiniteSet(Active \ {f.key})
        /\ Cardinality(Active \ {f.key}) =
             IF f.key \in Active THEN Cardinality(Active) - 1 ELSE Cardinality(Active)
    BY FS_RemoveElement
  <2> QED
    BY <2>1, <2>2, <2>3
<1>5. \/ UNCHANGED <<groups, groupsActive>>
      \/ groups' = Without(f.key) /\ groupsActive' = active - 1
      \/ groups' = With(f.key, g) /\ groupsActive' = active
  BY DEF Add, After, Before
<1> HIDE DEF g, active
<1>6. CASE UNCHANGED <<groups, groupsActive>>
  BY <1>6 DEF Active
<1>7. CASE groups' = Without(f.key) /\ groupsActive' = active - 1
  <2>1. Active' = Active \ {f.key} /\ \A k \in Active' : groups'[k] = groups[k]
    BY <1>7 DEF Active, Without
  <2> QED
    BY <1>4, <1>7, <2>1
<1>8. CASE groups' = With(f.key, g) /\ groupsActive' = active
  <2>1. /\ Active' = Active \cup {f.key}
        /\ \A k \in Active' : groups'[k] = IF k = f.key THEN g ELSE groups[k]
    BY <1>8 DEF Active, With
  <2> QED
    BY <1>3, <1>4, <1>8, <2>1
<1> QED
  BY <1>5, <1>6, <1>7, <1>8

LEMMA CleanupBase ==
  ASSUME BaseInv, cleanup
  PROVE  /\ \A k \in Active' : GroupType(groups'[k])
         /\ IsFiniteSet(Active') /\ groupsActive' = Cardinality(Active')
<1> USE DEF BaseInv
<1> DEFINE stale == {k \in Active : IsStale(groups[k])}
<1>1. /\ groups' = [k \in Active \ stale |-> [groups[k] EXCEPT !.age = groups[k].age + 1]]
      /\ groupsActive' = groupsActive - Cardinality(stale)
  BY DEF cleanup
<1>2. \A k \in Active \ stale : GroupType(groups[k]) /\ groups[k].age < MaxAge
  BY AgeAssumption DEF GroupType, IsStale
<1>3. stale \subseteq Active
  OBVIOUS
<1> HIDE DEF stale
<1>4. /\ Active' = Active \ stale
      /\ \A k \in Active' : groups'[k] = [groups[k] EXCEPT !.age = groups[k].age + 1]
  BY <1>1 DEF Active
<1>5. ASSUME NEW k \in Active' PROVE GroupType(groups'[k])
  <2>1. GroupType(groups[k]) /\ groups[k].age < MaxAge
    BY <1>2, <1>4
  <2> DEFINE h == groups'[k]
  <2>2. /\ IsGroup(h) /\ h.age = groups[k].age + 1
        /\ h.totalLen = groups[k].totalLen /\ h.received = groups[k].received
    <3>1. h = [groups[k] EXCEPT !.age = groups[k].age + 1] /\ IsGroup(groups[k])
      BY <1>4, <2>1 DEF GroupType
    <3> QED
      BY <3>1, AgeFacts
  <2> HIDE DEF h
  <2>3. h.age \in 0 .. MaxAge
    BY <2>1, <2>2, AgeAssumption DEF GroupType
  <2>4. GroupType(h)
    BY <2>1, <2>2, <2>3 DEF GroupType
  <2> QED
    BY <2>4 DEF h
<1>6. IsFiniteSet(stale) /\ IsFiniteSet(Active \ stale)
  BY <1>3, FS_Subset
<1>7. Cardinality(Active \ stale) = Cardinality(Active) - Cardinality(stale)
  <2> DEFINE fresh == Active \ stale
  <2>1. /\ Cardinality(stale \cup fresh) =
             Cardinality(stale) + Cardinality(fresh) - Cardinality(stale \cap fresh)
    BY <1>6, FS_Union
  <2>2. stale \cup fresh = Active /\ stale \cap fresh = {}
    BY <1>3
  <2>3. /\ Cardinality(stale) \in Nat /\ Cardinality(fresh) \in Nat
        /\ Cardinality({}) = 0
    BY <1>6, FS_CardinalityType, FS_EmptySet
  <2> HIDE DEF fresh
  <2>4. Cardinality(Active) = Cardinality(stale) + Cardinality(fresh) - 0
    BY <2>1, <2>2, <2>3
  <2>5. Cardinality(fresh) = Cardinality(Active) - Cardinality(stale)
    BY <2>3, <2>4
  <2> QED
    BY <2>5 DEF fresh
<1> QED
  BY <1>1, <1>4, <1>5, <1>6, <1>7

LEMMA BaseInvariance == Spec => []BaseInv
<1>1. Init => BaseInv
  <2> SUFFICES ASSUME Init PROVE BaseInv
    OBVIOUS
  <2>1. Active = {}
    BY DEF Init, Active
  <2> QED
    BY <2>1, FS_EmptySet DEF Init, BaseInv
<1>2. BaseInv /\ [Next]_vars => BaseInv'
  <2> SUFFICES ASSUME BaseInv, [Next]_vars PROVE BaseInv'
    OBVIOUS
  <2>1. ASSUME NEW p \in Packets, Send(p) PROVE BaseInv'
    <3> PICK mtu \in SenderMTUs : CanSend(p, mtu) /\ wire' = wire \cup Fragment(p, mtu)
      BY <2>1 DEF Send
    <3>1. \A h \in Fragment(p, mtu) : IsCut(h, p)
      BY WholeIsCut, FragmentCuts, NetworksAssumption
    <3> QED
      BY <2>1, <3>1 DEF BaseInv, Send, Active
  <2>2. ASSUME NEW f \in wire, Forward(f) PROVE BaseInv'
    <3> PICK mtu \in network.mtus, rest \in Carried(f) :
               CanSend(f, mtu) /\ wire' = rest \cup Fragment(f, mtu)
      BY <2>2 DEF Forward
    <3> PICK p \in Packets : IsCut(f, p)
      BY DEF BaseInv
    <3>1. mtu \in Nat
      BY NetworksAssumption DEF BaseInv
    <3>2. \A h \in Fragment(f, mtu) : IsCut(h, p)
      BY <3>1, FragmentCuts
    <3>3. rest \subseteq wire
      BY DEF Carried
    <3> QED
      BY <2>2, <3>2, <3>3 DEF BaseInv, Forward, Active
  <2>3. ASSUME NEW f \in wire, Receive(f) PROVE BaseInv'
    <3>1. wire' \subseteq wire /\ network' = network /\ unsent' = unsent /\ Add(f)
      BY <2>3 DEF Receive, Carried
    <3> QED
      BY <3>1, AddBase DEF BaseInv
  <2>4. CASE cleanup
    BY <2>4, CleanupBase DEF BaseInv, cleanup
  <2>5. CASE UNCHANGED vars
    BY <2>5 DEF BaseInv, vars, Active
  <2> QED
    BY <2>1, <2>2, <2>3, <2>4, <2>5 DEF Next
<1> QED
  BY <1>1, <1>2, PTL DEF Spec

(* The statistics count the groups there are, no group outlives its 30 s   *)
(* and a bit, and none is empty, on every network (reassembly.go:82-91,    *)
(* 108-119, 184-196).                                                      *)
THEOREM TypeCorrect == Spec => []TypeOK
<1>1. BaseInv => TypeOK
  <2> SUFFICES ASSUME BaseInv PROVE TypeOK
    OBVIOUS
  <2>1. \A f \in wire : f.off \in Nat /\ Len(f.data) > 0
    BY CutOf DEF BaseInv
  <2> QED
    BY <2>1 DEF BaseInv, TypeOK, GroupType
<1> QED
  BY <1>1, BaseInvariance, PTL

-----------------------------------------------------------------------------
(* Completion: a group holds fragments of one packet that do not overlap,  *)
(* so that counting their bytes tells whether they are all there.          *)

GroupOf(g, p) ==
  /\ IsGroup(g)
  /\ \A o \in DOMAIN g.fragments : IsCut(g.fragments[o], p) /\ g.fragments[o].off = o
  /\ g.received = Cardinality(Covered(g))
  /\ g.totalLen \in {-1, Len(p.data)}
  /\ \A o \in DOMAIN g.fragments : ~g.fragments[o].mf => g.totalLen = Len(p.data)

LEMMA CutBlocks ==
  ASSUME NEW p \in Packets, NEW f, IsCut(f, p)
  PROVE  /\ Blocks(f) \subseteq 1 .. Len(p.data) /\ f.off + 1 \in Blocks(f)
         /\ IsFiniteSet(Blocks(f)) /\ Cardinality(Blocks(f)) = Len(f.data)
<1>1. /\ f.off \in Nat /\ Len(f.data) \in Nat /\ Len(f.data) > 0
      /\ f.off + Len(f.data) <= Len(p.data)
  BY CutOf
<1>2. Len(p.data) \in Nat
  BY PacketsAssumption
<1>3. Blocks(f) \subseteq 1 .. Len(p.data) /\ f.off + 1 \in Blocks(f)
  BY <1>1, <1>2 DEF Blocks
<1> DEFINE a == f.off + 1
           b == f.off + Len(f.data)
<1>4. a \in Int /\ b \in Int /\ ~(a > b) /\ b - a + 1 = Len(f.data)
  BY <1>1
<1>5. Blocks(f) = a .. b
  BY DEF Blocks
<1> HIDE DEF a, b
<1>6. IsFiniteSet(a .. b) /\ Cardinality(a .. b) = b - a + 1
  BY <1>4, FS_Interval
<1> QED
  BY <1>3, <1>4, <1>5, <1>6

LEMMA CoveredBounds ==
  ASSUME NEW p \in Packets, NEW g, GroupOf(g, p)
  PROVE  /\ Covered(g) \subseteq 1 .. Len(p.data)
         /\ IsFiniteSet(Covered(g)) /\ Cardinality(Covered(g)) \in Nat
         /\ Cardinality(Covered(g)) = Len(p.data) <=> Covered(g) = 1 .. Len(p.data)
<1>1. Covered(g) \subseteq 1 .. Len(p.data)
  BY CutBlocks DEF Covered, GroupOf
<1>2. Len(p.data) \in Nat
  BY PacketsAssumption
<1> DEFINE n == Len(p.data)
           all == 1 .. n
<1>3. IsFiniteSet(all) /\ Cardinality(all) = n
  <2>0. n \in Int /\ n \in Nat /\ 1 \in Int
    BY <1>2
  <2> HIDE DEF n
  <2>1. IsFiniteSet(1 .. n) /\ Cardinality(1 .. n) = IF 1 > n THEN 0 ELSE n - 1 + 1
    BY <2>0, FS_Interval
  <2>2. (IF 1 > n THEN 0 ELSE n - 1 + 1) = n
    BY <2>0
  <2> QED
    BY <2>1, <2>2
<1> HIDE DEF all
<1>4. /\ IsFiniteSet(Covered(g))
      /\ Cardinality(all) = Cardinality(Covered(g)) => all = Covered(g)
  BY <1>1, <1>3, FS_Subset DEF all
<1>5. Cardinality(Covered(g)) \in Nat
  BY <1>4, FS_CardinalityType
<1> QED
  BY <1>1, <1>3, <1>4, <1>5 DEF all

LEMMA NewGroupOf ==
  ASSUME NEW p \in Packets
  PROVE  GroupOf(NewGroup, p)
<1>1. Covered(NewGroup) = {}
  BY NewGroupFacts DEF Covered
<1> QED
  BY <1>1, NewGroupFacts, FS_EmptySet DEF GroupOf

\* A fragment that is in the group already or overlaps none of those there.
LEMMA GroupGrows ==
  ASSUME NEW p \in Packets, NEW f, IsCut(f, p), NEW g, GroupOf(g, p),
         \A o \in DOMAIN g.fragments : f = g.fragments[o] \/ Disjoint(f, g.fragments[o])
  PROVE  LET h == NoteLength(Store(g, f), f)
         IN  /\ GroupOf(h, p)
             /\ f.off \in DOMAIN g.fragments =>
                  /\ h.fragments = g.fragments /\ f = g.fragments[f.off]
                  /\ h.totalLen = g.totalLen /\ h.received = g.received
             /\ f.off \notin DOMAIN g.fragments =>
                  /\ DOMAIN h.fragments = DOMAIN g.fragments \cup {f.off}
                  /\ h.fragments[f.off] = f
                  /\ \A o \in DOMAIN g.fragments : h.fragments[o] = g.fragments[o]
<1> DEFINE h == NoteLength(Store(g, f), f)
<1>1. /\ f.off \in Nat /\ Len(f.data) \in Nat /\ Len(p.data) \in Nat
      /\ f.off + Len(f.data) <= Len(p.data)
      /\ f.mf = (f.off + Len(f.data) < Len(p.data))
  BY CutOf, PacketsAssumption
<1>2. /\ IsGroup(h)
      /\ h.totalLen = (IF f.mf THEN g.totalLen ELSE f.off + Len(f.data))
      /\ f.off \in DOMAIN g.fragments => h.fragments = g.fragments /\ h.received = g.received
      /\ f.off \notin DOMAIN g.fragments =>
           /\ h.fragments = [o \in DOMAIN g.fragments \cup {f.off} |->
                               IF o = f.off THEN f ELSE g.fragments[o]]
           /\ h.received = g.received + Len(f.data)
  <2>1. IsGroup(g)
    BY DEF GroupOf
  <2>2. Added(g, f, h)
    BY <2>1, StoreFacts
  <2> HIDE DEF h
  <2> QED
    BY <2>2 DEF Added
<1> HIDE DEF h
<1>3. h.totalLen = IF f.mf THEN g.totalLen ELSE Len(p.data)
  <2>1. ~f.mf => f.off + Len(f.data) = Len(p.data)
    BY LastOf
  <2> QED
    BY <1>2, <2>1
<1>4. CASE f.off \in DOMAIN g.fragments
  <2>1. f = g.fragments[f.off]
    <3>1. IsCut(g.fragments[f.off], p) /\ g.fragments[f.off].off = f.off
      BY <1>4 DEF GroupOf
    <3>2. f.off + 1 \in Blocks(f) /\ f.off + 1 \in Blocks(g.fragments[f.off])
      BY <3>1, CutBlocks
    <3> QED
      BY <1>4, <3>2 DEF Disjoint
  <2>2. h.totalLen = g.totalLen
    BY <1>3, <1>4, <2>1 DEF GroupOf
  <2>3. h.fragments = g.fragments /\ h.received = g.received /\ Covered(h) = Covered(g)
    BY <1>2, <1>4 DEF Covered
  <2>4. GroupOf(h, p)
    BY <1>2, <2>2, <2>3 DEF GroupOf
  <2> QED
    BY <1>4, <2>1, <2>2, <2>3, <2>4 DEF h
<1>5. CASE f.off \notin DOMAIN g.fragments
  <2>1. /\ DOMAIN h.fragments = DOMAIN g.fragments \cup {f.off}
        /\ h.fragments[f.off] = f
        /\ \A o \in DOMAIN g.fragments : h.fragments[o] = g.fragments[o]
    BY <1>2, <1>5
  <2>2. \A o \in DOMAIN g.fragments : Disjoint(f, g.fragments[o])
    BY <1>5 DEF GroupOf
  <2>3. Covered(h) = Covered(g) \cup Blocks(f) /\ Covered(g) \cap Blocks(f) = {}
    BY <2>1, <2>2 DEF Covered, Disjoint
  <2>4. h.received = Cardinality(Covered(h))
    <3> DEFINE c == Covered(g)
               b == Blocks(f)
    <3>1. /\ IsFiniteSet(c) /\ IsFiniteSet(b) /\ Cardinality(c) \in Nat
          /\ Cardinality(b) = Len(f.data) /\ g.received = Cardinality(c)
      BY CoveredBounds, CutBlocks DEF GroupOf
    <3>2. Covered(h) = c \cup b /\ c \cap b = {}
      BY <2>3
    <3> HIDE DEF c, b
    <3>3. Cardinality(c \cup b) = Cardinality(c) + Cardinality(b) - Cardinality(c \cap b)
      BY <3>1, FS_Union
    <3>4. Cardinality(c \cap b) = 0
      BY <3>2, FS_EmptySet
    <3>5. Cardinality(c \cup b) = Cardinality(c) + Len(f.data)
      BY <1>1, <3>1, <3>3, <3>4
    <3> QED
      BY <1>2, <1>5, <3>1, <3>2, <3>5
  <2>5. \A o \in DOMAIN h.fragments : IsCut(h.fragments[o], p) /\ h.fragments[o].off = o
    BY <2>1 DEF GroupOf
  <2>6. /\ h.totalLen \in {-1, Len(p.data)}
        /\ \A o \in DOMAIN h.fragments : ~h.fragments[o].mf => h.totalLen = Len(p.data)
    BY <1>3, <2>1 DEF GroupOf
  <2>7. GroupOf(h, p)
    BY <1>2, <2>4, <2>5, <2>6 DEF GroupOf
  <2> QED
    BY <1>5, <2>1, <2>7 DEF h
<1> QED
  BY <1>4, <1>5

(* A group whose bytes add up to the length is the whole packet, and       *)
(* reassemble gives it back (reassembly.go:130-166) ...                    *)
LEMMA CompleteIsWhole ==
  ASSUME NEW p \in Packets, NEW g, GroupOf(g, p), IsComplete(g)
  PROVE  Reassembled(g) = {p}
<1>1. /\ p = [key |-> p.key, df |-> p.df, off |-> 0, mf |-> FALSE, data |-> p.data]
      /\ p.data \in Seq(Nat) /\ Len(p.data) \in Nat /\ Len(p.data) > 0
  BY PacketsAssumption
<1>2. g.totalLen = Len(p.data) /\ Covered(g) = 1 .. Len(p.data)
  <2>1. g.totalLen \in {-1, Len(p.data)} /\ g.totalLen > 0 /\ g.received = g.totalLen
    BY DEF GroupOf, IsComplete
  <2>2. g.totalLen = Len(p.data)
    BY <2>1
  <2>3. Cardinality(Covered(g)) = Len(p.data)
    BY <2>1, <2>2 DEF GroupOf
  <2> QED
    BY <2>2, <2>3, CoveredBounds
<1>3. ASSUME NEW i \in 1 .. Len(p.data)
      PROVE  \E o \in DOMAIN g.fragments : i \in Blocks(g.fragments[o])
  BY <1>2 DEF Covered
<1>4. ASSUME NEW i \in 1 .. Len(p.data), NEW o \in DOMAIN g.fragments,
             i \in Blocks(g.fragments[o])
      PROVE  g.fragments[o].data[i - o] = p.data[i]
  <2> DEFINE f == g.fragments[o]
  <2>0. IsCut(f, p) /\ f.off = o
    BY DEF GroupOf
  <2>1. i \in Blocks(f)
    BY <1>4
  <2> HIDE DEF f
  <2>2. /\ o \in Nat /\ Len(f.data) \in Nat
        /\ \A j \in 1 .. Len(f.data) : f.data[j] = p.data[o + j]
    BY <2>0, CutOf
  <2>3. i \in o + 1 .. o + Len(f.data)
    BY <2>0, <2>1 DEF Blocks
  <2>4. i - o \in 1 .. Len(f.data) /\ o + (i - o) = i
    BY <2>2, <2>3
  <2>5. f.data[i - o] = p.data[i]
    BY <2>2, <2>4
  <2> QED
    BY <2>5 DEF f
<1>5. 0 \in DOMAIN g.fragments
  <2>1. 1 \in 1 .. Len(p.data)
    BY <1>1
  <2>2. PICK o \in DOMAIN g.fragments : 1 \in Blocks(g.fragments[o])
    BY <1>3, <2>1
  <2>3. o \in Nat /\ g.fragments[o].off = o
    BY CutOf DEF GroupOf
  <2>4. o = 0
    BY <2>2, <2>3 DEF Blocks
  <2> QED
    BY <2>4
<1> DEFINE At(i) == CHOOSE o \in DOMAIN g.fragments : i \in Blocks(g.fragments[o])
<1>6. [i \in 1 .. g.totalLen |->
         IF \E o \in DOMAIN g.fragments : i \in Blocks(g.fragments[o])
           THEN LET o == CHOOSE o \in DOMAIN g.fragments : i \in Blocks(g.fragments[o])
                IN g.fragments[o].data[i - o]
           ELSE 0] = p.data
  <2>1. ASSUME NEW i \in 1 .. Len(p.data)
        PROVE  /\ \E o \in DOMAIN g.fragments : i \in Blocks(g.fragments[o])
               /\ g.fragments[At(i)].data[i - At(i)] = p.data[i]
    <3>1. At(i) \in DOMAIN g.fragments /\ i \in Blocks(g.fragments[At(i)])
      BY <1>3
    <3> HIDE DEF At
    <3> QED
      BY <1>3, <1>4, <3>1
  <2>2. p.data = [i \in 1 .. Len(p.data) |-> p.data[i]]
    BY <1>1
  <2> QED
    BY <1>2, <2>1, <2>2
<1>7. Reassembled(g) = {Under(g.fragments[0], 0, FALSE, p.data)}
  BY <1>5, <1>6 DEF Reassembled
<1>8. g.fragments[0].key = p.key /\ g.fragments[0].df = p.df
  BY <1>5, CutOf DEF GroupOf
<1> QED
  BY <1>1, <1>7, <1>8 DEF Under

(* ... and a group with the whole packet in it has bytes that add up.      *)
LEMMA WholeIsComplete ==
  ASSUME NEW p \in Packets, NEW g, GroupOf(g, p), 1 .. Len(p.data) \subseteq Covered(g)
  PROVE  IsComplete(g)
<1>1. Len(p.data) \in Nat /\ Len(p.data) > 0
  BY PacketsAssumption
<1>2. g.received = Len(p.data)
  <2>1. Covered(g) = 1 .. Len(p.data)
    BY CoveredBounds
  <2> QED
    BY <2>1, CoveredBounds DEF GroupOf
<1>3. PICK o \in DOMAIN g.fragments : Len(p.data) \in Blocks(g.fragments[o])
  <2>1. Len(p.data) \in 1 .. Len(p.data)
    BY <1>1
  <2>2. Len(p.data) \in Covered(g)
    BY <2>1
  <2> QED
    BY <2>2 DEF Covered
<1>4. ~g.fragments[o].mf
  <2> DEFINE f == g.fragments[o]
  <2>1. IsCut(f, p) /\ Len(p.data) \in Blocks(f)
    BY <1>3 DEF GroupOf
  <2> HIDE DEF f
  <2>2. /\ f.off \in Nat /\ Len(f.data) \in Nat /\ f.off + Len(f.data) <= Len(p.data)
    BY <2>1, CutOf
  <2>3. f.off + Len(f.data) = Len(p.data)
    BY <1>1, <2>1, <2>2 DEF Blocks
  <2>4. ~f.mf
    BY <2>1, <2>3, LastOf
  <2> QED
    BY <2>4 DEF f
<1>5. g.totalLen = Len(p.data)
  BY <1>4 DEF GroupOf
<1> QED
  BY <1>1, <1>2, <1>5 DEF IsComplete

-----------------------------------------------------------------------------
(* Integrity, on a network with one of the two faults.  With both of them  *)
(* it does not hold: the run Reassembly_overlap shows why.                 *)

OneFaultEach == \A n \in Networks : n.duplicates => n.mtus = {}

Sent == Packets \ unsent

\* Everything carried was cut from a packet sent; fragments of one packet are
\* the same or do not overlap, and only a duplicate meets its like in a group.
WireInv ==
  /\ \A f \in wire : \E p \in Sent : IsCut(f, p)
  /\ \A f, h \in wire : f.key = h.key => f = h \/ Disjoint(f, h)
GroupsInv ==
  \A k \in Active :
    /\ \E p \in Sent : p.key = k /\ GroupOf(groups[k], p)
    /\ ~IsComplete(groups[k])
MeetInv ==
  \A f \in wire, k \in Active : f.key = k =>
    \A o \in DOMAIN groups[k].fragments :
      \/ f = groups[k].fragments[o] /\ network.duplicates
      \/ Disjoint(f, groups[k].fragments[o])

IntactInv == WireInv /\ GroupsInv /\ MeetInv /\ DeliveredIntact

LEMMA Keys ==
  ASSUME NEW p \in Packets, NEW q \in Packets, p.key = q.key
  PROVE  p = q
BY PacketsAssumption

LEMMA CarriedFacts ==
  ASSUME NEW f, NEW rest \in Carried(f)
  PROVE  /\ rest \subseteq wire
         /\ f \in rest => network.duplicates
         /\ ~network.duplicates => rest = wire \ {f}
<1>1. CASE network.duplicates
  BY <1>1 DEF Carried
<1>2. CASE ~network.duplicates
  BY <1>2 DEF Carried
<1> QED
  BY <1>1, <1>2

LEMMA SendIntact ==
  ASSUME BaseInv, IntactInv, NEW p \in Packets, Send(p)
  PROVE  IntactInv'
<1> USE DEF IntactInv
<1>1. PICK mtu \in SenderMTUs : CanSend(p, mtu) /\ wire' = wire \cup Fragment(p, mtu)
  BY DEF Send
<1>2. /\ p \in unsent /\ Sent' = Sent \cup {p} /\ p \notin Sent
      /\ UNCHANGED <<network, groups, delivered, Active>>
  BY DEF Send, Sent, Active
<1>3. /\ \A h \in Fragment(p, mtu) : IsCut(h, p) /\ h.key = p.key
      /\ \A g, h \in Fragment(p, mtu) : g = h \/ Disjoint(g, h)
  BY <1>1, WholeIsCut, FragmentCuts, CutOf, NetworksAssumption
<1>4. \A f \in wire : f.key # p.key
  BY <1>2, CutOf, Keys DEF WireInv, Sent
<1>5. p.key \notin Active
  BY <1>2, Keys DEF GroupsInv, Sent
<1>6. WireInv'
  <2>1. \A f \in wire' : \E q \in Sent' : IsCut(f, q)
    BY <1>1, <1>2, <1>3 DEF WireInv
  <2>2. \A f, h \in wire' : f.key = h.key => f = h \/ Disjoint(f, h)
    BY <1>1, <1>3, <1>4 DEF WireInv
  <2> QED
    BY <2>1, <2>2 DEF WireInv
<1>7. GroupsInv'
  BY <1>2 DEF GroupsInv
<1>8. MeetInv'
  BY <1>1, <1>2, <1>3, <1>5 DEF MeetInv
<1>9. DeliveredIntact'
  BY <1>2 DEF DeliveredIntact
<1> QED
  BY <1>6, <1>7, <1>8, <1>9

LEMMA ForwardIntact ==
  ASSUME OneFaultEach, BaseInv, IntactInv, NEW f \in wire, Forward(f)
  PROVE  IntactInv'
<1> USE DEF IntactInv
<1>1. PICK mtu \in network.mtus, rest \in Carried(f) :
             CanSend(f, mtu) /\ wire' = rest \cup Fragment(f, mtu)
  BY DEF Forward
<1>2. UNCHANGED <<network, unsent, groups, delivered, Active, Sent>>
  BY DEF Forward, Active, Sent
<1>3. ~network.duplicates
  BY <1>1 DEF OneFaultEach, BaseInv
<1>4. wire' = (wire \ {f}) \cup Fragment(f, mtu)
  BY <1>1, <1>3, CarriedFacts
<1>5. PICK p \in Sent : IsCut(f, p)
  BY DEF WireInv
<1>6. mtu \in Nat /\ p \in Packets
  BY <1>1, <1>5, NetworksAssumption DEF BaseInv, Sent
<1>7. /\ \A h \in Fragment(f, mtu) : IsCut(h, p) /\ Blocks(h) \subseteq Blocks(f)
      /\ \A g, h \in Fragment(f, mtu) : g = h \/ Disjoint(g, h)
  BY <1>1, <1>5, <1>6, FragmentCuts
<1>8. f.key = p.key /\ \A h \in Fragment(f, mtu) : h.key = f.key
  BY <1>5, <1>6, <1>7, CutOf
<1>9. WireInv'
  <2>1. \A h \in wire' : \E q \in Sent' : IsCut(h, q)
    BY <1>2, <1>4, <1>5, <1>7 DEF WireInv
  <2>2. \A h \in Fragment(f, mtu), g \in wire \ {f} : g.key = h.key => Disjoint(h, g)
    <3>1. \A g \in wire \ {f} : g.key = f.key => Disjoint(f, g)
      BY DEF WireInv
    <3> QED
      BY <1>7, <1>8, <3>1 DEF Disjoint
  <2>3. \A g, h \in wire' : g.key = h.key => g = h \/ Disjoint(g, h)
    BY <1>4, <1>7, <2>2 DEF WireInv, Disjoint
  <2> QED
    BY <2>1, <2>3 DEF WireInv
<1>10. GroupsInv'
  BY <1>2 DEF GroupsInv
<1>11. MeetInv'
  <2>1. \A k \in Active : f.key = k =>
          \A o \in DOMAIN groups[k].fragments : Disjoint(f, groups[k].fragments[o])
    BY <1>3 DEF MeetInv
  <2>2. \A h \in Fragment(f, mtu), k \in Active : h.key = k =>
          \A o \in DOMAIN groups[k].fragments : Disjoint(h, groups[k].fragments[o])
    BY <1>7, <1>8, <2>1 DEF Disjoint
  <2> QED
    BY <1>2, <1>4, <2>2 DEF MeetInv
<1>12. DeliveredIntact'
  BY <1>2 DEF DeliveredIntact
<1> QED
  BY <1>9, <1>10, <1>11, <1>12

LEMMA ReceiveIntact ==
  ASSUME BaseInv, IntactInv, NEW f \in wire, Receive(f)
  PROVE  IntactInv'
<1> USE DEF IntactInv
<1>1. wire' \in Carried(f) /\ Add(f) /\ UNCHANGED <<network, unsent, Sent>>
  BY DEF Receive, Sent
<1>2. wire' \subseteq wire /\ (f \in wire' => network.duplicates)
  BY <1>1, CarriedFacts
<1>3. PICK p \in Sent : IsCut(f, p)
  BY DEF WireInv
<1>4. p \in Packets /\ f.key = p.key
  BY <1>3, CutOf DEF Sent
<1>5. WireInv'
  BY <1>1, <1>2 DEF WireInv
<1>6. CASE ~IsFragment(f)
  <2>1. f = p
    <3>1. ~f.mf /\ ~(f.off > 0)
      BY <1>6 DEF IsFragment
    <3>2. f.off = 0 /\ f.off + Len(f.data) = Len(p.data)
      BY <1>3, <1>4, <3>1, CutOf, LastOf
    <3> QED
      BY <1>3, <1>4, <3>2, CutOf, WholeIsCut
  <2>2. delivered' = delivered \cup {f} /\ UNCHANGED <<groups, Active>>
    BY <1>1, <1>6 DEF Add, Active
  <2> QED
    BY <1>1, <1>2, <1>4, <1>5, <2>1, <2>2 DEF GroupsInv, MeetInv, DeliveredIntact
<1>7. CASE IsFragment(f)
  <2> DEFINE b == Before(f)
             g == After(f)
  <2>1. GroupOf(b, p)
    <3>1. ASSUME f.key \in Active PROVE GroupOf(groups[f.key], p)
      BY <1>4, <3>1, Keys DEF GroupsInv, Sent
    <3> QED
      BY <1>4, <3>1, NewGroupOf DEF Before
  <2>2. \A h \in wire : h.key = f.key =>
          \A o \in DOMAIN b.fragments :
            (h = b.fragments[o] /\ network.duplicates) \/ Disjoint(h, b.fragments[o])
    BY NewGroupFacts DEF Before, MeetInv
  <2>3. g = NoteLength(Store(b, f), f)
    BY DEF After
  <2>4. \/ /\ IsComplete(g) /\ delivered' = delivered \cup Reassembled(g)
           /\ groups' = Without(f.key)
        \/ /\ ~IsComplete(g) /\ delivered' = delivered /\ groups' = With(f.key, g)
    BY <1>1, <1>7 DEF Add, After, Before
  <2> HIDE DEF b, g
  <2>5. /\ GroupOf(g, p)
        /\ f.off \in DOMAIN b.fragments => g.fragments = b.fragments
        /\ f.off \notin DOMAIN b.fragments =>
             /\ DOMAIN g.fragments = DOMAIN b.fragments \cup {f.off}
             /\ g.fragments[f.off] = f
             /\ \A o \in DOMAIN b.fragments : g.fragments[o] = b.fragments[o]
    BY <1>3, <1>4, <2>1, <2>2, <2>3, GroupGrows
  <2>6. CASE IsComplete(g) /\ delivered' = delivered \cup Reassembled(g)
             /\ groups' = Without(f.key)
    <3>1. Reassembled(g) = {p}
      BY <1>4, <2>5, <2>6, CompleteIsWhole
    <3>2. Active' \subseteq Active /\ \A k \in Active' : groups'[k] = groups[k]
      BY <2>6 DEF Without, Active
    <3> QED
      BY <1>1, <1>2, <1>4, <1>5, <2>6, <3>1, <3>2 DEF GroupsInv, MeetInv, DeliveredIntact
  <2>7. CASE ~IsComplete(g) /\ delivered' = delivered /\ groups' = With(f.key, g)
    <3>1. /\ Active' = Active \cup {f.key}
          /\ groups'[f.key] = g
          /\ \A k \in Active' : k # f.key => k \in Active /\ groups'[k] = groups[k]
      BY <2>7 DEF With, Active
    <3>2. GroupsInv'
      BY <1>1, <1>3, <1>4, <2>5, <2>7, <3>1 DEF GroupsInv
    <3>3. ASSUME NEW h \in wire', h.key = f.key, NEW o \in DOMAIN g.fragments
          PROVE  (h = g.fragments[o] /\ network.duplicates) \/ Disjoint(h, g.fragments[o])
      <4>1. h \in wire
        BY <1>2
      <4>2. CASE o \in DOMAIN b.fragments
        BY <2>2, <2>5, <3>3, <4>1, <4>2
      <4>3. CASE o \notin DOMAIN b.fragments
        <5>1. g.fragments[o] = f
          BY <2>5, <4>3
        <5>2. h = f \/ Disjoint(h, f)
          BY <3>3, <4>1 DEF WireInv
        <5> QED
          BY <1>2, <5>1, <5>2
      <4> QED
        BY <4>2, <4>3
    <3>4. MeetInv'
      BY <1>1, <1>2, <3>1, <3>3 DEF MeetInv
    <3>5. DeliveredIntact'
      BY <2>7 DEF DeliveredIntact
    <3> QED
      BY <1>5, <3>2, <3>4, <3>5
  <2> QED
    BY <2>4, <2>6, <2>7
<1> QED
  BY <1>6, <1>7

LEMMA CleanupIntact ==
  ASSUME BaseInv, IntactInv, cleanup
  PROVE  IntactInv'
<1> USE DEF IntactInv
<1>1. UNCHANGED <<network, unsent, wire, delivered, Sent>>
  BY DEF cleanup, Sent
<1>2. /\ Active' \subseteq Active
      /\ \A k \in Active' : groups'[k] = [groups[k] EXCEPT !.age = groups[k].age + 1]
  BY DEF cleanup, Active
<1>3. ASSUME NEW k \in Active'
      PROVE  /\ IsGroup(groups'[k]) /\ groups'[k].fragments = groups[k].fragments
             /\ groups'[k].totalLen = groups[k].totalLen
             /\ groups'[k].received = groups[k].received
  <2> DEFINE g == groups[k]
             h == groups'[k]
  <2>1. IsGroup(g) /\ h = [g EXCEPT !.age = g.age + 1]
    BY <1>2 DEF BaseInv, GroupType
  <2> HIDE DEF g, h
  <2>2. /\ IsGroup(h) /\ h.fragments = g.fragments
        /\ h.totalLen = g.totalLen /\ h.received = g.received
    BY <2>1, AgeFacts
  <2> QED
    BY <2>2 DEF g, h
<1>4. ASSUME NEW k \in Active', NEW p \in Packets, GroupOf(groups[k], p)
      PROVE  GroupOf(groups'[k], p)
  <2> DEFINE g == groups[k]
             h == groups'[k]
  <2>1. /\ IsGroup(h) /\ h.fragments = g.fragments
        /\ h.totalLen = g.totalLen /\ h.received = g.received
    BY <1>3
  <2>2. GroupOf(g, p)
    BY <1>4
  <2> HIDE DEF g, h
  <2>3. Covered(h) = Covered(g)
    BY <2>1 DEF Covered
  <2>4. GroupOf(h, p)
    BY <2>1, <2>2, <2>3 DEF GroupOf
  <2> QED
    BY <2>4 DEF h
<1>5. \A k \in Active' : IsComplete(groups'[k]) => IsComplete(groups[k])
  BY <1>3 DEF IsComplete
<1>6. GroupsInv'
  BY <1>1, <1>2, <1>4, <1>5 DEF GroupsInv, Sent
<1>7. WireInv' /\ MeetInv' /\ DeliveredIntact'
  BY <1>1, <1>2, <1>3 DEF WireInv, MeetInv, DeliveredIntact
<1> QED
  BY <1>6, <1>7

LEMMA IntactInvariance ==
  ASSUME OneFaultEach
  PROVE  Spec => []IntactInv
<1>1. Init => IntactInv
  <2> SUFFICES ASSUME Init PROVE IntactInv
    OBVIOUS
  <2>1. Active = {} /\ wire = {} /\ delivered = {}
    BY DEF Init, Active
  <2> QED
    BY <2>1 DEF IntactInv, WireInv, GroupsInv, MeetInv, DeliveredIntact
<1>2. BaseInv /\ IntactInv /\ [Next]_vars => IntactInv'
  <2> SUFFICES ASSUME BaseInv, IntactInv, [Next]_vars PROVE IntactInv'
    OBVIOUS
  <2>1. CASE UNCHANGED vars
    BY <2>1 DEF vars, IntactInv, WireInv, GroupsInv, MeetInv, DeliveredIntact, Active, Sent
  <2> QED
    BY <2>1, SendIntact, ForwardIntact, ReceiveIntact, CleanupIntact DEF Next
<1> QED
  BY <1>1, <1>2, BaseInvariance, PTL DEF Spec

(* On a network that duplicates or fragments again, but not both, Add      *)
(* delivers only packets that were sent, byte for byte, however fragments  *)
(* are lost and reordered and groups evicted (reassembly.go:61-127).       *)
THEOREM IntegrityOfDelivery ==
  ASSUME OneFaultEach
  PROVE  Spec => []DeliveredIntact
<1>1. IntactInv => DeliveredIntact
  BY DEF IntactInv
<1> QED
  BY <1>1, IntactInvariance, PTL

(* There Add also recognises every completion: no group holds a whole      *)
(* packet and waits for its eviction (reassembly.go:102-118).              *)
THEOREM CompletionNoticed ==
  ASSUME OneFaultEach
  PROVE  Spec => []NoCompleteGroupWaits
<1>1. IntactInv => NoCompleteGroupWaits
  <2> SUFFICES ASSUME IntactInv, NEW p \in Packets, p.key \in Active,
                      1 .. Len(p.data) \subseteq Covered(groups[p.key])
               PROVE  FALSE
    BY DEF NoCompleteGroupWaits
  <2>1. GroupOf(groups[p.key], p) /\ ~IsComplete(groups[p.key])
    BY Keys DEF IntactInv, GroupsInv, Sent
  <2> QED
    BY <2>1, WholeIsComplete
<1> QED
  BY <1>1, IntactInvariance, PTL
=============================================================================
