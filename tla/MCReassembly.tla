---------------------------- MODULE MCReassembly ----------------------------
(* Reassembly with packets of a few blocks, the second of them with DF.    *)
EXTENDS Reassembly

\* A packet of n blocks with distinct contents, none of them zero.
Built(key, n, df) ==
  [key |-> key, df |-> df, off |-> 0, mf |-> FALSE,
   data |-> [i \in 1 .. n |-> i]]

MCPackets == {Built("p", 5, FALSE), Built("r", 2, TRUE)}

\* Fragments are duplicated or fragmented again, or both.
Duplicating   == [mtus |-> {}, duplicates |-> TRUE]
Refragmenting == [mtus |-> {1, 2}, duplicates |-> FALSE]
Both          == [mtus |-> {1, 2}, duplicates |-> TRUE]

OneFault  == {Duplicating, Refragmenting}
TwoFaults == {Both}
=============================================================================
