------------------------- MODULE MCConnTableTickets -------------------------
(* ConnTableTickets on the smallest range, callers interchangeable.        *)
EXTENDS ConnTableTickets, TLC

MCRemotes == {[ip |-> "remote", port |-> 7]}
MCSymmetry == Permutations(Callers)
=============================================================================
