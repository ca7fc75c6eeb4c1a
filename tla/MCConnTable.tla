---------------------------- MODULE MCConnTable -----------------------------
(* ConnTable on a range of a few ports, with two endpoints of other hosts. *)
EXTENDS ConnTable

MCRemotes == {[ip |-> "remote", port |-> p] : p \in {7, 8}}
=============================================================================
