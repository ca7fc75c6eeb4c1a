----------------------------- MODULE MCReadLoop -----------------------------
(* ReadLoop with one call of Start and one packet.                           *)
EXTENDS ReadLoop
=============================================================================
