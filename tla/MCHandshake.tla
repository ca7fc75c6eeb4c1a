---------------------------- MODULE MCHandshake -----------------------------
(***************************************************************************)
(* Handshake on a sequence space of a few numbers, with a history: whether *)
(* an output has failed or a host restarted.                               *)
(***************************************************************************)
EXTENDS Handshake

VARIABLE faulted

\* A handler whose output does not fail puts a segment on the wire.
NextMC ==
  \/ /\ ActiveOpen \/ DeliverToListener \/ DeliverToSynSent
     /\ faulted' = (faulted \/ wire' = wire)
  \/ DeliverToSynReceived /\ UNCHANGED faulted
  \/ (RestartClient \/ RestartServer) /\ faulted' = TRUE

InitMC == Init /\ faulted = FALSE

SpecMC ==
  /\ InitMC
  /\ [][NextMC]_<<vars, faulted>>
  /\ Fairness

(* When no output fails and no host restarts, an active open completes on  *)
(* both ends however segments are repeated and reordered, as long as one   *)
(* that stays deliverable is delivered: sendSYN leads to ESTABLISHED and   *)
(* ESTABLISHED.                                                            *)
HandshakeCompletes ==
  client.state = "SYN_SENT" ~> BothEstablished \/ faulted
=============================================================================
