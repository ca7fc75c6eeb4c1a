--------------------------- MODULE MCStateMachine ---------------------------
(* StateMachine with a few goroutines and two callbacks.                   *)
EXTENDS StateMachine
=============================================================================
