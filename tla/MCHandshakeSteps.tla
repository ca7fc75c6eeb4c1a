-------------------------- MODULE MCHandshakeSteps --------------------------
(* HandshakeSteps on a sequence space of a few numbers.                    *)
EXTENDS HandshakeSteps
=============================================================================
