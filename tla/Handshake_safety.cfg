CONSTANTS
  SeqMod = 3
  ClientMSS = 3
  ServerMSS = 2
  ClientWindow = 5
  ServerWindow = 7
  MayFail = TRUE
  MayRestart = TRUE
SPECIFICATION SpecMC
INVARIANTS TypeOK SequenceAgreement ParameterAgreement IInv
PROPERTIES ImplementsSession HandshakeCompletes
