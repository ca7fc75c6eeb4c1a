CONSTANTS
  SeqMod = 3
  ClientMSS = 3
  ServerMSS = 2
  ClientWindow = 5
  ServerWindow = 7
  MayFail = FALSE
  MayRestart = FALSE
  MayDuplicate = TRUE
SPECIFICATION SpecSteps
INVARIANT SequenceAgreement
CHECK_DEADLOCK FALSE
