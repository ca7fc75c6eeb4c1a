CONSTANTS
  SeqMod = 3
  ClientMSS = 3
  ServerMSS = 2
  ClientWindow = 5
  ServerWindow = 7
  MayFail = TRUE
  MayRestart = TRUE
  MayDuplicate = FALSE
SPECIFICATION SpecSteps
INVARIANTS StepsTypeOK SequenceAgreement ParameterAgreement
PROPERTIES StepsImplementSession CompletesUnlessOvertaken
CHECK_DEADLOCK FALSE
