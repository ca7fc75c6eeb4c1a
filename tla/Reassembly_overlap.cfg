CONSTANTS
  Packets <- MCPackets
  SenderMTUs = {1, 2, 3, 4}
  Networks <- TwoFaults
  MaxAge = 3
SPECIFICATION FairSpec
INVARIANT DeliveredIntact
