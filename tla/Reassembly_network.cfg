CONSTANTS
  Packets <- MCPackets
  SenderMTUs = {1, 2, 3, 4}
  Networks <- OneFault
  MaxAge = 3
SPECIFICATION FairSpec
INVARIANTS TypeOK DeliveredIntact NoCompleteGroupWaits
PROPERTY GroupsExpire
