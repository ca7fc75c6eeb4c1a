CONSTANTS
  Loops = {l1, l2}
  Packets = {padded, optional, long, unreachable, udp}
  padded = padded
  optional = optional
  long = long
  unreachable = unreachable
  udp = udp
  icmp1 = icmp1
  icmp2 = icmp2
  Handlers = {icmp1, icmp2}
  NoHandler = NoHandler
  MaxPacket = 65535
  BufSize = 36
  MaxActivity = 4
  Offered <- OfferedBytes
  Asked <- AskedOf
  Protocol <- ProtocolOfHandler
SPECIFICATION SpecMC
INVARIANTS TypeOK QuietAfterStop NoErrorOnShutdown CountersBalance SnapshotWithinCall HandlerInForce PacketsAccounted NoDescriptorLeak
PROPERTIES LoopsEnd RepliesAnswer EveryRequestAnswered
CHECK_DEADLOCK FALSE
