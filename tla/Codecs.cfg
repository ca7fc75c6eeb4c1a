CONSTANTS
  MaxPacket = 40
  Src <- SrcAddress
  Dst <- DstAddress
  TcpHeaders <- HeadersOfTcp
  TcpPayloads <- Payloads
  IpHeaders <- HeadersOfIp
  Contexts <- ContextsOfOptions
  IpPayloads <- PayloadsOfIp
  Parts <- PartsOfData
  OptionFields <- FieldsOfOptions
  Changes = {1, 128, 255}
  Files <- FilesOfUsers
  FlagSets <- FlagsOfUsers
SPECIFICATION SpecMC
INVARIANTS SegmentsArrive ForeignOptionsKept PacketsArrive ChangesDetected PartsCombine AcceptedConfigMeant
CHECK_DEADLOCK FALSE
