CONSTANTS
  mcp = mcp
  pcf = pcf
  pcf2 = pcf2
  pi = pi
  NoChip = NoChip
  NumBusses = 2
  NumDevices <- ServingDevices
  Chip <- ServingChip
  Part <- ServingPart
  ByteBits = 1
  ValueBits = 3
  OpenFaults = {}
  AddrFaults = {}
  XferFaults = {mcp, pcf}
  ReqBus <- Indices
  ReqDev <- Indices
  ReqSub <- SubIndices
  ReqValue <- Writes
  Levels <- SomeLow
SPECIFICATION Spec
INVARIANTS
  TypeOK
  DirectionCacheTruthful
  SuccessMeansDriven
  ReadTellsLatch
  SilentOnlyOnFailedTransfer
PROPERTIES
  Containment
  BitWriteKeepsOthers
  EveryTransferCounts
  ImplementsPortBank
  RequestsEnd
