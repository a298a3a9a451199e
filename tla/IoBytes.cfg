CONSTANTS
  mcp = mcp
  pcf = pcf
  pcf2 = pcf2
  pi = pi
  NoChip = NoChip
  NumBusses = 2
  NumDevices <- ByteDevices
  Chip <- ByteChip
  Part <- BytePart
  ByteBits = 2
  ValueBits = 4
  OpenFaults = {0}
  AddrFaults = {}
  XferFaults = {pcf}
  ReqBus <- Indices
  ReqDev <- Indices
  ReqSub <- SubIndices
  ReqValue <- Writes
  Levels <- SomeLow
SPECIFICATION Spec
INVARIANT SuccessMeansDriven
PROPERTY BitWriteKeepsOthers
