CONSTANTS
  mcp = mcp
  pcf = pcf
  pcf2 = pcf2
  pi = pi
  NoChip = NoChip
  NumBusses = 2
  NumDevices <- ByteDevices
  Chip <- ByteChip
  Part <- BytePart
  ByteBits = 2
  ValueBits = 4
  OpenFaults = {}
  AddrFaults = {}
  XferFaults = {}
  ReqBus <- Indices
  ReqDev <- Indices
  ReqSub <- SubIndices
  ReqValue <- Writes
  Levels <- AllHigh
SPECIFICATION Spec
INVARIANT InvalidSubDeviceReported
