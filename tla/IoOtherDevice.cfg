CONSTANTS
  mcp = mcp
  pcf = pcf
  pcf2 = pcf2
  pi = pi
  NoChip = NoChip
  NumBusses = 2
  NumDevices <- MixedDevices
  Chip <- MixedChip
  Part <- MixedPart
  ByteBits = 1
  ValueBits = 3
  OpenFaults = {}
  AddrFaults = {mcp}
  XferFaults = {}
  ReqBus <- Indices
  ReqDev <- Indices
  ReqSub <- SubIndices
  ReqValue <- Writes
  Levels <- AllHigh
SPECIFICATION Spec
PROPERTY OtherDevicesUntouched
