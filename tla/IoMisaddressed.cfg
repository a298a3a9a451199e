CONSTANTS
  mcp = mcp
  pcf = pcf
  pcf2 = pcf2
  pi = pi
  NoChip = NoChip
  NumBusses = 2
  NumDevices <- MixedDevices
  Chip <- MixedChip
  Part <- MixedPart
  ByteBits = 1
  ValueBits = 3
  OpenFaults = {1}
  AddrFaults = {mcp, pcf}
  XferFaults = {pcf2}
  ReqBus <- Indices
  ReqDev <- Indices
  ReqSub <- FewSubs
  ReqValue <- Writes
  Levels <- AllHigh
SPECIFICATION Spec
INVARIANT SilentOnlyOnFailedTransfer
PROPERTY
  Containment
