CONSTANTS
  MaxBusses = 2
  MaxDevices = 2
  Labels = {"0", "1"}
  Params = {"one", "two"}
  MaxLines = 4
  MaxOddLines = 4
SPECIFICATION Spec
INVARIANT ErrorsRefused
CHECK_DEADLOCK FALSE
