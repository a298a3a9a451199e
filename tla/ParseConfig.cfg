CONSTANTS
  MaxBusses = 2
  MaxDevices = 2
  Labels = {"0", "1"}
  Params = {"one", "two"}
  MaxLines = 10
  MaxOddLines = 5
SPECIFICATION Spec
INVARIANTS
  TypeOK
  ParsedAsWritten
CHECK_DEADLOCK FALSE
