CONSTANTS
  Config <- EveryDriver
  AsDaemon = TRUE
SPECIFICATION Spec
INVARIANTS
  TypeOK
  SafeStop
  NothingLeft
CHECK_DEADLOCK FALSE
