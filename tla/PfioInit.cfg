CONSTANT NumPins = 3
SPECIFICATION Spec
INVARIANT TypeOK
PROPERTIES
  OutputsOffAfterInit
  FlashIsStale
