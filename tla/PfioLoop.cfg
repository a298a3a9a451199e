CONSTANT NumPins = 3
SPECIFICATION Spec
PROPERTY LoopClearsAllOutputs
