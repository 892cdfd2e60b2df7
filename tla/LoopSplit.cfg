SPECIFICATION Spec
CONSTANTS
  Nests <- MCSplits
  Half = 128
INVARIANTS SameIterations
