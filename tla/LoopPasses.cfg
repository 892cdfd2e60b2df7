SPECIFICATION Spec
CONSTANTS
  Nests <- MCNests
  Half = 128
INVARIANTS TypeOK SplitKeepsUnitSteps HeadsRepeatAtSplits FlatPairsInOrder
PROPERTIES Terminates
