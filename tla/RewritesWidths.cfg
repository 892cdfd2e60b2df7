SPECIFICATION Spec
CONSTANTS
  Sources <- MCOddWidths
  PassLists <- MCWidthPasses
  Word = 3
  Randoms = {5}
  RandomValues = {7}
  MaxGarbage = 1
INVARIANTS SameProgram
