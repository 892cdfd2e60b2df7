SPECIFICATION Spec
CONSTANTS
  Nests <- MCFlattened
  Half = 128
INVARIANTS SameNest
