SPECIFICATION Spec
CONSTANTS
  slot = slot
  global = global
  other = other
  none = none
  Allocas <- MCAllocas
  Globals <- MCGlobals
  Others <- MCOthers
  NoPtr <- none
  Blocks <- MCVolatileBlocks
INVARIANTS OrderPreserved
