SPECIFICATION Spec
CONSTANTS
  Modules <- MCModules
INVARIANTS TypeOK KeepsEveryBranch OperandsAvailable AcceptedExactly
PROPERTIES RunsLikeOriginal
