SPECIFICATION Spec
CONSTANTS
  Sources <- MCSources
  PassLists <- MCPassLists
  Word = 3
  Randoms = {5}
  RandomValues = {7}
  MaxGarbage = 1
INVARIANTS TypeOK ValidBlock SameBehaviour StaysDefined ReportsCount ReportedChanges
