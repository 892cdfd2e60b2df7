SPECIFICATION Spec
CONSTANTS
  Jobs <- MCJobs
  None = none
INVARIANTS TypeOK PlacedInFront EntryStaysFirst AllocasStayLeading
PROPERTIES ReportedChanges
