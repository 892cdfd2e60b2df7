SPECIFICATION FairSpec
CONSTANTS
  Threads = {t1}
  Functions <- MCFunctionsAndAbort
  site1 = site1
  site2 = site2
  Sites <- MCSites
  Junk = junk
  Zero = zero
  MaxDepth = 3
  SS_SIZE = 3
  MaxUnwinds = 2
INVARIANTS TypeOK MirrorsStack NoFalseAbort ReturnsToCaller AbortsExplained
PROPERTIES ImplementsCallGuard EpilogueDecides StaleOnlyGrows
