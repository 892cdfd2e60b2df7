SPECIFICATION Spec
CONSTANTS
  Threads = {t1, t2}
  Functions <- MCReturning
  site1 = site1
  site2 = site2
  Sites <- MCSites
  Junk = junk
  Zero = zero
  MaxDepth = 1
  SS_SIZE = 4
  MaxUnwinds = 0
INVARIANTS NoFalseAbort
