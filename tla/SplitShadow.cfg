SPECIFICATION SplitSpec
CONSTANTS
  Threads = {t1}
  Functions <- MCFunctions
  site1 = site1
  splitSite = splitSite
  Sites <- MCSites
  Junk = junk
  Zero = zero
  MaxDepth = 3
  SS_SIZE = 3
  MaxUnwinds = 0
  SplitOf <- MCSplitOf
  SplitSite <- splitSite
INVARIANTS NoFalseAbort
