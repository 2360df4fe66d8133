\* Commands that each put one printer into one group, without the cache.
CONSTANTS
  c1 = c1  c2 = c2  c3 = c3
  Commands = {c1, c2, c3}
  Printers <- MCPrinters
  Requests <- MCSingle
  Caching = FALSE
SYMMETRY MCSymmetry
SPECIFICATION Spec
INVARIANT CostIsDefined
\* Once every command is over nothing is left to do.
CHECK_DEADLOCK FALSE
