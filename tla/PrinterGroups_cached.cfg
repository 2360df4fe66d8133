\* Three commands in one database, with the cache on.
CONSTANTS
  c1 = c1  c2 = c2  c3 = c3
  Commands = {c1, c2, c3}
  Printers <- MCPrinters
  Requests <- MCRequests
  Caching = TRUE
SYMMETRY MCSymmetry
SPECIFICATION Spec
PROPERTY CarefulCommandsKeepOrder
\* Once every command is over nothing is left to do.
CHECK_DEADLOCK FALSE
