\* Two jobs, one after the other, on every kind of printer.
CONSTANTS
  None = None
  Jobs = 2
  Requests <- MCRequests
  Confs <- MCConfs
  Loops = 2
  Gap = 1
  MaxFaults = 2
SPECIFICATION FairSpec
INVARIANTS
  TypeOK
  ExactSize
  NoSheetChargedTwice
  ErrorBounded
PROPERTY EveryJobEnds
\* Once the jobs are over nothing is left to do.
CHECK_DEADLOCK FALSE
