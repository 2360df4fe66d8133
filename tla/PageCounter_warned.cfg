\* A job accepted with a warning.
CONSTANTS
  None = None
  Jobs = 1
  Requests <- MCRequests
  Confs <- MCSkipping
  Loops = 2
  Gap = 1
  MaxFaults = 0
SPECIFICATION Spec
INVARIANT PrecedingJobIsOver
\* Once the jobs are over nothing is left to do.
CHECK_DEADLOCK FALSE
