\* Three jobs, the refund of one and an edpykota on two quota entries.
CONSTANTS
  j1 = j1  j2 = j2  onGroup = onGroup
  r1 = r1  balanced = balanced  counted = counted
  u1 = u1  p1 = p1  p2 = p2  g1 = g1  g2 = g2  c1 = c1
  None = None
  Users = {u1}
  Printers = {p1, p2, g1, g2}
  Codes = {c1}
  Charges = {j1, j2, onGroup}
  Refunds = {r1}
  Saves = {counted}
  Abortable = {counted}
  Job <- MCJob
  Refunded <- MCRefunded
  Changes <- MCChanges
  InitialAmount <- MCInitialAmount
SPECIFICATION FairSpec
INVARIANT DeadlockNeedsInversion
PROPERTIES ImplementsLedger EveryTxEnds
\* Once every transaction is over nothing is left to do.
CHECK_DEADLOCK FALSE
