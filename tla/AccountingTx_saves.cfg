\* A job and a pkusers on the balance of its user.
CONSTANTS
  j1 = j1  j2 = j2  onGroup = onGroup
  r1 = r1  balanced = balanced  counted = counted
  u1 = u1  p1 = p1  p2 = p2  g1 = g1  g2 = g2  c1 = c1
  None = None
  Users = {u1}
  Printers = {p1, p2, g1, g2}
  Codes = {c1}
  Charges = {j1}
  Refunds = {}
  Saves = {balanced}
  Abortable = {}
  Job <- MCJob
  Refunded <- MCRefunded
  Changes <- MCChanges
  InitialAmount <- MCInitialAmount
SPECIFICATION Spec
PROPERTY SaveAddsItsChange
\* Once every transaction is over nothing is left to do.
CHECK_DEADLOCK FALSE
