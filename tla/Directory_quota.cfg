SPECIFICATION Spec
CONSTANTS
  m1 = m1
  m2 = m2
  m3 = m3
  u1 = u1
  u2 = u2
  p1 = p1
  p2 = p2
  g1 = g1
  k1 = k1
  j0 = j0
  None = None
  Anyone = Anyone
  Present = Present
  Procs = {m1, m2, m3}
  Scenarios <- Sequences
  MaxFaults = 0
INVARIANTS
  LastJobExists
