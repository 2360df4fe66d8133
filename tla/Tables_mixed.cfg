SPECIFICATION FairSpec
CONSTANTS
  m1 = m1
  m2 = m2
  m3 = m3
  u1 = u1
  u2 = u2
  u3 = u3
  p1 = p1
  p2 = p2
  g1 = g1
  None = None
  Unread = Unread
  Procs = {m1, m2, m3}
  Scenarios <- Cases
INVARIANTS
  TypeOK
  CountersMatchHistory
  ChargesReachTheirUser
  OrphansNeedRace
  DeadlockNeedsOppositeOrders
  DumpNamesWhatItHas
PROPERTIES
  FailureNeedsOverlap
  ChargedIsRecorded
  DumpIsWhole
  EveryProcessEnds
