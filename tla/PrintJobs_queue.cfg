CONSTANTS
  j1 = j1  j2 = j2  j3 = j3  u1 = u1  u2 = u2
  p1 = p1  p2 = p2  g1 = g1  d1 = d1  d2 = d2  c1 = c1
  NoLimit = NoLimit  None = None
  BalanceZero = 0  PoorMan = 1
  Jobs = {j1, j2, j3}
  Users = {u1}
  Printers = {p1}
  Devices = {d1}
  Codes = {c1}
  Ticket <- OneQueue_Ticket
  DeviceOf <- OneDevice
  Ancestors <- NoGroups
  PagePrice <- OneCredit
  JobFee <- Free
  Profile <- ByQuota
  Limits <- Tight
  MaxJobSize <- AnySize
  Confs <- OneQueue_Confs
  Registered <- Everyone
  InitialBalance <- Penniless
  KnownCodes = {}
  TicketAnswers = {"ALLOW", "DENY", "CANCEL"}
  DupeAnswers = {"ALLOW", "DENY"}
  GroupVerdicts = {"ALLOW"}
  Confirmations = {TRUE}
  Abortable = {}
  MaxSheets = 1
SPECIFICATION Spec
INVARIANTS
  DenyBannersBounded
  StrictHardLimitKept
  RefusedPrintsNothing
  ChargedWasSent
  TwoBannersPerJob
