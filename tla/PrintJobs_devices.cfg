CONSTANTS
  j1 = j1  j2 = j2  j3 = j3  u1 = u1  u2 = u2
  p1 = p1  p2 = p2  g1 = g1  d1 = d1  d2 = d2  c1 = c1
  NoLimit = NoLimit  None = None
  BalanceZero = 0  PoorMan = 1
  Jobs = {j1, j2}
  Users = {u1}
  Printers = {p1, p2, g1}
  Devices = {d1, d2}
  Codes = {c1}
  Ticket <- TwoDevices_Ticket
  DeviceOf <- TwoDevices_DeviceOf
  Ancestors <- TwoDevices_Ancestors
  PagePrice <- OneCredit
  JobFee <- TwoDevices_JobFee
  Profile <- ByBalance
  Limits <- NoLimits
  MaxJobSize <- AnySize
  Confs <- TwoDevices_Confs
  Registered <- Everyone
  InitialBalance <- TwoDevices_Balance
  KnownCodes = {}
  TicketAnswers = {"ALLOW"}
  DupeAnswers = {}
  GroupVerdicts = {"ALLOW"}
  Confirmations = {TRUE}
  Abortable = {}
  MaxSheets = 1
SPECIFICATION Spec
INVARIANTS
  LedgerBalanced
PROPERTIES
  OverdraftNeedsRace
