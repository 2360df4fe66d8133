CONSTANTS
  j1 = j1  j2 = j2  j3 = j3  u1 = u1  u2 = u2
  p1 = p1  p2 = p2  g1 = g1  d1 = d1  d2 = d2  c1 = c1
  NoLimit = NoLimit  None = None
  BalanceZero = 0  PoorMan = 1
  Jobs = {j1, j2, j3}
  Users = {u1, u2}
  Printers = {p1, p2}
  Devices = {d1}
  Codes = {c1}
  Ticket <- Policies_Ticket
  DeviceOf <- OneDevice
  Ancestors <- NoGroups
  PagePrice <- OneCredit
  JobFee <- Free
  Profile <- ByQuota
  Limits <- NoLimits
  MaxJobSize <- AnySize
  Confs <- Policies_Confs
  Registered <- Policies_Registered
  InitialBalance <- Penniless
  KnownCodes = {}
  TicketAnswers = {"ALLOW", "CANCEL"}
  DupeAnswers = {}
  GroupVerdicts = {"ALLOW"}
  Confirmations = {TRUE, FALSE}
  Abortable = {j1}
  MaxSheets = 1
SPECIFICATION FairSpec
INVARIANTS
  TypeOK
  DeviceMutex
  MeteredIsPrinted
PROPERTIES
  EveryJobEnds
  PrintedIsRecorded
