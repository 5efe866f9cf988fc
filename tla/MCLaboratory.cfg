\* Seven transactions, eleven commands, three mice of two models.
CONSTANTS
  m1 = m1
  m2 = m2
  m3 = m3
  u1 = u1
  u2 = u2
  A = A
  B = B
  None = None
  Transactions = {"dpi", "query", "rate", "config", "light", "erase", "input"}
  Steps <- MCSteps
  Safety <- MCSafety
  Needs <- MCNeeds
  Verified = {"dpi", "rate", "config"}
  Rate = "rate"
  Grants <- MCGrants
  Values = {1, 2}
  Settings = {1, 2, 3}
  Base = 1
  First = 2
  Second = 3
  Mice = {m1, m2, m3}
  Models = {A, B}
  Units = {u1, u2}
  Unit <- MCUnit
  Twins = {}
  Rates = {1, 2}
  MinRates = 1
  MaxEvidence = 2
  Interfaces <- MCInterfaces
  Resolutions = {11, 12}
  Intervals = {21, 22}
  Attempts = 2
  Operations <- MCOperations
  MaxCalls = 1
  MaxTouches = 1
  Urbs = {1, 2}
  Endpoints = {0, 1}
  EndTypes = {"complete", "unknown"}
  Room = 1
  MaxTransfers = 2
  MaxCaptures = 2
  MaxDisturbances = 1
  Tags = {1}
  Channels = {1}
  Window = 1
  Quiet = 1
  Deadline = 2
  MaxResponses = 2
  NudgeWindow = 1
  MaxGap = 1
  MaxTime = 2
  MaxRequests = 2
  MaxGeneration = 1
  Absent = None
SPECIFICATION MCSpec
INVARIANTS
  LaboratoryTypeOK
  ChangesOnce
  DoneIsVerified
  EndsRestoredOrWarned
  LookupIsSound
  RegisterIsShared
  TransfersAreAccounted
  AttributionIsSound
  RecordsAreWhole
  HidppSessionIsSound
  BackendIsSound
PROPERTY
  PromotionIsEarned
\* A command ends.
CHECK_DEADLOCK FALSE
