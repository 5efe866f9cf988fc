\* Only the session; the cancelled setup of two mice.
CONSTANTS
  m1 = m1
  m2 = m2
  low = low
  high = high
  Devices <- MCDevices
  Start <- MCStart
  Dpis = {low, high}
  None = None
  NDevices = 2
  NStages = 2
  MaxHistory = 1
  Current = 1
  Latest = 2
  Other = 3
  Corrupt = Corrupt
  Nodes <- MCNodes
  HidppVendor = "v"
  Bootloader = "boot"
  Capabilities = {"dpi"}
  MaxCommands = 2
  Replies <- MCReplies
  Updatable = {m1}
  TestMice <- MCTestMice
  TestUsers <- MCTestUsers
  TestExperiments <- MCTestExperiments
  MaxTests = 5
  Repertoire <- MCRepertoire
  SpeakingMice <- MCMice
  Margin = 3
  MaxObservations = 2
  Captures <- MCCaptures
  FileOf <- MCFiles
  MaxImports = 2
  MaxReviews = 2
  MaxDamaged = 1
SPECIFICATION SessionSpec
INVARIANT CancelRestores
CHECK_DEADLOCK FALSE
