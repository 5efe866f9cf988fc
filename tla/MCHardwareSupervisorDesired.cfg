SPECIFICATION Spec
CONSTANTS
  native1 = native1
  native2 = native2
  path1 = path1
  path2 = path2
  Dpi = Dpi
  Battery = Battery
  Ids = {b1, b2, b3}
  Adapters = {native1, native2}
  Paths = {path1, path2}
  Kinds <- QuietKinds
  StartKind <- Quiet
  StartPending = FALSE
  Stages = {d800, d1600}
  HardwareButton = FALSE
  MaxGeneration = 1
  NoId = NoId
  NoDpi = NoDpi
  NoAdapter = NoAdapter
  NoOne = NoOne
SYMMETRY Symmetry
INVARIANT DesiredMatchesDevice
