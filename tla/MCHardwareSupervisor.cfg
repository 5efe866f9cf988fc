SPECIFICATION FairSpec
CONSTANTS
  native1 = native1
  native2 = native2
  path1 = path1
  path2 = path2
  Dpi = Dpi
  Battery = Battery
  Ids = {b1, b2, b3}
  Adapters = {native1, native2}
  Paths = {path1, path2}
  Kinds <- MixedKinds
  StartKind <- Generic
  StartPending = TRUE
  Stages = {d800}
  HardwareButton = TRUE
  MaxGeneration = 2
  NoId = NoId
  NoDpi = NoDpi
  NoAdapter = NoAdapter
  NoOne = NoOne
INVARIANT OneLiveBackend
PROPERTIES ReplacementIsDue SessionWatcherFollows
