SPECIFICATION FairSpec
CONSTANTS
  Stages = {d1, d2}
  Sources <- TrackedAndLegacy
  MaxWire = 1
  MaxPending = 1
  MaxGeneration = 1
  NoDpi = NoDpi
INVARIANTS ShownIsCurrent ReplacementIsSilent
PROPERTY ChangeIsShown
CHECK_DEADLOCK FALSE
