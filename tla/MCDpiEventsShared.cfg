SPECIFICATION Spec
CONSTANTS
  Stages = {d1, d2}
  Sources <- OneShared
  MaxWire = 1
  MaxPending = 1
  MaxGeneration = 1
  NoDpi = NoDpi
INVARIANT SharedReconnectIsSilent
CHECK_DEADLOCK FALSE
