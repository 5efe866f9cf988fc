CONSTANTS
  Remapper = Remapper
  Dpi = Dpi
  Battery = Battery
  Threads = {Remapper, Dpi, Battery}
  MaxGeneration = 1
  MaxSamples = 1
SPECIFICATION Spec
INVARIANTS NoLostWake WakeIsEvidence
