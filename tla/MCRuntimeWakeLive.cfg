CONSTANTS
  Remapper = Remapper
  Dpi = Dpi
  Battery = Battery
  Threads = {Dpi, Battery}
  MaxGeneration = 2
  MaxSamples = 1
SPECIFICATION FairSpec
PROPERTIES ShutdownTerminates EvidenceIsServed
