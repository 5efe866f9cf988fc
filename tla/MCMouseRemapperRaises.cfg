SPECIFICATION Spec
CONSTANTS
  copy = copy
  paste = paste
  letter = letter
  macro = macro
  ctrl = ctrl
  c = c
  v = v
  Buttons = {copy, paste, letter, macro}
  Keys = {ctrl, c, v}
  Mapping <- MCMapping
  MaxWorkers = 1
  Macro <- MCMacro
  Sentinel = Sentinel
  MaxQueue = 1
  MaxFailures = 1
INVARIANT TeardownReleases
