SPECIFICATION Spec
CONSTANTS
  Percent = 100
  NoFile = NoFile
  Unfinished = Unfinished
  Instances = {p1}
  Transitions <- Forth
  MaxCrashes = 1
  MaxReplacements = 0
  MaxRemovals = 0
PROPERTIES
  ShownIsInterpolated
CHECK_DEADLOCK FALSE
