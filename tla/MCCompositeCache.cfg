SPECIFICATION Spec
CONSTANTS
  Percent = 100
  NoFile = NoFile
  Unfinished = Unfinished
  Instances = {p1}
  Transitions <- ThereAndBackInSteps
  MaxCrashes = 0
  MaxReplacements = 1
  MaxRemovals = 1
PROPERTIES
  ImplementsMemo
CHECK_DEADLOCK FALSE
