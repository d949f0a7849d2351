SPECIFICATION Spec
CONSTANTS
  Percent = 100
  NoFile = NoFile
  Unfinished = Unfinished
  Instances = {p1, p2}
  Transitions <- ThereAndBack
  MaxCrashes = 0
  MaxReplacements = 0
  MaxRemovals = 1
PROPERTIES
  EveryTransitionEnds
  EveryFragmentIsFinished
CHECK_DEADLOCK FALSE
