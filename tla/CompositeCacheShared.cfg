SPECIFICATION Spec
CONSTANTS
  Percent = 100
  NoFile = NoFile
  Unfinished = Unfinished
  Instances = {p1, p2}
  Transitions <- ThereAndBack
  MaxCrashes = 1
  MaxReplacements = 1
  MaxRemovals = 0
INVARIANTS
  CacheHoldsItsOwn
PROPERTIES
  NothingForeignIsShown
SYMMETRY InstanceSymmetry
CHECK_DEADLOCK FALSE
