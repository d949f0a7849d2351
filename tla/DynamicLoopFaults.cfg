SPECIFICATION Spec
CONSTANTS
  Day = 30
  Milli = 3
  MaxBusy = 1
  MaxOversleep = 1
  Faults = {"NoCacheDir", "CacheDirDenied", "CompositeImageError"}
  HookConfigured = TRUE
  NoImage = NoImage
  NoTransition = NoTransition
  Backgrounds <- HastyBackgrounds
PROPERTIES
  EventsInOrder
  EveryImageIsShownUnlessTerminated
CHECK_DEADLOCK FALSE
