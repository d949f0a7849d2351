SPECIFICATION Spec
CONSTANTS
  Day = 30
  Milli = 3
  MaxBusy = 4
  MaxOversleep = 1
  Faults = {}
  HookConfigured = TRUE
  NoImage = NoImage
  NoTransition = NoTransition
  Backgrounds <- NormalBackgrounds
INVARIANTS
  WakesInTime
  NeverWakesEarly
  TransitionLastsItsDuration
PROPERTIES
  TransitionsContinueTheScreen
  ImplementsEventCycle
  EveryImageIsShown
