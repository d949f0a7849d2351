SPECIFICATION Spec
CONSTANTS
  Day = 5
  MaxTimes = 3
  Durations = {2, 6}
  NoTransition = NoTransition
  Backgrounds <- MCBackgrounds
PROPERTIES
  OnlyOverlappingEventsAreRemoved
CHECK_DEADLOCK FALSE
