SPECIFICATION Spec
CONSTANTS
  Day = 5
  MaxTimes = 3
  Durations = {2, 6}
  NoTransition = NoTransition
  Backgrounds <- MCBackgrounds
INVARIANTS
  FinishedListIsSorted
  EveryTimeKeepsASetEvent
  TransitionsEndOnTime
  ListIsTheDaySchedule
  FinishedListIsAnEventList
PROPERTIES
  LoopAgreesWithPass
  BuildingTerminates
CHECK_DEADLOCK FALSE
