SPECIFICATION Spec
CONSTANTS
  Events <- TestEvents
  ProcessLimit = 3
CHECK_DEADLOCK FALSE
INVARIANTS
  StaleOnlyByOverlap
  HookFollowsTheImage
  LinesAreRepeatedByFailuresOnly
  OnlyTheFirstScriptsCount
PROPERTIES
  EventsGoOn
