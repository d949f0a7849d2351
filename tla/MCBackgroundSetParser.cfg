SPECIFICATION Spec
CONSTANTS
  Day = 86400
  Hour = 3600
  Minute = 60
  IntSize = 4096
  NoClock = NoClock
  Unreadable = Unreadable
  Backgrounds <- NoBackgrounds
  NoTransition = NoTransition
  Files <- TestFiles
  solarDay <- TestSolarDay
  MaxUnsigned = 65535
  TransitionSteps = 5
  Garbage = Garbage
  None = None
CHECK_DEADLOCK FALSE
INVARIANTS
  TypeOK
  OutcomeFitsTheFile
  AcceptedDynamicIsBackground
  TimesAreWhatTheStringsSay
