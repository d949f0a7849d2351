SPECIFICATION Spec
CONSTANTS
  Day = 6
  Hour = 2
  Absent = Absent
  Garbage = Garbage
  DefaultDay <- TestDefaultDay
  Home <- NoNames
  Lower <- NoNames
  ExistingPaths <- NoPaths
  Configs <- TestConfigs
  Tokens = {"1", "2", ",", "error", "newline"}
  Numbers = {"1", "2"}
  Pages <- TestPages
  BufferSize = 4
  NumberRetries = 3
  ZoneOffsets <- TestZones
  SunriseUTC <- TestSunrise
  SunsetUTC <- TestSunset
  Polar <- TestPolar
CHECK_DEADLOCK FALSE
INVARIANTS
  TypeOK
  AsksOnlyWhenAllowed
  LocationIsTheLastAnswer
  SunTimesAreLocal
PROPERTIES
  EndsUnlessTheServiceHangs
