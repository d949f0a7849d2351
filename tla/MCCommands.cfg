SPECIFICATION Spec
CONSTANTS
  Day = 6
  Absent = Absent
  Garbage = Garbage
  Throwing = Throwing
  DefaultDay <- TestDefaultDay
  Home <- TestHome
  Lower <- TestLower
  ExistingPaths <- TestExistingPaths
  CommandLines <- TestCommandLines
  Configs <- TestConfigs
  DefaultConfig <- TestDefaultConfig
  SetFiles <- TestSetFiles
  ExistingImages = {"one"}
  RegularFiles = {"a.jpg"}
CHECK_DEADLOCK FALSE
INVARIANTS
  HealthyCommandsSucceed
  FailuresShowNothing
  AllGoodMeansShowable
  AsksOncePerSet
  HookFollowsTheImage
  SetterIsAsConfigured
