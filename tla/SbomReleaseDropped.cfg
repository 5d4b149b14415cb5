CONSTANTS
  Arch = {"amd64", "arm64"}
  MaxRun = 2
  MaxAttempt = 1
  MaxOutside = 0
  Triggers <- PushTriggers
SPECIFICATION FairSpec
CHECK_DEADLOCK FALSE
PROPERTIES GeneratorPushPublished
