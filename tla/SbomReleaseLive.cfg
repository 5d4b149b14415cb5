CONSTANTS
  Arch = {"amd64"}
  MaxRun = 3
  MaxAttempt = 1
  MaxOutside = 0
  Triggers <- PushOrTest
SPECIFICATION FairSpec
CHECK_DEADLOCK FALSE
PROPERTIES PublicationEnds
