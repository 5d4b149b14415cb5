\* Two runs, each attempted twice, and one push from outside.
CONSTANTS
  Arch = {"amd64"}
  MaxRun = 2
  MaxAttempt = 2
  MaxOutside = 1
  Triggers <- AllWays
SPECIFICATION Spec
CHECK_DEADLOCK FALSE
INVARIANTS ReleaseInv LatestFromMain BuildRetained RecheckSound AliasVetted
PROPERTIES CommitTagStable ContractKept
