CONSTANTS
  trixie = trixie
  bookworm = bookworm
  cnpg_main = cnpg_main
  cnpg_latest = cnpg_latest
  Image <- OneImage
  Cnpg <- NoRelease
  MaxRun = 2
  MaxAttempt = 2
  MaxMinute = 2
  CutOff = 1
SPECIFICATION Spec
CHECK_DEADLOCK FALSE
INVARIANTS PipelineInv ProductionTested ProductionProvenance GreenMeansPublished
PROPERTIES ProductionImmutable LostForGood ContractKept
