\* A build matrix of two images, attempted twice under fair scheduling.
CONSTANTS
  trixie = trixie
  bookworm = bookworm
  cnpg_main = cnpg_main
  cnpg_latest = cnpg_latest
  Image <- TwoImages
  Cnpg <- OneRelease
  MaxRun = 1
  MaxAttempt = 2
  MaxMinute = 2
  CutOff = 1
SPECIFICATION FairSpec
CHECK_DEADLOCK FALSE
PROPERTIES RetriedOnce
