CONSTANTS
  trixie = trixie
  bookworm = bookworm
  cnpg_main = cnpg_main
  cnpg_latest = cnpg_latest
  Image <- OneImage
  Cnpg <- NoRelease
  MaxRun = 2
  MaxAttempt = 1
  MaxMinute = 1
  CutOff = 1
SPECIFICATION Spec
CHECK_DEADLOCK FALSE
PROPERTIES TimestampTagUnique
