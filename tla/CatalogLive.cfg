\* Two runs that may hold each other up, under fair scheduling.
CONSTANTS
  bookworm = bookworm
  trixie = trixie
  cron = cron
  tap = tap
  v1 = v1
  v2 = v2
  s1 = s1
  s2 = s2
  NoVersion = NoVersion
  Catalog = {trixie}
  Ext = {cron}
  Version = {v1, v2}
  MaxCommit = 1
  Source <- OneExtension
  MaxUpstream = 1
  Base <- DropsBookworm
  MaxMinute = 2
  Slot = {s1, s2}
SPECIFICATION FairSpec
CHECK_DEADLOCK FALSE
PROPERTIES CatalogCatchesUp
