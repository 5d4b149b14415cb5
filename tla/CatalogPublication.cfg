\* Two overlapping runs, two catalogs of which upstream drops one.
CONSTANTS
  bookworm = bookworm
  trixie = trixie
  cron = cron
  tap = tap
  v1 = v1
  v2 = v2
  s1 = s1
  s2 = s2
  NoVersion = NoVersion
  Catalog = {bookworm, trixie}
  Ext = {cron, tap}
  Version = {v1, v2}
  MaxCommit = 1
  Source <- TwoExtensions
  MaxUpstream = 1
  Base <- DropsBookworm
  MaxMinute = 2
  Slot = {s1, s2}
SPECIFICATION Spec
SYMMETRY Interchangeable
CHECK_DEADLOCK FALSE
INVARIANTS CatalogInv CompleteOrUntouched
PROPERTIES NeverOlderImage ContractKept
