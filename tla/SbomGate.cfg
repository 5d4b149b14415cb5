\* The SBOM generator, merged with the green gate of a bake that had nothing to do.
CONSTANTS
  h3 = h3
  cron = cron
  trixie = trixie
  bookworm = bookworm
  pg18 = pg18
  updates = updates
  s1 = s1
  s2 = s2
  renovate = renovate
  None = None
  Absent = Absent
  NoMetadata = NoMetadata
  Unparsable = Unparsable
  Shared = shared
  Sbom = sbom
  Neutral = neutral
  Elsewhere = elsewhere
  Digit = {}
  Other = {}
  Distribution = {trixie, bookworm}
  Major = {pg18}
  DefaultDistribution = trixie
  DefaultPgMajor = pg18
  Name = {h3, cron}
  Extension = {h3, cron}
  Tree <- SomeTree
  Branch = {updates, renovate}
  Renovate = {renovate}
  Exempt = {cron}
  BranchOf <- OneBranch
  Slot = {s1, s2}
  MaxTouched = 2
  MaxEvent = 3
SPECIFICATION Spec
SYMMETRY Interchangeable
CHECK_DEADLOCK FALSE
INVARIANTS SbomVetted
