\* Four trees, one edit, one push, two calls of GenerateTestingValues.
CONSTANTS
  postgis = postgis
  mobility = mobility
  Mobility = Mobility
  upstream = upstream
  fork = fork
  Fork = Fork
  local = local
  plpgsql = plpgsql
  trixie = trixie
  bookworm = bookworm
  pg18 = pg18
  pgTrixie = pgTrixie
  pgBookworm = pgBookworm
  s1 = s1
  s2 = s2
  None = None
  Absent = Absent
  NoMetadata = NoMetadata
  Unparsable = Unparsable
  Digit = {"1", "2"}
  Other = {"-"}
  Distribution = {trixie, bookworm}
  Major = {pg18}
  DefaultDistribution = trixie
  DefaultPgMajor = pg18
  Name = {postgis, mobility, Mobility, plpgsql}
  Registry = {upstream, fork, Fork, local}
  Upstream = upstream
  BakeRegistry = {Fork, local}
  Lower <- SomeLower
  Base = {pgTrixie, pgBookworm}
  Sql = {s1, s2}
  Trees <- SomeTrees
  Packages <- SomePackages
  Pushes <- SomePushes
  Images <- SomeImages
  Individual = {postgis}
  MaxEdit = 1
  MaxPush = 1
  MaxCall = 2
SPECIFICATION Spec
CHECK_DEADLOCK FALSE
INVARIANTS TestingInv ValuesOfOneMoment CreatedIsThere SiblingTagsBaked GreenCovers
