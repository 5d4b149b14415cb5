\* Every document of two packages and three files, every payload of two.
CONSTANTS
  p1 = p1
  p2 = p2
  s1 = s1
  s2 = s2
  s3 = s3
  h1 = h1
  h2 = h2
  DocumentId = DocumentId
  Package = {p1, p2}
  FileId = {s1, s2, s3}
  Hash = {h1, h2}
  Path <- Paths
  Builders <- Scans
  Payloads <- Contents
SPECIFICATION Spec
CHECK_DEADLOCK FALSE
INVARIANTS SbomInv DocumentClosed PackagesShip ClaimJustified ExactPathWins PayloadDescribed StatementSound
PROPERTIES OccupiedUntouched
