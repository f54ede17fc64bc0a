SPECIFICATION RaceSpec
CONSTANTS
  Parts = {"records", "status"}
  None = None
  b1 = b1
  b2 = b2
  s1 = s1
  s2 = s2
  Shas = {s1, s2}
  Details = {"why"}
  CONFLICT_SKEW_MS = 2
  Digest <- MCDigest
  Buckets = {b1, b2}
  Requests = {1}
  Docs <- MixedDocs
  Passes <- TwoNodes
  MaxWrites = 2
  MaxAborts = 1
INVARIANTS
  TypeOK
  RecordsSound
  NothingLost
PROPERTIES
  StatusSteps
  MarkersPermanent
  StatusConverges
CHECK_DEADLOCK FALSE
