SPECIFICATION Spec
CONSTANTS
  Parts = {"origin", "fill", "serve", "caches", "follow", "listing"}
  Empty = Empty
  None = None
  Gap = Gap
  Absent = Absent
  f1 = f1
  f2 = f2
  u = u
  v = v
  dm = dm
  a = a
  o = o
  r1 = r1
  r2 = r2
  r3 = r3
  c1 = c1
  Writers = {f1, f2, u, v, dm, a, o}
  Role <- Roles
  Casts <- Played
  MaxDeaths = 1
  Requests = {r1, r2, r3}
  DeclaredSize = 2
  TEE_HOLDBACK = 1
  DOWNLOAD_ATTEMPTS = 2
  MAX_DETACHED_FILLS = 1
  Scenes <- Runs
  Clients = {c1}
  Scripts <- Shown
  MaxReadFaults = 1
INVARIANTS
  OriginSafe
  FillSafe
  ServingSafe
  CachesSafe
  UpstreamSafe
PROPERTIES
  ReadSteps
CHECK_DEADLOCK FALSE
