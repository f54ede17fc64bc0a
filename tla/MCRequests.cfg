SPECIFICATION Spec
CONSTANTS
  Areas = {"disk", "login", "tokens", "artifact", "edits", "upload"}
  Nil = Nil
  Missed = Missed
  Nothing = Nothing
  c1 = c1
  c2 = c2
  u1 = u1
  u2 = u2
  a1 = a1
  a2 = a2
  a3 = a3
  a4 = a4
  a5 = a5
  g1 = g1
  g2 = g2
  g3 = g3
  n1 = n1
  n2 = n2
  Contents = {c1, c2}
  Gone = Gone
  Torn = Torn
  NoCall = NoCall
  Tasks = {1, 2}
  MaxTemps = 2
  MaxDeaths = 1
  Disciplines <- Kept
  Requests = {1, 2}
  Addresses = {a1, a2, a3, a4, a5}
  Site <- Sites
  Isp <- Isps
  Guesses = {g1, g2, g3}
  Valid = Valid
  Watched = a1
  LoginFailLimit = 2
  ThrottleCap = 4
  Cooldown = 2
  SweepInterval = 1
  MaxGuesses = 4
  Crowds <- Guessing
  Nodes = {n1, n2}
  Lead <- Clocks
  Grants <- Credentials
  TokenTtl = 2
  MaxClockSkew = 1
  MaxNow = 4
  MaxTokens = 2
INVARIANTS
  DiskSafe
  ArtifactSafe
  AccessSafe
  EditsSafe
  UploadSafe
PROPERTIES
  Atomic
  RequestSteps
CHECK_DEADLOCK FALSE
