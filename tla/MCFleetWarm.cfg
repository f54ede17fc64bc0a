SPECIFICATION Spec
CONSTANTS
  Parts = {"worker"}
  Unstamped = Unstamped
  None = None
  Rival = Rival
  s1 = s1
  s2 = s2
  m1 = m1
  n1 = n1
  n2 = n2
  f1 = f1
  f2 = f2
  p1 = p1
  p2 = p2
  Starters = {s1, s2}
  Migrators = {m1}
  NoStamp = NoStamp
  Silent = Silent
  Rollouts <- Starts
  MaxSilences = 2
  Slots = {0, 1}
  NoSlot = NoSlot
  Outlooks <- Some
  LeaveAfter = 2
  Window = 3
  CycleTime = 1
  Grace = 1
  MaxFlips = 3
  MaxReports = 3
  Auditors = {n1, n2}
  Replicas = {1, 2}
  Packages = {p1, p2}
  Churning = {p1}
  Nil = Nil
  Fleets <- Wholes
  MaxShas = 2
  MaxLapses = 2
INVARIANT ReleasedStays
CHECK_DEADLOCK FALSE
