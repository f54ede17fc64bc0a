SPECIFICATION Spec
CONSTANTS
  Parts = {"lease", "index", "package", "chain", "health", "worker", "heal"}
  n1 = n1
  n2 = n2
  w1 = w1
  b1 = b1
  b2 = b2
  s1 = s1
  s2 = s2
  None = None
  NoLease = NoLease
  Nobody = Nobody
  NoSlot = NoSlot
  Rival = Rival
PROPERTIES
  NoVacuum
  ViewsConverge
  LoopsProgress
  BucketsConverge
CHECK_DEADLOCK FALSE
