SPECIFICATION IndexSpec
CONSTANTS
  Parts = {"global", "package"}
  n1 = n1
  n2 = n2
  w1 = w1
  Nodes = {n1, n2}
  Packages = {p, q}
  Tags = {t1, t2, t3, t4, t5, t6, t7, t8, t9, t10, t11, t12, t13, t14, t15, t16, t17, t18, t19, t20, t21, t22, t23, t24, t25, t26, t27, t28, t29, t30}
  None = None
  Attempts = 2
  MaxChanges = 2
  MaxFaults = 1
  Fleets <- Pairs
INVARIANTS
  IndexSound
  PackageSound
PROPERTIES
  MergesOnly
CHECK_DEADLOCK FALSE
