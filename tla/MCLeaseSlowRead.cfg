SPECIFICATION Spec
CONSTANTS
  n1 = n1
  n2 = n2
  n3 = n3
  Nodes = {n1, n2}
  NoLease = NoLease
  Nobody = Nobody
  TTL = 2
  Skew <- NoSkew
  ReadTimeout = 8
  MaxTerm = 9
  MaxTime = 8
PROPERTIES TheftTakesExpiredOnly
CHECK_DEADLOCK FALSE
