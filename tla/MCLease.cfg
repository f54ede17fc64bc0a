SPECIFICATION Spec
CONSTANTS
  n1 = n1
  n2 = n2
  n3 = n3
  Nodes = {n1, n2, n3}
  NoLease = NoLease
  Nobody = Nobody
  TTL = 2
  Skew <- NoSkew
  ReadTimeout = 4
  MaxTerm = 4
  MaxTime = 5
INVARIANT LeaseSafe
PROPERTY LeaseSteps
SYMMETRY Symmetry
CHECK_DEADLOCK FALSE
