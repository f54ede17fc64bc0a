SPECIFICATION Spec
CONSTANTS
  Parts = {"counters"}
  e1 = e1
  e2 = e2
  n1 = n1
  n2 = n2
  b1 = b1
  b2 = b2
  g1 = g1
  g2 = g2
  s1 = s1
  s2 = s2
  p1 = p1
  p2 = p2
  c1 = c1
  c2 = c2
  f1 = f1
  f2 = f2
  None = None
  Plain = Plain
  Refused = Refused
  Malformed = Malformed
  NoFile = NoFile
  AnyMinor = AnyMinor
  Counting = {n1}
  Stores = {b1, b2}
  Events = {e1, e2}
  Shards = {"x", "y"}
  Forged = {e2}
  GraceDays = 0
  RetentionDays = 1
  MaxDay = 2
  Queries <- FirstDay
  Seasons <- Years
  KeyBudget = 1
  Compacting = {n1, n2}
  Gates = {g1, g2}
  Leader = g1
  Shelves = {s1, s2}
  Projects = {p1, p2}
  Courses <- Both
  Clients = {c1, c2}
  Mirrored = {p1, p2}
  Dists = {f1, f2}
  Filters <- Wide
  Cooldown = 1
  LastDay = 3
  Chapters <- Book
INVARIANTS
  CountsExact
CHECK_DEADLOCK FALSE
