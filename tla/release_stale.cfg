SPECIFICATION Spec
CONSTANTS
  s1 = s1
  s2 = s2
  d1 = d1
  d2 = d2
  p1 = p1
  p2 = p2
  collector = collector
  beyla = beyla
  None = None
  Torn = Torn
  Foreign = Foreign
  Sessions = {s1}
  Dirs = {d1}
  Images = {collector}
  Platforms = {p1}
  Audited = {}
  MaxRuns = 7
  MaxChanges = 0
  MaxExpiry = 1
  MaxForeign = 0
SYMMETRY Symmetry
CHECK_DEADLOCK FALSE
INVARIANTS RerunAllowsPublication
