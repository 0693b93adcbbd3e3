SPECIFICATION FairSpec
CONSTANTS
  s1 = s1
  s2 = s2
  d1 = d1
  p1 = p1
  operator = operator
  None = None
  Torn = Torn
  Foreign = Foreign
  Sessions = {s1, s2}
  Dirs = {d1}
  Images = {operator}
  Platforms = {p1}
  Audited = {}
  MaxRuns = 4
  MaxChanges = 2
  MaxExpiry = 1
  MaxForeign = 1
CHECK_DEADLOCK FALSE
INVARIANTS SignedFromCleanSource OnlyScannedIsSigned
PROPERTIES CommandsEnd
