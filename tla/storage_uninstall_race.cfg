SPECIFICATION Spec
CONSTANTS
  s1 = s1
  s2 = s2
  c1 = c1
  c2 = c2
  k1 = k1
  k2 = k2
  t1 = t1
  t2 = t2
  None = None
  Sessions = {s1, s2}
  ClusterNames = {c1, c2}
  SecretNames = {k1}
  Tenants = {t1, t2}
  Profiles <- OneProfile
  MaxUID = 5
  MaxVersion = 1
  MaxRuns = 3
  MaxAdmin = 0
SYMMETRY Symmetry
CHECK_DEADLOCK FALSE
PROPERTIES ReinstallNeverReplays
