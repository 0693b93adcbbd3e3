SPECIFICATION Spec
CONSTANTS
  s1 = s1
  s2 = s2
  r1 = r1
  r2 = r2
  a = a
  b = b
  None = None
  Sessions = {s1}
  Releases = {r1, r2}
  Namespaces = {a, b}
  Profiles <- ClusterProfiles
  Legacy = {}
  MaxCommands = 2
SYMMETRY Symmetry
CHECK_DEADLOCK FALSE
INVARIANT ClusterStateHasOneReader
