SPECIFICATION Spec
CONSTANTS
  s1 = s1
  s2 = s2
  r1 = r1
  r2 = r2
  a = a
  b = b
  None = None
  Sessions = {s1, s2}
  Releases = {r1, r2}
  Namespaces = {a, b}
  Profiles <- NodeProfiles
  Legacy <- OlderAgents
  MaxCommands = 3
SYMMETRY Symmetry
CHECK_DEADLOCK FALSE
INVARIANTS TypeOK NodeSourcesHaveOneReader ReconcilePasses
