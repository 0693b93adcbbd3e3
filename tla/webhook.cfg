SPECIFICATION FairSpec
CONSTANTS
  h1 = h1
  h2 = h2
  r1 = r1
  r2 = r2
  p1 = p1
  p2 = p2
  n1 = n1
  n2 = n2
  k1 = k1
  k2 = k2
  java = java
  python = python
  None = None
  Hooks = {h1, h2}
  Replicas = {r1, r2}
  ServedBy <- TwoReplicas
  Pods = {p1, p2}
  NamespaceOf <- Where
  RuntimeOf <- Wants
  Unsuitable = {p2}
  Namespaces = {n1, n2}
  Runtimes = {java, python}
  Names = {k1, k2}
  Offers <- TwoReleases
  Capacity = 1
  MaxChanges = 3
CHECK_DEADLOCK FALSE
INVARIANTS TypeOK SlotsAreHeld InjectedOnce InjectedCanMount RefusedForCause
PROPERTIES CapacityReturns AdmissionsEnd
