SPECIFICATION Spec
CONSTANTS
  s1 = s1
  s2 = s2
  r1 = r1
  r2 = r2
  a = a
  b = b
  o1 = o1
  o2 = o2
  k1 = k1
  k2 = k2
  None = None
  Sessions = {s1, s2}
  Releases = {r1, r2}
  Namespaces = {a, b, o1, o2}
  Home <- OwnHomes
  Marked = {}
  Names = {k1, k2}
  Profiles <- Mixed
  MaxEvents = 3
SYMMETRY Symmetry
CHECK_DEADLOCK FALSE
PROPERTIES ImplementsGrants
INVARIANTS TypeOK InjectedPodsCanMount WebhookTrustsServing OneIdentity RetryPasses SharedNameOneAuthority
