SPECIFICATION Spec
CONSTANTS
  p1 = p1
  p2 = p2
  None = None
  Procs = {p1, p2}
  Keys = {"a", "s"}
  OpsOf <- TwoWriters
  Limit = 1
  MaxCalls = 3
  MaxMishaps = 1
  MaxListings = 1
INVARIANTS
  CacheComplete
  EarlierListed
PROPERTIES
  ImplementsStore
CHECK_DEADLOCK FALSE
