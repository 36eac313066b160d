SPECIFICATION Spec
CONSTANTS
  h1 = h1
  h2 = h2
  old = old
  new = new
  up = up
  None = None
  Interventions = {old, new, up}
  Of <- Three
  AtStart <- InForce
  States <- FourStates
  MaxEdges <- Short
  Hosts = {h1, h2}
  Destinations <- Drifted
  Ancestors <- ParentOf
  Requests <- TwoRequests
  Claims <- TwoClaims
  Subject <- OneExperiment
  Observed <- OneObservation
  Clock <- TwoClocks
  MaxExposures = 2
  MaxAttempts = 2
  MaxCalls = 3
  MaxCrashes = 1
INVARIANTS
  ResolutionFair
  ReceiptCanonical
  SetsIndexed
PROPERTIES
  ImplementsLedger
CHECK_DEADLOCK FALSE
