SPECIFICATION Spec
CONSTANTS
  h1 = h1
  h2 = h2
  x1 = x1
  x2 = x2
  x3 = x3
  i1 = i1
  Hosts = {h1, h2}
  Experiments = {x1, x2}
  Interventions = {i1}
  Designs <- Capped
  Outcomes <- Answers
  MaxAppendAttempts = 2
  MaxEvaluations = 1
  MaxPublisherEdges = 1
SYMMETRY HostSymmetry
INVARIANTS
  ExecutedOnce
  SpendBounded
  EvaluationFaithful
  IndexBounded
  FoldsReadable
