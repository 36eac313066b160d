SPECIFICATION FairSpec
CONSTANTS
  h1 = h1
  h2 = h2
  x1 = x1
  x2 = x2
  x3 = x3
  i1 = i1
  Hosts = {h1, h2}
  Experiments = {x1, x2}
  Interventions = {i1}
  Designs <- OnePair
  Outcomes <- Answered
  MaxAppendAttempts = 2
  MaxEvaluations = 2
  MaxPublisherEdges = 1
PROPERTIES
  LatestMovesValidation
