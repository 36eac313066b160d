SPECIFICATION RecoverySpec
CONSTANTS
  h1 = h1
  h2 = h2
  t1 = t1
  t2 = t2
  None = None
  Hosts = {h1, h2}
  Plans <- RivalPlans
  Definitions <- BothLanes
  Answers <- TwoAnswers
  Windows <- OneWindow
  ChildKinds <- Child
  Horizon = 1
  UsageLimit = 1
  CostLimits <- Ceiling
  Amounts = {0, 1, 2}
INVARIANTS
  TurnLast
  AtMostOneCall
  EgressAccounted
  AnswersKept
PROPERTIES
  ImplementsTurn
  AnswersCommit
