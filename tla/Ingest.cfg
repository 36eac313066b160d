SPECIFICATION Spec
CONSTANTS
  h1 = h1
  h2 = h2
  None = None
  Hosts = {h1, h2}
  Loops <- BothLoops
  LoopOf <- Upgraded
  Inputs <- FourInputs
  Refused = {"x"}
  Scope = "s"
  Windows <- TwoWindows
  MaxEvidenceIds = 2
  MaxDetectorIds = 3
  MaxSupports = 2
  MaxCalls = 2
  MaxCrashes = 1
  MaxFaults = 1
INVARIANTS
  CommittedWhole
  OnePageCommits
  OneRevisionCommits
  ResolversAgree
  OutcomesFold
CHECK_DEADLOCK FALSE
