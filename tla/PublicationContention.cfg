SPECIFICATION Spec
CONSTANTS
  f1 = f1
  Forward = {f1}
  Hosts = {h1, h2}
  AfterEffect <- TwoEffects
  EffectClass <- ContextClass
  MaxAppendAttempts = 2
SYMMETRY HostSymmetry
INVARIANTS
  WriteOrder
  PublishedIsComplete
  ReversalReachesParent
  OneFreshOwner
PROPERTIES
  CompletionTruthful
  ImplementsLifecycle
