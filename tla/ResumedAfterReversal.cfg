SPECIFICATION Spec
CONSTANTS
  f1 = f1
  Forward = {f1}
  Hosts = {h1}
  AfterEffect <- TwoEffects
  EffectClass <- ContextClass
  MaxAppendAttempts = 2
PROPERTIES
  NoEffectAfterReversal
