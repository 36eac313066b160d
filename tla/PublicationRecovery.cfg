SPECIFICATION RecoverySpec
CONSTANTS
  f1 = f1
  Forward = {f1}
  Hosts = {h1, h2}
  AfterEffect <- OneEffect
  EffectClass <- ContextClass
  MaxAppendAttempts = 2
PROPERTIES
  NeverStranded
  CallsReturn
