SPECIFICATION Spec
CONSTANTS
  root = root
  twin = twin
  heir1 = heir1
  heir2 = heir2
  x = x
  y = y
  z = z
  None = None
  Hosts = {h1, h2}
  Proposals <- RivalSuccessors
  Instants = {1}
  Multiplier = 2
  MaxSlotAttempts = 2
  MaxSlots = 2
  Dispositions = {"accept", "revise", "reject"}
  Reviewed = {root}
  MaxEpisodes = 2
  MaxReviews = 1
SYMMETRY HostSymmetry
INVARIANTS
  ReceiptLast
  SlotCompletable
  OverrideEarned
PROPERTIES
  ImplementsChain
