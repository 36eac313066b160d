SPECIFICATION RecoverySpec
CONSTANTS
  root = root
  twin = twin
  heir1 = heir1
  heir2 = heir2
  x = x
  y = y
  z = z
  None = None
  Hosts = {h1, h2}
  Proposals <- TwinRoots
  Instants = {1}
  Multiplier = 2
  MaxSlotAttempts = 1
  MaxSlots = 2
  Dispositions = {"accept", "revise", "reject"}
  Reviewed = {}
  MaxEpisodes = 1
  MaxReviews = 0
PROPERTIES
  SlotCompletes
