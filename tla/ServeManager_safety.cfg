SPECIFICATION Spec
CONSTANTS
  Gens = {g1, g2}
  Configs = {c1}
  None = None
  AutoRestart = TRUE
  LegacyConfigs = {}
  MaxCrashes = 1
  MaxSaveFails = 1
  MaxClearFails = 1
  MaxProbes = 0
SYMMETRY Symmetry
INVARIANTS
  Consistent
  SignalAfterReceipt
  AdoptableIsOwned
  SingleEngine
  AutoHonoursLatch
  SealedOrCrashed
