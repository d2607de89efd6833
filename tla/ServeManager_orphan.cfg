SPECIFICATION Spec
CONSTANTS
  Gens = {g1, g2}
  Configs = {c1}
  None = None
  AutoRestart = FALSE
  LegacyConfigs = {}
  MaxCrashes = 0
  MaxSaveFails = 0
  MaxClearFails = 0
  MaxProbes = 0
INVARIANT OwnedIsRecorded
