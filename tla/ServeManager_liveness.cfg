SPECIFICATION FairSpec
CONSTANTS
  Gens = {g1}
  Configs = {c1, c2}
  None = None
  AutoRestart = TRUE
  LegacyConfigs = {c2}
  MaxCrashes = 1
  MaxSaveFails = 0
  MaxClearFails = 1
  MaxProbes = 1
PROPERTIES
  TransactionEnds
  DeadChildForgotten
