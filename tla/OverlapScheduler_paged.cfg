CONSTANTS
  Uids = {1, 2}
  Abortable = {1, 2}
  Pages = {p1, p2}
  PageSize = 4
  MaxRunning = 2
  PrefillBudget = 4
  Prompts <- PagedPrompts
  MaxTokens = {1, 3}
  Sampled = {0, 1}
  Eos = 0
  Latency = TRUE
SPECIFICATION FairSpec
INVARIANTS ResourcesAccounted LocksMatchHandles
PROPERTIES EveryRequestEnds EveryAbortAcked
CHECK_DEADLOCK FALSE
