CONSTANTS
  NumReqs = 3
  Arrivals <- CloseArrivals
  Sampled = {0}
  MaxAborts = 1
  Window = 2
  Gap = 1
  MaxRunning = 2
  TokenBudget = 13
  NumPages = 24
  NumSwa = 16
SPECIFICATION Spec
INVARIANT WindowLive
CHECK_DEADLOCK FALSE
