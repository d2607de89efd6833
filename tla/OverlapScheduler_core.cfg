CONSTANTS
  Uids = {1, 2, 3}
  Abortable = {1, 2}
  Pages = {p1, p2, p3, p4, p5, p6}
  PageSize = 1
  MaxRunning = 2
  PrefillBudget = 2
  Prompts <- SharedPrompts
  MaxTokens = {2}
  Sampled = {0, 1}
  Eos = 0
  Latency = FALSE
SPECIFICATION Spec
INVARIANTS ResourcesAccounted RowsHoldOwnTokens NeverExhausted
PROPERTY TerminalReply
CHECK_DEADLOCK FALSE
