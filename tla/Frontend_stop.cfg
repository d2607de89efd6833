SPECIFICATION FairSpec
CONSTANTS
    Uids = {0, 1}
    Rebuilds = {1}
    LocalBs = 2
    Budgets <- MCBudgets
INVARIANTS Consistent SealedIsFinal
PROPERTIES BooksClose AllAnswered StopEnds
CHECK_DEADLOCK FALSE
