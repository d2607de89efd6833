SPECIFICATION FairSpec
CONSTANTS
    Procs = {"a", "b"}
    Namespaces = {"n", "m"}
    Keys = {1, 2}
    Size <- MCSize
    Limits <- MCLimits
    NoLimits = NoLimits
    Foreign <- MCForeign
    MaxOpens = 3
    MaxWrites = 2
    MaxFaults = 1
    MaxPins = 1
INVARIANTS RootSound NeverTorn
PROPERTIES ImplementsMap CallsEnd
CHECK_DEADLOCK FALSE
