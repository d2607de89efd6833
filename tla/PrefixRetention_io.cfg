SPECIFICATION FairSpec
CONSTANTS
    Keys = {1, 2}
    Uids = {1, 2}
    InputLen <- MCInputLen
    Slots = {1, 2}
    SlotReserve = 1
    MaxRecords = 2
    MaxDisk = 1
    MaxTickets = 2
    MaxWaiters = 2
    Faults = {"open", "benign", "odd", "die", "orphan"}
    MaxFaults = 1
    MaxIssued = 2
INVARIANTS Consistent BuffersOwned ImagesConserved
PROPERTIES WaitersReleased CloseEnds
CHECK_DEADLOCK FALSE
