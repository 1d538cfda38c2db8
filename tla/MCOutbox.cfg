SPECIFICATION FairSpec
CONSTANTS
    t1 = t1
    t2 = t2
    Tabs = {t1, t2}
    MaxOps = 2
    Locks = TRUE
    MaxEpoch = 2
    MaxFaults = 1
INVARIANTS TypeOK SentInOrder DependencyStored
PROPERTIES KeepsPromise Drains
CHECK_DEADLOCK FALSE
