SPECIFICATION FairSpec
CONSTANTS
    Jobs = {j1, j2}
    Workers = {w1}
    Leases = {1, 2}
    Keys <- MCEndsKeys
    LibraryKeys <- MCRebuild
    CoalescedKeys <- MCEndsKeys
    SingletonGroups <- MCEndsGroups
    TickedKeys <- MCCleanup
    RebuildKey = "rebuild"
    NoJob = NoJob
    NoLease = NoLease
    MaxAttempts = 2
    MaxChanges <- MCEndsChanges
    MaxRestores = 1
    MaxFaults = 2
PROPERTIES TickedCatchUp EveryJobSettles
CHECK_DEADLOCK FALSE
