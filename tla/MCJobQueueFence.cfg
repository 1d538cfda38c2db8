SPECIFICATION Spec
CONSTANTS
    Jobs = {j1, j2}
    Workers = {w1, w2}
    Leases = {1, 2, 3}
    Keys <- MCFenceKeys
    LibraryKeys <- MCFenceKeys
    CoalescedKeys <- MCRebuilds
    SingletonGroups <- MCFenceGroup
    TickedKeys <- MCNone
    RebuildKey = "rebuild"
    NoJob = NoJob
    NoLease = NoLease
    MaxAttempts = 2
    MaxChanges <- MCFenceChanges
    MaxRestores = 1
    MaxFaults = 1
SYMMETRY Symmetry
INVARIANTS TypeOK QueuedRunnable DerivedFromCurrent ExclusiveTx FencedTx SucceededServed NoLostChange
PROPERTIES DerivedNeverBack
CHECK_DEADLOCK FALSE
