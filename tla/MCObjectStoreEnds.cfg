SPECIFICATION FairSpec
CONSTANTS
    Libs = {L1}
    Rows = {r1, r2}
    Keys = {k1}
    Changes = {t1, t2}
    Runs = {u1}
    NoLib = NoLib
    NoKey = NoKey
    NoRow = NoRow
    NoRun = NoRun
    k1 = k1
    r1 = r1
    CreatesUndone = FALSE
    MaxArchives = 2
    InitialArchives <- MCEmptyArchive
INVARIANTS TypeOK NamedStored BackupWhole
PROPERTIES LastNameClaimed GarbageGoes MaintenanceEnds
CHECK_DEADLOCK FALSE
