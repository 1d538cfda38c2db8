SPECIFICATION Spec
CONSTANTS
    Libs = {L1}
    Rows = {r1, r2}
    Keys = {k1}
    Changes = {t1, t2}
    Runs = {}
    NoLib = NoLib
    NoKey = NoKey
    NoRow = NoRow
    NoRun = NoRun
    k1 = k1
    r1 = r1
    CreatesUndone = TRUE
    MaxArchives = 1
    InitialArchives <- MCNoArchives
INVARIANTS BackupWhole
CHECK_DEADLOCK FALSE
