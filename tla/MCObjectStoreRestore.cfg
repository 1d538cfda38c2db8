SPECIFICATION Spec
CONSTANTS
    Libs = {L1, L2}
    Rows = {r1, r2}
    Keys = {k1, k2}
    Changes = {t1}
    Runs = {u1, u2}
    NoLib = NoLib
    NoKey = NoKey
    NoRow = NoRow
    NoRun = NoRun
    k1 = k1
    r1 = r1
    CreatesUndone = TRUE
    MaxArchives = 1
    InitialArchives <- MCOneArchive
SYMMETRY SymmetryProcesses
INVARIANTS NamedStored StagedStored OneLibrary
PROPERTIES HoldsKept
CHECK_DEADLOCK FALSE
