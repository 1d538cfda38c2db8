SPECIFICATION Spec
CONSTANTS
    Procs = {p1, p2}
    Databases = {d1, d2}
    Roots = {r1}
    Tokens = {t1, t2, t3}
    Nothing = Nothing
    Faults = {"power", "session"}
SYMMETRY Symmetry
INVARIANTS TypeOK OneInstance OneLineage StartableUnlessLost
PROPERTIES MarkerForward
CHECK_DEADLOCK FALSE
