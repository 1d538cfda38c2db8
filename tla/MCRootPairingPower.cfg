SPECIFICATION Spec
CONSTANTS
    Procs = {p1, p2}
    Databases = {d1}
    Roots = {r1}
    Tokens = {t1, t2, t3}
    Nothing = Nothing
    Faults = {"power"}
SYMMETRY Symmetry
INVARIANTS Startable

CHECK_DEADLOCK FALSE
