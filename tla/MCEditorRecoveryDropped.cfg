SPECIFICATION Spec
CONSTANTS
    Pages = {p1, p2}
    NoPage = NoPage
    NoLineage = NoLineage
    MaxTexts = 2
    MaxAdoptions = 0
    MaxFaults = 0
    MaxServed = 1
SYMMETRY Symmetry
INVARIANT TextKept
CHECK_DEADLOCK FALSE
