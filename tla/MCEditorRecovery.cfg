SPECIFICATION Spec
CONSTANTS
    Pages = {p1, p2}
    NoPage = NoPage
    NoLineage = NoLineage
    MaxTexts = 2
    MaxAdoptions = 1
    MaxFaults = 1
    MaxServed = 1
SYMMETRY Symmetry
INVARIANTS TypeOK LostOnlyDropped AdoptsDecided
PROPERTIES LineageForward
CHECK_DEADLOCK FALSE
