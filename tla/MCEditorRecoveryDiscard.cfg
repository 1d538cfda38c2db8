SPECIFICATION Spec
CONSTANTS
    Pages = {p1, p2, p3}
    NoPage = NoPage
    NoLineage = NoLineage
    MaxTexts = 1
    MaxAdoptions = 0
    MaxFaults = 0
    MaxServed = 0
SYMMETRY Symmetry
INVARIANT DiscardStays
CHECK_DEADLOCK FALSE
