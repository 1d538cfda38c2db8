SPECIFICATION FairSpec
CONSTANTS
    Users = {ua, ub}
    NoUser = NoUser
    ua = ua
    t1 = t1
    Tabs = {t1, t2}
    Reads = {1, 2}
    MaxReads = 2
    MaxClock = 4
    MaxSignIns = 2
    MaxFaults = 1
ACTION_CONSTRAINT Alike
INVARIANTS TypeOK SignOutHolds EpochOwn
PROPERTIES ForeignPageRetires SignedOutPageRetires
CHECK_DEADLOCK FALSE
