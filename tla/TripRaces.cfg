\* Two sessions assign, block, release and carry out two trips of one order.
CONSTANTS
    None = None
    t1 = t1
    t2 = t2
    d1 = d1
    Trips = {t1, t2}
    Drivers = {d1, d2}
    Sessions = {s1, s2}
    Start <- OneAhead
    MaxEvents = 11
    Blockable = {d1}
SYMMETRY SessionSymmetry
CONSTRAINT OneAfterTheOther
SPECIFICATION Spec
INVARIANTS
    EveryCommitPublishes
    FulfilledIsDelivered
PROPERTIES
    CrewStandsAfterRelease
CHECK_DEADLOCK FALSE
