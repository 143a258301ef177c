\* A trip with a pickup and a delivery, and two requirements of evidence.
CONSTANTS
    None = None
    Stops = {"pickup", "delivery"}
    KindOf <- TwoStops
    LastDelivery = "delivery"
    Declarations <- SomeLines
    Requirements = {"POD", "photo"}
    AttemptsOf <- Attempt
    Actors = {alice, bob}
    Sessions = {s1, s2}
SYMMETRY SessionSymmetry
SPECIFICATION Spec
INVARIANTS
    OutcomesTellTheQuantities
    SatisfiedIsProven
    OneLiveSubmission
    ClosingHidesNothing
PROPERTIES
    DecisionsStand
CHECK_DEADLOCK FALSE
