\* Two workers, deaths and failed calls.
CONSTANTS
    None = None
    Events = {e1, e2, e3}
    Workers = {w1, w2}
    NumHandlers = 2
    BatchSize = 2
    MaxAttempts = 2
    MaxFaults = 1
SPECIFICATION FairSpec
INVARIANTS
    EventsHaveOneWorker
PROPERTIES
    PublishedStands
    AtLeastOnceDelivery
    EventsResolveWithoutFaults
CHECK_DEADLOCK FALSE
