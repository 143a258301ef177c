\* A worker dies with a claimed event.
CONSTANTS
    None = None
    Events = {e1}
    Workers = {w1}
    NumHandlers = 1
    BatchSize = 1
    MaxAttempts = 2
    MaxFaults = 1
SPECIFICATION FairSpec
PROPERTIES
    EventsResolve
CHECK_DEADLOCK FALSE
