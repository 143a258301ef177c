\* One request quoted twice while the policy changes, and two quoted once.
CONSTANTS
    None = None
    q1 = q1
    q2 = q2
    Requests = {q1, q2}
    Actors = {alice, bob}
    Sessions = {s1, s2}
    VersionsOf <- QuotedTwiceAndOnce
    Prices <- TwoPrices
    MarginPolicies <- ThreePolicies
    Limits = {20}
    CreditPolicy <- OneOrder
    Waivable = {q2}
SYMMETRY PeopleSymmetry
CONSTRAINT AlikeTogether
SPECIFICATION Spec
INVARIANTS
    OneOrderPerRequest
    OrdersKeepTheirVersion
    ExposureIsTheOrders
PROPERTIES
    LowMarginIsSigned
    CommitsOnce
CHECK_DEADLOCK FALSE
