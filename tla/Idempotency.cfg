\* A command sent twice, its key reused for another, and failures anywhere.
CONSTANTS
    r1 = r1
    r2 = r2
    r3 = r3
    r4 = r4
    k1 = k1
    k2 = k2
    order = order
    quote = quote
    None = None
    Requests = {r1, r2, r3, r4}
    Keys = {k1, k2}
    KeyOf <- KeysOfRequests
    Body <- Bodies
SPECIFICATION FairSpec
INVARIANTS
    OneEffectPerKey
    DeniedHadNoEffect
PROPERTIES
    ExactlyOnceEffect
    NobodyWaitsForEver
CHECK_DEADLOCK FALSE
