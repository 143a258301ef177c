\* Two versions of one contract, drafted, signed, replaced and terminated.
CONSTANTS
    None = None
    Versions = {v1, v2}
    Contracts = {c1}
    ContractOf <- OneContract
    Actors = {alice, bob}
    Signatures = {g1, g2}
    Sessions = {s1, s2}
SYMMETRY SessionSymmetry
SPECIFICATION Spec
INVARIANTS
    OneInForce
    InForceWasAgreed
PROPERTIES
    SignedTermsStand
    EndedStaysEnded
CHECK_DEADLOCK FALSE
