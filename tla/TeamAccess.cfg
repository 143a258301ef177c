\* Invitations to two roles, redeemed in two tabs.
CONSTANTS
    None = None
    Grants = {"pricing", "sales"}
    Unscoped = {"sales"}
    Invitations = {i1, i2}
    MaxRows = 1
    MaxLosses = 1
    Sessions = {s1, s2}
SPECIFICATION FairSpec
PROPERTIES
    RevocationsStand
    InvitationsResolve
CHECK_DEADLOCK FALSE
