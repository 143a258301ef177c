\* Blocks, credentials and exceptions around two short trips.
CONSTANTS
    None = None
    o1 = o1
    pA = pA
    pB = pB
    v1 = v1
    r1 = r1
    d1 = d1
    d2 = d2
    Orders <- MCOrders
    Plans = {pA}
    Trips = {t1, t2}
    Visits = {1, 2}
    Vehicles = {v1}
    Trailers = {}
    Drivers = {d1}
    Rating <- MCRating
    OrderOf <- MCOrderOf
    Itinerary <- ShortItinerary
    Equipment <- NoEquipment
    Loads = {}
    MaxWeight = 0
    Contactless = {}
    Outcomes = {"completed"}
    Managed = {d1}
    Signable <- FleetSignature
SYMMETRY TripSymmetry
SPECIFICATION Spec
INVARIANTS
    DriverExclusive
    BlockedIsKnown
CHECK_DEADLOCK FALSE
