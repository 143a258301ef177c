\* Two trips of one order, their stops recorded in any order.
CONSTANTS
    None = None
    o1 = o1
    pA = pA
    pB = pB
    v1 = v1
    r1 = r1
    d1 = d1
    d2 = d2
    Orders <- MCOrders
    Plans = {pA}
    Trips = {t1, t2}
    Visits = {1, 2, 3}
    Vehicles = {v1}
    Trailers = {}
    Drivers = {d1, d2}
    Rating <- MCRating
    OrderOf <- MCOrderOf
    Itinerary <- LongItinerary
    Equipment <- NoEquipment
    Loads = {}
    MaxWeight = 0
    Contactless = {}
    Outcomes = {"completed", "rejected"}
    Managed = {}
    Signable = {}
SYMMETRY TripSymmetry
SPECIFICATION Spec
INVARIANTS
    TripFollowsStops
    OrderFollowsTrips
PROPERTIES
    OrderSettlesTruthfully
    ClosedIsFrozen
CHECK_DEADLOCK FALSE
