\* Two trips of one order; the stops are visited in the sequence of the plan.
CONSTANTS
    None = None
    o1 = o1
    pA = pA
    pB = pB
    v1 = v1
    r1 = r1
    d1 = d1
    d2 = d2
    Orders <- MCOrders
    Plans = {pA, pB}
    Trips = {t1, t2}
    Visits = {1, 2, 3, 4}
    Vehicles = {v1}
    Trailers = {}
    Drivers = {d1, d2}
    Rating <- MCRating
    OrderOf <- MCOrderOf
    Itinerary <- BusyItinerary
    Equipment <- NoEquipment
    Loads = {15}
    MaxWeight = 30
    Contactless = {}
    Outcomes = {"completed", "rejected"}
    Managed = {}
    Signable = {}
SPECIFICATION OrderlySpec
INVARIANTS
    OrdersSettle
    ArrivalMovesTheTrip
    StopsAreThePlans
PROPERTIES
    ReleasedTripsClose
CHECK_DEADLOCK FALSE
