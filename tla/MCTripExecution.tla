--------------------------- MODULE MCTripExecution ---------------------------
(***************************************************************************)
(* Small instances of TripExecution: one order, two versions of its route  *)
(* plan, two trips.                                                        *)
(***************************************************************************)
EXTENDS TripPromises, TLC

CONSTANTS o1, pA, pB, v1, r1, d1, d2

MCOrders == {o1}

MCOrderOf == [p \in Plans |-> o1]

MCRating ==
    [r \in Resources |->
        IF r = v1 THEN [capacity |-> 20, equipment |-> None]
        ELSE IF r = r1 THEN [capacity |-> 20, equipment |-> "dry"]
        ELSE [capacity |-> None, equipment |-> None]]

(* Two deliveries, visited second and third. *)
LongItinerary == [p \in Plans |-> <<"pickup", "delivery", "delivery">>]

ShortItinerary == [p \in Plans |-> <<"pickup", "delivery">>]

NoEquipment == [o \in Orders |-> None]

FleetSignature ==
    {{"driver_double_booked", "order_not_committed"}, {"driver_not_eligible"}}

TripSymmetry == Permutations(Trips)
==============================================================================
