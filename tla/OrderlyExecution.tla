-------------------------- MODULE OrderlyExecution ---------------------------
(***************************************************************************)
(* TripExecution under drivers that behave as docs/13 describes: they      *)
(* start the trip before they record a stop, visit the stops in the        *)
(* sequence of the plan, and go on until the trip is closed.  The code     *)
(* enforces none of this.                                                  *)
(***************************************************************************)
EXTENDS TripPromises

(***************************************************************************)
(* Each itinerary picks up before its last delivery, as docs/13 12.1       *)
(* describes a trip.                                                       *)
(***************************************************************************)
ASSUME PickupPrecedesDelivery ==
    \A p \in Plans : \E i, j \in Visits :
        i < j /\ Itinerary[p][i] = "pickup" /\ Itinerary[p][j] = "delivery"

NextVisit(t, i) ==
    /\ trip[t] \in OnTheRoad
    /\ \A j \in StopsOf(t) : j < i => stop[t][j] \in Resolved

OrderlyDriving(t) ==
    \/ StartTrip(t)
    \/ \E i \in Visits :
          /\ NextVisit(t, i)
          /\ \/ RecordStopArrival(t, i)
             \/ \E outcome \in Outcomes : RecordStopOutcome(t, i, outcome)

OrderlyNext ==
    \/ PlanningStep
    \/ \E t \in Trips : DispatchStep(t) \/ ExceptionStep(t) \/ OrderlyDriving(t)
    \/ \E r \in Managed : FleetStep(r)

(***************************************************************************)
(* The driver of a trip on the road goes on while there is a stop to       *)
(* record, and operations close a trip that can be closed.  Planning,      *)
(* releasing and the fleet have no such duty.                              *)
(***************************************************************************)
Fairness ==
    \A t \in Trips : /\ WF_vars(OrderlyDriving(t))
                     /\ WF_vars(CloseTripOperationally(t))

OrderlySpec == Init /\ [][OrderlyNext]_vars /\ Fairness

(***************************************************************************)
(* A released trip is eventually closed: no status of the chain is a dead  *)
(* end, whatever the other trips, the route plans and the fleet do.        *)
(***************************************************************************)
ReleasedTripsClose ==
    \A t \in Trips : trip[t] = "released" ~> trip[t] = "operationally_closed"
==============================================================================
