---------------------------- MODULE TripPromises -----------------------------
(***************************************************************************)
(* What the documents and comments of the repository say of trips, orders  *)
(* and resources, beyond what the commands of TripExecution keep true.     *)
(* Module OrderlyExecution shows which of these hold once drivers visit    *)
(* the stops in order; the others are found violated by what the commands  *)
(* accept.                                                                 *)
(***************************************************************************)
EXTENDS TripExecution

(***************************************************************************)
(* An order all of whose trips are closed is settled: settleOrder          *)
(* "resuelve la orden cuando todas sus entregas terminaron", and a closed  *)
(* trip has no delivery left to record.                                    *)
(***************************************************************************)
OrdersSettle ==
    \A o \in Orders :
        /\ TripsOf(o) # {}
        /\ \A t \in TripsOf(o) : trip[t] = "operationally_closed"
        => order[o] \in SettledState

(***************************************************************************)
(* The order of execution respects the sequence of the plan (docs/13       *)
(* section 4, TRN-009): a stop is not reached before an earlier one.       *)
(***************************************************************************)
StopsInSequence ==
    \A t \in Trips : \A i, j \in StopsOf(t) :
        i < j /\ stop[t][i] = "pending" => stop[t][j] = "pending"

(***************************************************************************)
(* A started trip whose first pickup was reached has arrived at its origin *)
(* (docs/13 section 5, EnRouteToOrigin -> AtOrigin).                       *)
(***************************************************************************)
ArrivalMovesTheTrip ==
    \A t \in Trips : trip[t] = "en_route_to_origin" =>
        \A i \in Visits : FirstPickup(t, i) => stop[t][i] = "pending"

(***************************************************************************)
(* Reassigning is legitimate until the release (tripLifecycle, Assigned    *)
(* and Confirmed -> Assigned).                                             *)
(***************************************************************************)
ReassignUntilRelease ==
    \A t \in Trips : trip[t] \in {"assigned", "confirmed"} =>
        ENABLED (\E v \in Vehicles, d \in Drivers : AssignResources(t, v, None, d))

(***************************************************************************)
(* A trip released without causes has a crew whose mandatory credentials   *)
(* neither lapsed nor are missing (docs/13 section 6, credential_expired). *)
(***************************************************************************)
ReleasedWithCredentials ==
    [][ \A t \in Trips :
          trip[t] = "confirmed" /\ trip'[t] = "released" /\ causes'[t] = {} =>
              \A r \in ConfirmedCrew(t) : credential[r] = "valid" ]_vars

(***************************************************************************)
(* The total weight does not exceed the capacity of the assigned vehicle   *)
(* (docs/13 section 4, TRN-003) of a trip on the road, unless it was       *)
(* released knowing so.                                                    *)
(***************************************************************************)
NeverOverloaded ==
    \A t \in Trips :
        /\ Active(t)
        /\ "capacity_exceeded" \notin causes[t]
        /\ weight[OrderOfTrip(t)] # None
        /\ Rating[crew[t].vehicle].capacity # None
        => weight[OrderOfTrip(t)] <= Rating[crew[t].vehicle].capacity

(***************************************************************************)
(* A resource in circulation can be withdrawn from it (docs/13, section 3  *)
(* and 12.9: the fleet manager blocks and releases an asset).              *)
(***************************************************************************)
ActiveCanBeBlocked ==
    \A r \in Managed : standing[r] = "active" => ENABLED BlockResource(r)
==============================================================================
