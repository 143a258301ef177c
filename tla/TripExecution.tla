---------------------------- MODULE TripExecution ----------------------------
(***************************************************************************)
(* From a committed transport order to a closed trip: route plans, trips,  *)
(* assignments, the release gate, stops and their outcomes, and the        *)
(* settlement of the order (packages/core/src/transport/{planning, trips,  *)
(* stops}.ts, migration 0016).                                             *)
(*                                                                         *)
(* One command is one database transaction and, here, one atomic action:   *)
(* what interleaved transactions do to each other is the subject of module *)
(* TripRaces.  An action's guard is the conjunction of the command's       *)
(* rejections and of the database constraints that would abort it.         *)
(* Permissions, revisions sent by the client, audit and the trip's events  *)
(* do not change which statuses are reachable here and are left out.       *)
(***************************************************************************)
EXTENDS CapacityResources, FiniteSets

CONSTANTS
    Orders, Plans, Trips,
    Visits,     \* sequence numbers of the stops of a plan
    OrderOf,    \* OrderOf[p]: the order that plan p is about
    Itinerary,  \* Itinerary[p][i]: "pickup", "delivery", or "absent"
    Equipment,  \* Equipment[o]: the equipment the order asks for, or None
    Loads,      \* weights of the shipments that are created
    MaxWeight,  \* bound: no shipment takes the cargo of an order past it
    Contactless,\* the plans with a stop that has no contact
    Outcomes,   \* the outcomes that the quantities of a stop may yield
    Managed,    \* resources the fleet manager and the calendar touch
    Signable    \* sets of causes an exception may name; see GrantException

ASSUME VisitsAreNumbers == Visits \subseteq Nat

ASSUME PlansAreAboutOrders == OrderOf \in [Plans -> Orders]

ASSUME ItineraryAssumption ==
    Itinerary \in [Plans -> [Visits -> {"pickup", "delivery", "absent"}]]

ASSUME OutcomesAssumption ==
    Outcomes \subseteq {"completed", "partially_completed", "rejected", "failed"}

ASSUME LoadsAreWeights == Loads \subseteq Nat /\ MaxWeight \in Nat

ASSUME NoneIsNoPlan == None \notin Plans

ASSUME SignableAssumption == Signable \subseteq SUBSET CauseCode

ASSUME ManagedAssumption == Managed \subseteq Resources

VARIABLES
    order,      \* order[o]: status of the transport order
    weight,     \* weight[o]: total weight of the shipments, None without any
    plan,       \* plan[p]: status of the route plan, "none" before it exists
    trip,       \* trip[t]: status of the trip, "none" before it exists
    tripPlan,   \* tripPlan[t]: the plan the trip executes
    crew,       \* crew[t]: the current assignment, with its status
    stop,       \* stop[t][i]: status of the execution of visit i
    causes,     \* causes[t]: release_causes, stored by the release
    exception,  \* exception[t]: causes named by the exception in force
    alerted     \* alerted[t]: resources with a trip_exception on the trip

execVars == <<order, weight, plan, trip, tripPlan, crew, stop, causes, exception, alerted>>

vars == <<execVars, capacityVars>>

------------------------------------------------------------------------------
(* The states.  No command reaches "cancelled", "aborted" or "skipped".     *)

SettledState == {"fulfilled", "partially_fulfilled"}

OrderState == {"committed", "planned", "in_execution"} \cup SettledState

PlanState == {"none", "draft", "active", "superseded"}

PreRelease == {"planned", "assigned", "confirmed"}

OnTheRoad ==
    { "en_route_to_origin", "at_origin", "in_transit", "at_destination", "delivered" }

(* TRIP_ACTIVE_STATES, less those a single transaction passes through. *)
ActiveState == {"released"} \cup OnTheRoad

Started == OnTheRoad \cup {"operationally_closed"}

TripState == {"none"} \cup PreRelease \cup {"released"} \cup Started

Resolved == {"completed", "partially_completed", "rejected", "failed"}

StopState == {"absent", "pending", "arrived"} \cup Resolved

Crew ==
    [ status  : {"none", "proposed", "confirmed"},
      vehicle : Vehicles \cup {None},
      trailer : Trailers \cup {None},
      driver  : Drivers \cup {None} ]

NoCrew == [status |-> "none", vehicle |-> None, trailer |-> None, driver |-> None]

TripTypeOK ==
    /\ order \in [Orders -> OrderState]
    /\ weight \in [Orders -> {None} \cup Nat]
    /\ plan \in [Plans -> PlanState]
    /\ trip \in [Trips -> TripState]
    /\ tripPlan \in [Trips -> Plans \cup {None}]
    /\ crew \in [Trips -> Crew]
    /\ stop \in [Trips -> [Visits -> StopState]]
    /\ causes \in [Trips -> SUBSET CauseCode]
    /\ exception \in [Trips -> {None} \cup SUBSET CauseCode]
    /\ alerted \in [Trips -> SUBSET Resources]

(***************************************************************************)
(* Every variable has its type.  Among others, no sequence of commands     *)
(* leaves a resource "inactive" or a stop "skipped": the code has no       *)
(* operation for either.                                                   *)
(***************************************************************************)
TypeOK == CapacityTypeOK /\ TripTypeOK

------------------------------------------------------------------------------
Active(t) == trip[t] \in ActiveState

OrderOfTrip(t) == OrderOf[tripPlan[t]]

TripsOf(o) == {t \in Trips : trip[t] # "none" /\ OrderOfTrip(t) = o}

Kind(t, i) == Itinerary[tripPlan[t]][i]

StopsOf(t) == {i \in Visits : stop[t][i] # "absent"}

(* The resources of the confirmed assignment. *)
ConfirmedCrew(t) ==
    IF crew[t].status = "confirmed"
    THEN {crew[t].vehicle, crew[t].trailer, crew[t].driver} \ {None}
    ELSE {}

(* A mistake in the next definition: the last pickup is taken for the first. *)
LastPickup(t, i) ==
    /\ Kind(t, i) = "pickup"
    /\ \A j \in Visits : Kind(t, j) = "pickup" => j <= i

(* stopBoundary: the earliest pickup and the latest delivery of the trip. *)
FirstPickup(t, i) ==
    /\ Kind(t, i) = "pickup"
    /\ \A j \in Visits : Kind(t, j) = "pickup" => i <= j

LastDelivery(t, i) ==
    /\ Kind(t, i) = "delivery"
    /\ \A j \in Visits : Kind(t, j) = "delivery" => j <= i

(***************************************************************************)
(* settleOrder: reads every delivery stop of every trip of the order, with *)
(* the outcome that this very command has written.                         *)
(***************************************************************************)
DeliveryOutcomesOf(o) ==
    UNION { {stop'[t][i] : i \in {j \in Visits : Kind(t, j) = "delivery"}} : t \in TripsOf(o) }

------------------------------------------------------------------------------
(* Mistakes: variants of definitions below, each wrong in one way.  Nothing *)
(* uses them; put in the place of the definition they vary, each makes a    *)
(* property of this module fail.                                            *)

(* Replanning moves the trips already planned to the new plan. *)
ActivateRoutePlanMovingTrips(p) ==
    /\ plan[p] = "draft"
    /\ plan' = [plan EXCEPT ![p] = "active"]
    /\ tripPlan' = [t \in Trips |-> IF trip[t] = "planned" THEN p ELSE tripPlan[t]]
    /\ UNCHANGED <<order, weight, trip, crew, stop, causes, exception, alerted, capacityVars>>

(* The list of overlapping statuses forgets the trips that have not left. *)
OverlappingOnTheRoad(t) ==
    /\ crew[t].driver # None
    /\ \E u \in Trips \ {t} : trip[u] \in OnTheRoad /\ crew[u].driver = crew[t].driver

(* The order is not told that its trip has left. *)
StartTripOnly(t) ==
    /\ trip[t] = "released"
    /\ trip' = [trip EXCEPT ![t] = "en_route_to_origin"]
    /\ UNCHANGED <<order, weight, plan, tripPlan, crew, stop, causes, exception, alerted, capacityVars>>

(* Any delivery is taken for the destination. *)
ArrivalAtAnyDelivery(t, i) ==
    /\ stop[t][i] = "pending"
    /\ stop' = [stop EXCEPT ![t][i] = "arrived"]
    /\ trip' = [trip EXCEPT ![t] =
                   CASE @ = "en_route_to_origin" /\ FirstPickup(t, i) -> "at_origin"
                     [] @ = "in_transit" /\ Kind(t, i) = "delivery" -> "at_destination"
                     [] OTHER -> @]
    /\ UNCHANGED <<order, weight, plan, tripPlan, crew, causes, exception, alerted, capacityVars>>

(* Only the destination advances the trip. *)
ArrivalAtDestinationOnly(t, i) ==
    /\ stop[t][i] = "pending"
    /\ stop' = [stop EXCEPT ![t][i] = "arrived"]
    /\ trip' = [trip EXCEPT ![t] =
                   IF @ = "in_transit" /\ LastDelivery(t, i) THEN "at_destination" ELSE @]
    /\ UNCHANGED <<order, weight, plan, tripPlan, crew, causes, exception, alerted, capacityVars>>

(* Pending deliveries are skipped instead of waited for. *)
SettlementOfResolved(o) ==
    IF order[o] # "in_execution" THEN order[o]
    ELSE IF DeliveryOutcomesOf(o) \cap Resolved \subseteq {"completed"} THEN "fulfilled"
    ELSE "partially_fulfilled"

(* A delivered trip is closed with stops still open. *)
CloseTripWithOpenStops(t) ==
    /\ trip[t] = "delivered"
    /\ trip' = [trip EXCEPT ![t] = "operationally_closed"]
    /\ UNCHANGED <<order, weight, plan, tripPlan, crew, stop, causes, exception, alerted, capacityVars>>

(* Only the trips that have left are alerted. *)
BlockResourceAlertingStarted(r) ==
    /\ Block(r)
    /\ alerted' = [t \in Trips |-> IF trip[t] \in OnTheRoad /\ r \in ConfirmedCrew(t)
                                   THEN alerted[t] \cup {r}
                                   ELSE alerted[t]]
    /\ UNCHANGED <<order, weight, plan, trip, tripPlan, crew, stop, causes, exception>>

------------------------------------------------------------------------------
Init ==
    /\ CapacityInit
    /\ order = [o \in Orders |-> "committed"]
    /\ weight = [o \in Orders |-> None]
    /\ plan = [p \in Plans |-> "none"]
    /\ trip = [t \in Trips |-> "none"]
    /\ tripPlan = [t \in Trips |-> None]
    /\ crew = [t \in Trips |-> NoCrew]
    /\ stop = [t \in Trips |-> [i \in Visits |-> "absent"]]
    /\ causes = [t \in Trips |-> {}]
    /\ exception = [t \in Trips |-> None]
    /\ alerted = [t \in Trips |-> {}]

(* Planning. *)

(* createShipment: no condition on the order nor on its trips. *)
CreateShipment(o, w) ==
    LET total == IF weight[o] = None THEN w ELSE weight[o] + w
    IN  /\ total <= MaxWeight
        /\ weight' = [weight EXCEPT ![o] = total]
        /\ UNCHANGED <<order, plan, trip, tripPlan, crew, stop, causes, exception, alerted,
                       capacityVars>>

CreateRoutePlan(p) ==
    /\ plan[p] = "none"
    /\ plan' = [plan EXCEPT ![p] = "draft"]
    /\ UNCHANGED <<order, weight, trip, tripPlan, crew, stop, causes, exception, alerted, capacityVars>>

(***************************************************************************)
(* The code has no condition on the status of the plan, but a plan that    *)
(* was superseded keeps its superseded_at and                              *)
(* route_plan_active_consistency aborts its activation.  The active plan   *)
(* supersedes itself first and aborts in the same way.                     *)
(***************************************************************************)
ActivateRoutePlan(p) ==
    /\ plan[p] = "draft"
    /\ plan' = [q \in Plans |->
                   CASE q = p -> "active"
                     [] q # p /\ OrderOf[q] = OrderOf[p] /\ plan[q] = "active" -> "superseded"
                     [] OTHER -> plan[q]]
    /\ UNCHANGED <<order, weight, trip, tripPlan, crew, stop, causes, exception, alerted, capacityVars>>

(* planTrip: no condition on the order; the stops of the active plan are copied. *)
PlanTrip(t, p) ==
    /\ trip[t] = "none"
    /\ plan[p] = "active"
    /\ \E i \in Visits : Itinerary[p][i] # "absent"
    /\ trip' = [trip EXCEPT ![t] = "planned"]
    /\ tripPlan' = [tripPlan EXCEPT ![t] = p]
    /\ stop' = [stop EXCEPT ![t] =
                   [i \in Visits |-> IF Itinerary[p][i] = "absent" THEN "absent" ELSE "pending"]]
    /\ order' = [order EXCEPT ![OrderOf[p]] = IF @ = "committed" THEN "planned" ELSE @]
    /\ UNCHANGED <<weight, plan, crew, causes, exception, alerted, capacityVars>>

(* Assignment. *)

(***************************************************************************)
(* The lifecycle also admits "confirmed" -> "assigned", but superseding a  *)
(* confirmed assignment leaves its confirmed_at and                        *)
(* assignment_confirmed_consistency aborts the command.                    *)
(***************************************************************************)
AssignResources(t, v, tr, d) ==
    /\ trip[t] \in PreRelease
    /\ crew[t].status # "confirmed"
    /\ crew' = [crew EXCEPT ![t] =
                   [status |-> "proposed", vehicle |-> v, trailer |-> tr, driver |-> d]]
    /\ trip' = [trip EXCEPT ![t] = "assigned"]
    /\ UNCHANGED <<order, weight, plan, tripPlan, stop, causes, exception, alerted, capacityVars>>

ConfirmAssignment(t) ==
    /\ trip[t] = "assigned"
    /\ crew[t].status = "proposed"
    /\ crew' = [crew EXCEPT ![t].status = "confirmed"]
    /\ trip' = [trip EXCEPT ![t] = "confirmed"]
    /\ UNCHANGED <<order, weight, plan, tripPlan, stop, causes, exception, alerted, capacityVars>>

(* The release. *)

Overlapping(t) ==
    /\ crew[t].driver # None
    /\ \E u \in Trips \ {t} : /\ Active(u)
                              /\ crew[u].status = "confirmed"
                              /\ crew[u].driver = crew[t].driver

(* checkReleaseGate: the facts as the database has them now. *)
GateFacts(t) ==
    [ order       |-> order[OrderOfTrip(t)],
      plan        |-> plan[tripPlan[t]],
      assignment  |-> crew[t].status,
      vehicle     |-> FactsOf(crew[t].vehicle),
      trailer     |-> FactsOf(crew[t].trailer),
      driver      |-> FactsOf(crew[t].driver),
      equipment   |-> Equipment[OrderOfTrip(t)],
      weight      |-> weight[OrderOfTrip(t)],
      overlapping |-> Overlapping(t),
      contactless |-> tripPlan[t] \in Contactless ]

GateCauses(t) == Causes(GateFacts(t))

(***************************************************************************)
(* A release with causes and without an exception answers "not released"   *)
(* and writes nothing but an audit entry; with one that does not name      *)
(* every cause it is rejected.                                             *)
(***************************************************************************)
ReleaseTrip(t) ==
    /\ trip[t] = "confirmed"
    /\ \/ GateCauses(t) = {}
       \/ exception[t] # None /\ CoversAllCauses(GateCauses(t), exception[t])
    /\ trip' = [trip EXCEPT ![t] = "released"]
    /\ causes' = [causes EXCEPT ![t] = GateCauses(t)]
    /\ UNCHANGED <<order, weight, plan, tripPlan, crew, stop, exception, alerted, capacityVars>>

(***************************************************************************)
(* The release reads plt.active_exception(Trip, RELEASE_GATE) and its      *)
(* covered_causes, but no command under src/ requests an exception for a   *)
(* trip and none writes covered_causes, whose default is the empty set.    *)
(* An administrator with access to the tables is modelled: Signable holds  *)
(* the sets of causes he signs for, and is empty for the system as         *)
(* shipped.                                                                *)
(***************************************************************************)
GrantException(t, covered) ==
    /\ trip[t] # "none"
    /\ exception' = [exception EXCEPT ![t] = covered]
    /\ UNCHANGED <<order, weight, plan, trip, tripPlan, crew, stop, causes, alerted, capacityVars>>

(* plt.active_exception stops returning it when it expires. *)
ExceptionLapses(t) ==
    /\ exception[t] # None
    /\ exception' = [exception EXCEPT ![t] = None]
    /\ UNCHANGED <<order, weight, plan, trip, tripPlan, crew, stop, causes, alerted, capacityVars>>

(* Execution. *)

StartTrip(t) ==
    /\ trip[t] = "released"
    /\ trip' = [trip EXCEPT ![t] = "en_route_to_origin"]
    /\ order' = [order EXCEPT ![OrderOfTrip(t)] = IF @ = "planned" THEN "in_execution" ELSE @]
    /\ UNCHANGED <<weight, plan, tripPlan, crew, stop, causes, exception, alerted, capacityVars>>

(* No condition on the status of the trip: only its advance depends on it. *)
RecordStopArrival(t, i) ==
    /\ stop[t][i] = "pending"
    /\ stop' = [stop EXCEPT ![t][i] = "arrived"]
    /\ trip' = [trip EXCEPT ![t] =
                   CASE @ = "en_route_to_origin" /\ FirstPickup(t, i) -> "at_origin"
                     [] @ = "in_transit" /\ LastDelivery(t, i) -> "at_destination"
                     [] OTHER -> @]
    /\ UNCHANGED <<order, weight, plan, tripPlan, crew, causes, exception, alerted, capacityVars>>

Settlement(o) ==
    LET outcomes == DeliveryOutcomesOf(o)
    IN  IF order[o] # "in_execution" \/ ~(outcomes \subseteq Resolved) THEN order[o]
        ELSE IF outcomes \subseteq {"completed"} THEN "fulfilled"
        ELSE "partially_fulfilled"

(* recordStopOutcome: arrived -> servicing -> outcome in one transaction. *)
RecordStopOutcome(t, i, outcome) ==
    /\ stop[t][i] = "arrived"
    /\ stop' = [stop EXCEPT ![t][i] = outcome]
    /\ \/ /\ trip[t] = "at_origin"
          /\ FirstPickup(t, i)
          /\ trip' = [trip EXCEPT ![t] = "in_transit"]
          /\ UNCHANGED order
       \/ /\ trip[t] = "at_destination"
          /\ LastDelivery(t, i)
          /\ trip' = [trip EXCEPT ![t] = "delivered"]
          /\ order' = [order EXCEPT ![OrderOfTrip(t)] = Settlement(OrderOfTrip(t))]
       \/ /\ ~(trip[t] = "at_origin" /\ FirstPickup(t, i))
          /\ ~(trip[t] = "at_destination" /\ LastDelivery(t, i))
          /\ UNCHANGED <<trip, order>>
    /\ UNCHANGED <<weight, plan, tripPlan, crew, causes, exception, alerted, capacityVars>>

CloseTripOperationally(t) ==
    /\ trip[t] = "delivered"
    /\ \A i \in StopsOf(t) : stop[t][i] \in Resolved
    /\ trip' = [trip EXCEPT ![t] = "operationally_closed"]
    /\ UNCHANGED <<order, weight, plan, tripPlan, crew, stop, causes, exception, alerted, capacityVars>>

(* The fleet. *)

(* blockResource: blocking does not stop the trips on the road, it marks them. *)
BlockResource(r) ==
    /\ Block(r)
    /\ alerted' = [t \in Trips |-> IF Active(t) /\ r \in ConfirmedCrew(t)
                                   THEN alerted[t] \cup {r}
                                   ELSE alerted[t]]
    /\ UNCHANGED <<order, weight, plan, trip, tripPlan, crew, stop, causes, exception>>

FleetStep(r) ==
    \/ BlockResource(r)
    \/ /\ \/ ReleaseResource(r)
          \/ RecordCredential(r, "valid")
          \/ RecordCredential(r, "invalid")
          \/ CredentialLapses(r)
       /\ UNCHANGED execVars

PlanningStep ==
    \/ \E o \in Orders, w \in Loads : CreateShipment(o, w)
    \/ \E p \in Plans : CreateRoutePlan(p) \/ ActivateRoutePlan(p)

DispatchStep(t) ==
    \/ \E p \in Plans : PlanTrip(t, p)
    \/ \E v \in Vehicles \cup {None}, tr \in Trailers \cup {None}, d \in Drivers \cup {None} :
          AssignResources(t, v, tr, d)
    \/ ConfirmAssignment(t)
    \/ ReleaseTrip(t)
    \/ CloseTripOperationally(t)

ExceptionStep(t) ==
    \/ \E covered \in Signable : GrantException(t, covered)
    \/ ExceptionLapses(t)

DrivingStep(t) ==
    \/ StartTrip(t)
    \/ \E i \in Visits : \/ RecordStopArrival(t, i)
                         \/ \E outcome \in Outcomes : RecordStopOutcome(t, i, outcome)

Next ==
    \/ PlanningStep
    \/ \E t \in Trips : DispatchStep(t) \/ ExceptionStep(t) \/ DrivingStep(t)
    \/ \E r \in Managed : FleetStep(r)

Spec == Init /\ [][Next]_vars

------------------------------------------------------------------------------
(* What the commands, one at a time, keep true.                             *)

(***************************************************************************)
(* The status of the trip and of its assignment agree: a trip past         *)
(* confirmation has a confirmed assignment, an assigned one a proposal.    *)
(* The overlap query of the gate relies on it: it joins confirmed          *)
(* assignments only.                                                       *)
(***************************************************************************)
CrewFollowsStatus ==
    \A t \in Trips :
        crew[t].status = CASE trip[t] \in {"none", "planned"} -> "none"
                           [] trip[t] = "assigned" -> "proposed"
                           [] OTHER -> "confirmed"

(***************************************************************************)
(* A trip executes a plan, and the stops copied when it was planned are    *)
(* still those of that plan, whatever was replanned since (docs/13, 12.7). *)
(***************************************************************************)
StopsAreThePlans ==
    \A t \in Trips : trip[t] # "none" =>
        /\ tripPlan[t] \in Plans
        /\ \A i \in Visits : stop[t][i] = "absent" <=> Kind(t, i) = "absent"

(***************************************************************************)
(* No driver is on two trips at once, unless the exception under which one *)
(* of them was released named the double booking (docs/13 section 6).      *)
(***************************************************************************)
DriverExclusive ==
    \A t, u \in Trips :
        /\ t # u
        /\ Active(t) /\ Active(u)
        /\ crew[t].driver = crew[u].driver
        /\ crew[t].driver # None
        => "driver_double_booked" \in causes[t] \cup causes[u]

(***************************************************************************)
(* The status of a trip is explained by its stops: at its origin the first *)
(* pickup is being serviced; past it, the first pickup is resolved; at the *)
(* destination the last delivery is being serviced; past it, resolved; and *)
(* a closed trip leaves no stop open.                                      *)
(***************************************************************************)
PickupDone(t) == \E i \in Visits : FirstPickup(t, i) /\ stop[t][i] \in Resolved

DropDone(t) == \E i \in Visits : LastDelivery(t, i) /\ stop[t][i] \in Resolved

TripFollowsStops ==
    \A t \in Trips :
        /\ trip[t] = "at_origin" => \E i \in Visits : FirstPickup(t, i) /\ stop[t][i] = "arrived"
        /\ trip[t] \in {"in_transit", "at_destination", "delivered", "operationally_closed"}
              => PickupDone(t)
        /\ trip[t] = "at_destination"
              => \E i \in Visits : LastDelivery(t, i) /\ stop[t][i] = "arrived"
        /\ trip[t] \in {"delivered", "operationally_closed"} => DropDone(t)
        /\ trip[t] = "operationally_closed" => \A i \in StopsOf(t) : stop[t][i] \in Resolved

(***************************************************************************)
(* The status of an order is explained by its trips: committed, it has     *)
(* none; planned, none has started; in execution, one has; settled, one    *)
(* has delivered.                                                          *)
(***************************************************************************)
OrderFollowsTrips ==
    \A o \in Orders :
        /\ order[o] = "committed" => TripsOf(o) = {}
        /\ order[o] = "planned" => /\ TripsOf(o) # {}
                                   /\ \A t \in TripsOf(o) : trip[t] \notin Started
        /\ order[o] = "in_execution" => \E t \in TripsOf(o) : trip[t] \in Started
        /\ order[o] \in SettledState
              => \E t \in TripsOf(o) : trip[t] \in {"delivered", "operationally_closed"}

(***************************************************************************)
(* Nobody drives a blocked resource unawares: the causes the trip was      *)
(* released with say so, or the block has left an alert on the trip        *)
(* (docs/13, 12.9).                                                        *)
(***************************************************************************)
NotEligible(t) ==
    {r \in ConfirmedCrew(t) :
        \/ r = crew[t].vehicle /\ "vehicle_not_eligible" \in causes[t]
        \/ r = crew[t].trailer /\ "trailer_not_eligible" \in causes[t]
        \/ r = crew[t].driver  /\ "driver_not_eligible"  \in causes[t]}

BlockedIsKnown ==
    \A t \in Trips : \A r \in ConfirmedCrew(t) :
        Active(t) /\ standing[r] = "blocked" => r \in alerted[t] \cup NotEligible(t)

(***************************************************************************)
(* An order becomes fulfilled only when every delivery of every trip it    *)
(* has is completed, and partially fulfilled only when every one has an    *)
(* outcome (comment of settleOrder, docs/13 section 5).                    *)
(***************************************************************************)
OrderSettlesTruthfully ==
    [][ \A o \in Orders : order'[o] \in SettledState /\ order[o] \notin SettledState =>
          \A t \in TripsOf(o) : \A i \in Visits : Kind(t, i) = "delivery" =>
              /\ stop'[t][i] \in Resolved
              /\ order'[o] = "fulfilled" => stop'[t][i] = "completed" ]_vars

(***************************************************************************)
(* A closed trip is a closed file: no stop is recorded on it, although the *)
(* commands on stops do not look at the status of the trip, and its        *)
(* assignment and causes stay, whose commands do.                          *)
(***************************************************************************)
ClosedIsFrozen ==
    [][ \A t \in Trips : trip[t] = "operationally_closed" =>
          UNCHANGED <<trip[t], stop[t], crew[t], causes[t]>> ]_vars
==============================================================================
