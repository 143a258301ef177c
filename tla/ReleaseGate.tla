----------------------------- MODULE ReleaseGate -----------------------------
(***************************************************************************)
(* The release gate of a trip: a pure function from facts to the set of    *)
(* causes that forbid the release (packages/domain/src/release-gate.ts).   *)
(*                                                                         *)
(* A record of facts f has the fields                                      *)
(*   order       status of the transport order                             *)
(*   plan        status of the route plan the trip executes                *)
(*   assignment  status of the current assignment, "none" without one      *)
(*   vehicle, trailer, driver                                              *)
(*               None, or the facts of the assigned resource               *)
(*   equipment   equipment the order asks for, or None                     *)
(*   weight      declared weight of the cargo, or None                     *)
(*   overlapping the driver has another trip on the road                   *)
(*   contactless some stop of the trip has no contact                      *)
(*                                                                         *)
(* Equipment names are compared after normalisation, so they are values    *)
(* compared for equality here.  The code lists causes with details for     *)
(* the screen; the model keeps the set of codes, which is what is stored   *)
(* and compared with an exception.                                         *)
(***************************************************************************)
EXTENDS Naturals

CONSTANT None   \* SQL null

CauseCode ==
    { "order_not_committed", "route_plan_not_active", "assignment_missing",
      "assignment_not_confirmed", "vehicle_missing", "vehicle_not_eligible",
      "trailer_not_eligible", "driver_missing", "driver_not_eligible",
      "credential_expired", "capacity_exceeded", "equipment_incompatible",
      "driver_double_booked", "stop_contact_missing" }

ResourceStatus == {"active", "inactive", "blocked"}

(* What cap.resource_facts publishes about a resource. *)
ResourceFacts ==
    [ status    : ResourceStatus,
      expired   : BOOLEAN,          \* invalidCredentials > 0
      capacity  : {None} \cup Nat,
      equipment : {None} \cup STRING ]

(* No resource: the null that resourceFacts returns is not a row of facts. *)
ASSUME NoneIsNotARow == None \notin ResourceFacts

(* The orders a trip may be released for. *)
OrderReady == {"planned", "in_execution"}

When(condition, code) == IF condition THEN {code} ELSE {}

OrderCauses(f) ==
    When(f.order \notin OrderReady, "order_not_committed")
        \cup When(f.plan # "active", "route_plan_not_active")

AssignmentCauses(f) ==
    When(f.assignment = "none", "assignment_missing")
        \cup When(f.assignment \notin {"none", "confirmed"}, "assignment_not_confirmed")

(* Weight and capacity are compared only when both are known. *)
Overweight(f) ==
    /\ f.weight # None
    /\ f.vehicle.capacity # None
    /\ f.weight > f.vehicle.capacity

VehicleCauses(f) ==
    IF f.vehicle = None THEN {"vehicle_missing"}
    ELSE When(f.vehicle.status # "active", "vehicle_not_eligible")
             \cup When(f.vehicle.expired, "credential_expired")
             \cup When(Overweight(f), "capacity_exceeded")

TrailerCauses(f) ==
    IF f.trailer = None THEN {}
    ELSE When(f.trailer.status # "active", "trailer_not_eligible")
             \cup When(f.trailer.expired, "credential_expired")

(* Required equipment is offered by the trailer only, never by the tractor. *)
EquipmentCauses(f) ==
    When( /\ f.equipment # None
          /\ \/ f.trailer = None
             \/ f.trailer.equipment # f.equipment,
          "equipment_incompatible" )

DriverCauses(f) ==
    IF f.driver = None THEN {"driver_missing"}
    ELSE When(f.driver.status # "active", "driver_not_eligible")
             \cup When(f.driver.expired, "credential_expired")
             \cup When(f.overlapping, "driver_double_booked")

(* evaluateReleaseGate: the empty set means that the trip may be released. *)
Causes(f) ==
    OrderCauses(f) \cup AssignmentCauses(f) \cup VehicleCauses(f)
        \cup TrailerCauses(f) \cup EquipmentCauses(f) \cup DriverCauses(f)
        \cup When(f.contactless, "stop_contact_missing")

(* coversAllCauses: an exception authorises the causes it names, no others. *)
CoversAllCauses(causes, covered) == causes \subseteq covered
==============================================================================
