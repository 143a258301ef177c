-------------------------- MODULE CapacityResources --------------------------
(***************************************************************************)
(* Vehicles, trailers and drivers as the capacity module keeps them        *)
(* (packages/core/src/capacity/resources.ts, migration 0015): whether each *)
(* is in circulation, its mandatory credential and the events that its     *)
(* block and release have put in the outbox.                               *)
(*                                                                         *)
(* One mandatory credential per resource stands for all of them: the gate  *)
(* only asks whether some mandatory credential is invalid.  The calendar   *)
(* is the action CredentialLapses.                                         *)
(***************************************************************************)
EXTENDS ReleaseGate

CONSTANTS
    Vehicles, Trailers, Drivers,
    Rating      \* Rating[r] = [capacity |-> ..., equipment |-> ...]

Resources == Vehicles \cup Trailers \cup Drivers

ASSUME RatingAssumption ==
    \A r \in Resources : Rating[r].capacity \in {None} \cup Nat
                       /\ Rating[r].equipment \in {None} \cup STRING

ASSUME NoneIsNoResource == None \notin Resources

VARIABLES
    standing,   \* standing[r]: the status column of the resource
    credential, \* credential[r]: "none" recorded, "valid", or "invalid"
    announced   \* announced[r]: types of the events already in the outbox

capacityVars == <<standing, credential, announced>>

Announcement == {"AssetBlocked", "ResourceEligibilityChanged"}

CapacityTypeOK ==
    /\ standing \in [Resources -> {"active", "blocked"}]
    /\ credential \in [Resources -> {"none", "valid", "invalid"}]
    /\ announced \in [Resources -> SUBSET Announcement]

CapacityInit ==
    /\ standing = [r \in Resources |-> "active"]
    /\ credential = [r \in Resources |-> "none"]
    /\ announced = [r \in Resources |-> {}]

(***************************************************************************)
(* Both events carry aggregateVersion 1, and the outbox holds one event    *)
(* per aggregate, version and type (outbox_aggregate_event_key): a second  *)
(* one aborts the command that emits it.                                   *)
(***************************************************************************)
Announce(r, event) ==
    /\ event \notin announced[r]
    /\ announced' = [announced EXCEPT ![r] = @ \cup {event}]

(* recordCredential: an upsert; the dates it is given decide the validity. *)
RecordCredential(r, validity) ==
    /\ credential' = [credential EXCEPT ![r] = validity]
    /\ UNCHANGED <<standing, announced>>

(* expires_on passes: nobody marks it, cap.resource_facts derives it. *)
CredentialLapses(r) ==
    /\ credential[r] = "valid"
    /\ credential' = [credential EXCEPT ![r] = "invalid"]
    /\ UNCHANGED <<standing, announced>>

(* blockResource, without the alert of the trips that use the resource. *)
Block(r) ==
    /\ standing' = [standing EXCEPT ![r] = "blocked"]
    /\ Announce(r, "AssetBlocked")
    /\ UNCHANGED credential

(* releaseResource: no condition on the status it finds. *)
ReleaseResource(r) ==
    /\ standing' = [standing EXCEPT ![r] = "active"]
    /\ Announce(r, "ResourceEligibilityChanged")
    /\ UNCHANGED credential

(***************************************************************************)
(* cap.resource_facts: a credential that was never recorded has no row to  *)
(* count.                                                                  *)
(***************************************************************************)
FactsOf(r) ==
    IF r = None THEN None
    ELSE [ status    |-> standing[r],
           expired   |-> credential[r] = "invalid",
           capacity  |-> Rating[r].capacity,
           equipment |-> Rating[r].equipment ]
==============================================================================
