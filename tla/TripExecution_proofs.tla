------------------------ MODULE TripExecution_proofs -------------------------
(***************************************************************************)
(* Proofs, for any number of orders, plans, trips, stops and resources, of *)
(* the invariants of TripExecution that TLC checks on small instances.     *)
(***************************************************************************)
EXTENDS OrderlyExecution, TLAPS

USE NoneIsNoPlan, NoneIsNoResource, PlansAreAboutOrders, ItineraryAssumption, OutcomesAssumption,
    SignableAssumption, ManagedAssumption, LoadsAreWeights

(***************************************************************************)
(* Next as the disjunction of the commands, each with its parameters: the  *)
(* case analysis that every step proof starts with.                        *)
(***************************************************************************)
LEMMA NextCases ==
    ASSUME Next
    PROVE  \/ \E o \in Orders, w \in Loads : CreateShipment(o, w)
           \/ \E p \in Plans : CreateRoutePlan(p) \/ ActivateRoutePlan(p)
           \/ \E t \in Trips, p \in Plans : PlanTrip(t, p)
           \/ \E t \in Trips, v \in Vehicles \cup {None}, tr \in Trailers \cup {None},
                 d \in Drivers \cup {None} : AssignResources(t, v, tr, d)
           \/ \E t \in Trips : \/ ConfirmAssignment(t)
                               \/ ReleaseTrip(t)
                               \/ StartTrip(t)
                               \/ CloseTripOperationally(t)
           \/ \E t \in Trips, i \in Visits : RecordStopArrival(t, i)
           \/ \E t \in Trips, i \in Visits, outcome \in Outcomes :
                 RecordStopOutcome(t, i, outcome)
           \/ \E t \in Trips : ExceptionStep(t)
           \/ \E r \in Managed : FleetStep(r)
PROOF
    BY DEF Next, PlanningStep, DispatchStep, DrivingStep

(* The gate returns codes of its own list, whatever the facts. *)
LEMMA CausesAreCodes ==
    ASSUME NEW f
    PROVE  Causes(f) \in SUBSET CauseCode
<1>1. /\ OrderCauses(f) \subseteq CauseCode
      /\ AssignmentCauses(f) \subseteq CauseCode
    BY DEF OrderCauses, AssignmentCauses, When, CauseCode
<1>2. /\ VehicleCauses(f) \subseteq CauseCode
      /\ TrailerCauses(f) \subseteq CauseCode
    BY DEF VehicleCauses, TrailerCauses, When, CauseCode
<1>3. /\ EquipmentCauses(f) \subseteq CauseCode
      /\ DriverCauses(f) \subseteq CauseCode
    BY DEF EquipmentCauses, DriverCauses, When, CauseCode
<1>4. When(f.contactless, "stop_contact_missing") \subseteq CauseCode
    BY DEF When, CauseCode
<1>5. QED
    BY <1>1, <1>2, <1>3, <1>4 DEF Causes

------------------------------------------------------------------------------
(* Types. *)

(* The types hold before any command. *)
LEMMA TypeInit == Init => TypeOK
    BY DEF Init, CapacityInit, TypeOK, CapacityTypeOK, TripTypeOK, OrderState, PlanState,
           TripState, Crew, NoCrew, StopState

(* The steps of the fleet keep the types. *)
LEMMA FleetTypeStep ==
    ASSUME TypeOK, NEW r \in Managed, FleetStep(r)
    PROVE  TypeOK'
<1>1. CASE BlockResource(r)
    <2>1. CapacityTypeOK'
        BY <1>1 DEF TypeOK, CapacityTypeOK, BlockResource, Block, Announce, Announcement
    <2>2. TripTypeOK'
        BY <1>1 DEF TypeOK, TripTypeOK, BlockResource
    <2>3. QED
        BY <2>1, <2>2 DEF TypeOK
<1>2. CASE UNCHANGED execVars /\ ReleaseResource(r)
    BY <1>2 DEF TypeOK, CapacityTypeOK, TripTypeOK, ReleaseResource, Announce, Announcement,
                execVars
<1>3. CASE UNCHANGED execVars /\ \E w \in {"valid", "invalid"} : RecordCredential(r, w)
    BY <1>3 DEF TypeOK, CapacityTypeOK, TripTypeOK, RecordCredential, execVars
<1>4. CASE UNCHANGED execVars /\ CredentialLapses(r)
    BY <1>4 DEF TypeOK, CapacityTypeOK, TripTypeOK, CredentialLapses, execVars
<1>5. QED
    BY <1>1, <1>2, <1>3, <1>4 DEF FleetStep

(* Every step keeps the types. *)
LEMMA TypeStep == TypeOK /\ [Next]_vars => TypeOK'
<1> SUFFICES ASSUME TypeOK, [Next]_vars PROVE TypeOK'
    OBVIOUS
<1> USE DEF TypeOK, TripTypeOK
<1>1. CASE UNCHANGED vars
    BY <1>1 DEF vars, execVars, capacityVars, CapacityTypeOK
<1>2. ASSUME NEW p \in Plans, CreateRoutePlan(p) \/ ActivateRoutePlan(p)
      PROVE  TypeOK'
    BY <1>2 DEF CreateRoutePlan, ActivateRoutePlan, PlanState, capacityVars, CapacityTypeOK
<1>3. ASSUME NEW t \in Trips, NEW p \in Plans, PlanTrip(t, p)
      PROVE  TypeOK'
    BY <1>3 DEF PlanTrip, OrderState, TripState, PreRelease, StopState, capacityVars,
                CapacityTypeOK
<1>4. ASSUME NEW t \in Trips, NEW v \in Vehicles \cup {None}, NEW tr \in Trailers \cup {None},
             NEW d \in Drivers \cup {None}, AssignResources(t, v, tr, d)
      PROVE  TypeOK'
    BY <1>4 DEF AssignResources, TripState, PreRelease, Crew, capacityVars, CapacityTypeOK
<1>5. ASSUME NEW t \in Trips, ConfirmAssignment(t)
      PROVE  TypeOK'
    <2>1. [crew[t] EXCEPT !.status = "confirmed"] \in Crew
        <3>1. crew[t] \in Crew
            OBVIOUS
        <3>2. QED
            BY <3>1 DEF Crew
    <2>2. crew' = [crew EXCEPT ![t] = [crew[t] EXCEPT !.status = "confirmed"]]
        BY <1>5 DEF ConfirmAssignment
    <2>3. QED
        BY <1>5, <2>1, <2>2 DEF ConfirmAssignment, TripState, PreRelease, capacityVars,
                                CapacityTypeOK
<1>6. ASSUME NEW t \in Trips, ReleaseTrip(t)
      PROVE  TypeOK'
    <2>1. GateCauses(t) \in SUBSET CauseCode
        BY CausesAreCodes DEF GateCauses
    <2>2. QED
        BY <1>6, <2>1 DEF ReleaseTrip, TripState, capacityVars, CapacityTypeOK
<1>7. ASSUME NEW t \in Trips, StartTrip(t)
      PROVE  TypeOK'
    BY <1>7 DEF StartTrip, TripState, Started, OnTheRoad, OrderState, capacityVars,
                CapacityTypeOK
<1>8. ASSUME NEW t \in Trips, CloseTripOperationally(t)
      PROVE  TypeOK'
    BY <1>8 DEF CloseTripOperationally, TripState, Started, capacityVars, CapacityTypeOK
<1>9. ASSUME NEW t \in Trips, NEW i \in Visits, RecordStopArrival(t, i)
      PROVE  TypeOK'
    BY <1>9 DEF RecordStopArrival, TripState, Started, OnTheRoad, StopState, capacityVars,
                CapacityTypeOK
<1>10. ASSUME NEW t \in Trips, NEW i \in Visits, NEW outcome \in Outcomes,
              RecordStopOutcome(t, i, outcome)
       PROVE  TypeOK'
    <2>1. \A o \in Orders : Settlement(o) \in OrderState
        BY DEF Settlement, OrderState, SettledState
    <2>2. order' \in [Orders -> OrderState]
        BY <1>10, <2>1 DEF RecordStopOutcome
    <2>3. trip' \in [Trips -> TripState]
        BY <1>10 DEF RecordStopOutcome, TripState, Started, OnTheRoad
    <2>4. stop' \in [Trips -> [Visits -> StopState]]
        BY <1>10 DEF RecordStopOutcome, StopState, Resolved
    <2>5. QED
        BY <1>10, <2>2, <2>3, <2>4 DEF RecordStopOutcome, capacityVars, CapacityTypeOK
<1>11. ASSUME NEW t \in Trips, ExceptionStep(t)
       PROVE  TypeOK'
    BY <1>11 DEF ExceptionStep, GrantException, ExceptionLapses, capacityVars, CapacityTypeOK
<1>12. ASSUME NEW r \in Managed, FleetStep(r)
       PROVE  TypeOK'
    BY <1>12, FleetTypeStep
<1>13. ASSUME NEW o \in Orders, NEW w \in Loads, CreateShipment(o, w)
       PROVE  TypeOK'
    <2>1. weight' \in [Orders -> {None} \cup Nat]
        <3>1. weight[o] \in {None} \cup Nat /\ w \in Nat
            BY LoadsAreWeights
        <3>2. CASE weight[o] = None
            BY <1>13, <3>1, <3>2 DEF CreateShipment
        <3>3. CASE weight[o] # None
            <4>1. weight[o] + w \in Nat
                BY <3>1, <3>3
            <4>2. QED
                BY <1>13, <3>3, <4>1 DEF CreateShipment
        <3>4. QED
            BY <3>2, <3>3
    <2>2. QED
        BY <1>13, <2>1 DEF CreateShipment, capacityVars, CapacityTypeOK
<1>14. QED
    BY NextCases, <1>1, <1>2, <1>3, <1>4, <1>5, <1>6, <1>7, <1>8, <1>9, <1>10, <1>11, <1>12, <1>13

(* Every variable keeps its type, for every value of the constants. *)
THEOREM TypeCorrect == Spec => []TypeOK
    BY TypeInit, TypeStep, PTL DEF Spec

------------------------------------------------------------------------------
(* The assignment follows the status of the trip. *)

LEMMA CrewStep ==
    ASSUME TypeOK, CrewFollowsStatus, [Next]_vars
    PROVE  CrewFollowsStatus'
<1> USE DEF CrewFollowsStatus
<1> trip \in [Trips -> TripState] /\ crew \in [Trips -> Crew]
    BY DEF TypeOK, TripTypeOK
<1>1. CASE UNCHANGED <<trip, crew>>
    BY <1>1
<1>2. ASSUME NEW t \in Trips, NEW p \in Plans, PlanTrip(t, p)
      PROVE  CrewFollowsStatus'
    BY <1>2 DEF PlanTrip
<1>3. ASSUME NEW t \in Trips, NEW v \in Vehicles \cup {None}, NEW tr \in Trailers \cup {None},
             NEW d \in Drivers \cup {None}, AssignResources(t, v, tr, d)
      PROVE  CrewFollowsStatus'
    BY <1>3 DEF AssignResources
<1>4. ASSUME NEW t \in Trips, ConfirmAssignment(t)
      PROVE  CrewFollowsStatus'
    <2>1. [crew[t] EXCEPT !.status = "confirmed"].status = "confirmed"
        BY DEF Crew
    <2>2. crew' = [crew EXCEPT ![t] = [crew[t] EXCEPT !.status = "confirmed"]]
        BY <1>4 DEF ConfirmAssignment
    <2>3. QED
        BY <1>4, <2>1, <2>2 DEF ConfirmAssignment
<1>5. ASSUME NEW t \in Trips, ReleaseTrip(t) \/ StartTrip(t) \/ CloseTripOperationally(t)
      PROVE  CrewFollowsStatus'
    BY <1>5 DEF ReleaseTrip, StartTrip, CloseTripOperationally
<1>6. ASSUME NEW t \in Trips, NEW i \in Visits, RecordStopArrival(t, i)
      PROVE  CrewFollowsStatus'
    BY <1>6 DEF RecordStopArrival
<1>7. ASSUME NEW t \in Trips, NEW i \in Visits, NEW outcome \in Outcomes,
             RecordStopOutcome(t, i, outcome)
      PROVE  CrewFollowsStatus'
    BY <1>7 DEF RecordStopOutcome
<1>8. CASE \/ UNCHANGED vars
           \/ \E o \in Orders, w \in Loads : CreateShipment(o, w)
           \/ \E p \in Plans : CreateRoutePlan(p) \/ ActivateRoutePlan(p)
           \/ \E t \in Trips : ExceptionStep(t)
           \/ \E r \in Managed : FleetStep(r)
    <2>1. UNCHANGED <<trip, crew>>
        BY <1>8 DEF vars, execVars, CreateShipment, CreateRoutePlan, ActivateRoutePlan, ExceptionStep,
                    GrantException, ExceptionLapses, FleetStep, BlockResource
    <2>2. QED
        BY <1>1, <2>1
<1>9. QED
    BY NextCases, <1>2, <1>3, <1>4, <1>5, <1>6, <1>7, <1>8

(***************************************************************************)
(* A trip past confirmation has a confirmed assignment, so the overlap     *)
(* query of the gate sees every trip on the road.                          *)
(***************************************************************************)
THEOREM CrewCorrect == Spec => []CrewFollowsStatus
<1>1. Init => CrewFollowsStatus
    BY DEF Init, CrewFollowsStatus, NoCrew
<1>2. QED
    BY <1>1, CrewStep, TypeCorrect, PTL DEF Spec

------------------------------------------------------------------------------
(* Drivers. *)

(***************************************************************************)
(* A trip becomes active by its release only, and while it is active its   *)
(* crew and the causes stored by the release do not change.                *)
(***************************************************************************)
LEMMA ActiveTripsKeepTheirCrew ==
    ASSUME TypeOK, CrewFollowsStatus, [Next]_vars, ~ \E t \in Trips : ReleaseTrip(t),
           NEW u \in Trips, Active(u)'
    PROVE  Active(u) /\ crew'[u] = crew[u] /\ causes'[u] = causes[u]
<1> USE DEF Active, ActiveState, OnTheRoad
<1> trip \in [Trips -> TripState] /\ crew \in [Trips -> Crew]
    BY DEF TypeOK, TripTypeOK
<1>1. ASSUME NEW t \in Trips, NEW p \in Plans, PlanTrip(t, p)
      PROVE  Active(u) /\ crew'[u] = crew[u] /\ causes'[u] = causes[u]
    BY <1>1 DEF PlanTrip
<1>2. ASSUME NEW t \in Trips, NEW v \in Vehicles \cup {None}, NEW tr \in Trailers \cup {None},
             NEW d \in Drivers \cup {None}, AssignResources(t, v, tr, d)
      PROVE  Active(u) /\ crew'[u] = crew[u] /\ causes'[u] = causes[u]
    BY <1>2 DEF AssignResources
<1>3. ASSUME NEW t \in Trips, ConfirmAssignment(t) \/ StartTrip(t) \/ CloseTripOperationally(t)
      PROVE  Active(u) /\ crew'[u] = crew[u] /\ causes'[u] = causes[u]
    BY <1>3 DEF ConfirmAssignment, StartTrip, CloseTripOperationally
<1>4. ASSUME NEW t \in Trips, NEW i \in Visits, RecordStopArrival(t, i)
      PROVE  Active(u) /\ crew'[u] = crew[u] /\ causes'[u] = causes[u]
    BY <1>4 DEF RecordStopArrival
<1>5. ASSUME NEW t \in Trips, NEW i \in Visits, NEW outcome \in Outcomes,
             RecordStopOutcome(t, i, outcome)
      PROVE  Active(u) /\ crew'[u] = crew[u] /\ causes'[u] = causes[u]
    BY <1>5 DEF RecordStopOutcome
<1>6. CASE \/ UNCHANGED vars
           \/ \E o \in Orders, w \in Loads : CreateShipment(o, w)
           \/ \E p \in Plans : CreateRoutePlan(p) \/ ActivateRoutePlan(p)
           \/ \E t \in Trips : ExceptionStep(t)
           \/ \E r \in Managed : FleetStep(r)
    BY <1>6 DEF vars, execVars, CreateShipment, CreateRoutePlan, ActivateRoutePlan, ExceptionStep,
                GrantException, ExceptionLapses, FleetStep, BlockResource
<1>7. QED
    BY NextCases, <1>1, <1>2, <1>3, <1>4, <1>5, <1>6

(* What cap.resource_facts returns for a resource is a row of facts. *)
LEMMA FactsAreFacts ==
    ASSUME TypeOK, NEW r \in Resources
    PROVE  FactsOf(r) \in ResourceFacts
<1>1. standing[r] \in ResourceStatus
    BY DEF TypeOK, CapacityTypeOK, ResourceStatus
<1>2. /\ Rating[r].capacity \in {None} \cup Nat
      /\ Rating[r].equipment \in {None} \cup STRING
    BY RatingAssumption
<1>3. QED
    BY <1>1, <1>2 DEF FactsOf, ResourceFacts

(* The gate names the double booking whenever another active trip has the driver. *)
LEMMA GateSeesTheOtherTrip ==
    ASSUME TypeOK, CrewFollowsStatus, NEW t \in Trips, NEW u \in Trips, t # u, Active(u),
           crew[t].driver = crew[u].driver, crew[t].driver # None
    PROVE  "driver_double_booked" \in GateCauses(t)
<1>1. crew[u].status = "confirmed"
    BY DEF CrewFollowsStatus, Active, ActiveState, OnTheRoad
<1>2. GateFacts(t).overlapping
    BY <1>1 DEF GateFacts, Overlapping
<1>3. GateFacts(t).driver # None
    <2>1. crew[t].driver \in Resources
        BY DEF TypeOK, TripTypeOK, Crew, Resources
    <2>2. FactsOf(crew[t].driver) \in ResourceFacts
        BY <2>1, FactsAreFacts
    <2>3. QED
        BY <2>2, NoneIsNotARow DEF GateFacts
<1>4. "driver_double_booked" \in DriverCauses(GateFacts(t))
    BY <1>2, <1>3 DEF DriverCauses, When
<1>5. QED
    BY <1>4 DEF GateCauses, Causes

(***************************************************************************)
(* The released trip that shares its driver with an active one stores the  *)
(* cause; every other step keeps the crews and the causes of the trips     *)
(* that stay active.                                                       *)
(***************************************************************************)
LEMMA DriverStep ==
    ASSUME TypeOK, CrewFollowsStatus, DriverExclusive, [Next]_vars
    PROVE  DriverExclusive'
<1>1. CASE ~ \E t \in Trips : ReleaseTrip(t)
    BY <1>1, ActiveTripsKeepTheirCrew DEF DriverExclusive
<1>2. ASSUME NEW r \in Trips, ReleaseTrip(r)
      PROVE  DriverExclusive'
    <2>1. /\ crew' = crew
          /\ \A u \in Trips : u # r => (Active(u)' <=> Active(u)) /\ causes'[u] = causes[u]
          /\ causes'[r] = GateCauses(r)
        BY <1>2 DEF ReleaseTrip, Active, TypeOK, TripTypeOK
    <2>2. SUFFICES ASSUME NEW t \in Trips, NEW u \in Trips, t # u, Active(t)', Active(u)',
                          crew[t].driver = crew[u].driver, crew[t].driver # None
                   PROVE  "driver_double_booked" \in causes'[t] \cup causes'[u]
        BY <2>1 DEF DriverExclusive
    <2>3. CASE t = r
        BY <2>1, <2>2, <2>3, GateSeesTheOtherTrip
    <2>4. CASE u = r
        BY <2>1, <2>2, <2>4, GateSeesTheOtherTrip
    <2>5. CASE t # r /\ u # r
        BY <2>1, <2>2, <2>5 DEF DriverExclusive
    <2>6. QED
        BY <2>3, <2>4, <2>5
<1>3. QED
    BY <1>1, <1>2

(***************************************************************************)
(* No driver is on two trips at once unless an exception named the double  *)
(* booking, for any number of trips, drivers and exceptions: what the      *)
(* gate promises as long as commands run one at a time.                    *)
(***************************************************************************)
THEOREM DriversExclusive == Spec => []DriverExclusive
<1>1. Init => DriverExclusive
    BY DEF Init, DriverExclusive, Active, ActiveState, OnTheRoad
<1>2. QED
    BY <1>1, DriverStep, TypeCorrect, CrewCorrect, PTL DEF Spec

------------------------------------------------------------------------------
(* Blocked resources. *)

(* A blocked resource of a trip that is being released is among its causes. *)
LEMMA GateSeesTheBlock ==
    ASSUME TypeOK, NEW t \in Trips, ReleaseTrip(t), NEW r \in ConfirmedCrew(t),
           standing[r] = "blocked"
    PROVE  r \in NotEligible(t)'
<1>1. /\ causes'[t] = GateCauses(t)
      /\ crew' = crew
      /\ ConfirmedCrew(t)' = ConfirmedCrew(t)
    BY DEF ReleaseTrip, ConfirmedCrew, TypeOK, TripTypeOK
<1>2. /\ r \in {crew[t].vehicle, crew[t].trailer, crew[t].driver}
      /\ r \in Resources
    BY DEF ConfirmedCrew, TypeOK, TripTypeOK, Crew, Resources
<1>3. /\ FactsOf(r) # None
      /\ FactsOf(r).status = "blocked"
    <2>1. FactsOf(r) # None
        BY <1>2, FactsAreFacts, NoneIsNotARow
    <2>2. QED
        BY <1>2, <2>1 DEF FactsOf
<1>4. CASE r = crew[t].vehicle
    <2>1. "vehicle_not_eligible" \in VehicleCauses(GateFacts(t))
        BY <1>3, <1>4 DEF VehicleCauses, GateFacts, When
    <2>2. QED
        BY <1>1, <1>4, <2>1 DEF NotEligible, GateCauses, Causes
<1>5. CASE r = crew[t].trailer
    <2>1. "trailer_not_eligible" \in TrailerCauses(GateFacts(t))
        BY <1>3, <1>5 DEF TrailerCauses, GateFacts, When
    <2>2. QED
        BY <1>1, <1>5, <2>1 DEF NotEligible, GateCauses, Causes
<1>6. CASE r = crew[t].driver
    <2>1. "driver_not_eligible" \in DriverCauses(GateFacts(t))
        BY <1>3, <1>6 DEF DriverCauses, GateFacts, When
    <2>2. QED
        BY <1>1, <1>6, <2>1 DEF NotEligible, GateCauses, Causes
<1>7. QED
    BY <1>2, <1>4, <1>5, <1>6

(* A block, or an assignment that changes, leaves every active trip with its block known. *)
LEMMA BlockStep ==
    ASSUME TypeOK, CrewFollowsStatus, BlockedIsKnown, [Next]_vars
    PROVE  BlockedIsKnown'
<1> SUFFICES ASSUME NEW t \in Trips, Active(t)', NEW r \in ConfirmedCrew(t)',
                    standing'[r] = "blocked"
             PROVE  r \in alerted'[t] \cup NotEligible(t)'
    BY DEF BlockedIsKnown
<1>1. /\ standing \in [Resources -> {"active", "blocked"}]
      /\ alerted \in [Trips -> SUBSET Resources]
      /\ trip \in [Trips -> TripState]
      /\ causes \in [Trips -> SUBSET CauseCode]
    BY DEF TypeOK, CapacityTypeOK, TripTypeOK
<1>2. ASSUME NEW u \in Trips, ReleaseTrip(u)
      PROVE  r \in alerted'[t] \cup NotEligible(t)'
    <2>1. /\ UNCHANGED <<crew, alerted, standing>>
          /\ ConfirmedCrew(t)' = ConfirmedCrew(t)
        BY <1>2 DEF ReleaseTrip, capacityVars, ConfirmedCrew
    <2>2. CASE t = u
        BY <1>2, <2>1, <2>2, GateSeesTheBlock
    <2>3. CASE t # u
        <3>1. Active(t) /\ causes'[t] = causes[t] /\ NotEligible(t)' = NotEligible(t)
            BY <1>1, <1>2, <2>1, <2>3 DEF ReleaseTrip, Active, NotEligible
        <3>2. QED
            BY <2>1, <3>1 DEF BlockedIsKnown
    <2>4. QED
        BY <2>2, <2>3
<1>3. CASE ~ \E u \in Trips : ReleaseTrip(u)
    <2>1. /\ Active(t)
          /\ crew'[t] = crew[t]
          /\ causes'[t] = causes[t]
        BY <1>3, ActiveTripsKeepTheirCrew
    <2>2. /\ ConfirmedCrew(t)' = ConfirmedCrew(t)
          /\ NotEligible(t)' = NotEligible(t)
        BY <2>1 DEF ConfirmedCrew, NotEligible
    <2>3. CASE standing[r] = "blocked" /\ alerted[t] \subseteq alerted'[t]
        BY <2>1, <2>2, <2>3 DEF BlockedIsKnown
    <2>4. ASSUME NEW b \in Managed, FleetStep(b)
          PROVE  r \in alerted'[t] \cup NotEligible(t)'
        <3>1. CASE BlockResource(b)
            <4>1. b \in Resources
                BY ManagedAssumption
            <4>2. alerted'[t] = IF b \in ConfirmedCrew(t) THEN alerted[t] \cup {b} ELSE alerted[t]
                BY <2>1, <3>1 DEF BlockResource
            <4>3. b # r => standing'[r] = standing[r]
                BY <1>1, <3>1, <4>1 DEF BlockResource, Block
            <4>4. QED
                BY <2>2, <2>3, <4>2, <4>3
        <3>2. CASE ~ BlockResource(b)
            <4>1. /\ UNCHANGED execVars
                  /\ \/ UNCHANGED standing
                     \/ ReleaseResource(b)
                BY <2>4, <3>2 DEF FleetStep, RecordCredential, CredentialLapses
            <4>2. b \in Resources /\ r \in Resources
                BY <2>1, ManagedAssumption DEF ConfirmedCrew, TypeOK, TripTypeOK, Crew, Resources
            <4>3. standing[r] = "blocked"
                BY <1>1, <4>1, <4>2 DEF ReleaseResource
            <4>4. QED
                BY <2>3, <4>1, <4>3 DEF execVars
        <3>3. QED
            BY <3>1, <3>2
    <2>5. CASE UNCHANGED standing /\ UNCHANGED alerted
        BY <2>3, <2>5
    <2>6. QED
        BY NextCases, <1>3, <2>4, <2>5 DEF vars, execVars, capacityVars, CreateShipment, CreateRoutePlan,
            ActivateRoutePlan, PlanTrip, AssignResources, ConfirmAssignment, StartTrip,
            CloseTripOperationally, RecordStopArrival, RecordStopOutcome, ExceptionStep,
            GrantException, ExceptionLapses
<1>4. QED
    BY <1>2, <1>3

(***************************************************************************)
(* Whoever drives a blocked resource has been told: the causes of the      *)
(* release say so or the block left an alert on the trip.                  *)
(***************************************************************************)
THEOREM BlocksAreKnown == Spec => []BlockedIsKnown
<1>1. Init => BlockedIsKnown
    BY DEF Init, BlockedIsKnown, ConfirmedCrew, NoCrew
<1>2. QED
    BY <1>1, BlockStep, TypeCorrect, CrewCorrect, PTL DEF Spec

------------------------------------------------------------------------------
(* Stops. *)

(***************************************************************************)
(* The steps that leave stops and orders alone: planning a route, the      *)
(* exceptions, the fleet, and the preparation of a trip up to its release. *)
(***************************************************************************)
PreparationStep ==
    \/ PlanningStep
    \/ \E t \in Trips : \/ \E v \in Vehicles \cup {None}, tr \in Trailers \cup {None},
                           d \in Drivers \cup {None} : AssignResources(t, v, tr, d)
                      \/ ConfirmAssignment(t)
                      \/ ReleaseTrip(t)
                      \/ ExceptionStep(t)
    \/ \E r \in Managed : FleetStep(r)

LEMMA PreparationMovesNothing ==
    ASSUME TypeOK, [PreparationStep]_vars
    PROVE  /\ UNCHANGED <<order, tripPlan, stop>>
           /\ trip' \in [Trips -> TripState]
           /\ \A t \in Trips : \/ trip'[t] = trip[t]
                               \/ /\ trip[t] \in PreRelease
                                  /\ trip'[t] \in PreRelease \cup {"released"}
<1> trip \in [Trips -> TripState]
    BY DEF TypeOK, TripTypeOK
<1>1. ASSUME NEW t \in Trips, NEW v \in Vehicles \cup {None}, NEW tr \in Trailers \cup {None},
             NEW d \in Drivers \cup {None}, AssignResources(t, v, tr, d)
      PROVE  /\ UNCHANGED <<order, tripPlan, stop>>
             /\ trip[t] \in PreRelease
             /\ trip' = [trip EXCEPT ![t] = "assigned"]
    BY <1>1 DEF AssignResources
<1>2. ASSUME NEW t \in Trips, ConfirmAssignment(t)
      PROVE  /\ UNCHANGED <<order, tripPlan, stop>>
             /\ trip[t] \in PreRelease
             /\ trip' = [trip EXCEPT ![t] = "confirmed"]
    BY <1>2 DEF ConfirmAssignment, PreRelease
<1>3. ASSUME NEW t \in Trips, ReleaseTrip(t)
      PROVE  /\ UNCHANGED <<order, tripPlan, stop>>
             /\ trip[t] \in PreRelease
             /\ trip' = [trip EXCEPT ![t] = "released"]
    BY <1>3 DEF ReleaseTrip, PreRelease
<1>4. ASSUME \/ UNCHANGED vars
             \/ \E o \in Orders, w \in Loads : CreateShipment(o, w)
             \/ \E p \in Plans : CreateRoutePlan(p) \/ ActivateRoutePlan(p)
             \/ \E t \in Trips : ExceptionStep(t)
             \/ \E r \in Managed : FleetStep(r)
      PROVE  UNCHANGED <<order, tripPlan, stop, trip>>
    BY <1>4 DEF vars, execVars, CreateShipment, CreateRoutePlan, ActivateRoutePlan,
                ExceptionStep, GrantException, ExceptionLapses, FleetStep, BlockResource
<1>5. CASE UNCHANGED <<order, tripPlan, stop, trip>>
    BY <1>5
<1>6. CASE /\ UNCHANGED <<order, tripPlan, stop>>
           /\ \E t \in Trips, status \in {"assigned", "confirmed", "released"} :
                 trip[t] \in PreRelease /\ trip' = [trip EXCEPT ![t] = status]
    BY <1>6 DEF TripState, PreRelease
<1>7. QED
    BY <1>1, <1>2, <1>3, <1>4, <1>5, <1>6 DEF PreparationStep, PlanningStep

(* Besides these there are the planning of a trip and its execution. *)
LEMMA OtherSteps ==
    ASSUME [Next]_vars,
           ~ \E t \in Trips : \/ \E p \in Plans : PlanTrip(t, p)
                              \/ StartTrip(t)
                              \/ CloseTripOperationally(t)
                              \/ \E i \in Visits : \/ RecordStopArrival(t, i)
                                                   \/ \E outcome \in Outcomes :
                                                         RecordStopOutcome(t, i, outcome)
    PROVE  [PreparationStep]_vars
    BY DEF Next, DispatchStep, DrivingStep, PreparationStep

(* The stops of a trip are copied once, and recording them makes none absent. *)
LEMMA StopsStep ==
    ASSUME TypeOK, StopsAreThePlans, [Next]_vars
    PROVE  StopsAreThePlans'
<1> USE DEF StopsAreThePlans, Kind
<1> /\ trip \in [Trips -> TripState]
    /\ tripPlan \in [Trips -> Plans \cup {None}]
    /\ stop \in [Trips -> [Visits -> StopState]]
    BY DEF TypeOK, TripTypeOK
<1>1. ASSUME NEW t \in Trips, NEW p \in Plans, PlanTrip(t, p)
      PROVE  StopsAreThePlans'
    BY <1>1 DEF PlanTrip
<1>2. ASSUME NEW t \in Trips, StartTrip(t) \/ CloseTripOperationally(t)
      PROVE  StopsAreThePlans'
    BY <1>2 DEF StartTrip, CloseTripOperationally
<1>3. ASSUME NEW t \in Trips, NEW i \in Visits, RecordStopArrival(t, i)
      PROVE  StopsAreThePlans'
    <2>1. \A u \in Trips : trip'[u] # "none" => trip[u] # "none"
        BY <1>3 DEF RecordStopArrival
    <2>2. \A u \in Trips, j \in Visits : stop'[u][j] = "absent" <=> stop[u][j] = "absent"
        BY <1>3 DEF RecordStopArrival
    <2>3. QED
        BY <1>3, <2>1, <2>2 DEF RecordStopArrival
<1>4. ASSUME NEW t \in Trips, NEW i \in Visits, NEW outcome \in Outcomes,
             RecordStopOutcome(t, i, outcome)
      PROVE  StopsAreThePlans'
    <2>1. \A u \in Trips : trip'[u] # "none" => trip[u] # "none"
        BY <1>4 DEF RecordStopOutcome
    <2>2. \A u \in Trips, j \in Visits : stop'[u][j] = "absent" <=> stop[u][j] = "absent"
        BY <1>4 DEF RecordStopOutcome
    <2>3. QED
        BY <1>4, <2>1, <2>2 DEF RecordStopOutcome
<1>5. CASE [PreparationStep]_vars
    <2>1. UNCHANGED <<tripPlan, stop>> /\ \A t \in Trips : trip'[t] # "none" => trip[t] # "none"
        BY <1>5, PreparationMovesNothing DEF PreRelease
    <2>2. QED
        BY <2>1
<1> HIDE DEF StopsAreThePlans
<1>6. QED
    BY <1>1, <1>2, <1>3, <1>4, <1>5, OtherSteps

(***************************************************************************)
(* A trip keeps the stops of the plan it was planned with, however often   *)
(* the route is planned anew.                                              *)
(***************************************************************************)
THEOREM StopsStayThePlans == Spec => []StopsAreThePlans
<1>1. Init => StopsAreThePlans
    BY DEF Init, StopsAreThePlans
<1>2. QED
    BY <1>1, StopsStep, TypeCorrect, PTL DEF Spec

------------------------------------------------------------------------------
(* The status of a trip. *)

(* A step that keeps a trip's plan and only moves its stops forward, which *)
(* recording does, loses no outcome.                                       *)
LEMMA OutcomesStay ==
    ASSUME TypeOK, NEW t \in Trips, NEW i \in Visits, NEW s,
           stop[t][i] \notin Resolved, stop' = [stop EXCEPT ![t][i] = s], UNCHANGED tripPlan
    PROVE  \A u \in Trips :
               /\ \A j \in Visits : stop[u][j] \in Resolved => stop'[u][j] = stop[u][j]
               /\ \A j \in Visits : u # t \/ j # i => stop'[u][j] = stop[u][j]
               /\ \A j \in Visits : FirstPickup(u, j)' <=> FirstPickup(u, j)
               /\ \A j \in Visits : LastDelivery(u, j)' <=> LastDelivery(u, j)
               /\ PickupDone(u) => PickupDone(u)'
               /\ DropDone(u) => DropDone(u)'
<1> stop \in [Trips -> [Visits -> StopState]]
    BY DEF TypeOK, TripTypeOK
<1>1. \A u \in Trips, j \in Visits :
          /\ stop[u][j] \in Resolved => stop'[u][j] = stop[u][j]
          /\ u # t \/ j # i => stop'[u][j] = stop[u][j]
    OBVIOUS
<1>2. \A u \in Trips, j \in Visits : /\ FirstPickup(u, j)' <=> FirstPickup(u, j)
                                     /\ LastDelivery(u, j)' <=> LastDelivery(u, j)
    BY DEF FirstPickup, LastDelivery, Kind
<1>3. QED
    BY <1>1, <1>2 DEF PickupDone, DropDone

(* The conjuncts of TripFollowsStops, for one trip. *)
FollowsStops(t) ==
    /\ trip[t] = "at_origin" => \E i \in Visits : FirstPickup(t, i) /\ stop[t][i] = "arrived"
    /\ trip[t] \in {"in_transit", "at_destination", "delivered", "operationally_closed"}
          => PickupDone(t)
    /\ trip[t] = "at_destination"
          => \E i \in Visits : LastDelivery(t, i) /\ stop[t][i] = "arrived"
    /\ trip[t] \in {"delivered", "operationally_closed"} => DropDone(t)
    /\ trip[t] = "operationally_closed" => \A i \in StopsOf(t) : stop[t][i] \in Resolved

LEMMA FollowingUnchanged ==
    ASSUME NEW t, FollowsStops(t), UNCHANGED <<tripPlan, trip[t], stop[t]>>
    PROVE  FollowsStops(t)'
    BY DEF FollowsStops, PickupDone, DropDone, FirstPickup, LastDelivery, Kind, StopsOf

(* Recording an arrival: the trip advances only with the stop that says so. *)
LEMMA ArrivalFollows ==
    ASSUME TypeOK, TripFollowsStops, NEW t \in Trips, NEW i \in Visits, RecordStopArrival(t, i)
    PROVE  TripFollowsStops'
<1> /\ trip \in [Trips -> TripState]
    /\ stop \in [Trips -> [Visits -> StopState]]
    BY DEF TypeOK, TripTypeOK
<1> SUFFICES ASSUME NEW u \in Trips PROVE FollowsStops(u)'
    BY DEF TripFollowsStops, FollowsStops
<1>1. FollowsStops(u) /\ FollowsStops(t)
    BY DEF TripFollowsStops, FollowsStops
<1>2. /\ stop[t][i] = "pending"
      /\ stop' = [stop EXCEPT ![t][i] = "arrived"]
      /\ stop'[t][i] = "arrived"
      /\ UNCHANGED tripPlan
    BY DEF RecordStopArrival
<1>3. CASE u # t
    BY <1>1, <1>2, <1>3, FollowingUnchanged DEF RecordStopArrival
<1>4. CASE u = t
    <2>1. /\ \A j \in Visits : j # i => stop'[t][j] = stop[t][j]
          /\ \A j \in Visits : FirstPickup(t, j)' <=> FirstPickup(t, j)
          /\ \A j \in Visits : LastDelivery(t, j)' <=> LastDelivery(t, j)
          /\ PickupDone(t) => PickupDone(t)'
          /\ DropDone(t) => DropDone(t)'
        BY <1>2, OutcomesStay DEF Resolved
    <2>2. trip[t] # "operationally_closed"
        BY <1>1, <1>2 DEF FollowsStops, StopsOf, Resolved
    <2>3. CASE trip[t] = "en_route_to_origin" /\ FirstPickup(t, i)
        BY <1>2, <1>4, <2>1, <2>3 DEF FollowsStops, RecordStopArrival
    <2>4. CASE trip[t] = "in_transit" /\ LastDelivery(t, i)
        BY <1>1, <1>2, <1>4, <2>1, <2>4 DEF FollowsStops, RecordStopArrival
    <2>5. CASE UNCHANGED trip
        BY <1>1, <1>2, <1>4, <2>1, <2>2, <2>5 DEF FollowsStops
    <2>6. QED
        BY <2>3, <2>4, <2>5 DEF RecordStopArrival
<1>5. QED
    BY <1>3, <1>4

(* Recording an outcome: the stop that explained the status advances it. *)
LEMMA OutcomeFollows ==
    ASSUME TypeOK, TripFollowsStops, NEW t \in Trips, NEW i \in Visits, NEW outcome \in Outcomes,
           RecordStopOutcome(t, i, outcome)
    PROVE  TripFollowsStops'
<1> /\ trip \in [Trips -> TripState]
    /\ stop \in [Trips -> [Visits -> StopState]]
    BY DEF TypeOK, TripTypeOK
<1> SUFFICES ASSUME NEW u \in Trips PROVE FollowsStops(u)'
    BY DEF TripFollowsStops, FollowsStops
<1>1. FollowsStops(u) /\ FollowsStops(t)
    BY DEF TripFollowsStops, FollowsStops
<1>2. /\ stop[t][i] = "arrived"
      /\ stop' = [stop EXCEPT ![t][i] = outcome]
      /\ stop'[t][i] \in Resolved
      /\ UNCHANGED tripPlan
    BY DEF RecordStopOutcome, Resolved
<1>3. CASE u # t
    BY <1>1, <1>2, <1>3, FollowingUnchanged DEF RecordStopOutcome
<1>4. CASE u = t
    <2>1. /\ \A j \in Visits : j # i => stop'[t][j] = stop[t][j]
          /\ \A j \in Visits : FirstPickup(t, j)' <=> FirstPickup(t, j)
          /\ \A j \in Visits : LastDelivery(t, j)' <=> LastDelivery(t, j)
          /\ PickupDone(t) => PickupDone(t)'
          /\ DropDone(t) => DropDone(t)'
        BY <1>2, OutcomesStay DEF Resolved
    <2>2. trip[t] # "operationally_closed"
        BY <1>1, <1>2 DEF FollowsStops, StopsOf, Resolved
    <2>3. CASE trip[t] = "at_origin" /\ FirstPickup(t, i)
        <3>1. PickupDone(t)' /\ trip'[t] = "in_transit"
            BY <1>2, <2>1, <2>3 DEF PickupDone, RecordStopOutcome
        <3>2. QED
            BY <1>4, <3>1 DEF FollowsStops
    <2>4. CASE trip[t] = "at_destination" /\ LastDelivery(t, i)
        <3>1. DropDone(t)' /\ PickupDone(t)' /\ trip'[t] = "delivered"
            BY <1>1, <1>2, <2>1, <2>4 DEF DropDone, RecordStopOutcome, FollowsStops
        <3>2. QED
            BY <1>4, <3>1 DEF FollowsStops
    <2>5. CASE /\ UNCHANGED trip
               /\ ~(trip[t] = "at_origin" /\ FirstPickup(t, i))
               /\ ~(trip[t] = "at_destination" /\ LastDelivery(t, i))
        BY <1>1, <1>4, <2>1, <2>2, <2>5 DEF FollowsStops
    <2>6. QED
        BY <2>3, <2>4, <2>5 DEF RecordStopOutcome
<1>5. QED
    BY <1>3, <1>4

LEMMA FollowsStep ==
    ASSUME TypeOK, TripFollowsStops, [Next]_vars
    PROVE  TripFollowsStops'
<1> /\ trip \in [Trips -> TripState]
    /\ stop \in [Trips -> [Visits -> StopState]]
    BY DEF TypeOK, TripTypeOK
<1>1. ASSUME NEW t \in Trips, NEW p \in Plans, PlanTrip(t, p)
      PROVE  TripFollowsStops'
    <2>1. \A u \in Trips \ {t} : FollowsStops(u)'
        <3>1. TAKE u \in Trips \ {t}
        <3>2. FollowsStops(u)
            BY DEF TripFollowsStops, FollowsStops
        <3>3. UNCHANGED <<tripPlan[u], trip[u], stop[u]>>
            BY <1>1 DEF PlanTrip, TypeOK, TripTypeOK
        <3>4. QED
            BY <3>2, <3>3 DEF FollowsStops, PickupDone, DropDone, FirstPickup, LastDelivery,
                              Kind, StopsOf
    <2>2. FollowsStops(t)'
        BY <1>1 DEF PlanTrip, FollowsStops
    <2>3. QED
        BY <2>1, <2>2 DEF TripFollowsStops, FollowsStops
<1>2. ASSUME NEW t \in Trips, StartTrip(t) \/ CloseTripOperationally(t)
      PROVE  TripFollowsStops'
    <2>1. \A u \in Trips : FollowsStops(u) /\ (u # t => trip'[u] = trip[u])
        BY <1>2 DEF TripFollowsStops, FollowsStops, StartTrip, CloseTripOperationally
    <2>2. UNCHANGED <<tripPlan, stop>>
        BY <1>2 DEF StartTrip, CloseTripOperationally
    <2>3. \A u \in Trips \ {t} : FollowsStops(u)'
        BY <2>1, <2>2, FollowingUnchanged
    <2>4. FollowsStops(t)'
        <3>1. /\ PickupDone(t)' <=> PickupDone(t)
              /\ DropDone(t)' <=> DropDone(t)
              /\ StopsOf(t)' = StopsOf(t)
            BY <2>2 DEF PickupDone, DropDone, FirstPickup, LastDelivery, Kind, StopsOf
        <3>2. QED
            BY <1>2, <2>1, <2>2, <3>1 DEF FollowsStops, StartTrip, CloseTripOperationally
    <2>5. QED
        BY <2>3, <2>4 DEF TripFollowsStops, FollowsStops
<1>3. CASE /\ UNCHANGED <<tripPlan, stop>>
           /\ \A t \in Trips : \/ trip'[t] = trip[t]
                               \/ trip'[t] \in PreRelease \cup {"released"}
    <2>1. \A t \in Trips : FollowsStops(t)'
        <3>1. TAKE t \in Trips
        <3>2. CASE trip'[t] = trip[t]
            BY <1>3, <3>2, FollowingUnchanged DEF TripFollowsStops, FollowsStops
        <3>3. CASE trip'[t] \in PreRelease \cup {"released"}
            BY <3>3 DEF FollowsStops, PreRelease
        <3>4. QED
            BY <1>3, <3>2, <3>3
    <2>2. QED
        BY <2>1 DEF TripFollowsStops, FollowsStops
<1>4. QED
    BY <1>1, <1>2, <1>3, OtherSteps, PreparationMovesNothing, ArrivalFollows, OutcomeFollows

(***************************************************************************)
(* The status of a trip is explained by its stops, whatever the order in   *)
(* which they are recorded and whatever else happens to the trip.          *)
(***************************************************************************)
THEOREM TripsFollowStops == Spec => []TripFollowsStops
<1>1. Init => TripFollowsStops
    BY DEF Init, TripFollowsStops
<1>2. QED
    BY <1>1, FollowsStep, TypeCorrect, PTL DEF Spec

(* No command changes a trip that is closed: none of its stops is open. *)
LEMMA FrozenStep ==
    ASSUME TypeOK, TripFollowsStops, [Next]_vars, NEW t \in Trips,
           trip[t] = "operationally_closed"
    PROVE  UNCHANGED <<trip[t], stop[t], crew[t], causes[t]>>
<1> /\ trip \in [Trips -> TripState]
    /\ stop \in [Trips -> [Visits -> StopState]]
    /\ crew \in [Trips -> Crew]
    /\ causes \in [Trips -> SUBSET CauseCode]
    BY DEF TypeOK, TripTypeOK
<1>1. \A i \in Visits : stop[t][i] \notin {"pending", "arrived"}
    BY DEF TripFollowsStops, StopsOf, Resolved
<1>2. ASSUME NEW u \in Trips, NEW p \in Plans, PlanTrip(u, p)
      PROVE  UNCHANGED <<trip[t], stop[t], crew[t], causes[t]>>
    BY <1>2 DEF PlanTrip
<1>3. ASSUME NEW u \in Trips, NEW v \in Vehicles \cup {None}, NEW tr \in Trailers \cup {None},
             NEW d \in Drivers \cup {None}, AssignResources(u, v, tr, d)
      PROVE  UNCHANGED <<trip[t], stop[t], crew[t], causes[t]>>
    BY <1>3 DEF AssignResources, PreRelease
<1>4. ASSUME NEW u \in Trips,
             ConfirmAssignment(u) \/ ReleaseTrip(u) \/ StartTrip(u) \/ CloseTripOperationally(u)
      PROVE  UNCHANGED <<trip[t], stop[t], crew[t], causes[t]>>
    BY <1>4 DEF ConfirmAssignment, ReleaseTrip, StartTrip, CloseTripOperationally
<1>5. ASSUME NEW u \in Trips, NEW i \in Visits, RecordStopArrival(u, i)
      PROVE  UNCHANGED <<trip[t], stop[t], crew[t], causes[t]>>
    BY <1>1, <1>5 DEF RecordStopArrival
<1>6. ASSUME NEW u \in Trips, NEW i \in Visits, NEW outcome \in Outcomes,
             RecordStopOutcome(u, i, outcome)
      PROVE  UNCHANGED <<trip[t], stop[t], crew[t], causes[t]>>
    BY <1>1, <1>6 DEF RecordStopOutcome
<1>7. CASE \/ UNCHANGED vars
           \/ \E o \in Orders, w \in Loads : CreateShipment(o, w)
           \/ \E p \in Plans : CreateRoutePlan(p) \/ ActivateRoutePlan(p)
           \/ \E u \in Trips : ExceptionStep(u)
           \/ \E r \in Managed : FleetStep(r)
    BY <1>7 DEF vars, execVars, CreateShipment, CreateRoutePlan, ActivateRoutePlan,
                ExceptionStep, GrantException, ExceptionLapses, FleetStep, BlockResource
<1>8. QED
    BY NextCases, <1>2, <1>3, <1>4, <1>5, <1>6, <1>7

(***************************************************************************)
(* A closed trip keeps its stops, its assignment and its causes for good.  *)
(***************************************************************************)
THEOREM ClosedTripsAreFrozen == Spec => ClosedIsFrozen
<1>1. TypeOK /\ TripFollowsStops /\ [Next]_vars =>
          [\A t \in Trips : trip[t] = "operationally_closed" =>
              UNCHANGED <<trip[t], stop[t], crew[t], causes[t]>>]_vars
    BY FrozenStep
<1>2. QED
    BY <1>1, TypeCorrect, TripsFollowStops, PTL DEF Spec, ClosedIsFrozen

------------------------------------------------------------------------------
(* The status of an order. *)

(* The conjuncts of OrderFollowsTrips, for one order. *)
FollowsTrips(o) ==
    /\ order[o] = "committed" => TripsOf(o) = {}
    /\ order[o] = "planned" => /\ TripsOf(o) # {}
                               /\ \A t \in TripsOf(o) : trip[t] \notin Started
    /\ order[o] = "in_execution" => \E t \in TripsOf(o) : trip[t] \in Started
    /\ order[o] \in SettledState
          => \E t \in TripsOf(o) : trip[t] \in {"delivered", "operationally_closed"}

(* The trips of an order change only when one is planned. *)
LEMMA TripsOfStay ==
    ASSUME NEW o, UNCHANGED tripPlan,
           \A t \in Trips : trip'[t] # "none" <=> trip[t] # "none"
    PROVE  TripsOf(o)' = TripsOf(o)
    BY DEF TripsOf, OrderOfTrip

(* An order keeps following its trips while they do not go back, and none  *)
(* of them sets out while it is only planned.                              *)
LEMMA AdvanceFollows ==
    ASSUME NEW o, FollowsTrips(o), TripsOf(o)' = TripsOf(o), order'[o] = order[o],
           \A t \in TripsOf(o) :
               /\ trip[t] \in Started => trip'[t] \in Started
               /\ trip[t] \in {"delivered", "operationally_closed"}
                     => trip'[t] \in {"delivered", "operationally_closed"}
               /\ trip[t] \notin Started => trip'[t] \notin Started
    PROVE  FollowsTrips(o)'
    BY DEF FollowsTrips

LEMMA PlanFollows ==
    ASSUME TypeOK, OrderFollowsTrips, NEW t \in Trips, NEW p \in Plans, PlanTrip(t, p)
    PROVE  OrderFollowsTrips'
<1> /\ trip \in [Trips -> TripState]
    /\ tripPlan \in [Trips -> Plans \cup {None}]
    /\ order \in [Orders -> OrderState]
    BY DEF TypeOK, TripTypeOK
<1> SUFFICES ASSUME NEW o \in Orders PROVE FollowsTrips(o)'
    BY DEF OrderFollowsTrips, FollowsTrips
<1>1. FollowsTrips(o)
    BY DEF OrderFollowsTrips, FollowsTrips
<1>2. /\ trip[t] = "none"
      /\ trip' = [trip EXCEPT ![t] = "planned"]
      /\ tripPlan' = [tripPlan EXCEPT ![t] = p]
      /\ OrderOf[p] \in Orders
    BY DEF PlanTrip
<1>3. TripsOf(o)' = IF OrderOf[p] = o THEN TripsOf(o) \cup {t} ELSE TripsOf(o)
    BY <1>2 DEF TripsOf, OrderOfTrip
<1>4. t \notin TripsOf(o) /\ \A u \in TripsOf(o) : trip'[u] = trip[u]
    BY <1>2 DEF TripsOf
<1>5. "planned" \notin Started
    BY DEF Started, OnTheRoad
<1>6. CASE OrderOf[p] = o
    <2>1. order'[o] = IF order[o] = "committed" THEN "planned" ELSE order[o]
        BY <1>6 DEF PlanTrip
    <2>2. trip'[t] = "planned"
        BY <1>2
    <2>3. QED
        BY <1>1, <1>3, <1>4, <1>5, <1>6, <2>1, <2>2 DEF FollowsTrips, SettledState
<1>7. CASE OrderOf[p] # o
    <2>1. order'[o] = order[o]
        BY <1>7 DEF PlanTrip
    <2>2. QED
        BY <1>1, <1>3, <1>4, <1>7, <2>1 DEF FollowsTrips
<1>8. QED
    BY <1>6, <1>7

LEMMA StartFollows ==
    ASSUME TypeOK, OrderFollowsTrips, NEW t \in Trips, StartTrip(t)
    PROVE  OrderFollowsTrips'
<1> /\ trip \in [Trips -> TripState]
    /\ order \in [Orders -> OrderState]
    BY DEF TypeOK, TripTypeOK
<1> SUFFICES ASSUME NEW o \in Orders PROVE FollowsTrips(o)'
    BY DEF OrderFollowsTrips, FollowsTrips
<1>1. FollowsTrips(o)
    BY DEF OrderFollowsTrips, FollowsTrips
<1>2. /\ trip[t] = "released"
      /\ trip' = [trip EXCEPT ![t] = "en_route_to_origin"]
      /\ UNCHANGED tripPlan
    BY DEF StartTrip
<1>3. TripsOf(o)' = TripsOf(o)
    BY <1>2, TripsOfStay
<1>4. \A u \in Trips : u # t => trip'[u] = trip[u]
    BY <1>2
<1>5. CASE t \in TripsOf(o)
    <2>1. /\ order[o] # "committed"
          /\ order'[o] = IF order[o] = "planned" THEN "in_execution" ELSE order[o]
        BY <1>1, <1>5 DEF FollowsTrips, StartTrip, TripsOf
    <2>2. trip'[t] \in Started
        BY <1>2 DEF Started, OnTheRoad
    <2>3. \A u \in TripsOf(o) : trip[u] \in {"delivered", "operationally_closed"} =>
              trip'[u] = trip[u]
        BY <1>2, <1>4 DEF TripsOf
    <2>4. QED
        BY <1>1, <1>3, <1>5, <2>1, <2>2, <2>3 DEF FollowsTrips, SettledState
<1>6. CASE t \notin TripsOf(o)
    <2>1. OrderOfTrip(t) # o
        BY <1>2, <1>6 DEF TripsOf
    <2>2. order'[o] = order[o]
        BY <2>1 DEF StartTrip
    <2>3. \A u \in TripsOf(o) : trip'[u] = trip[u]
        BY <1>4, <1>6 DEF TripsOf
    <2>4. QED
        BY <1>1, <1>3, <2>2, <2>3, AdvanceFollows
<1>7. QED
    BY <1>5, <1>6

(* The settlement decides with the trip delivered that brought it about. *)
LEMMA OutcomeIsFollowed ==
    ASSUME TypeOK, OrderFollowsTrips, NEW t \in Trips, NEW i \in Visits, NEW outcome \in Outcomes,
           RecordStopOutcome(t, i, outcome)
    PROVE  OrderFollowsTrips'
<1> /\ trip \in [Trips -> TripState]
    /\ order \in [Orders -> OrderState]
    BY DEF TypeOK, TripTypeOK
<1> SUFFICES ASSUME NEW o \in Orders PROVE FollowsTrips(o)'
    BY DEF OrderFollowsTrips, FollowsTrips
<1>1. FollowsTrips(o)
    BY DEF OrderFollowsTrips, FollowsTrips
<1>2. /\ UNCHANGED tripPlan
      /\ \A u \in Trips : u # t => trip'[u] = trip[u]
      /\ \/ trip'[t] = trip[t]
         \/ trip[t] = "at_origin" /\ trip'[t] = "in_transit"
         \/ trip[t] = "at_destination" /\ trip'[t] = "delivered"
    BY DEF RecordStopOutcome
<1>3. TripsOf(o)' = TripsOf(o)
    BY <1>2, TripsOfStay
<1>4. \A u \in Trips :
          /\ trip[u] \in Started <=> trip'[u] \in Started
          /\ trip[u] \in {"delivered", "operationally_closed"}
                => trip'[u] \in {"delivered", "operationally_closed"}
    BY <1>2 DEF Started, OnTheRoad
<1>5. CASE order'[o] = order[o]
    BY <1>1, <1>3, <1>4, <1>5, AdvanceFollows DEF TripsOf
<1>6. CASE order'[o] # order[o]
    <2>1. /\ trip[t] = "at_destination" /\ trip'[t] = "delivered"
          /\ o = OrderOfTrip(t)
          /\ order'[o] = Settlement(o)
        BY <1>6 DEF RecordStopOutcome
    <2>2. order'[o] \in SettledState
        BY <1>6, <2>1 DEF Settlement, SettledState
    <2>3. t \in TripsOf(o)
        BY <2>1 DEF TripsOf
    <2>4. QED
        BY <1>3, <2>1, <2>2, <2>3 DEF FollowsTrips, SettledState
<1>7. QED
    BY <1>5, <1>6

LEMMA OrderStep ==
    ASSUME TypeOK, OrderFollowsTrips, [Next]_vars
    PROVE  OrderFollowsTrips'
<1> trip \in [Trips -> TripState]
    BY DEF TypeOK, TripTypeOK
<1>1. ASSUME UNCHANGED <<order, tripPlan>>,
             \A t \in Trips :
                 /\ trip'[t] # "none" <=> trip[t] # "none"
                 /\ trip[t] \in Started <=> trip'[t] \in Started
                 /\ trip[t] \in {"delivered", "operationally_closed"}
                       => trip'[t] \in {"delivered", "operationally_closed"}
      PROVE  OrderFollowsTrips'
    <2>1. ASSUME NEW o \in Orders PROVE FollowsTrips(o)'
        <3>1. FollowsTrips(o)
            BY DEF OrderFollowsTrips, FollowsTrips
        <3>2. TripsOf(o)' = TripsOf(o)
            BY <1>1, TripsOfStay
        <3>3. QED
            BY <1>1, <3>1, <3>2, AdvanceFollows DEF TripsOf
    <2>2. QED
        BY <2>1 DEF OrderFollowsTrips, FollowsTrips
<1>2. ASSUME NEW t \in Trips, NEW i \in Visits, RecordStopArrival(t, i)
      PROVE  OrderFollowsTrips'
    BY <1>1, <1>2 DEF RecordStopArrival, Started, OnTheRoad
<1>3. ASSUME NEW t \in Trips, CloseTripOperationally(t)
      PROVE  OrderFollowsTrips'
    BY <1>1, <1>3 DEF CloseTripOperationally, Started, OnTheRoad
<1>4. CASE /\ UNCHANGED <<order, tripPlan>>
           /\ \A t \in Trips : \/ trip'[t] = trip[t]
                               \/ /\ trip[t] \in PreRelease
                                  /\ trip'[t] \in PreRelease \cup {"released"}
    BY <1>1, <1>4 DEF PreRelease, Started, OnTheRoad
<1>5. QED
    BY <1>2, <1>3, <1>4, OtherSteps, PreparationMovesNothing, PlanFollows, StartFollows, OutcomeIsFollowed

(***************************************************************************)
(* The status of an order is explained by its trips, for any number of     *)
(* orders, plans and trips.                                                *)
(***************************************************************************)
THEOREM OrdersFollowTrips == Spec => []OrderFollowsTrips
<1>1. Init => OrderFollowsTrips
    BY DEF Init, OrderFollowsTrips, TripsOf, SettledState
<1>2. QED
    BY <1>1, OrderStep, TypeCorrect, PTL DEF Spec

(* Only an outcome settles an order, and it has seen every delivery. *)
LEMMA SettlingStep ==
    ASSUME TypeOK, [Next]_vars, NEW o \in Orders,
           order'[o] \in SettledState, order[o] \notin SettledState,
           NEW u \in TripsOf(o), NEW j \in Visits, Kind(u, j) = "delivery"
    PROVE  /\ stop'[u][j] \in Resolved
           /\ order'[o] = "fulfilled" => stop'[u][j] = "completed"
<1> order \in [Orders -> OrderState]
    BY DEF TypeOK, TripTypeOK
<1>1. ASSUME NEW t \in Trips, NEW p \in Plans, PlanTrip(t, p)
      PROVE  FALSE
    BY <1>1 DEF PlanTrip, SettledState
<1>2. ASSUME NEW t \in Trips, \/ StartTrip(t) \/ CloseTripOperationally(t)
                              \/ \E i \in Visits : RecordStopArrival(t, i)
      PROVE  FALSE
    BY <1>2 DEF StartTrip, CloseTripOperationally, RecordStopArrival, SettledState
<1>3. ASSUME NEW t \in Trips, NEW i \in Visits, NEW outcome \in Outcomes,
             RecordStopOutcome(t, i, outcome)
      PROVE  /\ stop'[u][j] \in Resolved
             /\ order'[o] = "fulfilled" => stop'[u][j] = "completed"
    <2>1. order'[o] = Settlement(o)
        BY <1>3 DEF RecordStopOutcome, SettledState
    <2>2. /\ DeliveryOutcomesOf(o) \subseteq Resolved
          /\ order'[o] = "fulfilled" => DeliveryOutcomesOf(o) \subseteq {"completed"}
        BY <2>1 DEF Settlement, SettledState
    <2>3. stop'[u][j] \in DeliveryOutcomesOf(o)
        BY DEF DeliveryOutcomesOf
    <2>4. QED
        BY <2>2, <2>3
<1>4. CASE UNCHANGED order
    BY <1>4
<1>5. QED
    BY <1>1, <1>2, <1>3, <1>4, OtherSteps, PreparationMovesNothing

(***************************************************************************)
(* An order is settled with every delivery of every trip it has, and       *)
(* fulfilled only if all of them are complete.                             *)
(***************************************************************************)
THEOREM OrdersSettleTruthfully == Spec => OrderSettlesTruthfully
<1>1. TypeOK /\ [Next]_vars =>
          [ \A o \in Orders : order'[o] \in SettledState /\ order[o] \notin SettledState =>
                \A t \in TripsOf(o) : \A i \in Visits : Kind(t, i) = "delivery" =>
                    /\ stop'[t][i] \in Resolved
                    /\ order'[o] = "fulfilled" => stop'[t][i] = "completed" ]_vars
    BY SettlingStep
<1>2. QED
    BY <1>1, TypeCorrect, PTL DEF Spec, OrderSettlesTruthfully

------------------------------------------------------------------------------
(* Drivers that visit the stops in order (module OrderlyExecution).  Their  *)
(* steps are steps of TripExecution, so what is proved above holds of them. *)

LEMMA OrderlyStepIsStep ==
    ASSUME [OrderlyNext]_vars
    PROVE  [Next]_vars
    BY DEF OrderlyNext, OrderlyDriving, Next, DrivingStep

LEMMA OrderlySteps ==
    ASSUME [OrderlyNext]_vars,
           ~ \E t \in Trips : \/ \E p \in Plans : PlanTrip(t, p)
                              \/ StartTrip(t)
                              \/ CloseTripOperationally(t)
                              \/ \E i \in Visits :
                                    /\ NextVisit(t, i)
                                    /\ \/ RecordStopArrival(t, i)
                                       \/ \E outcome \in Outcomes :
                                             RecordStopOutcome(t, i, outcome)
    PROVE  [PreparationStep]_vars
    BY DEF OrderlyNext, DispatchStep, OrderlyDriving, PreparationStep

LEMMA OrderlyIsExecution == OrderlySpec => Spec
<1>1. [OrderlyNext]_vars => [Next]_vars
    BY OrderlyStepIsStep
<1>2. QED
    BY <1>1, PTL DEF OrderlySpec, Spec

(* No stop of a trip that has not started was touched, and a trip on its   *)
(* way to the origin has its first pickup ahead.                           *)
Unreached(t) ==
    /\ trip[t] \in {"none", "released"} \cup PreRelease =>
          \A i \in Visits : stop[t][i] \in {"absent", "pending"}
    /\ trip[t] = "en_route_to_origin" =>
          \A i \in Visits : FirstPickup(t, i) => stop[t][i] = "pending"

AheadOfTheTrip == \A t \in Trips : Unreached(t)

(* A delivered trip has no delivery left to record: NextVisit asks for the *)
(* stops before the last delivery to be resolved.                          *)
DeliveredIsComplete ==
    \A t \in Trips : trip[t] \in {"delivered", "operationally_closed"} =>
        \A i \in Visits : Kind(t, i) = "delivery" => stop[t][i] \in Resolved

(* Stronger than OrdersSettle: the order does not wait for the closing. *)
DeliveredIsSettled ==
    \A o \in Orders :
        /\ TripsOf(o) # {}
        /\ \A t \in TripsOf(o) : trip[t] \in {"delivered", "operationally_closed"}
        => order[o] \in SettledState

(* How recording changes one trip. *)
LEMMA RecordingOne ==
    ASSUME TypeOK, NEW t \in Trips, NEW i \in Visits,
           \/ RecordStopArrival(t, i)
           \/ \E outcome \in Outcomes : RecordStopOutcome(t, i, outcome)
    PROVE  /\ UNCHANGED tripPlan
           /\ \A u \in Trips \ {t} : trip'[u] = trip[u] /\ stop'[u] = stop[u]
           /\ \A j \in Visits \ {i} : stop'[t][j] = stop[t][j]
           /\ \A j \in Visits : stop[t][j] \in Resolved => stop'[t][j] = stop[t][j]
<1> stop \in [Trips -> [Visits -> StopState]] /\ trip \in [Trips -> TripState]
    BY DEF TypeOK, TripTypeOK
<1>1. CASE RecordStopArrival(t, i)
    BY <1>1 DEF RecordStopArrival, Resolved
<1>2. CASE \E outcome \in Outcomes : RecordStopOutcome(t, i, outcome)
    BY <1>2 DEF RecordStopOutcome, Resolved
<1>3. QED
    BY <1>1, <1>2

LEMMA UnreachedStays ==
    ASSUME NEW t, Unreached(t), UNCHANGED <<tripPlan[t], stop[t]>>,
           \/ trip'[t] = trip[t]
           \/ trip[t] \in PreRelease /\ trip'[t] \in PreRelease \cup {"released"}
    PROVE  Unreached(t)'
<1>1. \A i \in Visits : FirstPickup(t, i)' <=> FirstPickup(t, i)
    BY DEF FirstPickup, Kind
<1>2. QED
    BY <1>1 DEF Unreached, PreRelease

LEMMA UnreachedStep ==
    ASSUME TypeOK, StopsAreThePlans, AheadOfTheTrip, [OrderlyNext]_vars
    PROVE  AheadOfTheTrip'
<1> /\ trip \in [Trips -> TripState]
    /\ tripPlan \in [Trips -> Plans \cup {None}]
    /\ stop \in [Trips -> [Visits -> StopState]]
    BY DEF TypeOK, TripTypeOK
<1> SUFFICES ASSUME NEW u \in Trips PROVE Unreached(u)'
    BY DEF AheadOfTheTrip
<1>0. Unreached(u)
    BY DEF AheadOfTheTrip
<1>1. ASSUME NEW t \in Trips, NEW p \in Plans, PlanTrip(t, p)
      PROVE  Unreached(u)'
    <2>1. u # t => trip'[u] = trip[u] /\ stop'[u] = stop[u] /\ tripPlan'[u] = tripPlan[u]
        BY <1>1 DEF PlanTrip
    <2>2. /\ trip'[t] = "planned"
          /\ \A i \in Visits : stop'[t][i] \in {"absent", "pending"}
        BY <1>1 DEF PlanTrip
    <2>3. QED
        BY <1>0, <2>1, <2>2, UnreachedStays DEF Unreached
<1>2. ASSUME NEW t \in Trips, StartTrip(t)
      PROVE  Unreached(u)'
    <2>1. /\ UNCHANGED <<stop, tripPlan>>
          /\ trip[t] = "released" /\ trip'[t] = "en_route_to_origin"
          /\ u # t => trip'[u] = trip[u]
        BY <1>2 DEF StartTrip
    <2>2. u = t => \A i \in Visits : FirstPickup(t, i)' => stop'[t][i] = "pending"
        BY <1>0, <2>1 DEF Unreached, StopsAreThePlans, FirstPickup, Kind
    <2>3. QED
        BY <1>0, <2>1, <2>2, UnreachedStays DEF Unreached, PreRelease
<1>3. ASSUME NEW t \in Trips, CloseTripOperationally(t)
      PROVE  Unreached(u)'
    <2>1. /\ UNCHANGED <<stop, tripPlan>>
          /\ trip'[t] = "operationally_closed"
          /\ u # t => trip'[u] = trip[u]
        BY <1>3 DEF CloseTripOperationally
    <2>2. QED
        BY <1>0, <2>1, UnreachedStays DEF Unreached, PreRelease
<1>4. ASSUME NEW t \in Trips, NEW i \in Visits, NextVisit(t, i),
             \/ RecordStopArrival(t, i)
             \/ \E outcome \in Outcomes : RecordStopOutcome(t, i, outcome)
      PROVE  Unreached(u)'
    <2>1. /\ UNCHANGED tripPlan
          /\ u # t => trip'[u] = trip[u] /\ stop'[u] = stop[u]
          /\ \A j \in Visits \ {i} : stop'[t][j] = stop[t][j]
        BY <1>4, RecordingOne
    <2>2. trip[t] \in OnTheRoad
        BY <1>4 DEF NextVisit
    <2>3. /\ trip'[t] \in OnTheRoad
          /\ trip'[t] = "en_route_to_origin" => trip[t] = "en_route_to_origin"
        BY <1>4, <2>2 DEF RecordStopArrival, RecordStopOutcome, OnTheRoad
    <2>4. trip'[t] = "en_route_to_origin" => ~FirstPickup(t, i)
        <3>1. CASE RecordStopArrival(t, i)
            BY <2>3, <3>1 DEF RecordStopArrival
        <3>2. CASE \E outcome \in Outcomes : RecordStopOutcome(t, i, outcome)
            <4>1. stop[t][i] = "arrived"
                BY <3>2 DEF RecordStopOutcome
            <4>2. QED
                BY <2>3, <4>1 DEF AheadOfTheTrip, Unreached
        <3>3. QED
            BY <1>4, <3>1, <3>2
    <2>5. \A j \in Visits : FirstPickup(t, j)' <=> FirstPickup(t, j)
        BY <2>1 DEF FirstPickup, Kind
    <2>6. CASE u = t
        <3>1. trip'[t] \notin {"none", "released"} \cup PreRelease
            BY <2>3 DEF OnTheRoad, PreRelease
        <3>2. trip'[t] = "en_route_to_origin" =>
                  \A j \in Visits : FirstPickup(t, j)' => stop'[t][j] = "pending"
            BY <1>0, <2>1, <2>3, <2>4, <2>5, <2>6 DEF Unreached
        <3>3. QED
            BY <2>6, <3>1, <3>2 DEF Unreached
    <2>7. QED
        BY <1>0, <2>1, <2>6, UnreachedStays
<1>5. ASSUME UNCHANGED <<order, tripPlan, stop>>,
             \A t \in Trips : \/ trip'[t] = trip[t]
                              \/ /\ trip[t] \in PreRelease
                                 /\ trip'[t] \in PreRelease \cup {"released"}
      PROVE  Unreached(u)'
    BY <1>0, <1>5, UnreachedStays
<1>6. QED
    BY <1>1, <1>2, <1>3, <1>4, <1>5, OrderlySteps, PreparationMovesNothing

(***************************************************************************)
(* Where drivers visit the stops in order, reaching the first pickup moves *)
(* the trip to its origin.                                                 *)
(***************************************************************************)
THEOREM OrderlyArrivalsMoveTheTrip == OrderlySpec => []ArrivalMovesTheTrip
<1>1. Init => AheadOfTheTrip
    BY DEF Init, AheadOfTheTrip, Unreached
<1>2. AheadOfTheTrip => ArrivalMovesTheTrip
    BY DEF AheadOfTheTrip, Unreached, ArrivalMovesTheTrip
<1>3. QED
    BY <1>1, <1>2, UnreachedStep, TypeCorrect, StopsStayThePlans, OrderlyIsExecution, PTL
        DEF OrderlySpec

LEMMA CompleteStep ==
    ASSUME TypeOK, StopsAreThePlans, DeliveredIsComplete, [OrderlyNext]_vars
    PROVE  DeliveredIsComplete'
<1> /\ trip \in [Trips -> TripState]
    /\ tripPlan \in [Trips -> Plans \cup {None}]
    /\ stop \in [Trips -> [Visits -> StopState]]
    BY DEF TypeOK, TripTypeOK
<1> USE DEF DeliveredIsComplete
<1>1. ASSUME NEW t \in Trips, NEW p \in Plans, PlanTrip(t, p)
      PROVE  DeliveredIsComplete'
    <2>1. \A u \in Trips \ {t} : /\ trip'[u] = trip[u] /\ stop'[u] = stop[u]
                                 /\ tripPlan'[u] = tripPlan[u]
        BY <1>1 DEF PlanTrip
    <2>2. trip'[t] = "planned"
        BY <1>1 DEF PlanTrip
    <2>3. QED
        BY <2>1, <2>2 DEF Kind
<1>2. ASSUME NEW t \in Trips, StartTrip(t) \/ CloseTripOperationally(t)
      PROVE  DeliveredIsComplete'
    <2>1. /\ UNCHANGED <<stop, tripPlan>>
          /\ \A u \in Trips : trip'[u] \in {"delivered", "operationally_closed"} =>
                trip[u] \in {"delivered", "operationally_closed"}
        BY <1>2 DEF StartTrip, CloseTripOperationally
    <2>2. QED
        BY <2>1 DEF Kind
<1>3. ASSUME NEW t \in Trips, NEW i \in Visits, NextVisit(t, i),
             \/ RecordStopArrival(t, i)
             \/ \E outcome \in Outcomes : RecordStopOutcome(t, i, outcome)
      PROVE  DeliveredIsComplete'
    <2> SUFFICES ASSUME NEW u \in Trips, trip'[u] \in {"delivered", "operationally_closed"},
                        NEW j \in Visits, Kind(u, j)' = "delivery"
                 PROVE  stop'[u][j] \in Resolved
        OBVIOUS
    <2>1. Kind(u, j) = "delivery"
        BY <1>3, RecordingOne DEF Kind
    <2>2. CASE trip[u] \in {"delivered", "operationally_closed"}
        BY <1>3, <2>1, <2>2, RecordingOne
    <2>3. CASE trip[u] \notin {"delivered", "operationally_closed"}
        <3>1. u = t
            BY <1>3, <2>3, RecordingOne
        <3>2. /\ \E outcome \in Outcomes : RecordStopOutcome(t, i, outcome)
              /\ LastDelivery(t, i) /\ trip[t] = "at_destination"
            BY <1>3, <2>3, <3>1 DEF RecordStopArrival, RecordStopOutcome
        <3>3. stop'[t][i] \in Resolved
            BY <3>2 DEF RecordStopOutcome, Resolved
        <3>4. j \in StopsOf(t)
            BY <2>1, <3>1, <3>2 DEF StopsAreThePlans, StopsOf
        <3>5. j < i => stop[t][j] \in Resolved
            BY <1>3, <3>4 DEF NextVisit
        <3>6. j = i \/ j < i
            BY <2>1, <3>1, <3>2, VisitsAreNumbers DEF LastDelivery
        <3>7. QED
            BY <1>3, <3>1, <3>3, <3>5, <3>6, RecordingOne
    <2>4. QED
        BY <2>2, <2>3
<1>4. ASSUME UNCHANGED <<order, tripPlan, stop>>,
             \A t \in Trips : \/ trip'[t] = trip[t]
                              \/ /\ trip[t] \in PreRelease
                                 /\ trip'[t] \in PreRelease \cup {"released"}
      PROVE  DeliveredIsComplete'
    BY <1>4 DEF PreRelease, Kind
<1>5. QED
    BY <1>1, <1>2, <1>3, <1>4, OrderlySteps, PreparationMovesNothing

(* A trip that becomes delivered was at its destination, and it is the one *)
(* whose last delivery is recorded.                                        *)
LEMMA SettledStep ==
    ASSUME TypeOK, StopsAreThePlans, OrderFollowsTrips, DeliveredIsComplete, DeliveredIsComplete',
           DeliveredIsSettled, [OrderlyNext]_vars
    PROVE  DeliveredIsSettled'
<1> /\ trip \in [Trips -> TripState]
    /\ order \in [Orders -> OrderState]
    /\ tripPlan \in [Trips -> Plans \cup {None}]
    BY DEF TypeOK, TripTypeOK
<1> DEFINE Done == {"delivered", "operationally_closed"}
<1> SUFFICES ASSUME NEW o \in Orders, TripsOf(o)' # {}, \A u \in TripsOf(o)' : trip'[u] \in Done
             PROVE  order'[o] \in SettledState
    BY DEF DeliveredIsSettled
<1>1. ASSUME UNCHANGED tripPlan, order'[o] = order[o] \/ order'[o] \in SettledState,
             \A u \in Trips : /\ trip'[u] # "none" <=> trip[u] # "none"
                              /\ trip'[u] \in Done => trip[u] \in Done
      PROVE  order'[o] \in SettledState
    <2>1. TripsOf(o)' = TripsOf(o)
        BY <1>1, TripsOfStay
    <2>2. order[o] \in SettledState
        BY <1>1, <2>1 DEF DeliveredIsSettled, TripsOf
    <2>3. QED
        BY <1>1, <2>2
<1>2. ASSUME NEW t \in Trips, NEW p \in Plans, PlanTrip(t, p)
      PROVE  order'[o] \in SettledState
    <2>1. /\ trip[t] = "none" /\ trip' = [trip EXCEPT ![t] = "planned"]
          /\ tripPlan' = [tripPlan EXCEPT ![t] = p]
        BY <1>2 DEF PlanTrip
    <2>2. TripsOf(o)' = IF OrderOf[p] = o THEN TripsOf(o) \cup {t} ELSE TripsOf(o)
        BY <2>1 DEF TripsOf, OrderOfTrip
    <2>3. OrderOf[p] # o
        BY <2>1, <2>2
    <2>4. t \notin TripsOf(o)
        BY <2>1 DEF TripsOf
    <2>5. \A u \in TripsOf(o) : trip'[u] = trip[u]
        BY <2>1, <2>4 DEF TripsOf
    <2>6. order'[o] = order[o]
        BY <1>2, <2>3 DEF PlanTrip
    <2>7. QED
        BY <2>2, <2>3, <2>5, <2>6 DEF DeliveredIsSettled
<1>3. ASSUME NEW t \in Trips, StartTrip(t)
      PROVE  order'[o] \in SettledState
    <2>1. trip' = [trip EXCEPT ![t] = "en_route_to_origin"] /\ UNCHANGED tripPlan
        BY <1>3 DEF StartTrip
    <2>2. t \notin TripsOf(o)'
        BY <2>1
    <2>3. OrderOfTrip(t) # o
        BY <2>1, <2>2 DEF TripsOf, OrderOfTrip
    <2>4. order'[o] = order[o]
        BY <1>3, <2>3 DEF StartTrip
    <2>5. \A u \in Trips : /\ trip'[u] # "none" <=> trip[u] # "none"
                           /\ trip'[u] \in Done => trip[u] \in Done
        BY <1>3, <2>1 DEF StartTrip
    <2>6. QED
        BY <1>1, <2>1, <2>4, <2>5
<1>4. ASSUME NEW t \in Trips,
             CloseTripOperationally(t) \/ \E i \in Visits : RecordStopArrival(t, i)
      PROVE  order'[o] \in SettledState
    <2>1. /\ UNCHANGED <<order, tripPlan>>
          /\ \A u \in Trips : /\ trip'[u] # "none" <=> trip[u] # "none"
                              /\ trip'[u] \in Done => trip[u] \in Done
        BY <1>4 DEF CloseTripOperationally, RecordStopArrival
    <2>2. QED
        BY <1>1, <2>1
<1>5. ASSUME NEW t \in Trips, NEW i \in Visits, NEW outcome \in Outcomes,
             RecordStopOutcome(t, i, outcome)
      PROVE  order'[o] \in SettledState
    <2>1. CASE trip[t] = "at_destination" /\ OrderOfTrip(t) = o /\ UNCHANGED trip
        <3>1. t \in TripsOf(o)'
            BY <1>5, <2>1 DEF TripsOf, OrderOfTrip, RecordStopOutcome
        <3>2. QED
            BY <2>1, <3>1
    <2>2. CASE /\ trip[t] = "at_destination" /\ OrderOfTrip(t) = o
               /\ trip' = [trip EXCEPT ![t] = "delivered"]
               /\ order' = [order EXCEPT ![o] = Settlement(o)]
        <3>1. UNCHANGED tripPlan
            BY <1>5 DEF RecordStopOutcome
        <3>2. TripsOf(o)' = TripsOf(o)
            BY <2>2, <3>1, TripsOfStay
        <3>3. t \in TripsOf(o) /\ trip[t] \in Started
            BY <2>2 DEF TripsOf, Started, OnTheRoad
        <3>4. order[o] \in {"in_execution"} \cup SettledState
            BY <3>3 DEF OrderFollowsTrips, OrderState
        <3>5. DeliveryOutcomesOf(o) \subseteq Resolved
            <4>1. \A u \in TripsOf(o) : trip'[u] \in Done /\ u \in Trips
                BY <3>2 DEF TripsOf
            <4>2. \A u \in TripsOf(o) : \A j \in Visits :
                      Kind(u, j) = "delivery" => stop'[u][j] \in Resolved
                BY <3>1, <4>1 DEF DeliveredIsComplete, Kind
            <4>3. QED
                BY <4>2 DEF DeliveryOutcomesOf
        <3>6. Settlement(o) \in SettledState
            BY <3>4, <3>5 DEF Settlement, SettledState
        <3>7. QED
            BY <2>2, <3>6
    <2>3. CASE ~(trip[t] = "at_destination" /\ OrderOfTrip(t) = o)
        <3>1. /\ UNCHANGED tripPlan
              /\ order'[o] = order[o]
              /\ \A u \in Trips : trip'[u] # "none" <=> trip[u] # "none"
              /\ \A u \in Trips \ {t} : trip'[u] = trip[u]
            BY <1>5, <2>3 DEF RecordStopOutcome
        <3>2. TripsOf(o)' = TripsOf(o)
            BY <3>1, TripsOfStay
        <3>3. t \in TripsOf(o) => (trip'[t] \in Done => trip[t] \in Done)
            BY <1>5, <2>3 DEF RecordStopOutcome, TripsOf
        <3>4. \A u \in TripsOf(o) : trip[u] \in Done
            BY <3>1, <3>2, <3>3 DEF TripsOf
        <3>5. QED
            BY <3>1, <3>2, <3>4 DEF DeliveredIsSettled
    <2>4. QED
        BY <1>5, <2>1, <2>2, <2>3 DEF RecordStopOutcome
<1>6. CASE /\ UNCHANGED <<order, tripPlan, stop>>
           /\ \A t \in Trips : \/ trip'[t] = trip[t]
                               \/ /\ trip[t] \in PreRelease
                                  /\ trip'[t] \in PreRelease \cup {"released"}
    BY <1>1, <1>6 DEF PreRelease
<1>7. QED
    BY <1>2, <1>3, <1>4, <1>5, <1>6, OrderlySteps, PreparationMovesNothing

(***************************************************************************)
(* Where drivers visit the stops in order, an order whose trips are all    *)
(* closed is settled: no closed trip keeps a delivery from it.             *)
(***************************************************************************)
THEOREM OrderlyOrdersSettle == OrderlySpec => []OrdersSettle
<1>1. Init => DeliveredIsComplete /\ DeliveredIsSettled
    BY DEF Init, DeliveredIsComplete, DeliveredIsSettled, TripsOf
<1>2. DeliveredIsSettled => OrdersSettle
    BY DEF DeliveredIsSettled, OrdersSettle
<1>3. OrderlySpec => []DeliveredIsComplete
    BY <1>1, CompleteStep, TypeCorrect, StopsStayThePlans, OrderlyIsExecution, PTL
        DEF OrderlySpec
<1>4. OrderlySpec => []DeliveredIsSettled
    BY <1>1, <1>3, SettledStep, TypeCorrect, StopsStayThePlans, OrdersFollowTrips,
       OrderlyIsExecution, PTL DEF OrderlySpec
<1>5. QED
    BY <1>2, <1>4, PTL
==============================================================================
