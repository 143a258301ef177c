------------------------------ MODULE TripRaces ------------------------------
(***************************************************************************)
(* The trip commands as PostgreSQL runs them: READ COMMITTED transactions  *)
(* that read a row without locking it (getTrip, requireStop), decide, and  *)
(* then write whatever the row holds by then (update ... where id = $1).   *)
(*                                                                         *)
(* A command of a session is split where another session's commit may fall *)
(* in: each read is a step, and the writes with the commit are one step,   *)
(* since row locks keep other writers out from the first write on.  The    *)
(* one command that reads after it has written, the outcome that settles   *)
(* the order, holds the lock of its trip in between.  The last line of     *)
(* defence is the constraints of migration 0016 and the unique indexes:    *)
(* a commit that would break one is not enabled, and the session aborts.   *)
(*                                                                         *)
(* The order and its route plan stand; the trips have been planned and     *)
(* each has the itinerary <<pickup, delivery>>.  Every outcome is          *)
(* "completed".  The revision that a client may send with If-Match is      *)
(* compared with the revision just read, which is the row that "seen" was  *)
(* read from: it rejects some commands at their first step and is left out.*)
(***************************************************************************)
EXTENDS Naturals, FiniteSets

CONSTANTS
    Trips, Drivers, Sessions,
    None,
    Start,      \* Start[t]: how many steps of Course trip t has taken at first
    MaxEvents,  \* bound on the events of a trip
    Blockable   \* drivers that the fleet manager may block

ASSUME MaxEventsAssumption == MaxEvents \in Nat \ {0}

ASSUME StartAssumption == Start \in [Trips -> (1 .. 9) \cap (1 .. MaxEvents)]

ASSUME BlockableAssumption == Blockable \subseteq Drivers

ASSUME NoneIsNothing == None \notin Trips \cup Drivers

Pickup == 1

Delivery == 2

Visits == {Pickup, Delivery}

VARIABLES
    order,      \* status of the order of the trips
    trip,       \* trip[t]: status column
    wasReleased,\* trips with released_at set
    driver,     \* driver[t]: driver of the current assignment, or None
    confirmed,  \* trips whose current assignment is confirmed
    stop,       \* stop[t][i]: status column of the stop execution
    outcomes,   \* outcomes[t]: visits with a row in delivery_outcome
    eventSeq,   \* eventSeq[t]
    outbox,     \* outbox[t]: <<aggregate_version, event_type>> of its events
    blocked,    \* blocked drivers
    alerted,    \* trips with a trip_exception
    session     \* session[s]: the transaction s is in

tripVars == <<trip, wasReleased, driver, confirmed, stop, outcomes>>

vars == <<order, tripVars, eventSeq, outbox, blocked, alerted, session>>

------------------------------------------------------------------------------
PreRelease == {"planned", "assigned", "confirmed"}

ActiveState ==
    { "released", "en_route_to_origin", "at_origin", "in_transit", "at_destination", "delivered" }

TripState == PreRelease \cup ActiveState \cup {"operationally_closed"}

(* The transitions of tripLifecycle that each command asserts on what it read. *)
Accepted ==
    [ AssignResources        |-> PreRelease,
      ConfirmAssignment      |-> {"assigned"},
      ReleaseTrip            |-> {"confirmed"},
      StartTrip              |-> {"released"},
      CloseTripOperationally |-> {"delivered"} ]

TripCommand == DOMAIN Accepted

StopCommand == {"RecordStopArrival", "RecordStopOutcome"}

EventType ==
    { "TripPlanned", "ResourceAssigned", "AssignmentConfirmed", "TripReleased", "TripStarted",
      "StopArrived", "DeliveryCompleted", "TripOperationallyClosed" }

Idle == [command |-> "none", on |-> None, visit |-> 0, phase |-> "idle",
         seen |-> "none", seq |-> 0, found |-> {}]

(* Phases: "reading" has more to read, "locked" has written but not committed. *)
Session ==
    [ command : {"none", "BlockResource"} \cup TripCommand \cup StopCommand,
      on      : {None} \cup Trips \cup Drivers,
      visit   : {0} \cup Visits,
      phase   : {"idle", "reading", "locked", "ready"},
      seen    : {"none"} \cup TripState,    \* status the trip had when it was read
      seq     : 0 .. MaxEvents - 1,         \* event_seq then
      found   : SUBSET Trips ]              \* trips found by the last query

(* Every variable has its type. *)
TypeOK ==
    /\ order \in {"planned", "in_execution", "fulfilled"}
    /\ trip \in [Trips -> TripState]
    /\ wasReleased \subseteq Trips
    /\ driver \in [Trips -> Drivers \cup {None}]
    /\ confirmed \subseteq Trips
    /\ stop \in [Trips -> [Visits -> {"pending", "arrived", "completed"}]]
    /\ outcomes \in [Trips -> SUBSET Visits]
    /\ eventSeq \in [Trips -> 1 .. MaxEvents]
    /\ outbox \in [Trips -> SUBSET ((1 .. MaxEvents) \X EventType)]
    /\ blocked \subseteq Drivers
    /\ alerted \subseteq Trips
    /\ session \in [Sessions -> Session]

(* The life of a trip with one command at a time: its statuses and events. *)
Course ==
    << <<"planned", "TripPlanned">>,
       <<"assigned", "ResourceAssigned">>,
       <<"confirmed", "AssignmentConfirmed">>,
       <<"released", "TripReleased">>,
       <<"en_route_to_origin", "TripStarted">>,
       <<"at_origin", "StopArrived">>,
       <<"in_transit", "DeliveryCompleted">>,
       <<"at_destination", "StopArrived">>,
       <<"delivered", "DeliveryCompleted">> >>

(* What step n of Course has done is done. *)
Past(n) == {t \in Trips : Start[t] >= n}

Init ==
    /\ order = IF Past(5) = {} THEN "planned" ELSE "in_execution"
    /\ trip = [t \in Trips |-> Course[Start[t]][1]]
    /\ wasReleased = Past(4)
    /\ driver \in [Trips -> Drivers \cup {None}]
    /\ \A t \in Trips : driver[t] # None <=> t \in Past(2)
    /\ \A t, u \in Past(4) : t # u => driver[t] # driver[u]
    /\ confirmed = Past(3)
    /\ stop = [t \in Trips |-> [i \in Visits |->
                 CASE t \in Past(2 * i + 5) -> "completed"
                   [] t \in Past(2 * i + 4) \ Past(2 * i + 5) -> "arrived"
                   [] OTHER -> "pending"]]
    /\ outcomes = [t \in Trips |-> {i \in Visits : t \in Past(2 * i + 5)}]
    /\ eventSeq = Start
    /\ outbox = [t \in Trips |-> {<<n, Course[n][2]>> : n \in 1 .. Start[t]}]
    /\ blocked = {}
    /\ alerted = {}
    /\ session = [s \in Sessions |-> Idle]

------------------------------------------------------------------------------
(* Reads. *)

Running(s, command, phase) ==
    session[s].command = command /\ session[s].phase = phase

(* The first read of a trip command, and the lifecycle it asserts on it. *)
ReadTrip(s, command, t) ==
    /\ session[s] = Idle
    /\ trip[t] \in Accepted[command]
    /\ eventSeq[t] < MaxEvents
    /\ session' = [session EXCEPT ![s] =
                      [command |-> command, on |-> t, visit |-> 0,
                       phase |-> IF command = "ReleaseTrip" THEN "reading" ELSE "ready",
                       seen |-> trip[t], seq |-> eventSeq[t], found |-> {}]]
    /\ UNCHANGED <<order, tripVars, eventSeq, outbox, blocked, alerted>>

(* A stop command reads its stop first and the trip in a later statement. *)
ReadStop(s, command, t, i) ==
    /\ session[s] = Idle
    /\ stop[t][i] = IF command = "RecordStopArrival" THEN "pending" ELSE "arrived"
    /\ session' = [session EXCEPT ![s] =
                      [command |-> command, on |-> t, visit |-> i, phase |-> "reading",
                       seen |-> "none", seq |-> 0, found |-> {}]]
    /\ UNCHANGED <<order, tripVars, eventSeq, outbox, blocked, alerted>>

Settles(s) ==
    /\ session[s].command = "RecordStopOutcome"
    /\ session[s].visit = Delivery
    /\ session[s].seen = "at_destination"

ReadTripOfStop(s) ==
    LET t == session[s].on
    IN  /\ session[s].command \in StopCommand
        /\ session[s].phase = "reading"
        /\ eventSeq[t] < MaxEvents
        /\ session' = [session EXCEPT ![s].seen = trip[t], ![s].seq = eventSeq[t],
                                      ![s].phase = "ready"]
        /\ UNCHANGED <<order, tripVars, eventSeq, outbox, blocked, alerted>>

(* The gate: nobody blocked the driver and no other active trip has him. *)
GateIsClear(t) ==
    /\ order \in {"planned", "in_execution"}
    /\ t \in confirmed
    /\ driver[t] \notin blocked
    /\ \A u \in Trips \ {t} :
          ~(trip[u] \in ActiveState /\ u \in confirmed /\ driver[u] = driver[t])

(* A gate that is not clear answers with its causes and ends the transaction. *)
ReadGate(s) ==
    /\ session[s].command = "ReleaseTrip"
    /\ session[s].phase = "reading"
    /\ session' = [session EXCEPT ![s] = IF GateIsClear(@.on) THEN [@ EXCEPT !.phase = "ready"]
                                                               ELSE Idle]
    /\ UNCHANGED <<order, tripVars, eventSeq, outbox, blocked, alerted>>

------------------------------------------------------------------------------
(* Writes.                                                                  *)

(* Another transaction has written row x and not yet committed. *)
LockedByOther(s, x) ==
    \E other \in Sessions \ {s} : session[other].phase = "locked" /\ session[other].on = x

(***************************************************************************)
(* trip_released_consistency: released_at, never cleared, excludes the     *)
(* statuses before the release; trip_closed_consistency: closed_at, never  *)
(* cleared, excludes all but operationally_closed.                         *)
(***************************************************************************)
ConstraintsAllow(t, status) ==
    /\ t \in wasReleased => status \notin PreRelease
    /\ trip[t] = "operationally_closed" => status = "operationally_closed"

SetStatus(t, status) ==
    /\ ConstraintsAllow(t, status)
    /\ trip' = [trip EXCEPT ![t] = status]

(* A mistake in the next definition: an event that exists is not enqueued twice. *)
EmitOnConflictDoNothing(s, event) ==
    LET t == session[s].on
    IN  /\ eventSeq[t] < MaxEvents
        /\ outbox' = [outbox EXCEPT ![t] = @ \cup {<<session[s].seq + 1, event>>}]
        /\ eventSeq' = [eventSeq EXCEPT ![t] = @ + 1]

(***************************************************************************)
(* enqueueEvent with the event_seq read at first, against                  *)
(* outbox_aggregate_event_key; event_seq itself is incremented in place.   *)
(***************************************************************************)
Emit(s, event) ==
    LET t == session[s].on
        version == session[s].seq + 1
    IN  /\ eventSeq[t] < MaxEvents
        /\ <<version, event>> \notin outbox[t]
        /\ outbox' = [outbox EXCEPT ![t] = @ \cup {<<version, event>>}]
        /\ eventSeq' = [eventSeq EXCEPT ![t] = @ + 1]

Committing(s, command) ==
    /\ session[s].command = command
    /\ session[s].phase = "ready"
    /\ ~LockedByOther(s, session[s].on)
    /\ session' = [session EXCEPT ![s] = Idle]

(* A mistake in the next definition: the constraints of assignment and trip are absent. *)
CommitAssignResourcesUnchecked(s, d) ==
    LET t == session[s].on
    IN  /\ Committing(s, "AssignResources")
        /\ driver' = [driver EXCEPT ![t] = d]
        /\ trip' = [trip EXCEPT ![t] = "assigned"]
        /\ confirmed' = confirmed \ {t}
        /\ Emit(s, "ResourceAssigned")
        /\ UNCHANGED <<order, wasReleased, stop, outcomes, blocked, alerted>>

(* Superseding a confirmed assignment breaks assignment_confirmed_consistency. *)
CommitAssignResources(s, d) ==
    LET t == session[s].on
    IN  /\ Committing(s, "AssignResources")
        /\ t \notin confirmed
        /\ driver' = [driver EXCEPT ![t] = d]
        /\ SetStatus(t, "assigned")
        /\ Emit(s, "ResourceAssigned")
        /\ UNCHANGED <<order, wasReleased, confirmed, stop, outcomes, blocked, alerted>>

(* The update of the proposed assignment must find one. *)
CommitConfirmAssignment(s) ==
    LET t == session[s].on
    IN  /\ Committing(s, "ConfirmAssignment")
        /\ driver[t] # None /\ t \notin confirmed
        /\ confirmed' = confirmed \cup {t}
        /\ SetStatus(t, "confirmed")
        /\ Emit(s, "AssignmentConfirmed")
        /\ UNCHANGED <<order, wasReleased, driver, stop, outcomes, blocked, alerted>>

CommitReleaseTrip(s) ==
    LET t == session[s].on
    IN  /\ Committing(s, "ReleaseTrip")
        /\ SetStatus(t, "released")
        /\ wasReleased' = wasReleased \cup {t}
        /\ Emit(s, "TripReleased")
        /\ UNCHANGED <<order, driver, confirmed, stop, outcomes, blocked, alerted>>

CommitStartTrip(s) ==
    /\ Committing(s, "StartTrip")
    /\ SetStatus(session[s].on, "en_route_to_origin")
    /\ order' = IF order = "planned" THEN "in_execution" ELSE order
    /\ Emit(s, "TripStarted")
    /\ UNCHANGED <<wasReleased, driver, confirmed, stop, outcomes, blocked, alerted>>

CommitStopArrival(s) ==
    LET t == session[s].on
        i == session[s].visit
    IN  /\ Committing(s, "RecordStopArrival")
        /\ stop' = [stop EXCEPT ![t][i] = "arrived"]
        /\ \/ /\ session[s].seen = "en_route_to_origin" /\ i = Pickup
              /\ SetStatus(t, "at_origin")
           \/ /\ session[s].seen = "in_transit" /\ i = Delivery
              /\ SetStatus(t, "at_destination")
           \/ /\ <<session[s].seen, i>> \notin
                    {<<"en_route_to_origin", Pickup>>, <<"in_transit", Delivery>>}
              /\ UNCHANGED trip
        /\ Emit(s, "StopArrived")
        /\ UNCHANGED <<order, wasReleased, driver, confirmed, outcomes, blocked, alerted>>

(* delivery_outcome_stop_key: one outcome per stop. *)
RecordOutcome(s) ==
    LET t == session[s].on
        i == session[s].visit
    IN  /\ i \notin outcomes[t]
        /\ outcomes' = [outcomes EXCEPT ![t] = @ \cup {i}]
        /\ stop' = [stop EXCEPT ![t][i] = "completed"]
        /\ Emit(s, "DeliveryCompleted")
        /\ UNCHANGED <<wasReleased, driver, confirmed, blocked, alerted>>

CommitStopOutcome(s) ==
    /\ Committing(s, "RecordStopOutcome")
    /\ ~Settles(s)
    /\ RecordOutcome(s)
    /\ IF session[s].seen = "at_origin" /\ session[s].visit = Pickup
       THEN SetStatus(session[s].on, "in_transit")
       ELSE UNCHANGED trip
    /\ UNCHANGED order

(* A mistake in the next definition: only the deliveries of this trip are counted. *)
ReadSettlementOfTrip(s) ==
    /\ session[s].phase = "ready"
    /\ Settles(s)
    /\ ~LockedByOther(s, session[s].on)
    /\ session' = [session EXCEPT ![s].phase = "locked", ![s].found = {}]
    /\ UNCHANGED <<order, tripVars, eventSeq, outbox, blocked, alerted>>

(***************************************************************************)
(* The outcome of the last delivery writes its rows, and then settleOrder  *)
(* reads what is pending: the outcomes that others have committed by then. *)
(***************************************************************************)
ReadSettlement(s) ==
    LET t == session[s].on
    IN  /\ session[s].phase = "ready"
        /\ Settles(s)
        /\ ~LockedByOther(s, t)
        /\ session' = [session EXCEPT
                          ![s].phase = "locked",
                          ![s].found = {u \in Trips \ {t} : Delivery \notin outcomes[u]}]
        /\ UNCHANGED <<order, tripVars, eventSeq, outbox, blocked, alerted>>

CommitDelivery(s) ==
    /\ Settles(s)
    /\ session[s].phase = "locked"
    /\ session' = [session EXCEPT ![s] = Idle]
    /\ RecordOutcome(s)
    /\ SetStatus(session[s].on, "delivered")
    /\ order' = IF order = "in_execution" /\ session[s].found = {} THEN "fulfilled" ELSE order

CommitCloseTrip(s) ==
    LET t == session[s].on
    IN  /\ Committing(s, "CloseTripOperationally")
        /\ outcomes[t] = Visits
        /\ SetStatus(t, "operationally_closed")
        /\ Emit(s, "TripOperationallyClosed")
        /\ UNCHANGED <<order, wasReleased, driver, confirmed, stop, outcomes, blocked, alerted>>

(***************************************************************************)
(* blockResource writes the driver's row and then reads the active trips   *)
(* that have him; its event, about the resource, allows it once.           *)
(***************************************************************************)
BlockAndReadTrips(s, d) ==
    /\ session[s] = Idle
    /\ d \notin blocked
    /\ ~LockedByOther(s, d)
    /\ session' = [session EXCEPT ![s] =
                      [command |-> "BlockResource", on |-> d, visit |-> 0, phase |-> "locked",
                       seen |-> "none", seq |-> 0,
                       found |-> {t \in confirmed : trip[t] \in ActiveState /\ driver[t] = d}]]
    /\ UNCHANGED <<order, tripVars, eventSeq, outbox, blocked, alerted>>

CommitBlock(s) ==
    /\ session[s].command = "BlockResource"
    /\ blocked' = blocked \cup {session[s].on}
    /\ alerted' = alerted \cup session[s].found
    /\ session' = [session EXCEPT ![s] = Idle]
    /\ UNCHANGED <<order, tripVars, eventSeq, outbox>>

(* A rejection, a constraint, a deadlock or a lost connection: rollback. *)
Abort(s) ==
    /\ session[s] # Idle
    /\ session' = [session EXCEPT ![s] = Idle]
    /\ UNCHANGED <<order, tripVars, eventSeq, outbox, blocked, alerted>>

Reading(s) ==
    \/ \E t \in Trips, command \in TripCommand : ReadTrip(s, command, t)
    \/ \E t \in Trips, i \in Visits, command \in StopCommand : ReadStop(s, command, t, i)
    \/ ReadTripOfStop(s)
    \/ ReadGate(s)
    \/ ReadSettlement(s)
    \/ \E d \in Blockable : BlockAndReadTrips(s, d)

Committed(s) ==
    \/ \E d \in Drivers : CommitAssignResources(s, d)
    \/ CommitConfirmAssignment(s)
    \/ CommitReleaseTrip(s)
    \/ CommitStartTrip(s)
    \/ CommitStopArrival(s)
    \/ CommitStopOutcome(s)
    \/ CommitDelivery(s)
    \/ CommitCloseTrip(s)
    \/ CommitBlock(s)

Next == \E s \in Sessions : Reading(s) \/ Committed(s) \/ Abort(s)

Spec == Init /\ [][Next]_vars

------------------------------------------------------------------------------
(* What the constraints save from concurrent commands.                      *)

(***************************************************************************)
(* Once a trip is released its driver and his confirmation stand, although *)
(* assignResources and confirmAssignment may act on a status that was read *)
(* before the release.                                                     *)
(***************************************************************************)
CrewStandsAfterRelease ==
    [][ \A t \in wasReleased :
          driver'[t] = driver[t] /\ t \in confirmed' /\ trip'[t] \notin PreRelease ]_vars

(***************************************************************************)
(* A closed trip stays closed with an outcome for every stop, although     *)
(* commands that read it before it was closed still write its status.      *)
(***************************************************************************)
ClosedStands ==
    [][ \A t \in Trips : trip[t] = "operationally_closed" =>
          trip'[t] = "operationally_closed" /\ outcomes'[t] = Visits ]_vars

(***************************************************************************)
(* An order is fulfilled only when the delivery of every trip has its      *)
(* outcome, whatever settleOrder missed of the transactions under way.  A  *)
(* trip that is planned only then is not among them.                       *)
(***************************************************************************)
FulfilledIsDelivered ==
    order = "fulfilled" => \A t \in Trips : Delivery \in outcomes[t]

(***************************************************************************)
(* No command commits without its event: event_seq counts the events of    *)
(* the trip in the outbox, also when several carry the same version.       *)
(***************************************************************************)
EveryCommitPublishes ==
    \A t \in Trips : Cardinality(outbox[t]) = eventSeq[t]

------------------------------------------------------------------------------
(* What documents and comments promise and concurrent commands break.       *)

(* How far along its life cycle a trip is. *)
Progress(status) ==
    CASE status \in PreRelease -> 0
      [] status = "released" -> 1
      [] status = "en_route_to_origin" -> 2
      [] status = "at_origin" -> 3
      [] status = "in_transit" -> 4
      [] status = "at_destination" -> 5
      [] status = "delivered" -> 6
      [] OTHER -> 7

(***************************************************************************)
(* A released trip only advances: no transition of tripLifecycle goes      *)
(* back, and "las transiciones validan versión optimista para evitar       *)
(* dobles acciones" (docs/03 section 1).                                   *)
(***************************************************************************)
TripNeverGoesBack ==
    [][ \A t \in Trips : Progress(trip[t]) <= Progress(trip'[t]) ]_vars

(***************************************************************************)
(* The versions of the events of a trip are 1, 2, 3... without gaps, which *)
(* is what lets a consumer detect the loss of one (docs/06 section 3).     *)
(***************************************************************************)
VersionsAreDense ==
    \A t \in Trips : {e[1] : e \in outbox[t]} = 1 .. Cardinality(outbox[t])

(***************************************************************************)
(* A driver already on a released trip keeps a second one from being       *)
(* released (docs/13 section 11, criterion 6).                             *)
(***************************************************************************)
DriverExclusive ==
    \A t, u \in Trips : t # u /\ {trip[t], trip[u]} \subseteq ActiveState
                           => driver[t] # driver[u]

(***************************************************************************)
(* A trip under way with a blocked driver is marked for review (docs/13,   *)
(* 12.9).                                                                  *)
(***************************************************************************)
BlockedIsMarked ==
    \A t \in Trips : trip[t] \in ActiveState /\ driver[t] \in blocked => t \in alerted

(***************************************************************************)
(* An order is fulfilled once every delivery stop is completed (docs/13    *)
(* section 5).  The commit of the last outcome must see to it: nothing     *)
(* settles the order later.                                                *)
(***************************************************************************)
OrderSettles ==
    (\A t \in Trips : trip[t] \in {"delivered", "operationally_closed"})
        => order = "fulfilled"

(***************************************************************************)
(* A stop with an outcome is resolved: "completed" is terminal in          *)
(* stopExecutionLifecycle.  An arrival that read the stop earlier comes    *)
(* after it, with the time its own transaction began: that is before the   *)
(* service, so stop_execution_times_ordered admits it.                     *)
(***************************************************************************)
OutcomesStand ==
    \A t \in Trips : \A i \in outcomes[t] : stop[t][i] = "completed"
==============================================================================
