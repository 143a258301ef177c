--------------------------- MODULE TripRaces_proofs ---------------------------
(***************************************************************************)
(* What concurrent commands on unlocked rows cannot break, for any number  *)
(* of trips, drivers and sessions.  The argument rests on the facts that   *)
(* only grow (outcomes, confirmations, releases): what a transaction read  *)
(* of them before its writes is still true when it commits, and the check  *)
(* constraints refuse the writes that a stale status would lead to.        *)
(***************************************************************************)
EXTENDS TripRaces, FiniteSetTheorems, TLAPS

(* What a transaction x is about, and what it may take for granted. *)
Sound(x) ==
    /\ x.command \in TripCommand \cup StopCommand => x.on \in Trips
    /\ x.command \in StopCommand => x.visit \in Visits
    /\ x.command = "BlockResource" => x.on \in Drivers
    /\ x.command = "none" => x.phase = "idle"
    \* the gate has seen a confirmed assignment
    /\ x.command = "ReleaseTrip" /\ x.phase = "ready" => x.on \in confirmed
    \* what settleOrder found pending includes all that is pending now
    /\ x.command = "RecordStopOutcome" /\ x.phase = "locked" =>
          /\ x.visit = Delivery
          /\ \A u \in Trips \ {x.on} : Delivery \notin outcomes[u] => u \in x.found

SessionsAreSound == \A s \in Sessions : Sound(session[s])

ReleasesAreConfirmed == wasReleased \subseteq confirmed

(* trip_released_consistency. *)
ReleasedIsReleased == \A t \in wasReleased : trip[t] \notin PreRelease

ClosedHasOutcomes ==
    \A t \in Trips : trip[t] = "operationally_closed" => outcomes[t] = Visits

IInv ==
    /\ TypeOK
    /\ SessionsAreSound
    /\ ReleasesAreConfirmed
    /\ ReleasedIsReleased
    /\ ClosedHasOutcomes
    /\ FulfilledIsDelivered

------------------------------------------------------------------------------
(* Where a trip starts in Course agrees with what is past. *)
LEMMA StartIsOnCourse ==
    ASSUME NEW t \in Trips
    PROVE  /\ Start[t] \in 1 .. 9 /\ Start[t] \in 1 .. MaxEvents
           /\ Course[Start[t]][1] \in TripState \ {"operationally_closed"}
           /\ t \in Past(4) => Course[Start[t]][1] \notin PreRelease
<1>1. Start[t] \in 1 .. 9 /\ Start[t] \in 1 .. MaxEvents
  BY StartAssumption
<1>2. \/ Start[t] = 1 \/ Start[t] = 2 \/ Start[t] = 3 \/ Start[t] = 4 \/ Start[t] = 5
      \/ Start[t] = 6 \/ Start[t] = 7 \/ Start[t] = 8 \/ Start[t] = 9
  BY <1>1
<1>3. QED
  BY <1>1, <1>2 DEF Course, TripState, ActiveState, PreRelease, Past

(* The events of Course are events. *)
LEMMA EventsOfCourse == \A n \in 1 .. 9 : Course[n][2] \in EventType
<1> SUFFICES ASSUME NEW n \in 1 .. 9 PROVE Course[n][2] \in EventType
  OBVIOUS
<1>1. \/ n = 1 \/ n = 2 \/ n = 3 \/ n = 4 \/ n = 5 \/ n = 6 \/ n = 7 \/ n = 8 \/ n = 9
  OBVIOUS
<1>2. QED
  BY <1>1 DEF Course, EventType

(* Every trip starts where one command at a time could have brought it. *)
LEMMA InitInvariant == Init => IInv
<1> SUFFICES ASSUME Init PROVE IInv
  OBVIOUS
<1>1. Idle \in Session
  BY MaxEventsAssumption DEF Idle, Session
<1>2. trip \in [Trips -> TripState \ {"operationally_closed"}]
  BY StartIsOnCourse DEF Init
<1>3. outbox \in [Trips -> SUBSET ((1 .. MaxEvents) \X EventType)]
  <2>1. ASSUME NEW t \in Trips, NEW n \in 1 .. Start[t]
        PROVE  <<n, Course[n][2]>> \in (1 .. MaxEvents) \X EventType
    <3>1. n \in 1 .. 9 /\ n \in 1 .. MaxEvents
      BY <2>1, StartIsOnCourse, MaxEventsAssumption
    <3>2. QED
      BY <3>1, EventsOfCourse
  <2>2. QED
    BY <2>1 DEF Init
<1>4. TypeOK
  BY <1>1, <1>2, <1>3, StartIsOnCourse, StartAssumption DEF Init, TypeOK, Past, Visits
<1>5. SessionsAreSound
  BY DEF Init, Idle, SessionsAreSound, Sound, TripCommand, Accepted, StopCommand
<1>6. ReleasesAreConfirmed
  BY StartIsOnCourse DEF Init, ReleasesAreConfirmed, Past
<1>7. ReleasedIsReleased
  BY StartIsOnCourse DEF Init, ReleasedIsReleased, Past
<1>8. ClosedHasOutcomes /\ FulfilledIsDelivered
  BY <1>2 DEF Init, ClosedHasOutcomes, FulfilledIsDelivered
<1>9. QED
  BY <1>4, <1>5, <1>6, <1>7, <1>8 DEF IInv

------------------------------------------------------------------------------
(* A step that only changes a transaction, into a sound one. *)
LEMMA ReadStep ==
    ASSUME IInv, NEW s \in Sessions, NEW x \in Session, Sound(x),
           session' = [session EXCEPT ![s] = x],
           UNCHANGED <<order, tripVars, eventSeq, outbox, blocked, alerted>>
    PROVE  IInv'
<1>1. TypeOK'
  BY DEF IInv, TypeOK, tripVars
<1>2. SessionsAreSound'
  BY DEF IInv, TypeOK, tripVars, SessionsAreSound, Sound
<1>3. QED
  BY <1>1, <1>2 DEF IInv, ReleasesAreConfirmed, ReleasedIsReleased, ClosedHasOutcomes,
                    FulfilledIsDelivered, tripVars

(* The invariant holds through every read, write and rollback of a session. *)
LEMMA StepInvariant == IInv /\ [Next]_vars => IInv'
<1> USE MaxEventsAssumption, BlockableAssumption, NoneIsNothing
<1> SUFFICES ASSUME IInv, [Next]_vars PROVE IInv'
  OBVIOUS
<1>1. ASSUME NEW s \in Sessions, NEW t \in Trips, NEW command \in TripCommand,
             ReadTrip(s, command, t)
      PROVE  IInv'
  <2> DEFINE x == [command |-> command, on |-> t, visit |-> 0,
                   phase |-> IF command = "ReleaseTrip" THEN "reading" ELSE "ready",
                   seen |-> trip[t], seq |-> eventSeq[t], found |-> {}]
  <2>1. command \in { "AssignResources", "ConfirmAssignment", "ReleaseTrip", "StartTrip",
                      "CloseTripOperationally" }
    BY DEF TripCommand, Accepted
  <2>2. trip[t] \in TripState /\ eventSeq[t] \in 0 .. MaxEvents - 1
    BY <1>1 DEF ReadTrip, IInv, TypeOK
  <2>3. x \in Session
    BY <2>2 DEF Session
  <2>4. Sound(x)
    BY <2>1 DEF Sound, StopCommand
  <2>5. QED
    BY <1>1, <2>3, <2>4, ReadStep DEF ReadTrip
<1>2. ASSUME NEW s \in Sessions, NEW t \in Trips, NEW i \in Visits,
             NEW command \in StopCommand, ReadStop(s, command, t, i)
      PROVE  IInv'
  <2> DEFINE x == [command |-> command, on |-> t, visit |-> i, phase |-> "reading",
                   seen |-> "none", seq |-> 0, found |-> {}]
  <2>1. x \in Session
    BY DEF Session
  <2>2. Sound(x)
    BY DEF Sound, StopCommand, TripCommand, Accepted
  <2>3. QED
    BY <1>2, <2>1, <2>2, ReadStep DEF ReadStop
<1>3. ASSUME NEW s \in Sessions, ReadTripOfStop(s) PROVE IInv'
  <2> DEFINE t == session[s].on
             x == [session[s] EXCEPT !.seen = trip[t], !.seq = eventSeq[t], !.phase = "ready"]
  <2>1. session[s] \in Session /\ Sound(session[s])
    BY DEF IInv, TypeOK, SessionsAreSound
  <2>2. t \in Trips /\ session[s].command \in StopCommand
    BY <1>3, <2>1 DEF ReadTripOfStop, Sound
  <2>3. trip[t] \in TripState /\ eventSeq[t] \in 0 .. MaxEvents - 1
    BY <1>3, <2>2 DEF IInv, TypeOK, ReadTripOfStop
  <2>4. x \in Session
    BY <2>1, <2>3 DEF Session
  <2>5. Sound(x)
    BY <2>1, <2>2 DEF Sound, Session, StopCommand
  <2>6. session' = [session EXCEPT ![s] = x]
    BY <1>3, <2>1 DEF ReadTripOfStop, Session, IInv, TypeOK
  <2>7. QED
    BY <1>3, <2>4, <2>5, <2>6, ReadStep DEF ReadTripOfStop
<1>4. ASSUME NEW s \in Sessions, ReadGate(s) PROVE IInv'
  <2> DEFINE x == [session[s] EXCEPT !.phase = "ready"]
  <2>1. session[s] \in Session /\ Sound(session[s])
    BY DEF IInv, TypeOK, SessionsAreSound
  <2>2. CASE GateIsClear(session[s].on)
    <3>1. x \in Session /\ Sound(x)
      BY <1>4, <2>1, <2>2 DEF ReadGate, GateIsClear, Session, Sound, StopCommand
    <3>2. QED
      BY <1>4, <2>2, <3>1, ReadStep DEF ReadGate
  <2>3. CASE ~GateIsClear(session[s].on)
    <3>1. Idle \in Session /\ Sound(Idle)
      BY DEF Idle, Session, Sound, TripCommand, Accepted, StopCommand
    <3>2. QED
      BY <1>4, <2>3, <3>1, ReadStep DEF ReadGate
  <2>4. QED
    BY <2>2, <2>3
<1>5. ASSUME NEW s \in Sessions, ReadSettlement(s) PROVE IInv'
  <2> DEFINE found == {u \in Trips \ {session[s].on} : Delivery \notin outcomes[u]}
             x == [session[s] EXCEPT !.phase = "locked", !.found = found]
  <2>1. session[s] \in Session /\ Sound(session[s])
    BY DEF IInv, TypeOK, SessionsAreSound
  <2>2. x \in Session /\ Sound(x)
    BY <1>5, <2>1 DEF ReadSettlement, Settles, Session, Sound
  <2>3. session' = [session EXCEPT ![s] = x]
    BY <1>5, <2>1 DEF ReadSettlement, Session, IInv, TypeOK
  <2>4. QED
    BY <1>5, <2>2, <2>3, ReadStep DEF ReadSettlement
<1> USE DEF IInv, TypeOK, Session, Idle, SessionsAreSound, Sound, ReleasesAreConfirmed,
            ReleasedIsReleased, ClosedHasOutcomes, FulfilledIsDelivered, tripVars,
            TripCommand, Accepted, StopCommand, Visits, Pickup, Delivery, TripState,
            ActiveState, PreRelease, EventType
<1>6. ASSUME NEW s \in Sessions, NEW d \in Blockable, BlockAndReadTrips(s, d) PROVE IInv'
  BY <1>6 DEF BlockAndReadTrips
<1>7. ASSUME NEW s \in Sessions, Abort(s) PROVE IInv'
  BY <1>7 DEF Abort
<1>8. ASSUME NEW s \in Sessions, NEW d \in Drivers, CommitAssignResources(s, d) PROVE IInv'
  BY <1>8 DEF CommitAssignResources, Committing, SetStatus, ConstraintsAllow, Emit
<1>9. ASSUME NEW s \in Sessions, CommitConfirmAssignment(s) PROVE IInv'
  BY <1>9 DEF CommitConfirmAssignment, Committing, SetStatus, ConstraintsAllow, Emit
<1>10. ASSUME NEW s \in Sessions, CommitReleaseTrip(s) PROVE IInv'
  BY <1>10 DEF CommitReleaseTrip, Committing, SetStatus, ConstraintsAllow, Emit
<1>11. ASSUME NEW s \in Sessions, CommitStartTrip(s) PROVE IInv'
  BY <1>11 DEF CommitStartTrip, Committing, SetStatus, ConstraintsAllow, Emit
<1>12. ASSUME NEW s \in Sessions, CommitStopArrival(s) PROVE IInv'
  <2> DEFINE t == session[s].on
  <2>1. CASE SetStatus(t, "at_origin")
    BY <1>12, <2>1 DEF CommitStopArrival, Committing, SetStatus, ConstraintsAllow, Emit
  <2>2. CASE SetStatus(t, "at_destination")
    BY <1>12, <2>2 DEF CommitStopArrival, Committing, SetStatus, ConstraintsAllow, Emit
  <2>3. CASE UNCHANGED trip
    BY <1>12, <2>3 DEF CommitStopArrival, Committing, Emit
  <2>4. QED
    BY <1>12, <2>1, <2>2, <2>3 DEF CommitStopArrival
<1>13. ASSUME NEW s \in Sessions, CommitStopOutcome(s) PROVE IInv'
  BY <1>13 DEF CommitStopOutcome, RecordOutcome, Committing, SetStatus, ConstraintsAllow, Emit
<1>14. ASSUME NEW s \in Sessions, CommitDelivery(s) PROVE IInv'
  BY <1>14 DEF CommitDelivery, Settles, RecordOutcome, SetStatus, ConstraintsAllow, Emit
<1>15. ASSUME NEW s \in Sessions, CommitCloseTrip(s) PROVE IInv'
  BY <1>15 DEF CommitCloseTrip, Committing, SetStatus, ConstraintsAllow, Emit
<1>16. ASSUME NEW s \in Sessions, CommitBlock(s) PROVE IInv'
  BY <1>16 DEF CommitBlock
<1>17. ASSUME UNCHANGED vars PROVE IInv'
  BY <1>17 DEF vars
<1> HIDE DEF IInv, TypeOK, Session, Idle, SessionsAreSound, Sound, ReleasesAreConfirmed,
             ReleasedIsReleased, ClosedHasOutcomes, FulfilledIsDelivered, tripVars,
             TripCommand, Accepted, StopCommand, Visits, Pickup, Delivery, TripState,
             ActiveState, PreRelease, EventType
<1>18. QED
  BY <1>1, <1>2, <1>3, <1>4, <1>5, <1>6, <1>7, <1>8, <1>9, <1>10, <1>11, <1>12, <1>13, <1>14,
     <1>15, <1>16, <1>17 DEF Next, Reading, Committed

(* The invariant holds throughout. *)
LEMMA Invariant == Spec => []IInv
  BY InitInvariant, StepInvariant, PTL DEF Spec

------------------------------------------------------------------------------
(* Every variable keeps its type, whatever transactions interleave. *)
THEOREM TypeCorrect == Spec => []TypeOK
<1>1. IInv => TypeOK
  BY DEF IInv
<1>2. QED
  BY <1>1, Invariant, PTL

(***************************************************************************)
(* An order is fulfilled only when all its deliveries have an outcome, for *)
(* any number of trips delivered at once.                                  *)
(***************************************************************************)
THEOREM FulfilledOnlyWhenDelivered == Spec => []FulfilledIsDelivered
<1>1. IInv => FulfilledIsDelivered
  BY DEF IInv
<1>2. QED
  BY <1>1, Invariant, PTL

(* What every step does to the driver and the outcomes of a trip. *)
LEMMA CrewStep ==
    ASSUME IInv, [Next]_vars, NEW t \in wasReleased
    PROVE  driver'[t] = driver[t] /\ t \in confirmed'
<1> USE DEF IInv, TypeOK, ReleasesAreConfirmed, tripVars
<1>1. ASSUME NEW s \in Sessions, Reading(s) \/ Abort(s)
      PROVE  UNCHANGED <<driver, confirmed>>
  BY <1>1 DEF Reading, Abort, ReadTrip, ReadStop, ReadTripOfStop, ReadGate, ReadSettlement,
              BlockAndReadTrips
<1>2. ASSUME NEW s \in Sessions, NEW d \in Drivers, CommitAssignResources(s, d)
      PROVE  driver'[t] = driver[t] /\ UNCHANGED confirmed
  BY <1>2 DEF CommitAssignResources
<1>3. ASSUME NEW s \in Sessions, CommitConfirmAssignment(s)
      PROVE  UNCHANGED driver /\ confirmed \subseteq confirmed'
  BY <1>3 DEF CommitConfirmAssignment
<1>4. ASSUME NEW s \in Sessions,
             \/ CommitReleaseTrip(s) \/ CommitStartTrip(s) \/ CommitStopArrival(s)
             \/ CommitStopOutcome(s) \/ CommitDelivery(s) \/ CommitCloseTrip(s)
             \/ CommitBlock(s)
      PROVE  UNCHANGED <<driver, confirmed>>
  BY <1>4 DEF CommitReleaseTrip, CommitStartTrip, CommitStopArrival, CommitStopOutcome,
              CommitDelivery, RecordOutcome, CommitCloseTrip, CommitBlock
<1>5. CASE UNCHANGED vars
  BY <1>5 DEF vars
<1>6. QED
  BY <1>1, <1>2, <1>3, <1>4, <1>5 DEF Next, Committed

(* released_at is never cleared. *)
LEMMA ReleasedStays == IInv /\ [Next]_vars => wasReleased \subseteq wasReleased'
<1> SUFFICES ASSUME IInv, [Next]_vars PROVE wasReleased \subseteq wasReleased'
  OBVIOUS
<1>1. ASSUME NEW s \in Sessions, Reading(s) \/ Abort(s) PROVE UNCHANGED wasReleased
  BY <1>1 DEF Reading, Abort, ReadTrip, ReadStop, ReadTripOfStop, ReadGate, ReadSettlement,
              BlockAndReadTrips, tripVars
<1>2. ASSUME NEW s \in Sessions, Committed(s) PROVE wasReleased \subseteq wasReleased'
  BY <1>2 DEF Committed, CommitAssignResources, CommitConfirmAssignment, CommitReleaseTrip,
              CommitStartTrip, CommitStopArrival, CommitStopOutcome, CommitDelivery,
              RecordOutcome, CommitCloseTrip, CommitBlock, tripVars
<1>3. CASE UNCHANGED vars
  BY <1>3 DEF vars, tripVars
<1>4. QED
  BY <1>1, <1>2, <1>3 DEF Next

(***************************************************************************)
(* After the release the driver and his confirmation stand, whatever       *)
(* status the commands that come late have read.                           *)
(***************************************************************************)
THEOREM CrewStands == Spec => CrewStandsAfterRelease
<1>1. IInv /\ IInv' /\ [Next]_vars =>
        [ \A t \in wasReleased :
            driver'[t] = driver[t] /\ t \in confirmed' /\ trip'[t] \notin PreRelease ]_vars
  <2> SUFFICES ASSUME IInv, IInv', [Next]_vars, NEW t \in wasReleased
               PROVE  driver'[t] = driver[t] /\ t \in confirmed' /\ trip'[t] \notin PreRelease
    OBVIOUS
  <2>1. t \in wasReleased'
    BY ReleasedStays
  <2>2. trip'[t] \notin PreRelease
    BY <2>1 DEF IInv, ReleasedIsReleased
  <2>3. QED
    BY <2>2, CrewStep
<1>2. QED
  BY <1>1, Invariant, PTL DEF Spec, CrewStandsAfterRelease

(* A closed trip is written to only with the status it has. *)
LEMMA ClosedStep ==
    ASSUME IInv, [Next]_vars, NEW t \in Trips, trip[t] = "operationally_closed"
    PROVE  trip'[t] = "operationally_closed"
<1> USE DEF IInv, TypeOK, SetStatus, ConstraintsAllow, tripVars
<1>1. ASSUME NEW s \in Sessions, Reading(s) \/ Abort(s) PROVE UNCHANGED trip
  BY <1>1 DEF Reading, Abort, ReadTrip, ReadStop, ReadTripOfStop, ReadGate, ReadSettlement,
              BlockAndReadTrips
<1>2. ASSUME NEW s \in Sessions, Committed(s)
      PROVE  \/ UNCHANGED trip
             \/ \E u \in Trips \cup Drivers \cup {None}, status \in TripState :
                   SetStatus(u, status)
  BY <1>2 DEF Committed, CommitAssignResources, CommitConfirmAssignment, CommitReleaseTrip,
              CommitStartTrip, CommitStopArrival, CommitStopOutcome, CommitDelivery,
              CommitCloseTrip, CommitBlock, Session, TripState, ActiveState, PreRelease
<1>3. CASE UNCHANGED vars
  BY <1>3 DEF vars
<1>4. QED
  BY <1>1, <1>2, <1>3 DEF Next

(* Nothing a late command does reopens a closed trip. *)
THEOREM ClosedForGood == Spec => ClosedStands
<1>1. IInv /\ IInv' /\ [Next]_vars =>
        [ \A t \in Trips : trip[t] = "operationally_closed" =>
            trip'[t] = "operationally_closed" /\ outcomes'[t] = Visits ]_vars
  BY ClosedStep DEF IInv, ClosedHasOutcomes
<1>2. QED
  BY <1>1, Invariant, PTL DEF Spec, ClosedStands

------------------------------------------------------------------------------
(* Events. *)

(* The outbox holds as many events of trip t as its event_seq says.  That  *)
(* they are finitely many is what makes their number one.                  *)
Published(t) == IsFiniteSet(outbox[t]) /\ Cardinality(outbox[t]) = eventSeq[t]

(* The events that a trip starts with: one for each step of Course. *)
LEMMA StartIsPublished ==
    ASSUME Init, NEW t \in Trips
    PROVE  Published(t)
<1> DEFINE Steps == 1 .. Start[t]
           Event == [n \in Steps |-> <<n, Course[n][2]>>]
<1>1. Start[t] \in Nat \ {0}
  BY StartIsOnCourse
<1>2. IsFiniteSet(Steps) /\ Cardinality(Steps) = Start[t]
  BY <1>1, FS_Interval
<1>3. outbox[t] = {<<n, Course[n][2]>> : n \in Steps} /\ eventSeq[t] = Start[t]
  BY DEF Init
<1>4. Event \in Bijection(Steps, outbox[t])
  <2>1. Event \in [Steps -> outbox[t]] /\ \A e \in outbox[t] : \E n \in Steps : Event[n] = e
    BY <1>3
  <2>2. \A m, n \in Steps : Event[m] = Event[n] => m = n
    <3>1. ASSUME NEW m \in Steps, NEW n \in Steps, Event[m] = Event[n] PROVE m = n
      <4>1. Event[m][1] = m /\ Event[n][1] = n
        OBVIOUS
      <4>2. QED
        BY <3>1, <4>1
    <3>2. QED
      BY <3>1
  <2>3. QED
    BY <2>1, <2>2 DEF Bijection, Injection, Surjection, IsInjective
<1>5. QED
  BY <1>2, <1>3, <1>4, FS_Bijection DEF ExistsBijection, Published

(* What every command does to the events: nothing, or one more event. *)
LEMMA EmittingStep ==
    ASSUME IInv, [Next]_vars
    PROVE  \/ UNCHANGED <<eventSeq, outbox>>
           \/ \E s \in Sessions, event \in EventType : session[s].on \in Trips /\ Emit(s, event)
<1>1. ASSUME NEW s \in Sessions, Reading(s) \/ Abort(s) \/ CommitBlock(s)
      PROVE  UNCHANGED <<eventSeq, outbox>>
  BY <1>1 DEF Reading, Abort, ReadTrip, ReadStop, ReadTripOfStop, ReadGate, ReadSettlement,
              BlockAndReadTrips, CommitBlock
<1>2. ASSUME NEW s \in Sessions, Committed(s), ~CommitBlock(s)
      PROVE  \E event \in EventType : session[s].on \in Trips /\ Emit(s, event)
  <2>1. Sound(session[s])
    BY DEF IInv, SessionsAreSound
  <2>2. session[s].command \in TripCommand \cup StopCommand => session[s].on \in Trips
    BY <2>1 DEF Sound
  <2>3. session[s].command \in TripCommand \cup StopCommand
    BY <1>2 DEF Committed, CommitAssignResources, CommitConfirmAssignment, CommitReleaseTrip,
                CommitStartTrip, CommitStopArrival, CommitStopOutcome, CommitDelivery, Settles,
                CommitCloseTrip, Committing, TripCommand, StopCommand, Accepted
  <2>4. \E event \in EventType : Emit(s, event)
    BY <1>2 DEF Committed, CommitAssignResources, CommitConfirmAssignment, CommitReleaseTrip,
                CommitStartTrip, CommitStopArrival, CommitStopOutcome, CommitDelivery,
                RecordOutcome, CommitCloseTrip, EventType
  <2>5. QED
    BY <2>2, <2>3, <2>4
<1>3. CASE UNCHANGED vars
  BY <1>3 DEF vars
<1>4. QED
  BY <1>1, <1>2, <1>3 DEF Next

LEMMA PublishedStep ==
    ASSUME IInv, \A u \in Trips : Published(u), [Next]_vars, NEW t \in Trips
    PROVE  Published(t)'
<1>1. CASE UNCHANGED <<eventSeq, outbox>>
  BY <1>1 DEF Published
<1>2. ASSUME NEW s \in Sessions, NEW event \in EventType, session[s].on \in Trips, Emit(s, event)
      PROVE  Published(t)'
  <2> DEFINE e == <<session[s].seq + 1, event>>
  <2>1. /\ outbox \in [Trips -> SUBSET ((1 .. MaxEvents) \X EventType)]
        /\ eventSeq \in [Trips -> 1 .. MaxEvents]
    BY DEF IInv, TypeOK
  <2>2. CASE t = session[s].on
    <3>1. /\ e \notin outbox[t]
          /\ outbox' = [outbox EXCEPT ![t] = outbox[t] \cup {e}]
          /\ eventSeq' = [eventSeq EXCEPT ![t] = eventSeq[t] + 1]
      BY <1>2, <2>2, Zenon DEF Emit
    <3>2. outbox'[t] = outbox[t] \cup {e} /\ eventSeq'[t] = eventSeq[t] + 1
      BY <2>1, <3>1, Zenon
    <3> HIDE DEF e
    <3>3. IsFiniteSet(outbox[t]) /\ Cardinality(outbox[t]) = eventSeq[t]
      BY DEF Published
    <3>4. /\ IsFiniteSet(outbox[t] \cup {e})
          /\ Cardinality(outbox[t] \cup {e}) = eventSeq[t] + 1
      BY <3>1, <3>3, FS_AddElement
    <3>5. QED
      BY <3>2, <3>4 DEF Published
  <2>3. CASE t # session[s].on
    <3>1. outbox'[t] = outbox[t] /\ eventSeq'[t] = eventSeq[t]
      BY <1>2, <2>1, <2>3 DEF Emit
    <3>2. QED
      BY <3>1 DEF Published
  <2>4. QED
    BY <2>2, <2>3
<1>3. QED
  BY <1>1, <1>2, EmittingStep

(***************************************************************************)
(* Every commit has its event, also when several commands that read the    *)
(* same event_seq publish under the same version: the unique key refuses   *)
(* the one event that would otherwise be lost.                             *)
(***************************************************************************)
THEOREM CommitsPublish == Spec => []EveryCommitPublishes
<1> DEFINE Inv == \A t \in Trips : Published(t)
<1>1. Init => Inv
  BY StartIsPublished
<1>2. IInv /\ Inv /\ [Next]_vars => Inv'
  BY PublishedStep
<1>3. Inv => EveryCommitPublishes
  BY DEF Published, EveryCommitPublishes
<1> HIDE DEF Inv
<1>4. QED
  BY <1>1, <1>2, <1>3, Invariant, PTL DEF Spec

------------------------------------------------------------------------------
(***************************************************************************)
(* One command at a time.  What TripRaces shows concurrent commands to     *)
(* break holds when no two transactions are open at once: the races are    *)
(* the only cause, and locking the rows that are read would remove it.     *)
(***************************************************************************)
Serial == \A s, u \in Sessions : session[s] # Idle /\ session[u] # Idle => s = u

(* What transaction x has read is still so. *)
Fresh(x) ==
    /\ x.command \in TripCommand =>
          x.seen = trip[x.on] /\ x.seq = eventSeq[x.on] /\ x.seen \in Accepted[x.command]
    /\ x.command \in StopCommand /\ x.phase # "reading" =>
          x.seen = trip[x.on] /\ x.seq = eventSeq[x.on]
    /\ x.command = "RecordStopArrival" => stop[x.on][x.visit] = "pending"
    /\ x.command = "ReleaseTrip" /\ x.phase = "ready" => GateIsClear(x.on)
    /\ x.command = "RecordStopOutcome" /\ x.phase = "locked" =>
          x.found = {u \in Trips \ {x.on} : Delivery \notin outcomes[u]}
    /\ x.command = "BlockResource" =>
          x.found = {t \in confirmed : trip[t] \in ActiveState /\ driver[t] = x.on}

SessionsAreFresh == \A s \in Sessions : Fresh(session[s])

ActiveWasReleased == \A t \in Trips : trip[t] \in ActiveState => t \in wasReleased

StartedIsInExecution ==
    order = "planned" => \A t \in Trips : trip[t] \in PreRelease \cup {"released"}

DeliveredHasOutcome ==
    \A t \in Trips :
       trip[t] \in {"delivered", "operationally_closed"} => Delivery \in outcomes[t]

VersionsCount == \A t \in Trips : {e[1] : e \in outbox[t]} = 1 .. eventSeq[t]

(* Some trip is not delivered from the start, so that an outcome settles the order. *)
SomethingToDeliver == \E t \in Trips : Start[t] # 9

(* The steps of tripLifecycle from the release on. *)
Advances ==
    { <<"confirmed", "released">>, <<"released", "en_route_to_origin">>,
      <<"en_route_to_origin", "at_origin">>, <<"at_origin", "in_transit">>,
      <<"in_transit", "at_destination">>, <<"at_destination", "delivered">>,
      <<"delivered", "operationally_closed">> }

(* The rows, when commands come one at a time. *)
RowsAgree ==
    /\ ActiveWasReleased
    /\ StartedIsInExecution
    /\ DeliveredHasOutcome
    /\ DriverExclusive
    /\ BlockedIsMarked
    /\ OutcomesStand
    /\ SomethingToDeliver => OrderSettles

SerialInv == SessionsAreFresh /\ RowsAgree /\ VersionsCount

(* What Course says of a trip agrees with its rows. *)
LEMMA InitSerial == Init => SerialInv
<1> SUFFICES ASSUME Init PROVE SerialInv
  OBVIOUS
<1>1. ASSUME NEW t \in Trips
      PROVE  /\ trip[t] \in ActiveState <=> Start[t] >= 4
             /\ trip[t] \in PreRelease \cup {"released"} <=> Start[t] < 5
             /\ trip[t] \in {"delivered", "operationally_closed"} <=> Start[t] = 9
  <2>1. \/ Start[t] = 1 \/ Start[t] = 2 \/ Start[t] = 3 \/ Start[t] = 4 \/ Start[t] = 5
        \/ Start[t] = 6 \/ Start[t] = 7 \/ Start[t] = 8 \/ Start[t] = 9
    BY StartIsOnCourse
  <2>2. trip[t] = Course[Start[t]][1]
    BY DEF Init
  <2>3. QED
    BY <2>1, <2>2 DEF Course, PreRelease, ActiveState
<1>2. \A t \in Trips : Start[t] \in 1 .. 9
  BY StartIsOnCourse
<1>3. SessionsAreFresh
  BY DEF Init, SessionsAreFresh, Fresh, Idle, TripCommand, StopCommand, Accepted
<1>4. ActiveWasReleased /\ StartedIsInExecution /\ DeliveredHasOutcome
  BY <1>1, <1>2 DEF Init, ActiveWasReleased, StartedIsInExecution, DeliveredHasOutcome, Past,
                    Visits, Pickup, Delivery
<1>5. DriverExclusive /\ BlockedIsMarked
  BY <1>1, <1>2 DEF Init, DriverExclusive, BlockedIsMarked, Past
<1>6. OutcomesStand
  BY DEF Init, OutcomesStand, Past
<1>7. SomethingToDeliver => OrderSettles
  BY <1>1 DEF SomethingToDeliver, OrderSettles
<1>8. VersionsCount
  <2> SUFFICES ASSUME NEW t \in Trips PROVE {e[1] : e \in outbox[t]} = 1 .. eventSeq[t]
    BY DEF VersionsCount
  <2>1. outbox[t] = {<<n, Course[n][2]>> : n \in 1 .. Start[t]} /\ eventSeq[t] = Start[t]
    BY DEF Init
  <2>2. ASSUME NEW e \in outbox[t] PROVE e[1] \in 1 .. eventSeq[t]
    BY <2>1
  <2>3. ASSUME NEW n \in 1 .. eventSeq[t] PROVE \E e \in outbox[t] : e[1] = n
    <3>1. <<n, Course[n][2]>> \in outbox[t] /\ <<n, Course[n][2]>>[1] = n
      BY <2>1
    <3>2. QED
      BY <3>1
  <2>4. QED
    BY <2>2, <2>3
<1>9. QED
  BY <1>3, <1>4, <1>5, <1>6, <1>7, <1>8 DEF SerialInv, RowsAgree

(* What a transaction has just read is so, and nobody else has one. *)
LEMMA FreshStep ==
    ASSUME IInv, SessionsAreFresh, Serial, Serial', [Next]_vars
    PROVE  SessionsAreFresh'
<1> USE DEF IInv, TypeOK, tripVars
<1>1. ASSUME NEW s \in Sessions, Reading(s)
      PROVE  SessionsAreFresh'
  <2>1. UNCHANGED <<trip, wasReleased, driver, confirmed, stop, outcomes, order, eventSeq, blocked>>
    BY <1>1 DEF Reading, ReadTrip, ReadStop, ReadTripOfStop, ReadGate, ReadSettlement,
                BlockAndReadTrips
  <2>2. \A u \in Sessions \ {s} : session'[u] = session[u]
    BY <1>1 DEF Reading, ReadTrip, ReadStop, ReadTripOfStop, ReadGate, ReadSettlement,
                BlockAndReadTrips
  <2>3. \A u \in Sessions \ {s} : Fresh(session[u])'
    BY <2>1, <2>2 DEF SessionsAreFresh, Fresh, GateIsClear
  <2>4. Fresh(session[s])'
    <3>1. ASSUME NEW t \in Trips, NEW command \in TripCommand, ReadTrip(s, command, t)
          PROVE  Fresh(session[s])'
      BY <2>1, <3>1 DEF ReadTrip, Fresh, TripCommand, Accepted, StopCommand
    <3>2. ASSUME NEW t \in Trips, NEW i \in Visits, NEW command \in StopCommand,
                 ReadStop(s, command, t, i)
          PROVE  Fresh(session[s])'
      BY <2>1, <3>2 DEF ReadStop, Fresh, TripCommand, Accepted, StopCommand
    <3> USE DEF SessionsAreFresh, Fresh, TripCommand, Accepted, StopCommand, Session
    <3>3. CASE ReadTripOfStop(s)
      BY <2>1, <3>3 DEF ReadTripOfStop
    <3>4. CASE ReadGate(s)
      BY <2>1, <3>4 DEF ReadGate, GateIsClear, Idle
    <3>5. CASE ReadSettlement(s)
      BY <2>1, <3>5 DEF ReadSettlement, Settles
    <3>6. ASSUME NEW d \in Blockable, BlockAndReadTrips(s, d) PROVE Fresh(session[s])'
      BY <2>1, <3>6 DEF BlockAndReadTrips
    <3>7. QED
      BY <1>1, <3>1, <3>2, <3>3, <3>4, <3>5, <3>6 DEF Reading
  <2>5. QED
    BY <2>3, <2>4 DEF SessionsAreFresh
<1>2. ASSUME NEW s \in Sessions, Committed(s) \/ Abort(s) PROVE SessionsAreFresh'
  <2>1. session[s] # Idle /\ session' = [session EXCEPT ![s] = Idle]
    BY <1>2 DEF Committed, CommitAssignResources, CommitConfirmAssignment, CommitReleaseTrip,
                CommitStartTrip, CommitStopArrival, CommitStopOutcome, CommitDelivery, Settles,
                CommitCloseTrip, CommitBlock, Committing, Abort, Idle
  <2>2. \A u \in Sessions : session'[u] = Idle
    BY <2>1 DEF Serial
  <2>3. QED
    BY <2>2 DEF SessionsAreFresh, Fresh, Idle, TripCommand, StopCommand, Accepted
<1>3. CASE UNCHANGED vars
  BY <1>3 DEF vars, SessionsAreFresh, Fresh, GateIsClear
<1>4. QED
  BY <1>1, <1>2, <1>3 DEF Next

(***************************************************************************)
(* What a commit does to the rows, when what its transaction read is still *)
(* so.  Every command but the assignment takes its trip one status ahead.  *)
(***************************************************************************)
LEMMA RowsStep ==
    ASSUME IInv, SerialInv, [Next]_vars
    PROVE  RowsAgree'
<1> USE DEF IInv, TypeOK, tripVars, SerialInv, RowsAgree, ActiveWasReleased,
            StartedIsInExecution, DeliveredHasOutcome, DriverExclusive, BlockedIsMarked,
            OutcomesStand, OrderSettles, ReleasesAreConfirmed, ReleasedIsReleased
<1>1. ASSUME UNCHANGED <<order, tripVars, blocked, alerted>> PROVE RowsAgree'
  BY <1>1
<1>2. ASSUME NEW s \in Sessions, Reading(s) \/ Abort(s) PROVE RowsAgree'
  BY <1>1, <1>2 DEF Reading, Abort, ReadTrip, ReadStop, ReadTripOfStop, ReadGate,
                    ReadSettlement, BlockAndReadTrips
<1> USE DEF SessionsAreFresh, Fresh, SessionsAreSound, Sound, TripCommand, Accepted, StopCommand,
            SetStatus, ConstraintsAllow, Committing, PreRelease, ActiveState, TripState, Visits,
            Pickup, Delivery
<1>3. ASSUME NEW s \in Sessions, NEW d \in Drivers, CommitAssignResources(s, d) PROVE RowsAgree'
  BY <1>3 DEF CommitAssignResources
<1>4. ASSUME NEW s \in Sessions, CommitConfirmAssignment(s) PROVE RowsAgree'
  BY <1>4 DEF CommitConfirmAssignment
<1>5. ASSUME NEW s \in Sessions, CommitReleaseTrip(s) PROVE RowsAgree'
  BY <1>5 DEF CommitReleaseTrip, GateIsClear
<1>6. ASSUME NEW s \in Sessions, CommitStartTrip(s) PROVE RowsAgree'
  BY <1>6 DEF CommitStartTrip
<1>7. ASSUME NEW s \in Sessions, CommitStopArrival(s) PROVE RowsAgree'
  <2> DEFINE t == session[s].on
             i == session[s].visit
  <2>1. /\ t \in Trips /\ i \in Visits /\ trip[t] = session[s].seen /\ stop[t][i] = "pending"
        /\ stop' = [stop EXCEPT ![t][i] = "arrived"]
        /\ UNCHANGED <<order, wasReleased, driver, confirmed, outcomes, blocked, alerted>>
    BY <1>7 DEF CommitStopArrival
  <2>2. OutcomesStand'
    BY <2>1
  <2>3. CASE trip[t] = "en_route_to_origin" /\ trip' = [trip EXCEPT ![t] = "at_origin"]
    BY <2>1, <2>2, <2>3
  <2>4. CASE trip[t] = "in_transit" /\ trip' = [trip EXCEPT ![t] = "at_destination"]
    BY <2>1, <2>2, <2>4
  <2>5. CASE UNCHANGED trip
    BY <2>1, <2>2, <2>5
  <2>6. QED
    BY <1>7, <2>1, <2>3, <2>4, <2>5 DEF CommitStopArrival
<1>8. ASSUME NEW s \in Sessions, CommitStopOutcome(s) PROVE RowsAgree'
  BY <1>8 DEF CommitStopOutcome, RecordOutcome
<1>9. ASSUME NEW s \in Sessions, CommitDelivery(s) PROVE RowsAgree'
  BY <1>9 DEF CommitDelivery, RecordOutcome, Settles
<1>10. ASSUME NEW s \in Sessions, CommitCloseTrip(s) PROVE RowsAgree'
  BY <1>10 DEF CommitCloseTrip
<1>11. ASSUME NEW s \in Sessions, CommitBlock(s) PROVE RowsAgree'
  BY <1>11 DEF CommitBlock
<1>12. CASE UNCHANGED vars
  BY <1>1, <1>12 DEF vars
<1>13. QED
  BY <1>2, <1>3, <1>4, <1>5, <1>6, <1>7, <1>8, <1>9, <1>10, <1>11, <1>12 DEF Next, Committed

(* What every command does to the events, when what it read is still so. *)
LEMMA FreshEmittingStep ==
    ASSUME IInv, SerialInv, [Next]_vars
    PROVE  \/ UNCHANGED <<eventSeq, outbox>>
           \/ \E s \in Sessions, event \in EventType :
                 /\ session[s].on \in Trips
                 /\ session[s].seq = eventSeq[session[s].on]
                 /\ Emit(s, event)
<1>1. ASSUME NEW s \in Sessions, Reading(s) \/ Abort(s) \/ CommitBlock(s)
      PROVE  UNCHANGED <<eventSeq, outbox>>
  BY <1>1 DEF Reading, Abort, ReadTrip, ReadStop, ReadTripOfStop, ReadGate, ReadSettlement,
              BlockAndReadTrips, CommitBlock
<1>2. ASSUME NEW s \in Sessions, Committed(s), ~CommitBlock(s)
      PROVE  \E event \in EventType : /\ session[s].on \in Trips
                                      /\ session[s].seq = eventSeq[session[s].on]
                                      /\ Emit(s, event)
  <2>1. \/ session[s].command \in TripCommand
        \/ session[s].command \in StopCommand /\ session[s].phase # "reading"
    BY <1>2 DEF Committed, CommitAssignResources, CommitConfirmAssignment, CommitReleaseTrip,
                CommitStartTrip, CommitStopArrival, CommitStopOutcome, CommitDelivery, Settles,
                CommitCloseTrip, Committing, TripCommand, StopCommand, Accepted
  <2>2. session[s].on \in Trips /\ session[s].seq = eventSeq[session[s].on]
    BY <2>1 DEF IInv, SessionsAreSound, Sound, SerialInv, SessionsAreFresh, Fresh
  <2>3. \E event \in EventType : Emit(s, event)
    BY <1>2 DEF Committed, CommitAssignResources, CommitConfirmAssignment, CommitReleaseTrip,
                CommitStartTrip, CommitStopArrival, CommitStopOutcome, CommitDelivery,
                RecordOutcome, CommitCloseTrip, EventType
  <2>4. QED
    BY <2>2, <2>3
<1>3. CASE UNCHANGED vars
  BY <1>3 DEF vars
<1>4. QED
  BY <1>1, <1>2, <1>3 DEF Next

(* The event of a commit has the version after the last one. *)
LEMMA VersionsStep ==
    ASSUME IInv, SerialInv, [Next]_vars
    PROVE  VersionsCount'
<1>1. CASE UNCHANGED <<eventSeq, outbox>>
  BY <1>1 DEF SerialInv, VersionsCount
<1>2. ASSUME NEW s \in Sessions, NEW event \in EventType, session[s].on \in Trips,
             session[s].seq = eventSeq[session[s].on], Emit(s, event)
      PROVE  VersionsCount'
  <2> SUFFICES ASSUME NEW t \in Trips PROVE ({e[1] : e \in outbox[t]} = 1 .. eventSeq[t])'
    BY DEF VersionsCount
  <2>1. /\ outbox \in [Trips -> SUBSET ((1 .. MaxEvents) \X EventType)]
        /\ eventSeq \in [Trips -> 1 .. MaxEvents]
    BY DEF IInv, TypeOK
  <2>2. {e[1] : e \in outbox[t]} = 1 .. eventSeq[t]
    BY DEF SerialInv, VersionsCount
  <2> DEFINE n == eventSeq[t] + 1
             e == <<n, event>>
  <2>3. CASE t = session[s].on
    <3>1. outbox'[t] = outbox[t] \cup {e} /\ eventSeq'[t] = n
      BY <1>2, <2>1, <2>3 DEF Emit
    <3>2. {x[1] : x \in outbox[t] \cup {e}} = {x[1] : x \in outbox[t]} \cup {e[1]}
      OBVIOUS
    <3>3. e[1] = n /\ (1 .. eventSeq[t]) \cup {n} = 1 .. n
      BY <2>1
    <3>4. QED
      BY <2>2, <3>1, <3>2, <3>3
  <2>4. CASE t # session[s].on
    BY <1>2, <2>1, <2>2, <2>4 DEF Emit
  <2>5. QED
    BY <2>3, <2>4
<1>3. QED
  BY <1>1, <1>2, FreshEmittingStep

(***************************************************************************)
(* The invariant of serial executions.                                     *)
(***************************************************************************)
LEMMA SerialInvariant == Spec /\ []Serial => []SerialInv
<1>1. IInv /\ SerialInv /\ Serial /\ Serial' /\ [Next]_vars => SerialInv'
  BY FreshStep, RowsStep, VersionsStep DEF SerialInv
<1>2. QED
  BY <1>1, InitSerial, Invariant, PTL DEF Spec

(* What a commit does to the status of a trip, when what it read is still so. *)
LEMMA AdvancingStep ==
    ASSUME IInv, SerialInv, [Next]_vars, NEW t \in Trips
    PROVE  Progress(trip[t]) <= Progress(trip'[t])
<1> USE DEF IInv, TypeOK, tripVars
<1>1. ASSUME trip'[t] = trip[t] PROVE Progress(trip[t]) <= Progress(trip'[t])
  BY <1>1 DEF Progress, TripState, ActiveState, PreRelease
<1>2. ASSUME NEW s \in Sessions, Reading(s) \/ Abort(s) PROVE UNCHANGED trip
  BY <1>2 DEF Reading, Abort, ReadTrip, ReadStop, ReadTripOfStop, ReadGate, ReadSettlement,
              BlockAndReadTrips
<1>3. ASSUME NEW s \in Sessions, Committed(s)
      PROVE  \/ UNCHANGED trip
             \/ \E u \in Trips, status \in TripState :
                   /\ trip' = [trip EXCEPT ![u] = status]
                   /\ \/ {trip[u], status} \subseteq PreRelease
                      \/ <<trip[u], status>> \in Advances
  BY <1>3 DEF Committed, CommitAssignResources, CommitConfirmAssignment, CommitReleaseTrip,
              CommitStartTrip, CommitStopArrival, CommitStopOutcome, CommitDelivery, Settles,
              CommitCloseTrip, CommitBlock, Committing, SetStatus, SerialInv, SessionsAreFresh,
              Fresh, SessionsAreSound, Sound, TripCommand, Accepted, StopCommand, TripState,
              ActiveState, PreRelease, Advances, Pickup, Delivery
<1>4. ASSUME NEW u \in Trips, NEW status \in TripState,
             trip' = [trip EXCEPT ![u] = status],
             {trip[u], status} \subseteq PreRelease \/ <<trip[u], status>> \in Advances
      PROVE  Progress(trip[t]) <= Progress(trip'[t])
  <2>1. CASE t = u
    BY <1>4, <2>1 DEF Advances, Progress, PreRelease
  <2>2. CASE t # u
    BY <1>1, <1>4, <2>2
  <2>3. QED
    BY <2>1, <2>2
<1>5. CASE UNCHANGED vars
  BY <1>1, <1>5 DEF vars
<1>6. QED
  BY <1>1, <1>2, <1>3, <1>4, <1>5 DEF Next

(* A trip command that nobody overtakes never takes its trip back. *)
THEOREM SerialTripsAdvance == Spec /\ []Serial => TripNeverGoesBack
<1>1. IInv /\ SerialInv /\ [Next]_vars =>
        [ \A t \in Trips : Progress(trip[t]) <= Progress(trip'[t]) ]_vars
  BY AdvancingStep
<1>2. QED
  BY <1>1, Invariant, SerialInvariant, PTL DEF Spec, TripNeverGoesBack

(* The versions of the events are 1, 2, 3... when each is derived from the last. *)
THEOREM SerialVersionsAreDense == Spec /\ []Serial => []VersionsAreDense
<1>1. SerialInv /\ EveryCommitPublishes => VersionsAreDense
  BY DEF SerialInv, VersionsCount, EveryCommitPublishes, VersionsAreDense
<1>2. QED
  BY <1>1, CommitsPublish, SerialInvariant, PTL

(***************************************************************************)
(* One driver is on one released trip, and a blocked driver marks his, for *)
(* as long as nothing comes between a gate or a block and its commit.      *)
(***************************************************************************)
THEOREM SerialCrewsHold == Spec /\ []Serial => [](DriverExclusive /\ BlockedIsMarked)
<1>1. SerialInv => DriverExclusive /\ BlockedIsMarked
  BY DEF SerialInv, RowsAgree
<1>2. QED
  BY <1>1, SerialInvariant, PTL

(* No late arrival reopens a stop that has its outcome. *)
THEOREM SerialOutcomesStand == Spec /\ []Serial => []OutcomesStand
<1>1. SerialInv => OutcomesStand
  BY DEF SerialInv, RowsAgree
<1>2. QED
  BY <1>1, SerialInvariant, PTL

(***************************************************************************)
(* The last of the deliveries sees all others and fulfils the order, for   *)
(* any number of trips of which one at least is not delivered at first.    *)
(***************************************************************************)
THEOREM SerialOrdersSettle == SomethingToDeliver /\ Spec /\ []Serial => []OrderSettles
<1>1. SerialInv /\ SomethingToDeliver => OrderSettles
  BY DEF SerialInv, RowsAgree
<1>2. SomethingToDeliver <=> SomethingToDeliver'
  BY DEF SomethingToDeliver
<1>3. SomethingToDeliver => []SomethingToDeliver
  BY <1>2, PTL
<1>4. QED
  BY <1>1, <1>3, SerialInvariant, PTL
==============================================================================
