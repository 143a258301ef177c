-------------------------------- MODULE TripFile --------------------------------
(***************************************************************************)
(* The file of a trip: what its stops declared, what proves it and what it *)
(* was closed with.  Evidence is transport/evidence.ts, the rest the parts *)
(* of stops.ts that TripExecution abstracts.                               *)
(*                                                                         *)
(* A command is a transaction under READ COMMITTED.  Submitting, accepting *)
(* and closing decide on rows they read without a lock, so others commit   *)
(* between the reading and the writing; rejecting and waiving decide on    *)
(* nothing they read, and are one step.  All requirements are mandatory:   *)
(* planTrip creates no others.                                             *)
(***************************************************************************)
EXTENDS DeliveryOutcome, FiniteSets, Sequences

CONSTANTS
    Stops,          \* the stops of the trip
    KindOf,         \* "pickup" or "delivery"
    LastDelivery,   \* the delivery that ends the trip
    Declarations,   \* the lines that stops declare
    Requirements,   \* the requirements of evidence
    AttemptsOf,     \* bound on the submissions for each of them
    Actors,         \* people who capture and validate
    Sessions,       \* transactions that can be open at once
    None

ASSUME TripFileAssumption ==
    /\ KindOf \in [Stops -> {"pickup", "delivery"}]
    /\ IsFiniteSet(Requirements)
    /\ AttemptsOf \in [Requirements -> Nat]
    /\ None \notin Actors
    /\ \A lines \in Declarations : IsFiniteSet(DOMAIN lines) /\ lines \in [DOMAIN lines -> Line]

VARIABLES
    trip,           \* the status of the trip
    outcome,        \* the outcome of each stop and the lines it was derived from
    requirement,    \* the status of each requirement
    submissions,    \* the submissions for each requirement, by attempt
    closing,        \* what the trip was closed with
    session         \* what each open transaction has read

fileVars == <<trip, outcome, requirement, submissions, closing>>

vars == <<fileVars, session>>

RequirementStatus == {"required", "satisfied", "waived"}

Submission ==
    [status : {"submitted", "accepted", "rejected"}, capturedBy : Actors,
     validatedBy : Actors \cup {None}]

Closing == [pending : SUBSET Requirements, completeness : Nat]

Idle == [command |-> "idle", of |-> None, attempt |-> 0, actor |-> None, pending |-> {}]

Session ==
    [command : {"idle", "submit", "accept", "close"}, of : Requirements \cup {None},
     attempt : Nat, actor : Actors \cup {None}, pending : SUBSET Requirements]

TypeOK ==
    /\ trip \in {"InTransit", "Delivered", "OperationallyClosed"}
    /\ \A s \in Stops : outcome[s] = None \/ outcome[s].outcome \in OutcomeKinds
    /\ requirement \in [Requirements -> RequirementStatus]
    /\ submissions \in [Requirements -> Seq(Submission)]
    /\ closing \in Closing \cup {None}
    /\ session \in [Sessions -> Session]

Init ==
    /\ trip = "InTransit"
    /\ outcome = [s \in Stops |-> None]
    /\ requirement = [r \in Requirements |-> "required"]
    /\ submissions = [r \in Requirements |-> <<>>]
    /\ closing = None
    /\ session = [s \in Sessions |-> Idle]
-----------------------------------------------------------------------------
(* recordStopOutcome: the quantities decide, and the last delivery ends    *)
(* the trip if it has got there.                                           *)
RecordStopOutcome(s, lines) ==
    /\ outcome[s] = None
    /\ DOMAIN lines # {}
    /\ Conserved(lines)
    /\ outcome' = [outcome EXCEPT ![s] =
           [outcome |-> DeriveOutcome(KindOf[s], lines), lines |-> lines]]
    /\ \/ UNCHANGED trip
       \/ s = LastDelivery /\ trip = "InTransit" /\ trip' = "Delivered"
    /\ UNCHANGED <<requirement, submissions, closing, session>>

Begin(s, x) ==
    /\ session[s] = Idle
    /\ session' = [session EXCEPT ![s] = x]
    /\ UNCHANGED fileVars

End(s) == session' = [session EXCEPT ![s] = Idle]

(* submitEvidence, up to its insertion. *)
BeginSubmit(s, r, a) ==
    /\ requirement[r] # "waived"
    /\ Begin(s, [Idle EXCEPT !.command = "submit", !.of = r, !.actor = a])

Attempts(r) == DOMAIN submissions[r]

Open(r) == {n \in Attempts(r) : submissions[r][n].status = "submitted"}

(* A mistake in the next definition: the index is missing. *)
MayOpenAnother(r) == TRUE

(* The unique index evidence_submission_one_open. *)
MayOpen(r) == Open(r) = {}

(* submitEvidence: one attempt more than there are. *)
CommitSubmit(s) ==
    LET r == session[s].of
    IN  /\ session[s].command = "submit"
        /\ Len(submissions[r]) < AttemptsOf[r]
        /\ MayOpen(r)
        /\ submissions' = [submissions EXCEPT ![r] = Append(@,
               [status |-> "submitted", capturedBy |-> session[s].actor, validatedBy |-> None])]
        /\ End(s)
        /\ UNCHANGED <<trip, outcome, requirement, closing>>

(* A mistake in the next definition: who captured may validate. *)
BeginAcceptOwn(s, r, n, a) ==
    /\ submissions[r][n].status = "submitted"
    /\ Begin(s, [Idle EXCEPT !.command = "accept", !.of = r, !.attempt = n, !.actor = a])

(* acceptEvidence, up to its first update: the life cycle, and somebody    *)
(* else than who captured.                                                 *)
BeginAccept(s, r, n, a) ==
    /\ submissions[r][n].status = "submitted"
    /\ submissions[r][n].capturedBy # a
    /\ Begin(s, [Idle EXCEPT !.command = "accept", !.of = r, !.attempt = n, !.actor = a])

(* A mistake in the next definition: the trigger is missing. *)
MayRewriteAccepted(submission) == TRUE

(* forbid_accepted_evidence_rewrite *)
MayRewrite(submission) == submission.status # "accepted"

(* A mistake in the next definition: the constraint is missing. *)
MaySatisfyWaived(r) == TRUE

(* evidence_requirement_waived_consistency: the date of a waiver stays, so *)
(* its status must.                                                        *)
MaySatisfy(r) == requirement[r] # "waived"

Validated(r, n, status, a) ==
    [submissions EXCEPT ![r][n].status = status, ![r][n].validatedBy = a]

(* acceptEvidence, its updates. *)
CommitAccept(s) ==
    LET t == session[s]
    IN  /\ t.command = "accept"
        /\ MayRewrite(submissions[t.of][t.attempt])
        /\ MaySatisfy(t.of)
        /\ submissions' = Validated(t.of, t.attempt, "accepted", t.actor)
        /\ requirement' = [requirement EXCEPT ![t.of] = "satisfied"]
        /\ End(s)
        /\ UNCHANGED <<trip, outcome, closing>>

(* rejectEvidence: it asks for a reason, and nothing of the submission. *)
RejectEvidence(r, n, a) ==
    /\ MayRewrite(submissions[r][n])
    /\ submissions' = Validated(r, n, "rejected", a)
    /\ UNCHANGED <<trip, outcome, requirement, closing, session>>

(* waiveEvidence: it asks for a reason, and nothing of the requirement. *)
WaiveEvidence(r) ==
    /\ requirement' = [requirement EXCEPT ![r] = "waived"]
    /\ UNCHANGED <<trip, outcome, submissions, closing, session>>

Unresolved == {s \in Stops : outcome[s] = None}

(* A mistake in the next definition: what was submitted is not pending. *)
PendingUnsubmitted == {r \in Requirements : requirement[r] = "required" /\ submissions[r] = <<>>}

(* The requirements that closeTripOperationally declares as pending. *)
Pending == {r \in Requirements : requirement[r] = "required"}

(* closeTripOperationally, up to its update. *)
BeginClose(s) ==
    /\ trip = "Delivered"
    /\ CanClose(Unresolved)
    /\ Begin(s, [Idle EXCEPT !.command = "close", !.pending = Pending])

CommitClose(s) ==
    LET pending == session[s].pending
        total == Cardinality(Requirements)
    IN  /\ session[s].command = "close"
        /\ trip' = "OperationallyClosed"
        /\ closing' = [pending |-> pending,
                       completeness |-> Completeness(total - Cardinality(pending), total)]
        /\ End(s)
        /\ UNCHANGED <<outcome, requirement, submissions>>

(* A constraint, a trigger or a lost connection aborts the transaction. *)
Rollback(s) ==
    /\ session[s] # Idle
    /\ End(s)
    /\ UNCHANGED fileVars

Next ==
    \/ \E s \in Stops, lines \in Declarations : RecordStopOutcome(s, lines)
    \/ \E s \in Sessions, r \in Requirements, a \in Actors :
           \/ BeginSubmit(s, r, a)
           \/ \E n \in Attempts(r) : BeginAccept(s, r, n, a)
    \/ \E r \in Requirements, a \in Actors : \E n \in Attempts(r) : RejectEvidence(r, n, a)
    \/ \E r \in Requirements : WaiveEvidence(r)
    \/ \E s \in Sessions :
           \/ CommitSubmit(s)
           \/ CommitAccept(s)
           \/ BeginClose(s)
           \/ CommitClose(s)
           \/ Rollback(s)

Spec == Init /\ [][Next]_vars
-----------------------------------------------------------------------------
(* Whatever a stop declared, the outcome that the file keeps tells it      *)
(* (docs/13 §9: derived, not captured).                                    *)
OutcomesTellTheQuantities ==
    \A s \in Stops : outcome[s] # None =>
        OutcomeTells(KindOf[s], outcome[s].outcome, outcome[s].lines)

(* A satisfied requirement has a submission that somebody other than its   *)
(* author has accepted, whatever was decided on reads that were out of     *)
(* date (evidence.ts: who captured the evidence does not validate it).     *)
SatisfiedIsProven ==
    \A r \in Requirements : requirement[r] = "satisfied" =>
        \E n \in Attempts(r) :
            /\ submissions[r][n].status = "accepted"
            /\ submissions[r][n].validatedBy # submissions[r][n].capturedBy

(* At most one submission of a requirement waits for its validation, and   *)
(* it is the last: a rejected one is followed by another, never reopened   *)
(* (0016: "Una sola presentación viva por requisito").                     *)
OneLiveSubmission ==
    \A r \in Requirements : Open(r) \subseteq {Len(submissions[r])}

(* Accepted evidence and waivers stand, although commands that read the    *)
(* requirement before them are still to commit (docs/13 §11.8).            *)
DecisionsStand ==
    [][\A r \in Requirements :
          /\ requirement[r] = "waived" => requirement'[r] = "waived"
          /\ \A n \in Attempts(r) : submissions[r][n].status = "accepted" =>
                 submissions'[r][n] = submissions[r][n]]_vars

(* A closed trip declares everything that it lacks: whatever is pending    *)
(* now was pending when it was closed, and the file is whole only if       *)
(* nothing was (docs/13 §8; delivery.ts: "un cierre que oculta lo que le   *)
(* falta es peor que uno que no ocurre").                                  *)
ClosingHidesNothing ==
    closing # None =>
        /\ \A r \in Requirements : requirement[r] = "required" => r \in closing.pending
        /\ closing.completeness = Whole => "required" \notin Range(requirement)
        /\ \A s \in Stops : outcome[s] # None

(* A promise that is not kept: a rejected submission keeps its validator   *)
(* (evidence.ts: "La rechazada permanece con su motivo y su validador").   *)
(* It can be rejected again, and accepted by who read it before.           *)
RejectedStands ==
    [][\A r \in Requirements : \A n \in Attempts(r) :
          submissions[r][n].status = "rejected" => submissions'[r][n] = submissions[r][n]]_vars

(* A promise that is not kept: nothing is submitted against a waiver       *)
(* (evidence.ts: it "contradiría esa decisión").                           *)
NothingSubmittedAfterWaiver ==
    [][\A r \in Requirements :
          requirement[r] = "waived" => Len(submissions'[r]) = Len(submissions[r])]_vars

(* A promise that is not kept: what was delivered of an item was picked up *)
(* (0016: "no se puede entregar más de lo que se cargó").  Each stop       *)
(* declares its own `loaded`, and nothing compares them.                   *)
DeliveredWasPickedUp ==
    \A p, d \in Stops :
        KindOf[p] = "pickup" /\ outcome[p] # None /\ KindOf[d] = "delivery" /\ outcome[d] # None =>
            \A i \in DOMAIN outcome[p].lines \cap DOMAIN outcome[d].lines :
                Disposed(outcome[d].lines[i]) <= outcome[p].lines[i].loaded
==============================================================================
