--------------------------- MODULE OutboxPublisher ---------------------------
(***************************************************************************)
(* The outbox workers (packages/platform/src/outbox/publisher.ts and       *)
(* publisher-cli.ts) and the three functions of the database that they may *)
(* call (migration 0008).                                                  *)
(*                                                                         *)
(* Every call of a function is a transaction of its own: the claim commits *)
(* before the events are delivered.  A worker may die between any two      *)
(* steps, and a call may fail before or after it has taken effect.         *)
(* next_attempt_at is a Boolean, "due", and the backoff its becoming true. *)
(***************************************************************************)
EXTENDS Naturals, FiniteSets

CONSTANTS
    Events, Workers,
    None,
    NumHandlers,    \* handlers are called one after the other, 1 .. NumHandlers
    BatchSize, MaxAttempts,
    MaxFaults       \* bound: deaths of workers and failed calls

ASSUME SizesAssumption ==
    /\ NumHandlers \in Nat \ {0}
    /\ BatchSize \in Nat \ {0}
    /\ MaxAttempts \in Nat \ {0}
    /\ MaxFaults \in Nat

ASSUME NoneIsNoEvent == None \notin Events

VARIABLES
    status,     \* status[e]: status column, "none" before the event exists
    attempts,   \* attempts[e]: attempts column
    due,        \* events whose next_attempt_at has come
    accepted,   \* accepted[e]: handlers that have accepted e
    batch,      \* batch[w]: claimed events that w has not taken up
    current,    \* current[w]: event that w is delivering, or None
    phase,      \* phase[w]: what w does next
    handler,    \* handler[w]: next handler to call
    faults      \* number of faults so far

workerVars == <<batch, current, phase, handler>>

rowVars == <<status, attempts, due>>

vars == <<rowVars, accepted, workerVars, faults>>

Handlers == 1 .. NumHandlers

Status == {"none", "pending", "publishing", "published", "failed"}

Phase == {"polling", "delivering", "marking", "retrying", "down"}

(* Every variable has its type: among others, no event is tried too often. *)
TypeOK ==
    /\ status \in [Events -> Status]
    /\ attempts \in [Events -> 0 .. MaxAttempts]
    /\ due \subseteq Events
    /\ accepted \in [Events -> SUBSET Handlers]
    /\ batch \in [Workers -> SUBSET Events]
    /\ current \in [Workers -> Events \cup {None}]
    /\ phase \in [Workers -> Phase]
    /\ handler \in [Workers -> 1 .. NumHandlers + 1]
    /\ faults \in 0 .. MaxFaults

Init ==
    /\ status = [e \in Events |-> "none"]
    /\ attempts = [e \in Events |-> 0]
    /\ due = {}
    /\ accepted = [e \in Events |-> {}]
    /\ batch = [w \in Workers |-> {}]
    /\ current = [w \in Workers |-> None]
    /\ phase = [w \in Workers |-> "polling"]
    /\ handler = [w \in Workers |-> 1]
    /\ faults = 0

------------------------------------------------------------------------------
(* enqueueEvent, in the transaction of the command; due at once. *)
Enqueue(e) ==
    /\ status[e] = "none"
    /\ status' = [status EXCEPT ![e] = "pending"]
    /\ due' = due \cup {e}
    /\ UNCHANGED <<attempts, accepted, workerVars, faults>>

(* next_attempt_at passes. *)
BackoffElapses(e) ==
    /\ status[e] \in {"pending", "failed"}
    /\ e \notin due
    /\ due' = due \cup {e}
    /\ UNCHANGED <<status, attempts, accepted, workerVars, faults>>

(* A mistake in the next definition: rows left in "publishing" are claimed too. *)
ClaimablePublishing ==
    {e \in due : status[e] \in {"pending", "publishing", "failed"} /\ attempts[e] < MaxAttempts}

Claimable == {e \in due : status[e] \in {"pending", "failed"} /\ attempts[e] < MaxAttempts}

(***************************************************************************)
(* claim_outbox_batch: as many of the claimable events as the limit        *)
(* allows.  Which ones come first, and in which order they come back, is   *)
(* not told apart.  skip locked makes concurrent claims disjoint.          *)
(***************************************************************************)
ClaimBatch(w) ==
    /\ phase[w] = "polling"
    /\ batch[w] = {}
    /\ \E claimed \in SUBSET Claimable :
          /\ claimed # {}
          /\ Cardinality(claimed) <= BatchSize
          /\ claimed = Claimable \/ Cardinality(claimed) = BatchSize
          /\ status' = [e \in Events |-> IF e \in claimed THEN "publishing" ELSE status[e]]
          /\ attempts' = [e \in Events |-> IF e \in claimed THEN attempts[e] + 1 ELSE attempts[e]]
          /\ batch' = [batch EXCEPT ![w] = claimed]
    /\ UNCHANGED <<due, accepted, current, phase, handler, faults>>

(* The loop over the batch takes up its next row. *)
TakeUp(w, e) ==
    /\ phase[w] = "polling"
    /\ e \in batch[w]
    /\ batch' = [batch EXCEPT ![w] = @ \ {e}]
    /\ current' = [current EXCEPT ![w] = e]
    /\ phase' = [phase EXCEPT ![w] = "delivering"]
    /\ handler' = [handler EXCEPT ![w] = 1]
    /\ UNCHANGED <<rowVars, accepted, faults>>

(* A mistake in the next definition: the event is marked after its first handler. *)
HandlerAcceptsAlone(w) ==
    /\ phase[w] = "delivering"
    /\ accepted' = [accepted EXCEPT ![current[w]] = @ \cup {handler[w]}]
    /\ handler' = [handler EXCEPT ![w] = @ + 1]
    /\ phase' = [phase EXCEPT ![w] = "marking"]
    /\ UNCHANGED <<rowVars, batch, current, faults>>

HandlerAccepts(w) ==
    /\ phase[w] = "delivering"
    /\ accepted' = [accepted EXCEPT ![current[w]] = @ \cup {handler[w]}]
    /\ handler' = [handler EXCEPT ![w] = @ + 1]
    /\ phase' = [phase EXCEPT ![w] = IF handler[w] = NumHandlers THEN "marking" ELSE @]
    /\ UNCHANGED <<rowVars, batch, current, faults>>

(* The handler throws; the handlers after it are not called. *)
HandlerThrows(w) ==
    /\ phase[w] = "delivering"
    /\ phase' = [phase EXCEPT ![w] = "retrying"]
    /\ UNCHANGED <<rowVars, accepted, batch, current, handler, faults>>

Done(w) ==
    /\ current' = [current EXCEPT ![w] = None]
    /\ phase' = [phase EXCEPT ![w] = "polling"]
    /\ UNCHANGED <<batch, handler>>

(* mark_outbox_published. *)
MarkPublished(w) ==
    /\ phase[w] = "marking"
    /\ status' = [status EXCEPT ![current[w]] = "published"]
    /\ Done(w)
    /\ UNCHANGED <<attempts, due, accepted, faults>>

Fault ==
    /\ faults < MaxFaults
    /\ faults' = faults + 1

(* mark_outbox_published fails, without effect or with its answer lost. *)
MarkPublishedFails(w) ==
    /\ phase[w] = "marking"
    /\ Fault
    /\ status' \in {status, [status EXCEPT ![current[w]] = "published"]}
    /\ phase' = [phase EXCEPT ![w] = "retrying"]
    /\ UNCHANGED <<attempts, due, accepted, batch, current, handler>>

(* A mistake in the next definition: the status is left as the claim set it. *)
ReprogrammedPublishing(e) == IF attempts[e] >= MaxAttempts THEN "failed" ELSE status[e]

Reprogrammed(e) == IF attempts[e] >= MaxAttempts THEN "failed" ELSE "pending"

(* A mistake in the next definition: outbox_published_consistency is absent. *)
MarkRetryOfPublished(w) ==
    /\ phase[w] = "retrying"
    /\ status' = [status EXCEPT ![current[w]] = Reprogrammed(current[w])]
    /\ due' = due \ {current[w]}
    /\ Done(w)
    /\ UNCHANGED <<attempts, accepted, faults>>

(* mark_outbox_retry. *)
MarkRetry(w) ==
    /\ phase[w] = "retrying"
    /\ status[current[w]] # "published"
    /\ status' = [status EXCEPT ![current[w]] = Reprogrammed(current[w])]
    /\ due' = due \ {current[w]}
    /\ Done(w)
    /\ UNCHANGED <<attempts, accepted, faults>>

Stopped(w) ==
    /\ batch' = [batch EXCEPT ![w] = {}]
    /\ current' = [current EXCEPT ![w] = None]
    /\ phase' = [phase EXCEPT ![w] = "down"]
    /\ UNCHANGED handler

(***************************************************************************)
(* outbox_published_consistency forbids to reprogramme an event that is    *)
(* published already: the exception leaves publishPendingEvents and ends   *)
(* the process, with the rest of its batch.                                *)
(***************************************************************************)
RetryOfPublishedThrows(w) ==
    /\ phase[w] = "retrying"
    /\ status[current[w]] = "published"
    /\ Stopped(w)
    /\ UNCHANGED <<rowVars, accepted, faults>>

(* The process dies, or mark_outbox_retry fails without effect. *)
WorkerDies(w) ==
    /\ phase[w] # "down"
    /\ Fault
    /\ Stopped(w)
    /\ UNCHANGED <<rowVars, accepted>>

(* Another process is started in its place. *)
WorkerStarts(w) ==
    /\ phase[w] = "down"
    /\ phase' = [phase EXCEPT ![w] = "polling"]
    /\ UNCHANGED <<rowVars, accepted, batch, current, handler, faults>>

WorkerStep(w) ==
    \/ ClaimBatch(w)
    \/ \E e \in Events : TakeUp(w, e)
    \/ HandlerAccepts(w)
    \/ HandlerThrows(w)
    \/ MarkPublished(w)
    \/ MarkRetry(w)
    \/ RetryOfPublishedThrows(w)
    \/ WorkerStarts(w)

FaultStep(w) ==
    \/ MarkPublishedFails(w)
    \/ WorkerDies(w)

Next ==
    \/ \E w \in Workers : WorkerStep(w) \/ FaultStep(w)
    \/ \E e \in Events : Enqueue(e) \/ BackoffElapses(e)

Spec == Init /\ [][Next]_vars

(***************************************************************************)
(* publisher-cli runs in a loop and a supervisor restarts it; time passes. *)
(***************************************************************************)
FairSpec ==
    /\ Spec
    /\ \A w \in Workers : WF_vars(WorkerStep(w))
    /\ \A e \in Events : WF_vars(BackoffElapses(e))

------------------------------------------------------------------------------
(* The events that w is responsible for. *)
Held(w) == batch[w] \cup ({current[w]} \ {None})

(***************************************************************************)
(* Two workers never deliver the same event at a time: the claim is        *)
(* exclusive and nobody releases it but its owner.                         *)
(***************************************************************************)
EventsHaveOneWorker ==
    \A v, w \in Workers : v # w => Held(v) \cap Held(w) = {}

(***************************************************************************)
(* An event is published only when all handlers have accepted it, although *)
(* each attempt calls all of them again and any may throw.                 *)
(***************************************************************************)
PublishedWasAccepted ==
    \A e \in Events : status[e] = "published" => accepted[e] = Handlers

(***************************************************************************)
(* A published event is never delivered again: also when the answer to     *)
(* mark_outbox_published was lost and the worker asks for a retry.         *)
(***************************************************************************)
PublishedStands ==
    [][ \A e \in Events : status[e] = "published" =>
            status'[e] = "published" /\ \A w \in Workers : e \notin batch[w]' ]_vars

(* An event in the dead letter queue has had all its attempts. *)
FailedIsExhausted ==
    \A e \in Events : status[e] = "failed" => attempts[e] = MaxAttempts

(***************************************************************************)
(* While no worker dies and no call fails, every event is published or     *)
(* ends in the dead letter queue, however often its handlers throw.        *)
(***************************************************************************)
Resolves(e) == status[e] = "pending" ~> status[e] \in {"published", "failed"}

EventsResolveWithoutFaults == [](faults = 0) => \A e \in Events : Resolves(e)

(***************************************************************************)
(* A worker that dies must not prevent it either: "si el proceso muere     *)
(* durante la entrega, el evento queda con attempts incrementado y vuelve  *)
(* a la cola por tiempo" (publisher.ts:56-58).                             *)
(***************************************************************************)
EventsResolve == \A e \in Events : Resolves(e)

------------------------------------------------------------------------------
(* At-least-once delivery, with the attempts and the workers hidden.        *)
fate ==
    [e \in Events |-> CASE status[e] \in {"pending", "publishing"} -> "waiting"
                        [] status[e] = "failed" -> "dead"
                        [] OTHER -> status[e]]

Promise == INSTANCE AtLeastOnce

(* The workers implement at-least-once delivery. *)
AtLeastOnceDelivery == Promise!Spec
==============================================================================
