------------------------ MODULE OutboxPublisher_proofs ------------------------
(***************************************************************************)
(* For any number of events, workers, handlers and faults, the workers     *)
(* implement at-least-once delivery.  The argument: an event that a worker *)
(* holds is "publishing", which no other worker can claim, and the worker  *)
(* has been through the handlers in order since it took the event up.      *)
(***************************************************************************)
EXTENDS OutboxPublisher, TLAPS

(* A worker has a current event exactly while it is busy with it. *)
WorkersAreConsistent ==
    \A w \in Workers :
        /\ current[w] # None <=> phase[w] \in {"delivering", "marking", "retrying"}
        /\ current[w] \notin batch[w]
        /\ phase[w] = "down" => batch[w] = {}

(* The rows that a worker holds are those it has claimed. *)
HeldArePublishing ==
    \A w \in Workers :
        /\ \A e \in batch[w] : status[e] = "publishing"
        /\ phase[w] \in {"delivering", "marking"} => status[current[w]] = "publishing"
        /\ phase[w] = "retrying" => status[current[w]] \in {"publishing", "published"}

(* The handlers before the next one have accepted the current event. *)
HandlersInOrder ==
    \A w \in Workers :
        /\ phase[w] = "delivering" =>
              /\ handler[w] \in Handlers
              /\ \A h \in Handlers : h < handler[w] => h \in accepted[current[w]]
        /\ phase[w] = "marking" => accepted[current[w]] = Handlers

IInv ==
    /\ TypeOK
    /\ WorkersAreConsistent
    /\ HeldArePublishing
    /\ HandlersInOrder
    /\ EventsHaveOneWorker
    /\ PublishedWasAccepted
    /\ FailedIsExhausted

------------------------------------------------------------------------------
(* The invariant holds before any event. *)
LEMMA InitInvariant == Init => IInv
  BY SizesAssumption, NoneIsNoEvent
     DEF Init, IInv, TypeOK, Status, Phase, Handlers, WorkersAreConsistent, HeldArePublishing,
         HandlersInOrder, EventsHaveOneWorker, Held, PublishedWasAccepted, FailedIsExhausted

(* The invariant holds through every step of a worker and every fault. *)
LEMMA StepInvariant == IInv /\ [Next]_vars => IInv'
<1> USE SizesAssumption, NoneIsNoEvent
<1> SUFFICES ASSUME IInv, [Next]_vars PROVE IInv'
  OBVIOUS
<1> USE DEF IInv, TypeOK, Status, Phase, Handlers, WorkersAreConsistent, HeldArePublishing,
            HandlersInOrder, EventsHaveOneWorker, Held, PublishedWasAccepted,
            FailedIsExhausted, rowVars, workerVars
<1>1. ASSUME NEW e \in Events, Enqueue(e) PROVE IInv'
  BY <1>1 DEF Enqueue
<1>2. ASSUME NEW e \in Events, BackoffElapses(e) PROVE IInv'
  BY <1>2 DEF BackoffElapses
<1>3. ASSUME NEW w \in Workers, ClaimBatch(w) PROVE IInv'
  <2>1. PICK claimed \in SUBSET Claimable :
           /\ status' = [e \in Events |-> IF e \in claimed THEN "publishing" ELSE status[e]]
           /\ attempts' = [e \in Events |-> IF e \in claimed THEN attempts[e] + 1
                                                             ELSE attempts[e]]
           /\ batch' = [batch EXCEPT ![w] = claimed]
    BY <1>3 DEF ClaimBatch
  <2>2. /\ phase[w] = "polling" /\ batch[w] = {}
        /\ UNCHANGED <<due, accepted, current, phase, handler, faults>>
    BY <1>3 DEF ClaimBatch
  <2>3. \A e \in claimed : e \in Events /\ status[e] \in {"pending", "failed"}
                           /\ attempts[e] < MaxAttempts
    BY DEF Claimable
  <2>4. \A v \in Workers : Held(v) \cap claimed = {}
    <3> SUFFICES ASSUME NEW v \in Workers, NEW e \in claimed, e \in Held(v) PROVE FALSE
      OBVIOUS
    <3>1. CASE e \in batch[v]
      BY <2>3, <3>1
    <3>2. CASE e = current[v] /\ e # None
      <4>1. phase[v] \in {"delivering", "marking", "retrying"}
        BY <3>2
      <4>2. status[e] \in {"publishing", "published"}
        BY <3>2, <4>1
      <4>3. QED
        BY <2>3, <4>2
    <3>3. QED
      BY <3>1, <3>2
  <2>5. TypeOK'
    BY <2>1, <2>2, <2>3
  <2>6. WorkersAreConsistent' /\ HeldArePublishing'
    BY <2>1, <2>2, <2>3, <2>4
  <2>7. HandlersInOrder' /\ PublishedWasAccepted' /\ FailedIsExhausted'
    BY <2>1, <2>2, <2>3
  <2>8. EventsHaveOneWorker'
    BY <2>1, <2>2, <2>4
  <2>9. QED
    BY <2>5, <2>6, <2>7, <2>8
<1>4. ASSUME NEW w \in Workers, NEW e \in Events, TakeUp(w, e) PROVE IInv'
  BY <1>4 DEF TakeUp
<1>5. ASSUME NEW w \in Workers, HandlerAccepts(w) PROVE IInv'
  <2>1. phase[w] = "delivering" /\ current[w] \in Events
    BY <1>5 DEF HandlerAccepts
  <2>2. TypeOK'
    BY <1>5, <2>1 DEF HandlerAccepts
  <2>3. WorkersAreConsistent' /\ HeldArePublishing' /\ EventsHaveOneWorker'
    BY <1>5, <2>1 DEF HandlerAccepts
  <2>4. HandlersInOrder'
    <3>1. \A e \in Events : accepted[e] \subseteq accepted'[e]
      BY <1>5 DEF HandlerAccepts
    <3>2. \A v \in Workers \ {w} :
             phase'[v] = phase[v] /\ handler'[v] = handler[v] /\ current'[v] = current[v]
      BY <1>5 DEF HandlerAccepts
    <3>3. \A h \in Handlers : h <= handler[w] => h \in accepted'[current[w]]
      BY <1>5, <2>1 DEF HandlerAccepts
    <3>4. CASE handler[w] = NumHandlers
      <4>1. Handlers \subseteq accepted'[current[w]]
        BY <2>1, <3>3, <3>4
      <4>2. accepted'[current[w]] = Handlers /\ current'[w] = current[w] /\ phase'[w] = "marking"
        BY <1>5, <2>1, <2>2, <3>4, <4>1 DEF HandlerAccepts
      <4>3. ASSUME NEW v \in Workers \ {w}, phase'[v] \in {"delivering", "marking"}
            PROVE  accepted'[current'[v]] = accepted[current[v]]
        BY <1>5, <2>1, <3>2, <4>3 DEF HandlerAccepts
      <4>4. ASSUME NEW v \in Workers, phase'[v] = "delivering"
            PROVE  /\ handler'[v] \in Handlers
                   /\ \A h \in Handlers : h < handler'[v] => h \in accepted'[current'[v]]
        BY <3>2, <4>2, <4>3, <4>4
      <4>5. ASSUME NEW v \in Workers, phase'[v] = "marking"
            PROVE  accepted'[current'[v]] = Handlers
        BY <3>2, <4>2, <4>3, <4>5, SMTT(30)
      <4>6. QED
        BY <4>4, <4>5
    <3>5. CASE handler[w] # NumHandlers
      BY <1>5, <2>1, <2>2, <3>1, <3>2, <3>3, <3>5 DEF HandlerAccepts
    <3>6. QED
      BY <3>4, <3>5
  <2>5. PublishedWasAccepted' /\ FailedIsExhausted'
    BY <1>5, <2>1 DEF HandlerAccepts
  <2>6. QED
    BY <2>2, <2>3, <2>4, <2>5
<1>6. ASSUME NEW w \in Workers, HandlerThrows(w) PROVE IInv'
  BY <1>6 DEF HandlerThrows
<1>7. ASSUME NEW w \in Workers, MarkPublished(w) PROVE IInv'
  BY <1>7 DEF MarkPublished, Done
<1>8. ASSUME NEW w \in Workers, MarkRetry(w) PROVE IInv'
  BY <1>8 DEF MarkRetry, Done, Reprogrammed
<1>9. ASSUME NEW w \in Workers, RetryOfPublishedThrows(w) PROVE IInv'
  BY <1>9 DEF RetryOfPublishedThrows, Stopped
<1>10. ASSUME NEW w \in Workers, WorkerStarts(w) PROVE IInv'
  BY <1>10 DEF WorkerStarts
<1>11. ASSUME NEW w \in Workers, MarkPublishedFails(w) PROVE IInv'
  <2>1. phase[w] = "marking" /\ current[w] \in Events
    BY <1>11 DEF MarkPublishedFails
  <2>2. CASE status' = status
    BY <1>11, <2>1, <2>2 DEF MarkPublishedFails, Fault
  <2>3. CASE status' = [status EXCEPT ![current[w]] = "published"]
    BY <1>11, <2>1, <2>3 DEF MarkPublishedFails, Fault
  <2>4. QED
    BY <1>11, <2>2, <2>3 DEF MarkPublishedFails
<1>12. ASSUME NEW w \in Workers, WorkerDies(w) PROVE IInv'
  BY <1>12 DEF WorkerDies, Fault, Stopped
<1>13. ASSUME UNCHANGED vars PROVE IInv'
  BY <1>13 DEF vars
<1>14. QED
  BY <1>1, <1>2, <1>3, <1>4, <1>5, <1>6, <1>7, <1>8, <1>9, <1>10, <1>11, <1>12, <1>13
     DEF Next, WorkerStep, FaultStep

(* The invariant holds throughout. *)
LEMMA Invariant == Spec => []IInv
  BY InitInvariant, StepInvariant, PTL DEF Spec

------------------------------------------------------------------------------
(* Every variable keeps its type: no event is tried more than MaxAttempts times. *)
THEOREM TypeCorrect == Spec => []TypeOK
<1>1. IInv => TypeOK
  BY DEF IInv
<1>2. QED
  BY <1>1, Invariant, PTL

(* No two workers deliver an event at a time. *)
THEOREM OneWorkerPerEvent == Spec => []EventsHaveOneWorker
<1>1. IInv => EventsHaveOneWorker
  BY DEF IInv
<1>2. QED
  BY <1>1, Invariant, PTL

(* A published event has been accepted by every handler. *)
THEOREM PublishedIsAccepted == Spec => []PublishedWasAccepted
<1>1. IInv => PublishedWasAccepted
  BY DEF IInv
<1>2. QED
  BY <1>1, Invariant, PTL

(* An event in the dead letter queue has had every attempt. *)
THEOREM DeadLettersAreExhausted == Spec => []FailedIsExhausted
<1>1. IInv => FailedIsExhausted
  BY DEF IInv
<1>2. QED
  BY <1>1, Invariant, PTL

(***************************************************************************)
(* A published event stays so and is not claimed again, although a worker  *)
(* that lost an answer may try to reprogramme it.                          *)
(***************************************************************************)
LEMMA StepStands ==
    ASSUME IInv, IInv', [Next]_vars, NEW e \in Events, status[e] = "published"
    PROVE  status'[e] = "published" /\ \A w \in Workers : e \notin batch[w]'
<1>1. status'[e] = "published"
  <2> USE DEF IInv, TypeOK, HeldArePublishing, WorkersAreConsistent
  <2>1. ASSUME NEW w \in Workers, WorkerStep(w) PROVE status'[e] = "published"
    BY <2>1 DEF WorkerStep, ClaimBatch, Claimable, TakeUp, HandlerAccepts, HandlerThrows,
                MarkPublished, MarkRetry, RetryOfPublishedThrows, WorkerStarts, rowVars
  <2>2. ASSUME NEW w \in Workers, FaultStep(w) PROVE status'[e] = "published"
    BY <2>2 DEF FaultStep, MarkPublishedFails, WorkerDies, rowVars
  <2>3. ASSUME NEW d \in Events, Enqueue(d) \/ BackoffElapses(d)
        PROVE  status'[e] = "published"
    BY <2>3 DEF Enqueue, BackoffElapses
  <2>4. ASSUME UNCHANGED vars PROVE status'[e] = "published"
    BY <2>4 DEF vars, rowVars
  <2>5. QED
    BY <2>1, <2>2, <2>3, <2>4 DEF Next
<1>2. \A w \in Workers : \A d \in batch'[w] : status'[d] = "publishing"
  BY DEF IInv, HeldArePublishing
<1>3. QED
  BY <1>1, <1>2

THEOREM PublishedForGood == Spec => PublishedStands
<1>1. IInv /\ IInv' /\ [Next]_vars =>
        [ \A e \in Events : status[e] = "published" =>
            status'[e] = "published" /\ \A w \in Workers : e \notin batch[w]' ]_vars
  BY StepStands
<1>2. QED
  BY <1>1, Invariant, PTL DEF Spec, PublishedStands

------------------------------------------------------------------------------
(***************************************************************************)
(* The refinement: a claim, a retry, a crash are invisible; what a handler *)
(* accepts is accepted, and the two ends of an event are its marks.        *)
(***************************************************************************)
LEMMA StepRefines == IInv /\ [Next]_vars => [Promise!Next]_<<fate, accepted>>
<1> SUFFICES ASSUME IInv, [Next]_vars PROVE [Promise!Next]_<<fate, accepted>>
  OBVIOUS
<1> USE NoneIsNoEvent
    DEF IInv, TypeOK, Status, WorkersAreConsistent, HeldArePublishing, HandlersInOrder
<1>1. ASSUME NEW e \in Events, Enqueue(e) PROVE Promise!Announce(e)
  BY <1>1 DEF Enqueue, fate, Promise!Announce
<1>2. ASSUME NEW e \in Events, BackoffElapses(e) PROVE UNCHANGED <<fate, accepted>>
  BY <1>2 DEF BackoffElapses, fate
<1>3. ASSUME NEW w \in Workers, ClaimBatch(w) PROVE UNCHANGED <<fate, accepted>>
  <2>1. PICK claimed \in SUBSET Claimable :
           status' = [e \in Events |-> IF e \in claimed THEN "publishing" ELSE status[e]]
    BY <1>3 DEF ClaimBatch
  <2>2. \A e \in Events : e \in claimed => status[e] \in {"pending", "failed"}
    BY DEF Claimable
  <2>3. \A e \in Events : status[e] # "failed" \/ e \notin claimed
    BY <2>1 DEF Claimable, FailedIsExhausted
  <2>4. \A e \in Events : fate'[e] = fate[e]
    BY <2>1, <2>2, <2>3 DEF fate
  <2>5. QED
    BY <1>3, <2>4 DEF ClaimBatch, fate
<1>4. ASSUME NEW w \in Workers, HandlerAccepts(w)
      PROVE  Promise!Accept(current[w], handler[w])
  BY <1>4 DEF HandlerAccepts, rowVars, fate, Promise!Accept
<1>5. ASSUME NEW w \in Workers, MarkPublished(w) PROVE Promise!Publish(current[w])
  BY <1>5 DEF MarkPublished, fate, Promise!Publish
<1>6. ASSUME NEW w \in Workers, MarkRetry(w)
      PROVE  Promise!GiveUp(current[w]) \/ UNCHANGED <<fate, accepted>>
  BY <1>6 DEF MarkRetry, Reprogrammed, fate, Promise!GiveUp
<1>7. ASSUME NEW w \in Workers, MarkPublishedFails(w)
      PROVE  Promise!Publish(current[w]) \/ UNCHANGED <<fate, accepted>>
  BY <1>7 DEF MarkPublishedFails, fate, Promise!Publish
<1>8. ASSUME NEW w \in Workers,
             \/ \E e \in Events : TakeUp(w, e)
             \/ HandlerThrows(w) \/ RetryOfPublishedThrows(w) \/ WorkerStarts(w)
             \/ WorkerDies(w)
      PROVE  UNCHANGED <<fate, accepted>>
  BY <1>8 DEF TakeUp, HandlerThrows, RetryOfPublishedThrows, WorkerStarts, WorkerDies,
              rowVars, fate
<1>9. ASSUME UNCHANGED vars PROVE UNCHANGED <<fate, accepted>>
  BY <1>9 DEF vars, rowVars, fate
<1>10. \A w \in Workers : /\ phase[w] = "delivering" => handler[w] \in Handlers
                          /\ phase[w] \in {"delivering", "marking", "retrying"}
                                => current[w] \in Events
  OBVIOUS
<1>11. ASSUME NEW w \in Workers, HandlerAccepts(w)
       PROVE  \E e \in Events, h \in Handlers : Promise!Accept(e, h)
  BY <1>4, <1>10, <1>11 DEF HandlerAccepts
<1>12. ASSUME NEW w \in Workers, MarkPublished(w)
       PROVE  \E e \in Events : Promise!Publish(e)
  BY <1>5, <1>10, <1>12 DEF MarkPublished
<1>13. ASSUME NEW w \in Workers, MarkRetry(w)
       PROVE  (\E e \in Events : Promise!GiveUp(e)) \/ UNCHANGED <<fate, accepted>>
  BY <1>6, <1>10, <1>13 DEF MarkRetry
<1>14. ASSUME NEW w \in Workers, MarkPublishedFails(w)
       PROVE  (\E e \in Events : Promise!Publish(e)) \/ UNCHANGED <<fate, accepted>>
  BY <1>7, <1>10, <1>14 DEF MarkPublishedFails
<1>15. QED
  BY <1>1, <1>2, <1>3, <1>8, <1>9, <1>11, <1>12, <1>13, <1>14
     DEF Next, WorkerStep, FaultStep, Promise!Next

(* The workers implement AtLeastOnce. *)
THEOREM DeliversAtLeastOnce == Spec => AtLeastOnceDelivery
<1>1. Init => Promise!Init
  BY DEF Init, fate, Promise!Init
<1>2. QED
  BY <1>1, StepRefines, Invariant, PTL DEF Spec, AtLeastOnceDelivery, Promise!Spec
==============================================================================
