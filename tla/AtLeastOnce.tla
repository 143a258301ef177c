----------------------------- MODULE AtLeastOnce -----------------------------
(***************************************************************************)
(* What publisher.ts promises about the events of the outbox, whatever the *)
(* number of workers: an event that was enqueued is offered to every       *)
(* handler, more than once if need be; it counts as published only after   *)
(* all of them have accepted it, and one that is given up is kept, apart.  *)
(***************************************************************************)
CONSTANTS
    Events,
    Handlers

VARIABLES
    fate,       \* fate[e]
    accepted    \* accepted[e]: handlers that have accepted e at least once

Fate == {"none", "waiting", "published", "dead"}

Init ==
    /\ fate = [e \in Events |-> "none"]
    /\ accepted = [e \in Events |-> {}]

(* The event is enqueued with the change it tells of. *)
Announce(e) ==
    /\ fate[e] = "none"
    /\ fate' = [fate EXCEPT ![e] = "waiting"]
    /\ UNCHANGED accepted

(* A handler accepts the event, for the first time or again. *)
Accept(e, h) ==
    /\ fate[e] = "waiting"
    /\ accepted' = [accepted EXCEPT ![e] = @ \cup {h}]
    /\ UNCHANGED fate

Publish(e) ==
    /\ fate[e] = "waiting"
    /\ accepted[e] = Handlers
    /\ fate' = [fate EXCEPT ![e] = "published"]
    /\ UNCHANGED accepted

(* The attempts are exhausted; the event waits for an authorised replay. *)
GiveUp(e) ==
    /\ fate[e] = "waiting"
    /\ fate' = [fate EXCEPT ![e] = "dead"]
    /\ UNCHANGED accepted

Next ==
    \E e \in Events :
        \/ Announce(e)
        \/ \E h \in Handlers : Accept(e, h)
        \/ Publish(e)
        \/ GiveUp(e)

Spec == Init /\ [][Next]_<<fate, accepted>>
==============================================================================
