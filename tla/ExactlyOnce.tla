----------------------------- MODULE ExactlyOnce -----------------------------
(***************************************************************************)
(* What an idempotency key promises (docs/12 section 6): the commands sent *)
(* with one key take effect once at most, and whoever sent that command    *)
(* and gets an answer gets the answer of that one execution.               *)
(***************************************************************************)
CONSTANTS
    Requests, Keys,
    KeyOf,      \* KeyOf[r]: the key r was sent with
    Body,       \* Body[r]: what r asks for
    None

VARIABLES
    effect,     \* effect[k]: the request that took effect under k, or None
    answer      \* answer[r]: the execution whose result r was answered with

Init ==
    /\ effect = [k \in Keys |-> None]
    /\ answer = [r \in Requests |-> None]

Perform(r) ==
    /\ effect[KeyOf[r]] = None
    /\ effect' = [effect EXCEPT ![KeyOf[r]] = r]
    /\ UNCHANGED answer

Answer(r) ==
    /\ answer[r] = None
    /\ effect[KeyOf[r]] # None
    /\ Body[effect[KeyOf[r]]] = Body[r]
    /\ answer' = [answer EXCEPT ![r] = effect[KeyOf[r]]]
    /\ UNCHANGED effect

Next == \E r \in Requests : Perform(r) \/ Answer(r)

Spec == Init /\ [][Next]_<<effect, answer>>
==============================================================================
