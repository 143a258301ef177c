---------------------------- MODULE OneCommitment ----------------------------
(***************************************************************************)
(* What the sale promises of each service request: it is agreed once the   *)
(* customer has accepted a version of its quote, it is committed at most   *)
(* once, after being agreed and on an accepted version, and what was       *)
(* withdrawn is never committed.  RequestToOrder implements this.          *)
(***************************************************************************)
EXTENDS Naturals

CONSTANT Requests

VARIABLES
    stage,     \* "open", "agreed", "committed" or "withdrawn"
    accepted,  \* the versions that the customer has accepted
    contract   \* the version committed, 0 while there is none

vars == <<stage, accepted, contract>>

Init ==
    /\ stage = [r \in Requests |-> "open"]
    /\ accepted = [r \in Requests |-> {}]
    /\ contract = [r \in Requests |-> 0]

CustomerAccepts(r) ==
    /\ accepted[r] \subseteq accepted'[r] /\ accepted'[r] \subseteq Nat \ {0}
    /\ accepted' = [accepted EXCEPT ![r] = accepted'[r]]
    /\ UNCHANGED <<stage, contract>>

Agree(r) ==
    /\ stage[r] = "open"
    /\ accepted[r] # {}
    /\ stage' = [stage EXCEPT ![r] = "agreed"]
    /\ UNCHANGED <<accepted, contract>>

Withdraw(r) ==
    /\ stage[r] \in {"open", "agreed"}
    /\ stage' = [stage EXCEPT ![r] = "withdrawn"]
    /\ UNCHANGED <<accepted, contract>>

Commit(r) ==
    /\ stage[r] = "agreed"
    /\ stage' = [stage EXCEPT ![r] = "committed"]
    /\ \E v \in accepted[r] : contract' = [contract EXCEPT ![r] = v]
    /\ UNCHANGED accepted

Next == \E r \in Requests : CustomerAccepts(r) \/ Agree(r) \/ Withdraw(r) \/ Commit(r)

Spec == Init /\ [][Next]_vars
==============================================================================
