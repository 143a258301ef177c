----------------------------- MODULE Idempotency -----------------------------
(***************************************************************************)
(* A write command as executeCommand and withIdempotency run it            *)
(* (packages/core/src/shared/execute.ts,                                   *)
(* packages/platform/src/idempotency/idempotency.ts): claim the key,       *)
(* execute, complete the record, commit, answer; and the requests that     *)
(* arrive with the same key meanwhile or later.                            *)
(*                                                                         *)
(* A request is one arrival at the server; a client that repeats a command *)
(* sends another with the same key.  The tenant and the name of the        *)
(* command are part of the key.  The hash of a body is its identity.       *)
(***************************************************************************)
EXTENDS Naturals, FiniteSets

CONSTANTS
    Requests, Keys,
    KeyOf,      \* KeyOf[r]: its Idempotency-Key
    Body,       \* Body[r]: the body and the resource it names
    None

ASSUME KeyOfAssumption == KeyOf \in [Requests -> Keys]

ASSUME NoneIsNoRequest == None \notin Requests

VARIABLES
    phase,      \* phase[r]
    claimed,    \* claimed[k]: request whose transaction holds the row of k
    row,        \* row[k]: the request that committed the row, or None
    effects,    \* requests whose change, audit entry and event are committed
    denied,     \* requests with an audit entry of a denied attempt
    answer      \* answer[r]: the request whose result answers r, or None

vars == <<phase, claimed, row, effects, denied, answer>>

Phase ==
    { "unsent", "claiming", "executing", "completing", "found", "answering", "denying",
      "answered", "denied", "failed" }

(* Every variable has its type. *)
TypeOK ==
    /\ phase \in [Requests -> Phase]
    /\ claimed \in [Keys -> Requests \cup {None}]
    /\ row \in [Keys -> Requests \cup {None}]
    /\ effects \subseteq Requests
    /\ denied \subseteq Requests
    /\ answer \in [Requests -> Requests \cup {None}]

Init ==
    /\ phase = [r \in Requests |-> "unsent"]
    /\ claimed = [k \in Keys |-> None]
    /\ row = [k \in Keys |-> None]
    /\ effects = {}
    /\ denied = {}
    /\ answer = [r \in Requests |-> None]

------------------------------------------------------------------------------
Goes(r, from, to) ==
    /\ phase[r] = from
    /\ phase' = [phase EXCEPT ![r] = to]

Send(r) ==
    /\ Goes(r, "unsent", "claiming")
    /\ UNCHANGED <<claimed, row, effects, denied, answer>>

(* A mistake in the next definition: the key is looked up and then inserted. *)
ClaimWithoutWaiting(r) ==
    /\ row[KeyOf[r]] = None
    /\ Goes(r, "claiming", "executing")
    /\ claimed' = [claimed EXCEPT ![KeyOf[r]] = r]
    /\ UNCHANGED <<row, effects, denied, answer>>

(***************************************************************************)
(* CLAIM_KEY.  The insertion waits while another transaction holds the     *)
(* same index entry, and does nothing once that one has committed.         *)
(***************************************************************************)
Claim(r) ==
    /\ claimed[KeyOf[r]] = None
    /\ row[KeyOf[r]] = None
    /\ Goes(r, "claiming", "executing")
    /\ claimed' = [claimed EXCEPT ![KeyOf[r]] = r]
    /\ UNCHANGED <<row, effects, denied, answer>>

FindClaimed(r) ==
    /\ claimed[KeyOf[r]] = None
    /\ row[KeyOf[r]] # None
    /\ Goes(r, "claiming", "found")
    /\ UNCHANGED <<claimed, row, effects, denied, answer>>

(* A mistake in the next definition: the hash of the body is not compared. *)
ReplayToAnyBody(r) ==
    /\ Goes(r, "found", "answered")
    /\ answer' = [answer EXCEPT ![r] = row[KeyOf[r]]]
    /\ UNCHANGED <<claimed, row, effects, denied>>

(* READ_KEY finds the record of the same request: its response is the answer. *)
Replay(r) ==
    /\ Goes(r, "found", "answered")
    /\ Body[row[KeyOf[r]]] = Body[r]
    /\ answer' = [answer EXCEPT ![r] = row[KeyOf[r]]]
    /\ UNCHANGED <<claimed, row, effects, denied>>

(* READ_KEY finds the record of another request: IDEMPOTENCY_KEY_REUSED. *)
RejectReuse(r) ==
    /\ Goes(r, "found", "denying")
    /\ Body[row[KeyOf[r]]] # Body[r]
    /\ UNCHANGED <<claimed, row, effects, denied, answer>>

Execute(r) ==
    /\ Goes(r, "executing", "completing")
    /\ UNCHANGED <<claimed, row, effects, denied, answer>>

(* Two mistakes in the next definition: what the command wrote before the    *)
(* rejection is committed, and the claim has a transaction of its own.       *)
RejectWithoutRollback(r) ==
    /\ Goes(r, "executing", "denying")
    /\ claimed' = [claimed EXCEPT ![KeyOf[r]] = None]
    /\ effects' = effects \cup {r}
    /\ UNCHANGED <<row, denied, answer>>

RejectKeepingTheClaim(r) ==
    /\ Goes(r, "executing", "denying")
    /\ UNCHANGED <<claimed, row, effects, denied, answer>>

(* The command breaks a rule: the transaction reverts, the claim with it. *)
Reject(r) ==
    /\ Goes(r, "executing", "denying")
    /\ claimed' = [claimed EXCEPT ![KeyOf[r]] = None]
    /\ UNCHANGED <<row, effects, denied, answer>>

(* COMPLETE_KEY and the commit: the record, the change, its audit and event. *)
Commit(r) ==
    /\ Goes(r, "completing", "answering")
    /\ claimed' = [claimed EXCEPT ![KeyOf[r]] = None]
    /\ row' = [row EXCEPT ![KeyOf[r]] = r]
    /\ effects' = effects \cup {r}
    /\ UNCHANGED <<denied, answer>>

Respond(r) ==
    /\ Goes(r, "answering", "answered")
    /\ answer' = [answer EXCEPT ![r] = r]
    /\ UNCHANGED <<claimed, row, effects, denied>>

(* recordDeniedAttempt: a transaction of its own, whose failure is only logged. *)
Deny(r) ==
    /\ Goes(r, "denying", "denied")
    /\ denied' \in {denied, denied \cup {r}}
    /\ UNCHANGED <<claimed, row, effects, answer>>

(***************************************************************************)
(* The process or the connection dies, or the command throws an error that *)
(* is not a rejection: an open transaction reverts, and the answer of a    *)
(* committed one is lost.                                                  *)
(***************************************************************************)
Fail(r) ==
    /\ phase[r] \in {"claiming", "executing", "completing", "found", "answering", "denying"}
    /\ phase' = [phase EXCEPT ![r] = "failed"]
    /\ claimed' = [k \in Keys |-> IF claimed[k] = r THEN None ELSE claimed[k]]
    /\ UNCHANGED <<row, effects, denied, answer>>

ServerStep(r) ==
    \/ Claim(r)
    \/ FindClaimed(r)
    \/ Replay(r)
    \/ RejectReuse(r)
    \/ Execute(r)
    \/ Reject(r)
    \/ Commit(r)
    \/ Respond(r)
    \/ Deny(r)

Next == \E r \in Requests : Send(r) \/ ServerStep(r) \/ Fail(r)

Spec == Init /\ [][Next]_vars

(* The server carries on with every request it has received. *)
FairSpec == Spec /\ \A r \in Requests : WF_vars(ServerStep(r))

------------------------------------------------------------------------------
(***************************************************************************)
(* No two requests with one key take effect, however they interleave and   *)
(* whichever of them die on the way.                                       *)
(***************************************************************************)
OneEffectPerKey ==
    \A q, r \in effects : KeyOf[q] = KeyOf[r] => q = r

(***************************************************************************)
(* Only successes are recorded, and all of them: a retry of a command that *)
(* failed executes it, a retry of one that succeeded does not.             *)
(***************************************************************************)
SuccessesAreRecorded ==
    \A k \in Keys : row[k] # None <=> \E r \in effects : KeyOf[r] = k

(***************************************************************************)
(* Every answer is the result of an execution that took effect, for the    *)
(* same key and the same body.                                             *)
(***************************************************************************)
AnswersAreTrue ==
    \A r \in Requests : answer[r] # None =>
        /\ answer[r] \in effects
        /\ KeyOf[answer[r]] = KeyOf[r]
        /\ Body[answer[r]] = Body[r]

(* The audit entry of a denied attempt never names one that took effect. *)
DeniedHadNoEffect == denied \cap effects = {}

(***************************************************************************)
(* A request that waits for the one that holds its key is not left waiting *)
(* for ever: that one commits, reverts or dies, and each frees the key.    *)
(***************************************************************************)
NobodyWaitsForEver ==
    \A r \in Requests :
        phase[r] = "claiming" ~> phase[r] \in {"answered", "denied", "failed"}

(* The record of a key is the execution that took effect under it. *)
Promise == INSTANCE ExactlyOnce WITH effect <- row

(* The commands with a key take effect exactly once, or not at all. *)
ExactlyOnceEffect == Promise!Spec
==============================================================================
