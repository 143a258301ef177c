------------------------------ MODULE Contracts ------------------------------
(***************************************************************************)
(* Contracts and their versions: com.contract_version of migration 0020    *)
(* and the commands of commercial/contracts.ts.                            *)
(*                                                                         *)
(* A command is a transaction under READ COMMITTED.  It reads the row of   *)
(* its version without a lock, decides on what it read, and writes later:  *)
(* other transactions commit in between.  Putting a version in force takes *)
(* one statement more, which expires the version that was.                 *)
(*                                                                         *)
(* Terms are what a version is created with (author, rates) and what is    *)
(* signed (a signature stands for signed_at and effective_from together).  *)
(* The revision is left out: a client may send none, and the comparison is *)
(* with the row as it was read, so it refuses nothing that was read late.  *)
(***************************************************************************)
EXTENDS Naturals

CONSTANTS
    Versions,       \* identifiers of contract versions
    Contracts,      \* the contracts
    ContractOf,     \* the contract of each version
    Actors,         \* people who draft, sign and terminate
    Signatures,     \* the signatures a version can be put in force with
    Sessions,       \* transactions that can be open at once
    None

Drafting == {"Draft", "InReview", "PendingSignature"}

Statuses ==
    Drafting \cup {"Active", "Suspended", "Expiring", "Renewed", "Expired", "Terminated"}

ASSUME ContractsAssumption ==
    /\ ContractOf \in [Versions -> Contracts]
    /\ None \notin Statuses \cup Actors \cup Signatures

(* The table of contractLifecycle. *)
Lifecycle ==
    ({"Draft"} \X {"InReview", "Terminated"})
    \cup ({"InReview"} \X {"PendingSignature", "Draft", "Terminated"})
    \cup ({"PendingSignature"} \X {"Active", "InReview", "Terminated"})
    \cup ({"Active"} \X {"Suspended", "Expiring", "Terminated"})
    \cup ({"Suspended"} \X {"Active", "Terminated"})
    \cup ({"Expiring"} \X {"Renewed", "Expired", "Terminated"})

(* The states that advanceContract leaves to a command of their own. *)
Dedicated == {"Active", "Terminated"}

VARIABLES
    version,        \* the row of each version
    session,        \* what each open transaction has read and decided
    overtaken       \* versions written by a command that had read them before a change

vars == <<version, session, overtaken>>

Absent ==
    [status |-> None, author |-> None, rates |-> FALSE, signature |-> None, signer |-> None]

Rows ==
    [status : Statuses \cup {None}, author : Actors \cup {None}, rates : BOOLEAN,
     signature : Signatures \cup {None}, signer : Actors \cup {None}]

Idle ==
    [step |-> "idle", of |-> None, seen |-> None, to |-> None,
     signature |-> None, actor |-> None, expires |-> {}]

Transactions ==
    [step : {"idle", "read", "superseded"}, of : Versions \cup {None},
     seen : Statuses \cup {None}, to : Statuses \cup {None},
     signature : Signatures \cup {None}, actor : Actors \cup {None},
     expires : SUBSET Versions]

TypeOK ==
    /\ version \in [Versions -> Rows]
    /\ session \in [Sessions -> Transactions]
    /\ overtaken \subseteq Versions

Init ==
    /\ version = [v \in Versions |-> Absent]
    /\ session = [s \in Sessions |-> Idle]
    /\ overtaken = {}
-----------------------------------------------------------------------------
(* createContractVersion: one more version of terms, with its rates.  The  *)
(* rates are inserted with it and a trigger forbids to change them.        *)
CreateContractVersion(v, a, priced) ==
    /\ version[v] = Absent
    /\ version' = [version EXCEPT ![v] =
           [status |-> "Draft", author |-> a, rates |-> priced,
            signature |-> None, signer |-> None]]
    /\ UNCHANGED <<session, overtaken>>

(* A mistake in the next definition: what has expired can be put in force again. *)
ReadForRevival(s, v, to) ==
    /\ session[s].step = "idle"
    /\ <<version[v].status, to>> \in Lifecycle \cup {<<"Expired", "Active">>}

(* requireVersion and assertTransition: the row is read and the transition *)
(* judged by it.                                                           *)
ReadFor(s, v, to) ==
    /\ session[s].step = "idle"
    /\ <<version[v].status, to>> \in Lifecycle

(* What a transaction keeps of a read. *)
Reading(v, to, signature, a) ==
    [step |-> "read", of |-> v, seen |-> version[v].status, to |-> to,
     signature |-> signature, actor |-> a, expires |-> {}]

(* advanceContract, up to its update. *)
BeginAdvance(s, v, to) ==
    /\ ReadFor(s, v, to)
    /\ to \notin Dedicated
    /\ session' = [session EXCEPT ![s] = Reading(v, to, None, None)]
    /\ UNCHANGED <<version, overtaken>>

(* terminateContract, up to its update. *)
BeginTerminate(s, v) ==
    /\ ReadFor(s, v, "Terminated")
    /\ session' = [session EXCEPT ![s] = Reading(v, "Terminated", None, None)]
    /\ UNCHANGED <<version, overtaken>>

(* A mistake in the next definition: the rates are not counted. *)
BeginActivateUnpriced(s, v, a, signature) ==
    /\ ReadFor(s, v, "Active")
    /\ version[v].author # a
    /\ session' = [session EXCEPT ![s] = Reading(v, "Active", signature, a)]
    /\ UNCHANGED <<version, overtaken>>

(* activateContract, up to its first update: it takes rates, and somebody  *)
(* else than the author.                                                   *)
BeginActivate(s, v, a, signature) ==
    /\ ReadFor(s, v, "Active")
    /\ version[v].author # a
    /\ version[v].rates
    /\ session' = [session EXCEPT ![s] = Reading(v, "Active", signature, a)]
    /\ UNCHANGED <<version, overtaken>>

(* A row written by a transaction that has not committed. *)
LockedByAnother(s, v) == \E other \in Sessions \ {s} : v \in session[other].expires

(* The versions of v's contract that are in force besides v. *)
OthersInForce(v) ==
    {w \in Versions \ {v} : ContractOf[w] = ContractOf[v] /\ version[w].status = "Active"}

(* activateContract, its first update: the versions in force besides this  *)
(* one expire, once the transaction commits.                               *)
Supersede(s) ==
    /\ session[s].step = "read"
    /\ session[s].to = "Active"
    /\ \A w \in OthersInForce(session[s].of) : ~ LockedByAnother(s, w)
    /\ session' = [session EXCEPT ![s].step = "superseded",
                                  ![s].expires = OthersInForce(session[s].of)]
    /\ UNCHANGED <<version, overtaken>>

(* A mistake in the next definition: the index is missing. *)
OnlyActiveUnindexed(rows, v) == TRUE

(* The unique index contract_one_active, for the contract of v. *)
OnlyActive(rows, v) ==
    \A w \in Versions \ {v} :
        ContractOf[w] = ContractOf[v] => rows[w].status # "Active"

(* A mistake in the next definition: the trigger is missing. *)
MayRewriteAnything(old, signature) == TRUE

(* forbid_signed_contract_rewrite: what was signed is compared with the    *)
(* row as it is now, unless the row is being drafted.                      *)
MayRewrite(old, signature) == old.status \in Drafting \/ old.signature = signature

Commit(s, rows) ==
    LET v == session[s].of
    IN  /\ ~ LockedByAnother(s, v)
        /\ version' = rows
        /\ overtaken' = IF version[v].status = session[s].seen THEN overtaken
                                                               ELSE overtaken \cup {v}
        /\ session' = [session EXCEPT ![s] = Idle]

(* One update by identifier, which does not look at the status again. *)
CommitStatus(s) ==
    /\ session[s].step = "read"
    /\ session[s].to # "Active"
    /\ Commit(s, [version EXCEPT ![session[s].of].status = session[s].to])

(* advanceContract and terminateContract, their update. *)
CommitAdvance(s) == session[s].to \notin Dedicated /\ CommitStatus(s)

CommitTermination(s) == session[s].to = "Terminated" /\ CommitStatus(s)

(* The second update of activateContract. *)
CommitActivation(s) ==
    LET t == session[s]
        rows == [v \in Versions |->
            IF v = t.of THEN [version[v] EXCEPT !.status = "Active", !.signature = t.signature,
                                                !.signer = t.actor]
            ELSE IF v \in t.expires THEN [version[v] EXCEPT !.status = "Expired"]
            ELSE version[v]]
    IN  /\ t.step = "superseded"
        /\ MayRewrite(version[t.of], t.signature)
        /\ OnlyActive(rows, t.of)
        /\ Commit(s, rows)

(* A constraint, a trigger or a deadlock aborts the transaction, or its    *)
(* connection is lost.                                                     *)
Rollback(s) ==
    /\ session[s].step # "idle"
    /\ session' = [session EXCEPT ![s] = Idle]
    /\ UNCHANGED <<version, overtaken>>

Next ==
    \/ \E v \in Versions, a \in Actors, priced \in BOOLEAN : CreateContractVersion(v, a, priced)
    \/ \E s \in Sessions, v \in Versions :
           \/ \E to \in Statuses : BeginAdvance(s, v, to)
           \/ BeginTerminate(s, v)
           \/ \E a \in Actors, signature \in Signatures : BeginActivate(s, v, a, signature)
    \/ \E s \in Sessions :
           \/ Supersede(s)
           \/ CommitAdvance(s)
           \/ CommitTermination(s)
           \/ CommitActivation(s)
           \/ Rollback(s)

Spec == Init /\ [][Next]_vars
-----------------------------------------------------------------------------
(* One version of a contract is in force, however the activations of two   *)
(* of them interleave (0020: "una sola versión vigente por contrato").     *)
OneInForce ==
    \A v, w \in Versions :
        version[v].status = "Active" /\ version[w].status = "Active"
            /\ ContractOf[v] = ContractOf[w] => v = w

(* The states of a version that has been put in force. *)
Agreed == {"Active", "Suspended", "Expiring", "Renewed", "Expired"}

(* What governs or has governed was signed, has a price, and was put in    *)
(* force by somebody other than its author, whatever commands overtook     *)
(* each other (docs/03 §7 and §14.3).                                      *)
InForceWasAgreed ==
    \A v \in Versions : version[v].status \in Agreed =>
        /\ version[v].signature # None
        /\ version[v].rates
        /\ version[v].signer # version[v].author

(* What was signed on a version stands for good (contracts.ts: "la         *)
(* anterior conserva su firma"), unless a command that had read the        *)
(* version before another's commit has written it.                         *)
SignedTermsStand ==
    [][\A v \in Versions :
          version[v].signature # None /\ v \notin overtaken' =>
              version'[v].signature = version[v].signature]_vars

(* A version that was replaced, ended or terminated never governs again,   *)
(* with the same exception.                                                *)
EndedStaysEnded ==
    [][\A v \in Versions :
          version[v].status \in {"Renewed", "Expired", "Terminated"} /\ v \notin overtaken' =>
              version'[v].status = version[v].status]_vars

(* A promise that is not kept: the signature stands without exception.  An *)
(* advance that had read the version before it was put in force takes it   *)
(* back to review, where it can be signed again.                           *)
SignatureIsKept ==
    [][\A v \in Versions :
          version[v].signature # None => version'[v].signature = version[v].signature]_vars

(* A promise that is not kept: one version binds (CONTRACT_BINDING_STATES  *)
(* of lifecycles.ts).  A version about to expire binds, and the one that   *)
(* is put in force beside it does not expire it.                           *)
OneBindingVersion ==
    \A v, w \in Versions :
        version[v].status \in {"Active", "Expiring"}
            /\ version[w].status \in {"Active", "Expiring"}
            /\ ContractOf[v] = ContractOf[w] => v = w
==============================================================================
