-------------------------- MODULE Contracts_proofs ---------------------------
(***************************************************************************)
(* What the commands of Contracts keep for any number of versions and of   *)
(* transactions.  A transaction decides on a row it read without a lock,   *)
(* so the invariant says what of that row stays true whoever writes it:    *)
(* its author and rates, and that a version once put in force is signed.   *)
(* What does not stay true, its status, is what `overtaken` records.       *)
(***************************************************************************)
EXTENDS Contracts, TLAPS

(* What is left true of the row that transaction x has read. *)
ReadIsTrue(x) ==
    x.step # "idle" =>
        /\ x.of \in Versions \ x.expires
        /\ <<x.seen, x.to>> \in Lifecycle
        /\ version[x.of].status # None
        /\ x.seen \in Agreed => version[x.of].signature # None
        /\ x.to = "Active" =>
              /\ x.signature # None
              /\ version[x.of].rates
              /\ x.actor # version[x.of].author
        /\ x.step = "superseded" => x.to = "Active"

ReadsStand == \A s \in Sessions : ReadIsTrue(session[s])

(* The versions that a transaction expires are in force until it commits, *)
(* and no other transaction expires them.                                  *)
LocksHold ==
    \A s \in Sessions : \A w \in session[s].expires :
        /\ version[w].status = "Active"
        /\ ~ LockedByAnother(s, w)

SignedWasAgreed ==
    \A v \in Versions : version[v].signature # None =>
        version[v].rates /\ version[v].signer # version[v].author

AgreedIsSigned ==
    \A v \in Versions : version[v].status \in Agreed => version[v].signature # None

DraftIsUnsigned ==
    \A v \in Versions \ overtaken :
        version[v].status \in Drafting => version[v].signature = None

IInv ==
    /\ TypeOK
    /\ ReadsStand
    /\ LocksHold
    /\ SignedWasAgreed
    /\ AgreedIsSigned
    /\ DraftIsUnsigned
    /\ OneInForce

------------------------------------------------------------------------------
LEMMA LifecycleFacts ==
    ASSUME NEW from, NEW to, <<from, to>> \in Lifecycle
    PROVE  /\ from \in {"Draft", "InReview", "PendingSignature", "Active", "Suspended", "Expiring"}
           /\ to \in Statuses \ {from}
           /\ to \in Drafting => from \in Drafting
           /\ to \in Agreed \ {"Active"} => from \in Agreed
           /\ to = "Active" => from \in {"PendingSignature", "Suspended"}
BY DEF Lifecycle, Drafting, Agreed, Statuses

LEMMA InitInvariant == Init => IInv
<1> SUFFICES ASSUME Init PROVE IInv
  OBVIOUS
<1>1. TypeOK
  BY DEF Init, TypeOK, Absent, Rows, Idle, Transactions
<1>2. ReadsStand /\ LocksHold
  BY DEF Init, Idle, ReadsStand, ReadIsTrue, LocksHold
<1>3. \A v \in Versions : version[v].status = None /\ version[v].signature = None
  BY DEF Init, Absent
<1>4. SignedWasAgreed /\ DraftIsUnsigned
  BY <1>3 DEF SignedWasAgreed, DraftIsUnsigned
<1>5. AgreedIsSigned /\ OneInForce
  BY <1>3, ContractsAssumption DEF AgreedIsSigned, OneInForce, Agreed, Statuses
<1>6. QED
  BY <1>1, <1>2, <1>4, <1>5 DEF IInv

(* A step of one transaction that writes no row. *)
LEMMA SessionStep ==
    ASSUME IInv, NEW s \in Sessions, NEW x \in Transactions,
           ReadIsTrue(x),
           \A w \in x.expires : version[w].status = "Active" /\ ~ LockedByAnother(s, w),
           session' = [session EXCEPT ![s] = x],
           UNCHANGED <<version, overtaken>>
    PROVE  IInv'
<1>1. TypeOK'
  BY DEF IInv, TypeOK
<1>2. \A u \in Sessions : session'[u] = IF u = s THEN x ELSE session[u]
  BY DEF IInv, TypeOK
<1>3. ReadsStand'
  BY <1>2 DEF IInv, ReadsStand, ReadIsTrue
<1>4. LocksHold'
  BY <1>2 DEF IInv, LocksHold, LockedByAnother
<1>5. (SignedWasAgreed /\ AgreedIsSigned /\ DraftIsUnsigned /\ OneInForce)'
  BY DEF IInv, SignedWasAgreed, AgreedIsSigned, DraftIsUnsigned, OneInForce
<1>6. QED
  BY <1>1, <1>3, <1>4, <1>5 DEF IInv

LEMMA CreateStep ==
    ASSUME IInv, NEW v \in Versions, NEW a \in Actors, NEW priced \in BOOLEAN,
           CreateContractVersion(v, a, priced)
    PROVE  IInv'
<1> DEFINE row == [status |-> "Draft", author |-> a, rates |-> priced,
                   signature |-> None, signer |-> None]
<1>1. /\ version' = [version EXCEPT ![v] = row]
      /\ version[v].status = None
      /\ UNCHANGED <<session, overtaken>>
  BY DEF CreateContractVersion, Absent
<1>2. \A w \in Versions : version'[w] = IF w = v THEN row ELSE version[w]
  BY <1>1 DEF IInv, TypeOK
<1>3. row \in Rows
  BY DEF Rows, Statuses, Drafting
<1>4. TypeOK'
  BY <1>1, <1>3 DEF IInv, TypeOK
<1>5. \A s \in Sessions : session[s].step # "idle" => session[s].of # v
  BY <1>1 DEF IInv, ReadsStand, ReadIsTrue
<1>6. ReadsStand'
  BY <1>1, <1>2, <1>5 DEF IInv, ReadsStand, ReadIsTrue
<1>7. \A s \in Sessions : session[s].expires \subseteq Versions \ {v}
  BY <1>1, ContractsAssumption DEF IInv, TypeOK, Transactions, LocksHold, Statuses
<1>8. LocksHold'
  BY <1>1, <1>2, <1>7 DEF IInv, LocksHold, LockedByAnother
<1>9. SignedWasAgreed' /\ DraftIsUnsigned'
  BY <1>1, <1>2 DEF IInv, SignedWasAgreed, DraftIsUnsigned
<1>10. AgreedIsSigned' /\ OneInForce'
  BY <1>2 DEF IInv, AgreedIsSigned, OneInForce, Agreed
<1>11. QED
  BY <1>4, <1>6, <1>8, <1>9, <1>10 DEF IInv

(* A transaction reads the row of a version. *)
LEMMA ReadStep ==
    ASSUME IInv, NEW s \in Sessions, NEW v \in Versions, NEW to \in Statuses,
           NEW signature \in Signatures \cup {None}, NEW a \in Actors \cup {None},
           ReadFor(s, v, to),
           to = "Active" => signature # None /\ version[v].rates /\ a # version[v].author,
           session' = [session EXCEPT ![s] = Reading(v, to, signature, a)],
           UNCHANGED <<version, overtaken>>
    PROVE  IInv'
<1>1. PICK x : x = Reading(v, to, signature, a)
  OBVIOUS
<1>2. x \in Transactions
  BY <1>1 DEF Reading, IInv, TypeOK, Rows, Transactions
<1>3. <<version[v].status, to>> \in Lifecycle
  BY DEF ReadFor
<1>4. version[v].status \in Statuses
  BY <1>3, LifecycleFacts DEF Statuses, Drafting
<1>5. ReadIsTrue(x) /\ x.expires = {}
  BY <1>1, <1>3, <1>4, ContractsAssumption DEF Reading, ReadIsTrue, IInv, AgreedIsSigned
<1>6. QED
  BY <1>1, <1>2, <1>5, SessionStep

LEMMA SupersedeStep ==
    ASSUME IInv, NEW s \in Sessions, Supersede(s)
    PROVE  IInv'
<1>1. PICK others : others = OthersInForce(session[s].of)
  OBVIOUS
<1>2. PICK x : x = [session[s] EXCEPT !.step = "superseded", !.expires = others]
  OBVIOUS
<1>3. session[s] \in Transactions /\ ReadIsTrue(session[s])
  BY DEF IInv, TypeOK, ReadsStand
<1>4. /\ session' = [session EXCEPT ![s] = x]
      /\ session[s].step = "read" /\ session[s].to = "Active"
      /\ \A w \in others : ~ LockedByAnother(s, w)
      /\ UNCHANGED <<version, overtaken>>
  BY <1>1, <1>2 DEF Supersede, IInv, TypeOK
<1>5. /\ others \subseteq Versions \ {session[s].of}
      /\ \A w \in others : version[w].status = "Active"
  BY <1>1 DEF OthersInForce
<1>6. x \in Transactions
  BY <1>2, <1>3, <1>5 DEF Transactions
<1>7. ReadIsTrue(x)
  BY <1>2, <1>3, <1>4, <1>5 DEF ReadIsTrue, Transactions
<1>8. x.expires = others
  BY <1>2, <1>3 DEF Transactions
<1>9. QED
  BY <1>4, <1>5, <1>6, <1>7, <1>8, SessionStep

(* What a commit of transaction s on version v needs to say of the rows it *)
(* leaves: authors and rates stand, signatures are not taken back, and     *)
(* what was expired by s is not in force.                                  *)
LEMMA CommitStep ==
    ASSUME IInv, NEW s \in Sessions, session[s].step # "idle",
           NEW rows \in [Versions -> Rows], Commit(s, rows),
           \A w \in Versions :
               /\ rows[w].author = version[w].author
               /\ rows[w].rates = version[w].rates
               /\ version[w].status # None => rows[w].status # None
               /\ version[w].signature # None => rows[w].signature # None,
           \A w \in Versions \ (session[s].expires \cup {session[s].of}) : rows[w] = version[w]
    PROVE  TypeOK' /\ ReadsStand' /\ LocksHold'
<1>1. /\ version' = rows
      /\ session' = [session EXCEPT ![s] = Idle]
      /\ overtaken' \subseteq overtaken \cup {session[s].of}
      /\ ~ LockedByAnother(s, session[s].of)
  BY DEF Commit
<1>2. session[s].of \in Versions
  BY DEF IInv, ReadsStand, ReadIsTrue
<1>3. \A u \in Sessions : session'[u] = IF u = s THEN Idle ELSE session[u]
  BY <1>1 DEF IInv, TypeOK
<1>4. TypeOK'
  BY <1>1, <1>2 DEF IInv, TypeOK, Idle, Transactions
<1>5. ReadsStand'
  BY <1>1, <1>3 DEF IInv, ReadsStand, ReadIsTrue, Idle
<1>6. ASSUME NEW u \in Sessions \ {s}, NEW w \in session[u].expires
      PROVE  /\ rows[w] = version[w]
             /\ w \in Versions
  <2>1. w \in Versions /\ w # session[s].of
    BY <1>1 DEF IInv, TypeOK, Transactions, LockedByAnother
  <2>2. w \notin session[s].expires
    BY DEF IInv, LocksHold, LockedByAnother
  <2>3. QED
    BY <2>1, <2>2
<1>7. LocksHold'
  BY <1>1, <1>3, <1>6 DEF IInv, LocksHold, LockedByAnother, Idle
<1>8. QED
  BY <1>4, <1>5, <1>7

LEMMA StatusStep ==
    ASSUME IInv, NEW s \in Sessions, CommitStatus(s)
    PROVE  IInv'
<1>1. PICK v, to, seen : v = session[s].of /\ to = session[s].to /\ seen = session[s].seen
  OBVIOUS
<1>2. /\ v \in Versions /\ <<seen, to>> \in Lifecycle /\ to # "Active"
      /\ session[s].step = "read"
      /\ version[v].status # None
      /\ seen \in Agreed => version[v].signature # None
  BY <1>1 DEF CommitStatus, IInv, ReadsStand, ReadIsTrue
<1>3. PICK rows : rows = [version EXCEPT ![v].status = to]
  OBVIOUS
<1>4. /\ rows \in [Versions -> Rows]
      /\ \A w \in Versions :
            /\ rows[w].status = IF w = v THEN to ELSE version[w].status
            /\ rows[w].author = version[w].author /\ rows[w].rates = version[w].rates
            /\ rows[w].signature = version[w].signature
            /\ rows[w].signer = version[w].signer
            /\ w # v => rows[w] = version[w]
  BY <1>2, <1>3, LifecycleFacts DEF IInv, TypeOK, Rows
<1>5. Commit(s, rows) /\ version' = rows
  BY <1>1, <1>3 DEF CommitStatus, Commit
<1>6. to \in Statuses /\ to # None
  BY <1>2, LifecycleFacts, ContractsAssumption
<1>7. TypeOK' /\ ReadsStand' /\ LocksHold'
  BY <1>1, <1>2, <1>4, <1>5, <1>6, CommitStep
<1>8. SignedWasAgreed'
  BY <1>4, <1>5 DEF IInv, SignedWasAgreed
<1>9. AgreedIsSigned'
  BY <1>2, <1>4, <1>5, LifecycleFacts DEF IInv, AgreedIsSigned
<1>10. overtaken' = IF version[v].status = seen THEN overtaken ELSE overtaken \cup {v}
  BY <1>1, <1>5 DEF Commit
<1>11. DraftIsUnsigned'
  BY <1>2, <1>4, <1>5, <1>10, LifecycleFacts DEF IInv, DraftIsUnsigned
<1>12. OneInForce'
  BY <1>2, <1>4, <1>5 DEF IInv, OneInForce
<1>13. QED
  BY <1>7, <1>8, <1>9, <1>11, <1>12 DEF IInv

(* The rows that an activation leaves. *)
LEMMA ActivatedRows ==
    ASSUME IInv, NEW s \in Sessions, CommitActivation(s)
    PROVE  LET t == session[s]
           IN  /\ t.of \in Versions \ t.expires /\ t.signature # None
               /\ <<t.seen, "Active">> \in Lifecycle
               /\ version[t.of].rates /\ t.actor # version[t.of].author
               /\ version[t.of].status # None
               /\ Commit(s, version') /\ version' \in [Versions -> Rows]
               /\ version'[t.of] = [version[t.of] EXCEPT !.status = "Active",
                                       !.signature = t.signature, !.signer = t.actor]
               /\ \A w \in t.expires : /\ version[w].status = "Active"
                                       /\ version'[w] = [version[w] EXCEPT !.status = "Expired"]
               /\ \A w \in Versions \ (t.expires \cup {t.of}) : version'[w] = version[w]
               /\ OnlyActive(version', t.of)
               /\ MayRewrite(version[t.of], t.signature)
<1>1. PICK t : t = session[s]
  OBVIOUS
<1>2. /\ t \in Transactions /\ ReadIsTrue(t) /\ t.step = "superseded"
      /\ \A w \in t.expires : version[w].status = "Active"
  BY <1>1 DEF IInv, TypeOK, ReadsStand, LocksHold, CommitActivation
<1>3. PICK rows : rows = [v \in Versions |->
          IF v = t.of THEN [version[v] EXCEPT !.status = "Active", !.signature = t.signature,
                                              !.signer = t.actor]
          ELSE IF v \in t.expires THEN [version[v] EXCEPT !.status = "Expired"]
          ELSE version[v]]
  OBVIOUS
<1>4. /\ MayRewrite(version[t.of], t.signature)
      /\ OnlyActive(rows, t.of) /\ Commit(s, rows)
  BY <1>1, <1>3 DEF CommitActivation
<1>5. version' = rows
  BY <1>4 DEF Commit
<1>6. rows \in [Versions -> Rows]
  <2> SUFFICES ASSUME NEW v \in Versions PROVE rows[v] \in Rows
    BY <1>3
  <2>1. version[v] \in Rows /\ t.signature \in Signatures \cup {None} /\ t.actor \in Actors \cup {None}
    BY <1>2 DEF IInv, TypeOK, Transactions
  <2>2. [version[v] EXCEPT !.status = "Active", !.signature = t.signature,
                           !.signer = t.actor] \in Rows
    BY <2>1 DEF Rows, Statuses
  <2>3. [version[v] EXCEPT !.status = "Expired"] \in Rows
    BY <2>1 DEF Rows, Statuses
  <2>4. QED
    BY <1>3, <2>1, <2>2, <2>3
<1>7. /\ t.of \in Versions \ t.expires /\ t.expires \subseteq Versions
      /\ t.signature # None /\ <<t.seen, "Active">> \in Lifecycle
      /\ version[t.of].rates /\ t.actor # version[t.of].author
      /\ version[t.of].status # None
  BY <1>2 DEF ReadIsTrue, Transactions
<1>8. QED
  BY <1>1, <1>2, <1>3, <1>4, <1>5, <1>6, <1>7

LEMMA ActivationStep ==
    ASSUME IInv, NEW s \in Sessions, CommitActivation(s)
    PROVE  IInv'
<1>1. PICK t : t = session[s]
  OBVIOUS
<1>2. /\ t.of \in Versions \ t.expires /\ t.expires \subseteq Versions
      /\ t.signature # None
      /\ version[t.of].rates /\ t.actor # version[t.of].author
      /\ t.step # "idle"
  BY <1>1, ActivatedRows DEF CommitActivation, IInv, TypeOK, Transactions
<1>3. /\ version'[t.of] = [version[t.of] EXCEPT !.status = "Active",
                              !.signature = t.signature, !.signer = t.actor]
      /\ \A w \in t.expires : /\ version[w].status = "Active"
                              /\ version'[w] = [version[w] EXCEPT !.status = "Expired"]
      /\ \A w \in Versions \ (t.expires \cup {t.of}) : version'[w] = version[w]
      /\ OnlyActive(version', t.of)
  BY <1>1, ActivatedRows
<1>4. \A w \in Versions : version[w] \in Rows
  BY DEF IInv, TypeOK
<1>5. /\ version'[t.of].status = "Active" /\ version'[t.of].signature = t.signature
      /\ version'[t.of].signer = t.actor /\ version'[t.of].rates = version[t.of].rates
      /\ version'[t.of].author = version[t.of].author
  BY <1>2, <1>3, <1>4 DEF Rows
<1>6. ASSUME NEW w \in t.expires
      PROVE  /\ version'[w].status = "Expired" /\ version'[w].signature = version[w].signature
             /\ version'[w].signer = version[w].signer /\ version'[w].rates = version[w].rates
             /\ version'[w].author = version[w].author
  <2>1. version[w] \in Rows /\ version'[w] = [version[w] EXCEPT !.status = "Expired"]
    BY <1>2, <1>3, <1>4
  <2>2. QED
    BY <2>1 DEF Rows
<1>7. \A w \in Versions : w = t.of \/ w \in t.expires \/ version'[w] = version[w]
  BY <1>3
<1>8. TypeOK' /\ ReadsStand' /\ LocksHold'
  <2>1. PICK rows : rows = version'
    OBVIOUS
  <2>2. rows \in [Versions -> Rows] /\ Commit(s, rows)
    BY <2>1, ActivatedRows
  <2>3. \A w \in Versions :
          /\ rows[w].author = version[w].author
          /\ rows[w].rates = version[w].rates
          /\ version[w].status # None => rows[w].status # None
          /\ version[w].signature # None => rows[w].signature # None
    <3>1. "Active" # None /\ "Expired" # None
      BY ContractsAssumption DEF Statuses
    <3>2. QED
      BY <1>2, <1>7, <1>5, <1>6, <2>1, <3>1
  <2>4. \A w \in Versions \ (session[s].expires \cup {session[s].of}) : rows[w] = version[w]
    BY <1>1, <1>3, <2>1
  <2>5. QED
    BY <1>1, <1>2, <2>2, <2>3, <2>4, CommitStep
<1>9. SignedWasAgreed'
  <2> SUFFICES ASSUME NEW v \in Versions, version'[v].signature # None
               PROVE  version'[v].rates /\ version'[v].signer # version'[v].author
    BY DEF SignedWasAgreed
  <2>1. version[v].signature # None => version[v].rates /\ version[v].signer # version[v].author
    BY DEF IInv, SignedWasAgreed
  <2>2. CASE v = t.of
    BY <1>2, <1>5, <2>2
  <2>3. CASE v \in t.expires
    BY <1>6, <2>1, <2>3
  <2>4. CASE version'[v] = version[v]
    BY <2>1, <2>4
  <2>5. QED
    BY <1>7, <2>2, <2>3, <2>4
<1>10. AgreedIsSigned'
  <2> SUFFICES ASSUME NEW v \in Versions, version'[v].status \in Agreed
               PROVE  version'[v].signature # None
    BY DEF AgreedIsSigned, Agreed
  <2>1. version[v].status \in Agreed => version[v].signature # None
    BY DEF IInv, AgreedIsSigned
  <2>2. CASE v = t.of
    BY <1>2, <1>5, <2>2
  <2>3. CASE v \in t.expires
    BY <1>3, <1>6, <2>1, <2>3 DEF Agreed
  <2>4. CASE version'[v] = version[v]
    BY <2>1, <2>4
  <2>5. QED
    BY <1>7, <2>2, <2>3, <2>4
<1>11. overtaken \subseteq overtaken'
  BY <1>1, ActivatedRows DEF Commit
<1>12. DraftIsUnsigned'
  BY <1>7, <1>5, <1>6, <1>11 DEF IInv, DraftIsUnsigned, Drafting
<1>13. OneInForce'
  <2> SUFFICES ASSUME NEW v \in Versions, NEW w \in Versions,
                      version'[v].status = "Active", version'[w].status = "Active",
                      ContractOf[v] = ContractOf[w], v # w
               PROVE  FALSE
    BY DEF OneInForce
  <2>1. v # t.of /\ w # t.of
    BY <1>3 DEF OnlyActive
  <2>2. version[v].status = "Active" /\ version[w].status = "Active"
    BY <1>3, <1>6, <2>1
  <2>3. QED
    BY <2>2 DEF IInv, OneInForce
<1>14. QED
  BY <1>8, <1>9, <1>10, <1>12, <1>13 DEF IInv

LEMMA NextInvariant == IInv /\ [Next]_vars => IInv'
<1> SUFFICES ASSUME IInv, [Next]_vars PROVE IInv'
  OBVIOUS
<1>1. ASSUME NEW v \in Versions, NEW a \in Actors, NEW priced \in BOOLEAN,
             CreateContractVersion(v, a, priced)
      PROVE  IInv'
  BY <1>1, CreateStep
<1>2. ASSUME NEW s \in Sessions, NEW v \in Versions, NEW to \in Statuses, BeginAdvance(s, v, to)
      PROVE  IInv'
  <2>1. ReadFor(s, v, to) /\ to # "Active" /\ UNCHANGED <<version, overtaken>>
    BY <1>2 DEF BeginAdvance, Dedicated
  <2>2. session' = [session EXCEPT ![s] = Reading(v, to, None, None)]
    BY <1>2 DEF BeginAdvance
  <2>3. QED
    BY <2>1, <2>2, ReadStep
<1>3. ASSUME NEW s \in Sessions, NEW v \in Versions, BeginTerminate(s, v)
      PROVE  IInv'
  <2>1. ReadFor(s, v, "Terminated") /\ UNCHANGED <<version, overtaken>>
    BY <1>3 DEF BeginTerminate
  <2>2. session' = [session EXCEPT ![s] = Reading(v, "Terminated", None, None)]
    BY <1>3 DEF BeginTerminate
  <2>3. "Terminated" \in Statuses
    BY DEF Statuses
  <2>4. QED
    BY <2>1, <2>2, <2>3, ReadStep
<1>4. ASSUME NEW s \in Sessions, NEW v \in Versions, NEW a \in Actors,
             NEW signature \in Signatures, BeginActivate(s, v, a, signature)
      PROVE  IInv'
  <2>1. /\ ReadFor(s, v, "Active") /\ UNCHANGED <<version, overtaken>>
        /\ version[v].rates /\ a # version[v].author
    BY <1>4 DEF BeginActivate
  <2>2. session' = [session EXCEPT ![s] = Reading(v, "Active", signature, a)]
    BY <1>4 DEF BeginActivate
  <2>3. "Active" \in Statuses /\ signature # None
    BY ContractsAssumption DEF Statuses
  <2>4. QED
    BY <2>1, <2>2, <2>3, ReadStep
<1>5. ASSUME NEW s \in Sessions, Supersede(s) \/ CommitStatus(s) \/ CommitActivation(s)
      PROVE  IInv'
  BY <1>5, SupersedeStep, StatusStep, ActivationStep
<1>6. ASSUME NEW s \in Sessions, Rollback(s)
      PROVE  IInv'
  <2>1. session' = [session EXCEPT ![s] = Idle] /\ UNCHANGED <<version, overtaken>>
    BY <1>6 DEF Rollback
  <2>2. Idle \in Transactions /\ ReadIsTrue(Idle) /\ Idle.expires = {}
    BY DEF Idle, Transactions, ReadIsTrue
  <2>3. QED
    BY <2>1, <2>2, SessionStep
<1>7. CASE UNCHANGED vars
  BY <1>7 DEF vars, IInv, TypeOK, ReadsStand, ReadIsTrue, LocksHold, LockedByAnother,
              SignedWasAgreed, AgreedIsSigned, DraftIsUnsigned, OneInForce
<1>8. QED
  BY <1>1, <1>2, <1>3, <1>4, <1>5, <1>6, <1>7 DEF Next, CommitAdvance, CommitTermination

LEMMA Invariant == Spec => []IInv
<1>1. Init => IInv
  BY InitInvariant
<1>2. IInv /\ [Next]_vars => IInv'
  BY NextInvariant
<1>3. QED
  BY <1>1, <1>2, PTL DEF Spec

------------------------------------------------------------------------------
(* The rows and the open transactions stay well formed. *)
THEOREM TypeCorrect == Spec => []TypeOK
<1>1. IInv => TypeOK
  BY DEF IInv
<1>2. QED
  BY <1>1, Invariant, PTL

(* One version of a contract is in force, for any number of versions and   *)
(* of activations that overlap: the index decides when the statement that  *)
(* expires the others has not seen one of them.                            *)
THEOREM ContractsHaveOneInForce == Spec => []OneInForce
<1>1. IInv => OneInForce
  BY DEF IInv
<1>2. QED
  BY <1>1, Invariant, PTL

(* What governs or has governed was signed, priced and put in force by     *)
(* somebody else than its author, stale reads included.                    *)
THEOREM AgreedBeforeInForce == Spec => []InForceWasAgreed
<1>1. IInv => InForceWasAgreed
  BY DEF IInv, AgreedIsSigned, SignedWasAgreed, InForceWasAgreed
<1>2. QED
  BY <1>1, Invariant, PTL

(* The writes of a step on a version that no stale command has written:    *)
(* its signature stands, and its end is the end.                           *)
LEMMA WritesOfAStep ==
    ASSUME IInv, [Next]_vars, NEW v \in Versions, v \notin overtaken'
    PROVE  /\ version[v].signature # None => version'[v].signature = version[v].signature
           /\ version[v].status \in {"Renewed", "Expired", "Terminated"} =>
                  version'[v].status = version[v].status
<1>1. CASE version' = version
  BY <1>1
<1>2. ASSUME NEW w \in Versions, NEW a \in Actors, NEW priced \in BOOLEAN,
             CreateContractVersion(w, a, priced)
      PROVE  version[v].status # None \/ version[v].signature # None => version'[v] = version[v]
  BY <1>2 DEF CreateContractVersion, Absent, IInv, TypeOK
<1>3. ASSUME NEW s \in Sessions, CommitStatus(s)
      PROVE  /\ version'[v].signature = version[v].signature
             /\ version[v].status \in {"Renewed", "Expired", "Terminated"} =>
                    version'[v].status = version[v].status
  <2>1. /\ version' = [version EXCEPT ![session[s].of].status = session[s].to]
        /\ session[s].of = v => version[v].status = session[s].seen
        /\ <<session[s].seen, session[s].to>> \in Lifecycle
    BY <1>3 DEF CommitStatus, Commit, IInv, ReadsStand, ReadIsTrue
  <2>2. version[v] \in Rows
    BY DEF IInv, TypeOK
  <2>3. QED
    BY <2>1, <2>2, LifecycleFacts DEF Rows, IInv, TypeOK
<1>4. ASSUME NEW s \in Sessions, CommitActivation(s)
      PROVE  /\ version[v].signature # None => version'[v].signature = version[v].signature
             /\ version[v].status \in {"Renewed", "Expired", "Terminated"} =>
                    version'[v].status = version[v].status
  <2>1. PICK t : t = session[s]
    OBVIOUS
  <2>2. version[v] \in Rows
    BY DEF IInv, TypeOK
  <2>3. CASE v \in t.expires
    <3>1. version[v].status = "Active" /\ version'[v] = [version[v] EXCEPT !.status = "Expired"]
      BY <1>4, <2>1, <2>3, ActivatedRows
    <3>2. QED
      BY <2>2, <3>1 DEF Rows
  <2>4. CASE v = t.of
    <3>1. /\ version[v].status = t.seen /\ <<t.seen, "Active">> \in Lifecycle
          /\ MayRewrite(version[v], t.signature)
          /\ version'[v].signature = t.signature
      <4>1. /\ <<t.seen, "Active">> \in Lifecycle /\ MayRewrite(version[v], t.signature)
            /\ Commit(s, version')
            /\ version'[v] = [version[v] EXCEPT !.status = "Active",
                                 !.signature = t.signature, !.signer = t.actor]
        BY <1>4, <2>1, <2>4, ActivatedRows
      <4>2. version[v].status = t.seen
        BY <2>1, <2>4, <4>1 DEF Commit
      <4>3. version'[v].signature = t.signature
        BY <2>2, <4>1 DEF Rows
      <4>4. QED
        BY <4>1, <4>2, <4>3
    <3>2. version[v].status \in {"PendingSignature", "Suspended"}
      BY <3>1, LifecycleFacts
    <3>3. v \notin overtaken
      BY <1>4, <2>1, <2>4, ActivatedRows DEF Commit
    <3>4. version[v].signature # None => version[v].signature = t.signature
      BY <3>1, <3>2, <3>3 DEF MayRewrite, IInv, DraftIsUnsigned, Drafting
    <3>5. QED
      BY <3>1, <3>2, <3>4
  <2>5. CASE v \notin t.expires \cup {t.of}
    BY <1>4, <2>1, <2>5, ActivatedRows
  <2>6. QED
    BY <2>3, <2>4, <2>5
<1>5. QED
  BY <1>1, <1>2, <1>3, <1>4, ContractsAssumption
     DEF Next, vars, CommitAdvance, CommitTermination, BeginAdvance, BeginTerminate, BeginActivate, Supersede, Rollback, Statuses

(* What was signed stands, unless a stale command has written the version. *)
THEOREM SignaturesStand == Spec => SignedTermsStand
<1>1. IInv /\ [Next]_vars =>
        [\A v \in Versions :
            version[v].signature # None /\ v \notin overtaken' =>
                version'[v].signature = version[v].signature]_vars
  BY WritesOfAStep
<1>2. QED
  BY <1>1, Invariant, PTL DEF Spec, SignedTermsStand

(* An ended version does not govern again, with the same exception. *)
THEOREM TheEndStands == Spec => EndedStaysEnded
<1>1. IInv /\ [Next]_vars =>
        [\A v \in Versions :
            version[v].status \in {"Renewed", "Expired", "Terminated"} /\ v \notin overtaken' =>
                version'[v].status = version[v].status]_vars
  BY WritesOfAStep
<1>2. QED
  BY <1>1, Invariant, PTL DEF Spec, EndedStaysEnded

------------------------------------------------------------------------------
(* Without a second transaction nothing is overtaken: the exceptions above *)
(* are races and nothing else.                                             *)
Serial == \A s, u \in Sessions : session[s] # Idle /\ session[u] # Idle => s = u

ReadsAreFresh ==
    /\ overtaken = {}
    /\ \A s \in Sessions : session[s].step # "idle" => version[session[s].of].status = session[s].seen

LEMMA FreshStep ==
    ASSUME IInv, ReadsAreFresh, Serial, Serial', [Next]_vars
    PROVE  ReadsAreFresh'
<1> USE DEF IInv, TypeOK
<1>1. ASSUME NEW v \in Versions, NEW a \in Actors, NEW priced \in BOOLEAN,
             CreateContractVersion(v, a, priced)
      PROVE  ReadsAreFresh'
  <2>1. \A s \in Sessions : session[s].step # "idle" => session[s].of # v
    <3>1. version[v].status = None
      BY <1>1 DEF CreateContractVersion, Absent
    <3>2. QED
      BY <3>1 DEF ReadsStand, ReadIsTrue
  <2>2. QED
    BY <1>1, <2>1 DEF CreateContractVersion, ReadsAreFresh
<1>2. ASSUME NEW s \in Sessions, NEW x, session' = [session EXCEPT ![s] = x],
             x.step # "idle" => version[x.of].status = x.seen,
             UNCHANGED <<version, overtaken>>
      PROVE  ReadsAreFresh'
  BY <1>2 DEF ReadsAreFresh
<1>3. ASSUME NEW s \in Sessions, NEW v \in Versions,
             \/ \E to \in Statuses : BeginAdvance(s, v, to)
             \/ BeginTerminate(s, v)
             \/ \E a \in Actors, signature \in Signatures : BeginActivate(s, v, a, signature)
      PROVE  ReadsAreFresh'
  BY <1>2, <1>3 DEF BeginAdvance, BeginTerminate, BeginActivate, Reading
<1>4. ASSUME NEW s \in Sessions, Supersede(s) PROVE ReadsAreFresh'
  <2> DEFINE x == [session[s] EXCEPT !.step = "superseded", !.expires = OthersInForce(session[s].of)]
  <2>1. x.of = session[s].of /\ x.seen = session[s].seen /\ session' = [session EXCEPT ![s] = x]
    BY <1>4 DEF Supersede, Transactions
  <2>2. QED
    BY <1>2, <1>4, <2>1 DEF Supersede, ReadsAreFresh
<1>5. ASSUME NEW s \in Sessions, NEW rows, session[s].step # "idle", Commit(s, rows)
      PROVE  ReadsAreFresh'
  <2>1. session[s] # Idle /\ session' = [session EXCEPT ![s] = Idle] /\ overtaken' = {}
    BY <1>5 DEF Commit, Idle, ReadsAreFresh
  <2>2. \A u \in Sessions : session'[u] = Idle
    BY <2>1 DEF Serial
  <2>3. QED
    BY <2>1, <2>2 DEF ReadsAreFresh, Idle
<1>6. ASSUME NEW s \in Sessions, CommitAdvance(s) \/ CommitTermination(s) \/ CommitActivation(s)
      PROVE  ReadsAreFresh'
  BY <1>5, <1>6 DEF CommitAdvance, CommitTermination, CommitStatus, CommitActivation
<1>7. ASSUME NEW s \in Sessions, Rollback(s) PROVE ReadsAreFresh'
  BY <1>2, <1>7 DEF Rollback, Idle
<1>8. CASE UNCHANGED vars
  BY <1>8 DEF vars, ReadsAreFresh
<1>9. QED
  BY <1>1, <1>3, <1>4, <1>6, <1>7, <1>8 DEF Next

(***************************************************************************)
(* SignatureIsKept, which an advance that is overtaken breaks, holds when  *)
(* no two transactions are open at once: what was signed is never signed   *)
(* again (contracts.ts: "la anterior conserva su firma").                  *)
(***************************************************************************)
THEOREM SerialSignaturesAreKept == Spec /\ []Serial => SignatureIsKept
<1>1. Init => ReadsAreFresh
  BY DEF Init, ReadsAreFresh, Idle
<1>2. IInv /\ ReadsAreFresh /\ Serial /\ Serial' /\ [Next]_vars => ReadsAreFresh'
  BY FreshStep
<1>3. IInv /\ ReadsAreFresh' /\ [Next]_vars =>
        [\A v \in Versions :
            version[v].signature # None => version'[v].signature = version[v].signature]_vars
  BY WritesOfAStep DEF ReadsAreFresh
<1>4. QED
  BY <1>1, <1>2, <1>3, Invariant, PTL DEF Spec, SignatureIsKept
==============================================================================
