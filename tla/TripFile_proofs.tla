---------------------------- MODULE TripFile_proofs ----------------------------
(***************************************************************************)
(* What the file of a trip keeps for any number of requirements, attempts, *)
(* people and transactions.  A transaction that is about to accept or to   *)
(* close decides on what it read before; SessionsKnow says what of it is   *)
(* still true when it commits: who captured an attempt never changes, and  *)
(* what is no longer pending does not become pending again.                *)
(***************************************************************************)
EXTENDS TripFile, FiniteSetTheorems, SequenceTheorems, TLAPS

KnowsOf(s) ==
    /\ session[s].command = "submit" =>
           session[s].of \in Requirements /\ session[s].actor \in Actors
    /\ session[s].command = "accept" =>
           /\ session[s].of \in Requirements
           /\ session[s].attempt \in Attempts(session[s].of)
           /\ session[s].actor \in Actors
           /\ submissions[session[s].of][session[s].attempt].capturedBy # session[s].actor
    /\ session[s].command = "close" =>
           /\ Unresolved = {}
           /\ \A r \in Requirements : requirement[r] = "required" => r \in session[s].pending

SessionsKnow == \A s \in Sessions : KnowsOf(s)

Declared ==
    closing # None =>
        /\ \A r \in Requirements : requirement[r] = "required" => r \in closing.pending
        /\ closing.completeness =
               Completeness(Cardinality(Requirements) - Cardinality(closing.pending),
                            Cardinality(Requirements))
        /\ \A s \in Stops : outcome[s] # None

OutcomesAreOfStops == outcome = [s \in Stops |-> outcome[s]]

IInv ==
    /\ TypeOK
    /\ OutcomesAreOfStops
    /\ SessionsKnow
    /\ SatisfiedIsProven
    /\ OneLiveSubmission
    /\ Declared

------------------------------------------------------------------------------
(* A file that lacks something is not whole, although its completeness is  *)
(* rounded, unless it asks for 20000 things or more.                       *)
LEMMA RoundingHidesNothing ==
    ASSUME NEW total \in Nat, NEW satisfied \in Nat, satisfied < total, total < 20000
    PROVE  Completeness(satisfied, total) # Whole
<1> DEFINE a == 2 * satisfied * Whole + total
           b == 2 * total
<1>1. a = 20000 * satisfied + total /\ a \in Nat
  BY DEF Whole
<1>2. a < 20000 * total
  BY <1>1
<1>3. b \in Nat \ {0} /\ Whole * b = 20000 * total
  BY DEF Whole
<1>4. a \div b # Whole
  <2>1. b * (a \div b) <= a
    BY <1>1, <1>3, Z3
  <2>2. QED
    BY <1>1, <1>2, <1>3, <2>1 DEF Whole
<1>5. total # 0
  OBVIOUS
<1>6. QED
  BY <1>4, <1>5 DEF Completeness

LEMMA InitInvariant == Init => IInv
<1> SUFFICES ASSUME Init PROVE IInv
  OBVIOUS
<1>1. Idle \in Session /\ Idle.command = "idle"
  BY DEF Idle, Session
<1>2. \A r \in Requirements : submissions[r] \in Seq(Submission) /\ Attempts(r) = {}
  BY DEF Init, Attempts
<1>3. TypeOK
  BY <1>1, <1>2 DEF Init, TypeOK, RequirementStatus
<1>4. QED
  BY <1>1, <1>2, <1>3
  DEF Init, IInv, OutcomesAreOfStops, SessionsKnow, KnowsOf, SatisfiedIsProven, OneLiveSubmission, Declared,
      Open

LEMMA IdleFacts == Idle \in Session /\ Idle.command = "idle"
BY DEF Idle, Session

LEMMA PendingIsBounded ==
    ASSUME NEW pending \in SUBSET Requirements
    PROVE  /\ Cardinality(pending) \in Nat /\ Cardinality(Requirements) \in Nat
           /\ Cardinality(pending) <= Cardinality(Requirements)
           /\ pending # {} => Cardinality(pending) > 0
           /\ Completeness(Cardinality(Requirements) - Cardinality(pending),
                           Cardinality(Requirements)) \in Nat
<1>1. IsFiniteSet(Requirements) /\ IsFiniteSet(pending)
  BY TripFileAssumption, FS_Subset
<1>2. /\ Cardinality(pending) \in Nat
      /\ Cardinality(Requirements) \in Nat
      /\ Cardinality(pending) <= Cardinality(Requirements)
  BY <1>1, FS_Subset, FS_CardinalityType
<1>3. pending # {} => Cardinality(pending) > 0
  BY <1>1, <1>2, FS_EmptySet
<1>4. ASSUME NEW total \in Nat, NEW lacking \in Nat, lacking <= total
      PROVE  Completeness(total - lacking, total) \in Nat
  <2>1. 2 * (total - lacking) * Whole + total \in Nat
    BY <1>4 DEF Whole
  <2>2. CASE total = 0
    BY <2>2 DEF Completeness, Whole
  <2>3. CASE total # 0
    BY <2>1, <2>3 DEF Completeness
  <2>4. QED
    BY <2>2, <2>3
<1>5. QED
  BY <1>2, <1>3, <1>4

(* A step of one transaction that writes nothing. *)
LEMMA SessionStep ==
    ASSUME IInv, NEW s \in Sessions, NEW x \in Session,
           session' = [session EXCEPT ![s] = x], UNCHANGED fileVars,
           x.command = "submit" => x.of \in Requirements /\ x.actor \in Actors,
           x.command = "accept" =>
               /\ x.of \in Requirements
               /\ x.attempt \in Attempts(x.of)
               /\ x.actor \in Actors
               /\ submissions[x.of][x.attempt].capturedBy # x.actor,
           x.command = "close" =>
               /\ Unresolved = {}
               /\ \A r \in Requirements : requirement[r] = "required" => r \in x.pending
    PROVE  IInv'
<1>1. \A u \in Sessions : session'[u] = IF u = s THEN x ELSE session[u]
  BY DEF IInv, TypeOK
<1>2. UNCHANGED <<trip, outcome, requirement, submissions, closing>>
  BY DEF fileVars
<1>3. TypeOK'
  BY <1>2 DEF IInv, TypeOK
<1>4. SessionsKnow'
  BY <1>1, <1>2 DEF IInv, SessionsKnow, KnowsOf, Attempts, Unresolved
<1>5. QED
  BY <1>2, <1>3, <1>4
  DEF IInv, OutcomesAreOfStops, SatisfiedIsProven, OneLiveSubmission, Declared, Attempts, Open

LEMMA RecordStep ==
    ASSUME IInv, NEW s \in Stops, NEW lines \in Declarations, RecordStopOutcome(s, lines)
    PROVE  IInv'
<1>1. UNCHANGED <<requirement, submissions, closing, session>>
  BY DEF RecordStopOutcome
<1>2. DeriveOutcome(KindOf[s], lines) \in OutcomeKinds
  BY DEF DeriveOutcome, DerivePickupOutcome, DeriveDeliveryOutcome, Derived, OutcomeKinds
<1>3. PICK o : /\ o.outcome \in OutcomeKinds
               /\ outcome' = [outcome EXCEPT ![s] = o]
  BY <1>2 DEF RecordStopOutcome
<1>4. \A t \in Stops : outcome'[t] = IF t = s THEN o ELSE outcome[t]
  BY <1>3 DEF IInv, OutcomesAreOfStops
<1>5. trip' \in {"InTransit", "Delivered", "OperationallyClosed"}
  BY DEF RecordStopOutcome, IInv, TypeOK
<1>6. TypeOK'
  BY <1>1, <1>3, <1>4, <1>5 DEF IInv, TypeOK
<1>7. s \in Unresolved
  BY DEF RecordStopOutcome, Unresolved
<1>8. SessionsKnow' /\ Declared'
  BY <1>1, <1>7 DEF IInv, SessionsKnow, KnowsOf, Declared, Unresolved, Attempts
<1>9. QED
  BY <1>1, <1>3, <1>6, <1>8
  DEF IInv, OutcomesAreOfStops, SatisfiedIsProven, OneLiveSubmission, Attempts, Open

(* Every change of one attempt: it is decided, by somebody, and who        *)
(* captured it stays.                                                      *)
LEMMA ValidatedFacts ==
    ASSUME IInv, NEW r \in Requirements, NEW n \in Attempts(r),
           NEW status \in {"accepted", "rejected"}, NEW a \in Actors,
           submissions' = Validated(r, n, status, a)
    PROVE  /\ submissions' \in [Requirements -> Seq(Submission)]
           /\ \A q \in Requirements : Len(submissions'[q]) = Len(submissions[q])
                                     /\ Attempts(q)' = Attempts(q)
           /\ \A q \in Requirements : \A k \in Attempts(q) :
                  /\ q # r \/ k # n => submissions'[q][k] = submissions[q][k]
                  /\ submissions'[q][k].capturedBy = submissions[q][k].capturedBy
           /\ submissions'[r][n].status = status
           /\ submissions'[r][n].validatedBy = a
<1> DEFINE x == [submissions[r][n] EXCEPT !.status = status, !.validatedBy = a]
           q1 == [submissions[r] EXCEPT ![n] = x]
<1>1. submissions[r] \in Seq(Submission) /\ n \in 1 .. Len(submissions[r])
  BY DEF IInv, TypeOK, Attempts
<1>2. submissions[r][n] \in Submission
  BY <1>1
<1>3. /\ x \in Submission
      /\ x.status = status
      /\ x.validatedBy = a
      /\ x.capturedBy = submissions[r][n].capturedBy
  BY <1>2 DEF Submission
<1>4. submissions' = [submissions EXCEPT ![r] = q1]
  BY <1>1, <1>2 DEF Validated, IInv, TypeOK, Submission
<1> HIDE DEF x
<1>5. /\ q1 \in Seq(Submission) /\ Len(q1) = Len(submissions[r])
      /\ \A k \in 1 .. Len(submissions[r]) : q1[k] = IF k = n THEN x ELSE submissions[r][k]
  BY <1>1, <1>3, ExceptSeq
<1> HIDE DEF q1
<1>6. \A q \in Requirements : submissions'[q] = IF q = r THEN q1 ELSE submissions[q]
  BY <1>4 DEF IInv, TypeOK
<1>7. submissions' \in [Requirements -> Seq(Submission)]
  BY <1>4, <1>5 DEF IInv, TypeOK
<1>8. \A q \in Requirements : DOMAIN submissions[q] = 1 .. Len(submissions[q])
                           /\ DOMAIN submissions'[q] = 1 .. Len(submissions'[q])
  BY <1>7 DEF IInv, TypeOK
<1>9. QED
  BY <1>1, <1>3, <1>5, <1>6, <1>7, <1>8 DEF Attempts

(* What an update of one attempt keeps, whatever it makes of the           *)
(* requirement: an attempt that was accepted is not the one it changes.    *)
LEMMA ValidationStep ==
    ASSUME IInv, NEW r \in Requirements, NEW n \in Attempts(r),
           NEW status \in {"accepted", "rejected"}, NEW a \in Actors,
           submissions[r][n].status # "accepted",
           submissions' = Validated(r, n, status, a),
           requirement' \in [Requirements -> RequirementStatus],
           \A q \in Requirements : \/ requirement'[q] = requirement[q]
                                   \/ q = r /\ requirement'[q] = "satisfied",
           \/ UNCHANGED requirement
           \/ status = "accepted" /\ a # submissions[r][n].capturedBy,
           UNCHANGED <<trip, outcome, closing>>,
           session' \in [Sessions -> Session],
           \A u \in Sessions : session'[u] = session[u] \/ session'[u] = Idle
    PROVE  IInv'
<1>1. /\ submissions' \in [Requirements -> Seq(Submission)]
      /\ \A q \in Requirements : Len(submissions'[q]) = Len(submissions[q])
                                /\ Attempts(q)' = Attempts(q)
      /\ \A q \in Requirements : \A k \in Attempts(q) :
             /\ q # r \/ k # n => submissions'[q][k] = submissions[q][k]
             /\ submissions'[q][k].capturedBy = submissions[q][k].capturedBy
      /\ submissions'[r][n].status = status
      /\ submissions'[r][n].validatedBy = a
  BY ValidatedFacts
<1>2. TypeOK'
  BY <1>1 DEF IInv, TypeOK
<1>3. \A q \in Requirements : requirement'[q] = "required" => requirement[q] = "required"
  OBVIOUS
<1>4. SessionsKnow'
  <2> SUFFICES ASSUME NEW u \in Sessions, session'[u] = session[u]
               PROVE  KnowsOf(u)'
    BY IdleFacts DEF SessionsKnow, KnowsOf
  <2>1. QED
    BY <1>1, <1>3 DEF IInv, SessionsKnow, KnowsOf, Unresolved
<1>5. SatisfiedIsProven'
  <2> SUFFICES ASSUME NEW q \in Requirements, requirement'[q] = "satisfied"
               PROVE  \E k \in Attempts(q)' :
                          /\ submissions'[q][k].status = "accepted"
                          /\ submissions'[q][k].validatedBy # submissions'[q][k].capturedBy
    BY DEF SatisfiedIsProven
  <2>1. CASE requirement[q] = "satisfied"
    <3>1. PICK k \in Attempts(q) :
              /\ submissions[q][k].status = "accepted"
              /\ submissions[q][k].validatedBy # submissions[q][k].capturedBy
      BY <2>1 DEF IInv, SatisfiedIsProven
    <3>2. submissions'[q][k] = submissions[q][k]
      BY <1>1, <3>1
    <3>3. QED
      BY <1>1, <3>1, <3>2
  <2>2. CASE requirement[q] # "satisfied"
    BY <1>1, <2>2
  <2>3. QED
    BY <2>1, <2>2
<1>6. \A q \in Requirements : Open(q)' \subseteq Open(q)
  BY <1>1 DEF Open
<1>7. OneLiveSubmission'
  BY <1>1, <1>6 DEF IInv, OneLiveSubmission
<1>8. Declared'
  BY <1>3 DEF IInv, Declared
<1>9. QED
  BY <1>2, <1>4, <1>5, <1>7, <1>8 DEF IInv, OutcomesAreOfStops

LEMMA CommitSubmitStep ==
    ASSUME IInv, NEW s \in Sessions, CommitSubmit(s)
    PROVE  IInv'
<1> DEFINE r == session[s].of
           x == [status |-> "submitted", capturedBy |-> session[s].actor, validatedBy |-> None]
<1>1. r \in Requirements /\ session[s].actor \in Actors
  BY DEF CommitSubmit, IInv, SessionsKnow, KnowsOf
<1>2. x \in Submission /\ x.status = "submitted"
  BY <1>1 DEF Submission
<1>3. /\ submissions' = [submissions EXCEPT ![r] = Append(submissions[r], x)]
      /\ Open(r) = {}
      /\ UNCHANGED <<trip, outcome, requirement, closing>>
      /\ session' = [session EXCEPT ![s] = Idle]
  BY DEF CommitSubmit, MayOpen, End
<1>4. PICK q \in Requirements : q = r
  BY <1>1
<1>5. PICK y \in Submission : y = x
  BY <1>2
<1>6. submissions' = [submissions EXCEPT ![q] = Append(submissions[q], y)] /\ Open(q) = {}
      /\ y.status = "submitted"
  BY <1>2, <1>3, <1>4, <1>5
<1> HIDE DEF r, x
<1>7. submissions[q] \in Seq(Submission)
  BY DEF IInv, TypeOK
<1>8. /\ Append(submissions[q], y) \in Seq(Submission)
      /\ Len(Append(submissions[q], y)) = Len(submissions[q]) + 1
      /\ \A k \in 1 .. Len(submissions[q]) : Append(submissions[q], y)[k] = submissions[q][k]
      /\ Append(submissions[q], y)[Len(submissions[q]) + 1] = y
  BY <1>7, AppendProperties
<1>9. submissions' \in [Requirements -> Seq(Submission)]
  BY <1>6, <1>8 DEF IInv, TypeOK
<1>10. \A p \in Requirements : p # q => submissions'[p] = submissions[p]
  BY <1>6 DEF IInv, TypeOK
<1>11. submissions'[q] = Append(submissions[q], y)
  BY <1>6 DEF IInv, TypeOK
<1>12. \A p \in Requirements : DOMAIN submissions[p] = 1 .. Len(submissions[p])
                            /\ DOMAIN submissions'[p] = 1 .. Len(submissions'[p])
                            /\ Len(submissions[p]) \in Nat
  BY <1>9 DEF IInv, TypeOK
<1>13. \A p \in Requirements :
          /\ Attempts(p) \subseteq Attempts(p)'
          /\ \A k \in Attempts(p) : submissions'[p][k] = submissions[p][k]
  BY <1>8, <1>10, <1>11, <1>12 DEF Attempts
<1>14. session' \in [Sessions -> Session]
       /\ \A u \in Sessions : session'[u] = session[u] \/ session'[u] = Idle
  BY <1>3, IdleFacts DEF IInv, TypeOK
<1>15. TypeOK'
  BY <1>3, <1>9, <1>14 DEF IInv, TypeOK
<1>16. SessionsKnow'
  <2> SUFFICES ASSUME NEW u \in Sessions, session'[u] = session[u]
               PROVE  KnowsOf(u)'
    BY <1>14, IdleFacts DEF SessionsKnow, KnowsOf
  <2>1. KnowsOf(u)
    BY DEF IInv, SessionsKnow
  <2>2. CASE session[u].command = "accept"
    <3>1. PICK p \in Requirements : /\ p = session[u].of
                                    /\ session[u].attempt \in Attempts(p)
                                    /\ session[u].actor \in Actors
                                    /\ submissions[p][session[u].attempt].capturedBy
                                          # session[u].actor
      BY <2>1, <2>2 DEF KnowsOf
    <3>2. /\ session[u].attempt \in Attempts(p)'
          /\ submissions'[p][session[u].attempt] = submissions[p][session[u].attempt]
      BY <1>13, <3>1
    <3>3. session'[u].of = p
      BY <3>1
    <3>4. QED
      BY <2>2, <3>1, <3>2, <3>3 DEF KnowsOf, Attempts
  <2>3. CASE session[u].command # "accept"
    BY <1>3, <2>1, <2>3 DEF KnowsOf, Unresolved
  <2>4. QED
    BY <2>2, <2>3
<1>17. SatisfiedIsProven'
  <2> SUFFICES ASSUME NEW p \in Requirements, requirement'[p] = "satisfied"
               PROVE  \E k \in Attempts(p)' :
                          /\ submissions'[p][k].status = "accepted"
                          /\ submissions'[p][k].validatedBy # submissions'[p][k].capturedBy
    BY DEF SatisfiedIsProven
  <2>1. requirement[p] = "satisfied"
    BY <1>3
  <2>2. PICK k \in Attempts(p) : /\ submissions[p][k].status = "accepted"
                                /\ submissions[p][k].validatedBy # submissions[p][k].capturedBy
    BY <2>1 DEF IInv, SatisfiedIsProven
  <2>3. k \in Attempts(p)' /\ submissions'[p][k] = submissions[p][k]
    BY <1>13, <2>2
  <2>4. QED
    BY <2>2, <2>3
<1>18. OneLiveSubmission'
  <2> SUFFICES ASSUME NEW p \in Requirements, NEW k \in Attempts(p)',
                      submissions'[p][k].status = "submitted"
               PROVE  k = Len(submissions'[p])
    BY DEF OneLiveSubmission, Open
  <2>1. CASE p = q
    <3>1. k \in Attempts(q) => submissions'[q][k] = submissions[q][k]
      BY <1>13
    <3>2. k \notin Attempts(q)
      BY <1>6, <2>1, <3>1 DEF Open
    <3>3. QED
      BY <1>8, <1>11, <1>12, <2>1, <3>2 DEF Attempts
  <2>2. CASE p # q
    BY <1>10, <2>2 DEF IInv, OneLiveSubmission, Open, Attempts
  <2>3. QED
    BY <2>1, <2>2
<1>19. QED
  BY <1>3, <1>15, <1>16, <1>17, <1>18 DEF IInv, OutcomesAreOfStops, Declared

LEMMA CommitAcceptStep ==
    ASSUME IInv, NEW s \in Sessions, CommitAccept(s)
    PROVE  IInv'
<1>1. PICK r \in Requirements, a \in Actors : \E n \in Attempts(r) :
          /\ r = session[s].of /\ n = session[s].attempt /\ a = session[s].actor
          /\ submissions[r][n].capturedBy # a
  BY DEF CommitAccept, IInv, SessionsKnow, KnowsOf
<1> PICK n \in Attempts(r) :
          /\ r = session[s].of /\ n = session[s].attempt /\ a = session[s].actor
          /\ submissions[r][n].capturedBy # a
  BY <1>1
<1>2. /\ submissions[r][n].status # "accepted"
      /\ submissions' = Validated(r, n, "accepted", a)
      /\ requirement' = [requirement EXCEPT ![r] = "satisfied"]
      /\ UNCHANGED <<trip, outcome, closing>>
      /\ session' = [session EXCEPT ![s] = Idle]
  BY DEF CommitAccept, MayRewrite, End
<1>3. /\ requirement' \in [Requirements -> RequirementStatus]
      /\ \A q \in Requirements : \/ requirement'[q] = requirement[q]
                                 \/ q = r /\ requirement'[q] = "satisfied"
  BY <1>2 DEF IInv, TypeOK, RequirementStatus
<1>4. session' \in [Sessions -> Session]
      /\ \A u \in Sessions : session'[u] = session[u] \/ session'[u] = Idle
  BY <1>2, IdleFacts DEF IInv, TypeOK
<1>5. QED
  BY <1>1, <1>2, <1>3, <1>4, ValidationStep

LEMMA RejectStep ==
    ASSUME IInv, NEW r \in Requirements, NEW n \in Attempts(r), NEW a \in Actors,
           RejectEvidence(r, n, a)
    PROVE  IInv'
<1>1. /\ submissions[r][n].status # "accepted"
      /\ submissions' = Validated(r, n, "rejected", a)
      /\ UNCHANGED <<trip, outcome, requirement, closing, session>>
  BY DEF RejectEvidence, MayRewrite
<1>2. requirement \in [Requirements -> RequirementStatus] /\ session \in [Sessions -> Session]
  BY DEF IInv, TypeOK
<1>3. QED
  BY <1>1, <1>2, ValidationStep

LEMMA WaiveStep ==
    ASSUME IInv, NEW r \in Requirements, WaiveEvidence(r)
    PROVE  IInv'
<1>1. /\ UNCHANGED <<trip, outcome, submissions, closing, session>>
      /\ \A q \in Requirements : requirement'[q] = IF q = r THEN "waived" ELSE requirement[q]
      /\ requirement' \in [Requirements -> RequirementStatus]
  BY DEF WaiveEvidence, IInv, TypeOK, RequirementStatus
<1>2. TypeOK' /\ SessionsKnow' /\ SatisfiedIsProven' /\ Declared'
  BY <1>1 DEF IInv, TypeOK, SessionsKnow, KnowsOf, SatisfiedIsProven, Declared, Attempts, Unresolved
<1>3. QED
  BY <1>1, <1>2 DEF IInv, OutcomesAreOfStops, OneLiveSubmission, Open, Attempts

LEMMA CommitCloseStep ==
    ASSUME IInv, NEW s \in Sessions, CommitClose(s)
    PROVE  IInv'
<1>1. PICK pending \in SUBSET Requirements :
          /\ pending = session[s].pending
          /\ \A r \in Requirements : requirement[r] = "required" => r \in pending
  BY DEF CommitClose, IInv, TypeOK, Session, SessionsKnow, KnowsOf
<1>2. /\ Unresolved = {}
      /\ trip' = "OperationallyClosed"
      /\ closing' = [pending |-> pending,
                     completeness |->
                        Completeness(Cardinality(Requirements) - Cardinality(pending),
                                     Cardinality(Requirements))]
      /\ session' = [session EXCEPT ![s] = Idle]
      /\ UNCHANGED <<outcome, requirement, submissions>>
  BY <1>1 DEF CommitClose, End, IInv, SessionsKnow, KnowsOf
<1>3. closing' \in Closing
  BY <1>2, PendingIsBounded DEF Closing
<1>4. session' \in [Sessions -> Session]
      /\ \A u \in Sessions : session'[u] = session[u] \/ session'[u] = Idle
  BY <1>2, IdleFacts DEF IInv, TypeOK
<1>5. TypeOK'
  BY <1>2, <1>3, <1>4 DEF IInv, TypeOK
<1>6. SessionsKnow'
  BY <1>2, <1>4, IdleFacts DEF IInv, SessionsKnow, KnowsOf, Attempts, Unresolved
<1>7. Declared'
  BY <1>1, <1>2 DEF Declared, Unresolved
<1>8. QED
  BY <1>2, <1>5, <1>6, <1>7
  DEF IInv, OutcomesAreOfStops, SatisfiedIsProven, OneLiveSubmission, Open, Attempts

LEMMA BeginSubmitStep ==
    ASSUME IInv, NEW s \in Sessions, NEW r \in Requirements, NEW a \in Actors,
           BeginSubmit(s, r, a)
    PROVE  IInv'
<1> DEFINE x == [Idle EXCEPT !.command = "submit", !.of = r, !.actor = a]
<1>1. x \in Session /\ x.command = "submit" /\ x.of = r /\ x.actor = a
  BY DEF Idle, Session
<1>2. session' = [session EXCEPT ![s] = x] /\ UNCHANGED fileVars
  BY DEF BeginSubmit, Begin
<1> HIDE DEF x
<1>3. QED
  BY <1>1, <1>2, SessionStep

LEMMA BeginAcceptStep ==
    ASSUME IInv, NEW s \in Sessions, NEW r \in Requirements, NEW n \in Attempts(r),
           NEW a \in Actors, BeginAccept(s, r, n, a)
    PROVE  IInv'
<1> DEFINE x == [Idle EXCEPT !.command = "accept", !.of = r, !.attempt = n, !.actor = a]
<1>1. n \in Nat
  BY DEF IInv, TypeOK, Attempts
<1>2. x \in Session /\ x.command = "accept" /\ x.of = r /\ x.attempt = n /\ x.actor = a
  BY <1>1 DEF Idle, Session
<1>3. /\ session' = [session EXCEPT ![s] = x]
      /\ UNCHANGED fileVars
      /\ submissions[r][n].capturedBy # a
  BY DEF BeginAccept, Begin
<1> HIDE DEF x
<1>4. QED
  BY <1>2, <1>3, SessionStep

LEMMA BeginCloseStep ==
    ASSUME IInv, NEW s \in Sessions, BeginClose(s)
    PROVE  IInv'
<1> DEFINE x == [Idle EXCEPT !.command = "close", !.pending = Pending]
<1>1. x \in Session /\ x.command = "close" /\ x.pending = Pending
  BY DEF Idle, Session, Pending
<1>2. session' = [session EXCEPT ![s] = x] /\ UNCHANGED fileVars /\ Unresolved = {}
  BY DEF BeginClose, Begin, CanClose
<1> HIDE DEF x
<1>3. \A r \in Requirements : requirement[r] = "required" => r \in x.pending
  BY <1>1 DEF Pending
<1>4. QED
  BY <1>1, <1>2, <1>3, SessionStep

LEMMA RollbackStep ==
    ASSUME IInv, NEW s \in Sessions, Rollback(s)
    PROVE  IInv'
BY IdleFacts, SessionStep DEF Rollback, End

LEMMA NextInvariant == IInv /\ [Next]_vars => IInv'
<1> SUFFICES ASSUME IInv, [Next]_vars PROVE IInv'
  OBVIOUS
<1>1. CASE UNCHANGED vars
  BY <1>1
  DEF vars, fileVars, IInv, TypeOK, OutcomesAreOfStops, SessionsKnow, KnowsOf, SatisfiedIsProven,
      OneLiveSubmission, Declared, Attempts, Open, Unresolved
<1>2. CASE \E s \in Stops, lines \in Declarations : RecordStopOutcome(s, lines)
  BY <1>2, RecordStep
<1>3. CASE \E s \in Sessions, r \in Requirements, a \in Actors :
              \/ BeginSubmit(s, r, a)
              \/ \E n \in Attempts(r) : BeginAccept(s, r, n, a)
  BY <1>3, BeginSubmitStep, BeginAcceptStep
<1>4. CASE \E r \in Requirements, a \in Actors :
              \E n \in Attempts(r) : RejectEvidence(r, n, a)
  BY <1>4, RejectStep
<1>5. CASE \E r \in Requirements : WaiveEvidence(r)
  BY <1>5, WaiveStep
<1>6. CASE \E s \in Sessions : \/ CommitSubmit(s)
                              \/ CommitAccept(s)
                              \/ BeginClose(s)
                              \/ CommitClose(s)
                              \/ Rollback(s)
  BY <1>6, CommitSubmitStep, CommitAcceptStep, BeginCloseStep, CommitCloseStep, RollbackStep
<1>7. QED
  BY <1>1, <1>2, <1>3, <1>4, <1>5, <1>6 DEF Next

LEMMA Invariant == Spec => []IInv
BY InitInvariant, NextInvariant, PTL DEF Spec

------------------------------------------------------------------------------
(* Induction without an operator as its parameter: over a set of numbers,  *)
(* and over a set of subsets of a finite set.                              *)
LEMMA NumberInduction ==
    ASSUME NEW T \in SUBSET Nat, 0 \in T, \A n \in T : n + 1 \in T
    PROVE  T = Nat
<1> DEFINE R == OpToRel(<, Nat)
<1>1. IsWellFoundedOn(R, Nat)
  BY NatLessThanWellFounded
<1>2. \A m, n \in Nat : m < n => <<m, n>> \in R
  BY DEF OpToRel
<1> HIDE DEF R
<1>3. SUFFICES ASSUME Nat \ T # {}
               PROVE  FALSE
  OBVIOUS
<1>4. PICK n \in Nat \ T : \A m \in Nat \ T : <<m, n>> \notin R
  BY <1>1, <1>3, WFMin
<1>5. n # 0 /\ n - 1 \in Nat /\ n - 1 < n
  OBVIOUS
<1>6. n - 1 \in T
  BY <1>2, <1>4, <1>5
<1>7. QED
  BY <1>5, <1>6

LEMMA SubsetInduction ==
    ASSUME NEW S, IsFiniteSet(S), NEW T \in SUBSET SUBSET S,
           \A s \in SUBSET S : (\A r \in SUBSET s : r # s => r \in T) => s \in T
    PROVE  T = SUBSET S
<1> DEFINE Sizes == {n \in Nat : \A s \in SUBSET S : Cardinality(s) <= n => s \in T}
<1>1. \A s \in SUBSET S : IsFiniteSet(s) /\ Cardinality(s) \in Nat
  BY FS_Subset, FS_CardinalityType
<1>2. 0 \in Sizes
  <2>1. ASSUME NEW s \in SUBSET S, Cardinality(s) <= 0 PROVE s \in T
    <3>1. s = {}
      BY <1>1, <2>1, FS_EmptySet
    <3>2. QED
      BY <3>1
  <2>2. QED
    BY <2>1
<1>3. ASSUME NEW n \in Sizes PROVE n + 1 \in Sizes
  <2>1. ASSUME NEW s \in SUBSET S, Cardinality(s) <= n + 1, NEW r \in SUBSET s, r # s
        PROVE  r \in T
    <3>1. /\ IsFiniteSet(s) /\ Cardinality(s) \in Nat
          /\ r \in SUBSET S /\ Cardinality(r) \in Nat
      BY <1>1
    <3>2. Cardinality(r) <= Cardinality(s) /\ Cardinality(r) # Cardinality(s)
      BY <2>1, <3>1, FS_Subset
    <3>3. Cardinality(r) <= n
      BY <2>1, <3>1, <3>2
    <3>4. QED
      BY <3>1, <3>3
  <2>2. QED
    BY <2>1
<1>4. Sizes = Nat
  <2> Sizes \in SUBSET Nat
    OBVIOUS
  <2> HIDE DEF Sizes
  <2>1. QED
    BY <1>2, <1>3, NumberInduction
<1>5. QED
  BY <1>1, <1>4

------------------------------------------------------------------------------
(* Sums.  SumFunction adds up what a recursive function over the subsets   *)
(* computes; that there is one, and what it returns, takes an induction.   *)

Some(s) == CHOOSE x \in s : TRUE

SumOfSome(g, f, s) == IF s = {} THEN 0 ELSE f[Some(s)] + g[s \ {Some(s)}]

Sums(g, f, S) == g = [s \in SUBSET S |-> SumOfSome(g, f, s)]

LEMMA SumsExist ==
    ASSUME NEW S, IsFiniteSet(S), NEW f \in [S -> Nat]
    PROVE  \E g : Sums(g, f, S)
<1> DEFINE Up(n, g) == \A s \in SUBSET S : Cardinality(s) <= n => g[s] = SumOfSome(g, f, s)
           Sizes == {n \in Nat : \E g \in [SUBSET S -> Nat] : Up(n, g)}
<1>1. \A s \in SUBSET S : IsFiniteSet(s) /\ Cardinality(s) \in Nat
  BY FS_Subset, FS_CardinalityType
<1>2. 0 \in Sizes
  <2>1. \A s \in SUBSET S : Cardinality(s) <= 0 => s = {}
    BY <1>1, FS_EmptySet
  <2>2. Up(0, [s \in SUBSET S |-> 0])
    BY <2>1 DEF SumOfSome
  <2>3. QED
    BY <2>2
<1>3. ASSUME NEW n \in Sizes PROVE n + 1 \in Sizes
  <2>1. PICK g \in [SUBSET S -> Nat] : Up(n, g)
    OBVIOUS
  <2> DEFINE h == [s \in SUBSET S |-> SumOfSome(g, f, s)]
  <2>2. \A s \in SUBSET S : s # {} => Some(s) \in s
    BY DEF Some
  <2>3. h \in [SUBSET S -> Nat]
    BY <2>2 DEF SumOfSome
  <2>4. ASSUME NEW s \in SUBSET S, Cardinality(s) <= n + 1, s # {}
        PROVE  h[s] = SumOfSome(h, f, s)
    <3> DEFINE r == s \ {Some(s)}
    <3>1. Cardinality(r) = Cardinality(s) - 1
      BY <1>1, <2>2, <2>4, FS_RemoveElement
    <3>2. r \in SUBSET S /\ Cardinality(r) <= n
      BY <1>1, <2>4, <3>1
    <3>3. g[r] = SumOfSome(g, f, r)
      BY <2>1, <3>2
    <3>4. h[r] = g[r]
      BY <3>2, <3>3
    <3>5. QED
      BY <2>4, <3>4 DEF SumOfSome
  <2>5. h[{}] = SumOfSome(h, f, {})
    BY DEF SumOfSome
  <2> HIDE DEF h
  <2>6. Up(n + 1, h)
    BY <2>4, <2>5
  <2>7. QED
    BY <2>3, <2>6
<1>4. Sizes = Nat
  <2> Sizes \in SUBSET Nat
    OBVIOUS
  <2> HIDE DEF Sizes
  <2>1. QED
    BY <1>2, <1>3, NumberInduction
<1>5. PICK g \in [SUBSET S -> Nat] : Up(Cardinality(S), g)
  BY <1>1, <1>4
<1>6. \A s \in SUBSET S : Cardinality(s) <= Cardinality(S)
  BY FS_Subset
<1>7. QED
  BY <1>5, <1>6 DEF Sums

(* What a function that sums returns: a number, zero only for zeros.       *)
LEMMA SumsAreNumbers ==
    ASSUME NEW S, IsFiniteSet(S), NEW f \in [S -> Nat], NEW g, Sums(g, f, S)
    PROVE  \A s \in SUBSET S : g[s] \in Nat /\ (g[s] = 0 <=> \A x \in s : f[x] = 0)
<1> DEFINE Good(s) == g[s] \in Nat /\ (g[s] = 0 <=> \A x \in s : f[x] = 0)
           T == {s \in SUBSET S : Good(s)}
<1>1. ASSUME NEW s \in SUBSET S, \A r \in SUBSET s : r # s => Good(r)
      PROVE  Good(s)
  <2>1. g[s] = SumOfSome(g, f, s)
    BY DEF Sums
  <2>2. CASE s = {}
    BY <2>1, <2>2 DEF SumOfSome
  <2>3. CASE s # {}
    <3> DEFINE x == Some(s)
               r == s \ {x}
    <3>1. x \in s
      BY <2>3 DEF Some
    <3>2. g[s] = f[x] + g[r]
      BY <2>1, <2>3 DEF SumOfSome
    <3>3. Good(r)
      BY <1>1, <3>1
    <3>4. f[x] \in Nat
      BY <3>1
    <3> HIDE DEF x
    <3>5. QED
      BY <3>1, <3>2, <3>3, <3>4
  <2>4. QED
    BY <2>2, <2>3
<1>2. T = SUBSET S
  <2>1. \A s \in SUBSET S : (\A r \in SUBSET s : r # s => r \in T) => s \in T
    BY <1>1
  <2> T \in SUBSET SUBSET S
    OBVIOUS
  <2> HIDE DEF T
  <2>2. QED
    BY <2>1, SubsetInduction
<1>3. QED
  BY <1>2

LEMMA SumFunctionSums ==
    ASSUME NEW S, IsFiniteSet(S), NEW f \in [S -> Nat]
    PROVE  \E g : Sums(g, f, S) /\ SumFunction(f) = g[S]
<1>1. SumFunction(f) = (CHOOSE g : Sums(g, f, S))[S]
  BY DEF SumFunction, SumFunctionOnSet, FoldFunctionOnSet, MapThenFoldSet, Sums, SumOfSome, Some
<1>2. QED
  BY <1>1, SumsExist

LEMMA SumIsNumber ==
    ASSUME NEW S, IsFiniteSet(S), NEW f \in [S -> Nat]
    PROVE  /\ SumFunction(f) \in Nat
           /\ SumFunction(f) = 0 <=> \A x \in S : f[x] = 0
<1>1. PICK g : Sums(g, f, S) /\ SumFunction(f) = g[S]
  BY SumFunctionSums
<1>2. QED
  BY <1>1, SumsAreNumbers

------------------------------------------------------------------------------
(* The total of an amount over the lines of a stop, if none is negative: a *)
(* number, and zero only if it is zero in every line.                      *)
Amounts == {"planned", "loaded", "delivered", "rejected", "damaged", "returned"}

LEMMA TotalSays ==
    ASSUME NEW lines, IsFiniteSet(DOMAIN lines), NEW amount,
           \A i \in DOMAIN lines : lines[i][amount] \in Nat
    PROVE  /\ Total(lines, amount) \in Nat
           /\ Total(lines, amount) = 0 <=> \A i \in DOMAIN lines : lines[i][amount] = 0
<1> DEFINE f == [i \in DOMAIN lines |-> lines[i][amount]]
<1>1. f \in [DOMAIN lines -> Nat]
  OBVIOUS
<1>2. Total(lines, amount) = SumFunction(f)
  BY DEF Total
<1>3. \A i \in DOMAIN lines : f[i] = lines[i][amount]
  OBVIOUS
<1> HIDE DEF f
<1>4. SumFunction(f) \in Nat /\ (SumFunction(f) = 0 <=> \A i \in DOMAIN lines : f[i] = 0)
  BY <1>1, SumIsNumber
<1>5. QED
  BY <1>2, <1>3, <1>4

LEMMA ConservedLine ==
    ASSUME NEW line \in Line, LineViolations(line) = {}
    PROVE  /\ \A amount \in Amounts : line[amount] \in Nat
           /\ DOMAIN line = Amounts
           /\ line.loaded <= line.planned
           /\ line.delivered + line.rejected + line.damaged + line.returned <= line.loaded
<1>1. ~ Negative(line)
  BY DEF LineViolations
<1>2. DOMAIN line = Amounts /\ \A amount \in Amounts : line[amount] \in Int
  BY DEF Line, Amounts
<1>3. \A amount \in Amounts : line[amount] \in Nat
  BY <1>1, <1>2 DEF Negative
<1>4. /\ "loaded_exceeds_planned" \notin LineViolations(line)
      /\ "conservation" \notin LineViolations(line)
  OBVIOUS
<1>5. ~ (line.loaded > line.planned) /\ ~ (Disposed(line) > line.loaded)
  BY <1>1, <1>4 DEF LineViolations
<1>6. QED
  BY <1>2, <1>3, <1>5 DEF Disposed, Amounts

(* What deriveDeliveryOutcome and derivePickupOutcome say of any number of *)
(* lines whose quantities are conserved.                                   *)
LEMMA DerivedTells ==
    ASSUME NEW lines, IsFiniteSet(DOMAIN lines), lines \in [DOMAIN lines -> Line],
           Conserved(lines), NEW kind \in {"pickup", "delivery"}
    PROVE  OutcomeTells(kind, DeriveOutcome(kind, lines), lines)
<1> DEFINE moved == IF kind = "pickup" THEN "loaded" ELSE "delivered"
           result == Derived(lines, moved)
<1>1. DeriveOutcome(kind, lines) = result
  BY DEF DeriveOutcome, DerivePickupOutcome, DeriveDeliveryOutcome
<1>2. ASSUME NEW i \in DOMAIN lines
      PROVE  /\ \A amount \in Amounts : lines[i][amount] \in Nat
             /\ DOMAIN lines[i] = Amounts
             /\ lines[i].loaded <= lines[i].planned
             /\ lines[i].delivered + lines[i].rejected + lines[i].damaged + lines[i].returned
                   <= lines[i].loaded
  BY ConservedLine DEF Conserved
<1>3. moved \in Amounts
  BY DEF Amounts
<1>4. ASSUME NEW i \in DOMAIN lines
      PROVE  /\ lines[i].planned \in Nat /\ lines[i].loaded \in Nat
             /\ lines[i].delivered \in Nat /\ lines[i].rejected \in Nat
             /\ lines[i].damaged \in Nat /\ lines[i].returned \in Nat
             /\ lines[i][moved] \in Nat
             /\ lines[i][moved] <= lines[i].planned
             /\ lines[i][moved] = IF kind = "pickup" THEN lines[i].loaded ELSE lines[i].delivered
  <2>1. /\ lines[i].planned \in Nat /\ lines[i].loaded \in Nat
        /\ lines[i].delivered \in Nat /\ lines[i].rejected \in Nat
        /\ lines[i].damaged \in Nat /\ lines[i].returned \in Nat
    BY <1>2 DEF Amounts
  <2>2. lines[i][moved] = IF kind = "pickup" THEN lines[i].loaded ELSE lines[i].delivered
    OBVIOUS
  <2> HIDE DEF moved
  <2>3. lines[i].loaded <= lines[i].planned /\ lines[i].delivered <= lines[i].planned
    BY <1>2, <2>1
  <2>4. QED
    BY <2>1, <2>2, <2>3
<1>5. /\ Total(lines, moved) \in Nat
      /\ Total(lines, moved) = 0 <=> \A i \in DOMAIN lines : lines[i][moved] = 0
  BY <1>2, <1>3, TotalSays
<1>6. /\ Total(lines, "rejected") \in Nat
      /\ Total(lines, "rejected") = 0 <=> \A i \in DOMAIN lines : lines[i]["rejected"] = 0
  BY <1>4, TotalSays
<1> DEFINE Something(amount) == \E i \in DOMAIN lines : lines[i][amount] > 0
<1>7. Total(lines, moved) # 0 <=> Something(moved)
  <2> HIDE DEF moved
  <2>1. QED
    BY <1>4, <1>5
<1>8. Total(lines, "rejected") > 0 <=> Something("rejected")
  BY <1>4, <1>6
<1> HIDE DEF Something
<1>9. /\ result = "completed" => /\ Something(moved)
                                 /\ \A i \in DOMAIN lines : lines[i][moved] = lines[i].planned
      /\ result = "partially_completed" =>
            Something(moved) /\ \E i \in DOMAIN lines : lines[i][moved] # lines[i].planned
      /\ result = "rejected" => ~ Something(moved) /\ Something("rejected")
      /\ result = "failed" => ~ Something(moved) /\ ~ Something("rejected")
  <2> HIDE DEF moved
  <2>1. QED
    BY <1>7, <1>8 DEF Derived
<1>10. ASSUME result = "completed", NEW i \in DOMAIN lines
       PROVE  /\ lines[i].loaded = lines[i].planned
              /\ kind = "delivery" => /\ lines[i].delivered = lines[i].planned
                                      /\ lines[i].rejected = 0
                                      /\ lines[i].damaged = 0
                                      /\ lines[i].returned = 0
  <2>1. lines[i][moved] = lines[i].planned
    BY <1>9, <1>10
  <2> HIDE DEF moved, result
  <2>2. CASE kind = "pickup"
    BY <1>4, <2>1, <2>2
  <2>3. CASE kind = "delivery"
    <3> DEFINE p == lines[i].planned
               l == lines[i].loaded
               d == lines[i].delivered
               r == lines[i].rejected
               h == lines[i].damaged
               b == lines[i].returned
    <3>1. d = p
      BY <1>4, <2>1, <2>3
    <3>2. p \in Nat /\ l \in Nat /\ d \in Nat /\ r \in Nat /\ h \in Nat /\ b \in Nat
      BY <1>4
    <3>3. l <= p /\ d + r + h + b <= l
      BY <1>2
    <3> SUFFICES l = p /\ d = p /\ r = 0 /\ h = 0 /\ b = 0
      OBVIOUS
    <3> HIDE DEF p, l, d, r, h, b
    <3>4. QED
      BY <3>1, <3>2, <3>3
  <2>4. QED
    BY <2>2, <2>3
<1>11. ASSUME result = "partially_completed"
       PROVE  \E i \in DOMAIN lines : lines[i][moved] < lines[i].planned
  <2>1. PICK i \in DOMAIN lines : lines[i][moved] # lines[i].planned
    BY <1>9, <1>11
  <2> HIDE DEF moved
  <2>2. lines[i][moved] < lines[i].planned
    BY <1>4, <2>1
  <2>3. QED
    BY <2>2
<1>12. \A i \in DOMAIN lines : \A amount \in DOMAIN lines[i] : lines[i][amount] >= 0
  BY <1>2
<1> HIDE DEF result
<1>13. QED
  BY <1>1, <1>2, <1>9, <1>10, <1>11, <1>12 DEF OutcomeTells, Something

------------------------------------------------------------------------------
(* Types are kept, for any number of stops, requirements and transactions. *)
THEOREM TypesAreKept == Spec => []TypeOK
<1>1. IInv => TypeOK
  BY DEF IInv
<1>2. QED
  BY <1>1, Invariant, PTL

(* Every outcome in the file tells what its stop declared, for any finite  *)
(* number of lines of any quantities (docs/13 §9): validateQuantities      *)
(* refuses what is not conserved, and of the rest the sums of              *)
(* deriveDeliveryOutcome are zero only if every quantity is.               *)
THEOREM OutcomesTell == Spec => []OutcomesTellTheQuantities
<1>1. Init => OutcomesTellTheQuantities
  BY DEF Init, OutcomesTellTheQuantities
<1>2. IInv /\ OutcomesTellTheQuantities /\ [Next]_vars => OutcomesTellTheQuantities'
  <2> SUFFICES ASSUME IInv, OutcomesTellTheQuantities, [Next]_vars
               PROVE  OutcomesTellTheQuantities'
    OBVIOUS
  <2>1. CASE UNCHANGED outcome
    BY <2>1 DEF OutcomesTellTheQuantities
  <2>2. CASE \E s \in Stops, lines \in Declarations : RecordStopOutcome(s, lines)
    <3>1. PICK s \in Stops, lines \in Declarations : RecordStopOutcome(s, lines)
      BY <2>2
    <3>2. PICK o : o = [outcome |-> DeriveOutcome(KindOf[s], lines), lines |-> lines]
      OBVIOUS
    <3>3. o.outcome = DeriveOutcome(KindOf[s], lines) /\ o.lines = lines
      BY <3>2
    <3>4. outcome' = [outcome EXCEPT ![s] = o]
      BY <3>1, <3>2 DEF RecordStopOutcome
    <3>5. \A t \in Stops : outcome'[t] = IF t = s THEN o ELSE outcome[t]
      BY <3>4 DEF IInv, OutcomesAreOfStops
    <3>6. OutcomeTells(KindOf[s], o.outcome, o.lines)
      <4>1. Conserved(lines) /\ KindOf[s] \in {"pickup", "delivery"}
        BY <3>1, TripFileAssumption DEF RecordStopOutcome
      <4>2. IsFiniteSet(DOMAIN lines) /\ lines \in [DOMAIN lines -> Line]
        BY TripFileAssumption
      <4>3. QED
        BY <3>3, <4>1, <4>2, DerivedTells
    <3>7. QED
      BY <3>5, <3>6 DEF OutcomesTellTheQuantities
  <2>3. QED
    BY <2>1, <2>2
    DEF Next, vars, fileVars, BeginSubmit, BeginAccept, BeginClose, Begin, CommitSubmit,
        CommitAccept, RejectEvidence, WaiveEvidence, CommitClose, Rollback
<1>3. QED
  BY <1>1, <1>2, Invariant, PTL DEF Spec

(* A satisfied requirement always has an attempt that somebody else than   *)
(* its author accepted: acceptEvidence compares the two before it updates, *)
(* and neither the author nor an accepted attempt changes meanwhile.       *)
THEOREM SatisfactionIsProven == Spec => []SatisfiedIsProven
<1>1. IInv => SatisfiedIsProven
  BY DEF IInv
<1>2. QED
  BY <1>1, Invariant, PTL

(* Only the last attempt of a requirement can wait for its validation,     *)
(* whatever the number of transactions that submit (0016,                  *)
(* evidence_submission_one_open).                                          *)
THEOREM OneSubmissionLives == Spec => []OneLiveSubmission
<1>1. IInv => OneLiveSubmission
  BY DEF IInv
<1>2. QED
  BY <1>1, Invariant, PTL

(* What is missing at a close is declared by it and stays declared, and    *)
(* the rounded completeness of assessClosure says that nothing is missing  *)
(* only if nothing is, up to 20000 requirements in a trip.                 *)
THEOREM ClosesHideNothing ==
    ASSUME Cardinality(Requirements) < 20000
    PROVE  Spec => []ClosingHidesNothing
<1>1. IInv => ClosingHidesNothing
  <2> SUFFICES ASSUME IInv, closing # None PROVE ClosingHidesNothing
    BY DEF ClosingHidesNothing
  <2>1. closing \in Closing
    BY DEF IInv, TypeOK
  <2>2. PICK pending \in SUBSET Requirements : pending = closing.pending
    BY <2>1 DEF Closing
  <2>3. closing.completeness = Whole => pending = {}
    <3> SUFFICES ASSUME pending # {} PROVE closing.completeness # Whole
      OBVIOUS
    <3>1. /\ Cardinality(Requirements) \in Nat
          /\ Cardinality(pending) \in 1 .. Cardinality(Requirements)
      BY PendingIsBounded
    <3>2. PICK total \in Nat, satisfied \in Nat :
              /\ total = Cardinality(Requirements)
              /\ satisfied = Cardinality(Requirements) - Cardinality(pending)
              /\ satisfied < total /\ total < 20000
      BY <3>1
    <3>3. Completeness(satisfied, total) # Whole
      BY <3>2, RoundingHidesNothing
    <3>4. QED
      BY <2>2, <3>2, <3>3 DEF IInv, Declared
  <2>4. Range(requirement) = {requirement[r] : r \in Requirements}
    BY DEF IInv, TypeOK, Range
  <2>5. closing.completeness = Whole => "required" \notin Range(requirement)
    BY <2>2, <2>3, <2>4 DEF IInv, Declared
  <2>6. QED
    BY <2>5 DEF IInv, Declared, ClosingHidesNothing
<1>2. QED
  BY <1>1, Invariant, PTL

(* Accepted evidence and waivers stand (docs/13 §11.8): the trigger and    *)
(* the constraint keep them against every transaction that read the        *)
(* requirement before.                                                     *)
THEOREM FileDecisionsStand == Spec => DecisionsStand
<1> DEFINE Stand ==
        \A r \in Requirements :
           /\ requirement[r] = "waived" => requirement'[r] = "waived"
           /\ \A n \in Attempts(r) : submissions[r][n].status = "accepted" =>
                  submissions'[r][n] = submissions[r][n]
<1>1. IInv /\ [Next]_vars => [Stand]_vars
  <2> SUFFICES ASSUME IInv, Next PROVE Stand
    OBVIOUS
  <2>1. CASE UNCHANGED <<requirement, submissions>>
    BY <2>1
  <2>2. CASE \E s \in Sessions : CommitSubmit(s)
    <3>1. PICK r \in Requirements, x \in Submission :
              /\ submissions' = [submissions EXCEPT ![r] = Append(submissions[r], x)]
              /\ UNCHANGED requirement
      BY <2>2 DEF CommitSubmit, IInv, SessionsKnow, KnowsOf, Submission
    <3>2. submissions[r] \in Seq(Submission)
      BY DEF IInv, TypeOK
    <3>3. \A n \in Attempts(r) : Append(submissions[r], x)[n] = submissions[r][n]
      BY <3>2, AppendProperties DEF Attempts
    <3>4. QED
      BY <3>1, <3>3 DEF IInv, TypeOK
  <2>3. CASE \E s \in Sessions : CommitAccept(s)
    <3>1. PICK s \in Sessions : CommitAccept(s)
      BY <2>3
    <3>2. PICK r \in Requirements, a \in Actors : \E n \in Attempts(r) :
              r = session[s].of /\ n = session[s].attempt /\ a = session[s].actor
      BY <3>1 DEF CommitAccept, IInv, SessionsKnow, KnowsOf
    <3>3. PICK n \in Attempts(r) :
              r = session[s].of /\ n = session[s].attempt /\ a = session[s].actor
      BY <3>2
    <3>4. /\ submissions[r][n].status # "accepted"
          /\ requirement[r] # "waived"
          /\ submissions' = Validated(r, n, "accepted", a)
          /\ requirement' = [requirement EXCEPT ![r] = "satisfied"]
      BY <3>1, <3>3 DEF CommitAccept, MayRewrite, MaySatisfy
    <3>5. \A q \in Requirements : \A k \in Attempts(q) :
              q # r \/ k # n => submissions'[q][k] = submissions[q][k]
      BY <3>4, ValidatedFacts
    <3>6. QED
      BY <3>4, <3>5 DEF IInv, TypeOK
  <2>4. CASE \E r \in Requirements, a \in Actors :
                \E n \in Attempts(r) : RejectEvidence(r, n, a)
    <3>1. PICK r \in Requirements, a \in Actors : \E n \in Attempts(r) : RejectEvidence(r, n, a)
      BY <2>4
    <3> PICK n \in Attempts(r) : RejectEvidence(r, n, a)
      BY <3>1
    <3>2. /\ submissions[r][n].status # "accepted"
          /\ submissions' = Validated(r, n, "rejected", a)
          /\ UNCHANGED requirement
      BY DEF RejectEvidence, MayRewrite
    <3>3. \A q \in Requirements : \A k \in Attempts(q) :
              q # r \/ k # n => submissions'[q][k] = submissions[q][k]
      BY <3>2, ValidatedFacts
    <3>4. QED
      BY <3>2, <3>3
  <2>5. CASE \E r \in Requirements : WaiveEvidence(r)
    BY <2>5 DEF WaiveEvidence, IInv, TypeOK
  <2>6. QED
    BY <2>1, <2>2, <2>3, <2>4, <2>5
    DEF Next, RecordStopOutcome, BeginSubmit, BeginAccept, BeginClose, CommitClose, Rollback,
        Begin, fileVars
<1>2. QED
  BY <1>1, Invariant, PTL DEF Spec, DecisionsStand
==============================================================================
