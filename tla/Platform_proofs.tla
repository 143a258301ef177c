---------------------------- MODULE Platform_proofs ----------------------------
(***************************************************************************)
(* What the platform gives to every module: commands with a key, and the   *)
(* people who may send them.                                               *)
(*                                                                         *)
(* For any requests, keys and failures, a key takes effect at most once.   *)
(* The argument: the claim of a key is held exactly by the request that    *)
(* executes under it, nobody executes under a key that has a record, and   *)
(* the record of a key is the only request that took effect under it.      *)
(*                                                                         *)
(* For any invitations, grants and tabs, what was revoked stays revoked.   *)
(* The argument: the rows that a sign-in writes are nobody else's until it *)
(* commits, so that none of those it accepts can have been revoked.        *)
(***************************************************************************)
EXTENDS Idempotency, Sequences, TLAPS

CONSTANTS Grants, Unscoped, Invitations, MaxRows, MaxLosses, Sessions

VARIABLES invitation, membership, session, losses

Team == INSTANCE TeamAccess

------------------------------------------------------------------------------
(* The row lock of a key is held by the request that executes under it. *)
ClaimsAreExecutions ==
    /\ \A k \in Keys : claimed[k] # None =>
          KeyOf[claimed[k]] = k /\ phase[claimed[k]] \in {"executing", "completing"}
    /\ \A r \in Requests : phase[r] \in {"executing", "completing"} =>
          claimed[KeyOf[r]] = r /\ row[KeyOf[r]] = None

(* The committed row of a key is the one request that took effect under it. *)
RecordsAreEffects ==
    /\ \A k \in Keys : row[k] # None => row[k] \in effects /\ KeyOf[row[k]] = k
    /\ \A r \in effects : row[KeyOf[r]] = r

(* What the phase of a request says of its effect and of its answer. *)
PhasesAreTrue ==
    \A r \in Requests :
        /\ phase[r] = "found" => row[KeyOf[r]] # None
        /\ phase[r] = "answering" => r \in effects
        /\ r \in effects => phase[r] \in {"answering", "answered", "failed"}
        /\ r \in denied => phase[r] = "denied"
        /\ answer[r] # None => phase[r] = "answered"

IInv ==
    /\ TypeOK
    /\ ClaimsAreExecutions
    /\ RecordsAreEffects
    /\ PhasesAreTrue
    /\ AnswersAreTrue

------------------------------------------------------------------------------
(* The invariant holds before any request. *)
LEMMA InitInvariant == Init => IInv
  BY KeyOfAssumption, NoneIsNoRequest
     DEF Init, IInv, TypeOK, Phase, ClaimsAreExecutions, RecordsAreEffects, PhasesAreTrue,
         AnswersAreTrue

(* The invariant holds through every step of a request, and its failure. *)
LEMMA StepInvariant == IInv /\ [Next]_vars => IInv'
<1> USE KeyOfAssumption, NoneIsNoRequest
<1> SUFFICES ASSUME IInv, [Next]_vars PROVE IInv'
  OBVIOUS
<1> USE DEF IInv, TypeOK, Phase, ClaimsAreExecutions, RecordsAreEffects, PhasesAreTrue,
            AnswersAreTrue
<1>1. ASSUME NEW r \in Requests, Send(r) PROVE IInv'
  BY <1>1 DEF Send, Goes
<1>2. ASSUME NEW r \in Requests, Claim(r) PROVE IInv'
  BY <1>2 DEF Claim, Goes
<1>3. ASSUME NEW r \in Requests, FindClaimed(r) PROVE IInv'
  BY <1>3 DEF FindClaimed, Goes
<1>4. ASSUME NEW r \in Requests, Replay(r) PROVE IInv'
  BY <1>4 DEF Replay, Goes
<1>5. ASSUME NEW r \in Requests, RejectReuse(r) PROVE IInv'
  BY <1>5 DEF RejectReuse, Goes
<1>6. ASSUME NEW r \in Requests, Execute(r) PROVE IInv'
  BY <1>6 DEF Execute, Goes
<1>7. ASSUME NEW r \in Requests, Reject(r) PROVE IInv'
  BY <1>7 DEF Reject, Goes
<1>8. ASSUME NEW r \in Requests, Commit(r) PROVE IInv'
  BY <1>8 DEF Commit, Goes
<1>9. ASSUME NEW r \in Requests, Respond(r) PROVE IInv'
  BY <1>9 DEF Respond, Goes
<1>10. ASSUME NEW r \in Requests, Deny(r) PROVE IInv'
  BY <1>10 DEF Deny, Goes
<1>11. ASSUME NEW r \in Requests, Fail(r) PROVE IInv'
  BY <1>11 DEF Fail
<1>12. ASSUME UNCHANGED vars PROVE IInv'
  BY <1>12 DEF vars
<1>13. QED
  BY <1>1, <1>2, <1>3, <1>4, <1>5, <1>6, <1>7, <1>8, <1>9, <1>10, <1>11, <1>12
     DEF Next, ServerStep

(* The invariant holds throughout. *)
LEMMA Invariant == Spec => []IInv
  BY InitInvariant, StepInvariant, PTL DEF Spec

------------------------------------------------------------------------------
(* Every variable keeps its type, for any number of requests and keys. *)
THEOREM TypeCorrect == Spec => []TypeOK
<1>1. IInv => TypeOK
  BY DEF IInv
<1>2. QED
  BY <1>1, Invariant, PTL

(* No two requests with one key take effect, whatever fails and interleaves. *)
THEOREM AtMostOnce == Spec => []OneEffectPerKey
<1>1. IInv => OneEffectPerKey
  BY DEF IInv, RecordsAreEffects, OneEffectPerKey
<1>2. QED
  BY <1>1, Invariant, PTL

(* The records are the successes: a failed command can be retried. *)
THEOREM OnlySuccessesAreRecorded == Spec => []SuccessesAreRecorded
<1>1. IInv => SuccessesAreRecorded
  <2> SUFFICES ASSUME IInv, NEW k \in Keys
               PROVE row[k] # None <=> \E r \in effects : KeyOf[r] = k
    BY DEF SuccessesAreRecorded
  <2>1. ASSUME row[k] # None PROVE \E r \in effects : KeyOf[r] = k
    BY <2>1 DEF IInv, RecordsAreEffects
  <2>2. ASSUME NEW r \in effects, KeyOf[r] = k PROVE row[k] # None
    BY <2>2, NoneIsNoRequest DEF IInv, TypeOK, RecordsAreEffects
  <2>3. QED
    BY <2>1, <2>2
<1>2. QED
  BY <1>1, Invariant, PTL

(* An answer is the result of an execution of the same command that took effect. *)
THEOREM AnswersTellTheTruth == Spec => []AnswersAreTrue
<1>1. IInv => AnswersAreTrue
  BY DEF IInv
<1>2. QED
  BY <1>1, Invariant, PTL

(* The audit of a denied attempt never names a request that took effect. *)
THEOREM DenialsHadNoEffect == Spec => []DeniedHadNoEffect
<1>1. IInv => DeniedHadNoEffect
  BY DEF IInv, TypeOK, PhasesAreTrue, DeniedHadNoEffect
<1>2. QED
  BY <1>1, Invariant, PTL

------------------------------------------------------------------------------
(***************************************************************************)
(* The requests implement the exactly-once effect of a key: a commit is    *)
(* the performance, a reply the answer, and every other step is invisible. *)
(***************************************************************************)
LEMMA StepRefines == IInv /\ [Next]_vars => [Promise!Next]_<<row, answer>>
<1> SUFFICES ASSUME IInv, [Next]_vars PROVE [Promise!Next]_<<row, answer>>
  OBVIOUS
<1>1. ASSUME NEW r \in Requests, Commit(r) PROVE Promise!Perform(r)
  BY <1>1, KeyOfAssumption
     DEF IInv, ClaimsAreExecutions, Commit, Goes, Promise!Perform
<1>2. ASSUME NEW r \in Requests, Replay(r) PROVE Promise!Answer(r)
  BY <1>2, KeyOfAssumption DEF IInv, PhasesAreTrue, Replay, Goes, Promise!Answer
<1>3. ASSUME NEW r \in Requests, Respond(r) PROVE Promise!Answer(r)
  BY <1>3, KeyOfAssumption, NoneIsNoRequest
     DEF IInv, TypeOK, PhasesAreTrue, RecordsAreEffects, Respond, Goes, Promise!Answer
<1>4. ASSUME NEW r \in Requests,
             \/ Send(r) \/ Claim(r) \/ FindClaimed(r) \/ RejectReuse(r) \/ Execute(r)
             \/ Reject(r) \/ Deny(r) \/ Fail(r)
      PROVE UNCHANGED <<row, answer>>
  BY <1>4 DEF Send, Claim, FindClaimed, RejectReuse, Execute, Reject, Deny, Fail
<1>5. ASSUME UNCHANGED vars PROVE UNCHANGED <<row, answer>>
  BY <1>5 DEF vars
<1>6. QED
  BY <1>1, <1>2, <1>3, <1>4, <1>5 DEF Next, ServerStep, Promise!Next

(* Idempotency refines ExactlyOnce. *)
THEOREM TakesEffectExactlyOnce == Spec => ExactlyOnceEffect
<1>1. Init => Promise!Init
  BY DEF Init, Promise!Init
<1>2. QED
  BY <1>1, StepRefines, Invariant, PTL DEF Spec, ExactlyOnceEffect, Promise!Spec

------------------------------------------------------------------------------
(* The rows that a sign-in has written. *)
Touched(s) == session[s].expired \cup session[s].accepted

(* What a sign-in has read and written stays what it is until it commits:  *)
(* an invitation that it accepts is not revoked meanwhile.                 *)
KnowsOf(s) ==
    /\ session[s].joined \subseteq session[s].accepted
    /\ session[s].cursor \cap session[s].expired = {}
    /\ session[s].accepted \cap session[s].expired = {}
    /\ \A i \in session[s].cursor \cup Touched(s) : invitation[i].status # "absent"
    /\ \A i \in session[s].expired : invitation[i].status = "pending"
    /\ \A i \in session[s].accepted : invitation[i].status # "revoked"

SignInsKnow == \A s \in Sessions : KnowsOf(s)

RowsHaveOneWriter == \A s, t \in Sessions : s # t => Touched(s) \cap Touched(t) = {}

JoinedByAccepted ==
    \A g \in Grants : \A n \in DOMAIN membership[g] :
        LET i == membership[g][n].by
        IN  i # None => invitation[i].status = "accepted" /\ invitation[i].grant = g

AccessTypeOK ==
    /\ invitation \in [Invitations -> Team!InvitationRow \cup {Team!Absent}]
    /\ membership \in [Grants -> Seq(Team!MembershipRow)]
    /\ session \in [Sessions -> Team!Redemption]

AccessInv ==
    /\ AccessTypeOK
    /\ SignInsKnow
    /\ RowsHaveOneWriter
    /\ JoinedByAccepted

(* What must stand from one state to the next. *)
Stands ==
    /\ \A i \in Invitations :
          invitation[i].status = "revoked" => invitation'[i] = invitation[i]
    /\ \A g \in Grants : \A n \in DOMAIN membership[g] :
          membership[g][n].status = "revoked" => membership'[g][n] = membership[g][n]
    /\ \A g \in Grants : \A n \in DOMAIN membership'[g] :
          LET i == membership'[g][n].by
          IN  i # None => invitation'[i].status = "accepted" /\ invitation'[i].grant = g

LEMMA InitAccess == Team!Init => AccessInv
<1> SUFFICES ASSUME Team!Init PROVE AccessInv
  OBVIOUS
<1>1. Team!Idle \in Team!Redemption /\ \A s \in Sessions : session[s] = Team!Idle
  BY DEF Team!Init, Team!Idle, Team!Redemption
<1>2. AccessTypeOK
  BY <1>1 DEF Team!Init, AccessTypeOK
<1>3. SignInsKnow /\ RowsHaveOneWriter
  BY <1>1 DEF SignInsKnow, RowsHaveOneWriter, KnowsOf, Touched, Team!Idle
<1>4. JoinedByAccepted
  BY DEF Team!Init, JoinedByAccepted
<1>5. QED
  BY <1>2, <1>3, <1>4 DEF AccessInv

LEMMA InvitationIsRow ==
    ASSUME AccessTypeOK, NEW i \in Invitations, invitation[i].status # "absent"
    PROVE  invitation[i] \in Team!InvitationRow
BY DEF AccessTypeOK, Team!Absent

(* A step upon one invitation that no open sign-in has written or that     *)
(* keeps its status.                                                       *)
LEMMA InvitationStep ==
    ASSUME AccessInv, NEW i \in Invitations, NEW x \in Team!InvitationRow,
           invitation' = [invitation EXCEPT ![i] = x],
           UNCHANGED <<membership, session>>,
           \/ invitation[i].status = "pending" /\ x.status = "pending"
           \/ invitation[i].status = "pending" /\ x.status = "revoked" /\ ~ Team!Locked(i)
           \/ invitation[i].status = "absent" /\ x.status = "pending"
    PROVE  AccessInv' /\ Stands
<1>1. \A j \in Invitations : invitation'[j] = IF j = i THEN x ELSE invitation[j]
  BY DEF AccessInv, AccessTypeOK
<1>2. AccessTypeOK'
  BY DEF AccessInv, AccessTypeOK
<1>3. RowsHaveOneWriter'
  BY DEF AccessInv, RowsHaveOneWriter, Touched
<1>4. SignInsKnow'
  <2> SUFFICES ASSUME NEW s \in Sessions PROVE KnowsOf(s)'
    BY DEF SignInsKnow
  <2>1. KnowsOf(s) /\ session[s] \in Team!Redemption
    BY DEF AccessInv, AccessTypeOK, SignInsKnow
  <2>2. /\ session[s].cursor \subseteq Invitations
        /\ session[s].expired \subseteq Invitations
        /\ session[s].accepted \subseteq Invitations
    BY <2>1 DEF Team!Redemption
  <2>3. ~ Team!Locked(i) => i \notin session[s].expired \cup session[s].accepted
    BY DEF Team!Locked
  <2>4. Touched(s)' = Touched(s)
    BY DEF Touched
  <2>5. \A j \in session[s].cursor \cup Touched(s) : invitation'[j].status # "absent"
    BY <1>1, <2>1, <2>2 DEF KnowsOf, Touched
  <2>6. \A j \in session[s].expired : invitation'[j].status = "pending"
    BY <1>1, <2>1, <2>2, <2>3 DEF KnowsOf, Touched
  <2>7. \A j \in session[s].accepted : invitation'[j].status # "revoked"
    BY <1>1, <2>1, <2>2, <2>3 DEF KnowsOf, Touched
  <2>8. QED
    BY <2>1, <2>4, <2>5, <2>6, <2>7 DEF KnowsOf
<1>5. JoinedByAccepted'
  <2> SUFFICES ASSUME NEW g \in Grants, NEW n \in DOMAIN membership[g],
                      membership[g][n].by # None
               PROVE  /\ invitation'[membership[g][n].by].status = "accepted"
                      /\ invitation'[membership[g][n].by].grant = g
    BY DEF JoinedByAccepted
  <2>1. membership[g][n] \in Team!MembershipRow
    BY DEF AccessInv, AccessTypeOK
  <2>2. PICK j \in Invitations : j = membership[g][n].by
    BY <2>1 DEF Team!MembershipRow
  <2>3. invitation[j].status = "accepted" /\ invitation[j].grant = g
    BY <2>2 DEF AccessInv, JoinedByAccepted
  <2>4. j # i
    BY <2>3
  <2>5. QED
    BY <1>1, <2>2, <2>3, <2>4
<1>6. Stands
  BY <1>1, <1>5 DEF Stands, JoinedByAccepted
<1>7. QED
  BY <1>2, <1>3, <1>4, <1>5, <1>6 DEF AccessInv

(* A step that gives one grant another row without invitation, or revokes  *)
(* one.                                                                    *)
LEMMA MembershipStep ==
    ASSUME AccessInv, NEW g \in Grants, NEW rows \in Seq(Team!MembershipRow),
           membership' = [membership EXCEPT ![g] = rows],
           UNCHANGED <<invitation, session>>,
           \A n \in DOMAIN membership[g] :
               /\ n \in DOMAIN rows
               /\ rows[n].by = membership[g][n].by
               /\ membership[g][n].status = "revoked" => rows[n] = membership[g][n],
           \A n \in DOMAIN rows \ DOMAIN membership[g] : rows[n].by = None
    PROVE  AccessInv' /\ Stands
<1>1. \A h \in Grants : membership'[h] = IF h = g THEN rows ELSE membership[h]
  BY DEF AccessInv, AccessTypeOK
<1>2. AccessTypeOK'
  BY DEF AccessInv, AccessTypeOK
<1>3. SignInsKnow' /\ RowsHaveOneWriter'
  BY DEF AccessInv, SignInsKnow, KnowsOf, RowsHaveOneWriter, Touched
<1>4. JoinedByAccepted'
  BY <1>1 DEF AccessInv, JoinedByAccepted
<1>5. Stands
  BY <1>1, <1>4 DEF Stands, JoinedByAccepted
<1>6. QED
  BY <1>2, <1>3, <1>4, <1>5 DEF AccessInv

(* A step of one sign-in that writes nothing yet. *)
LEMMA SignInStep ==
    ASSUME AccessInv, NEW s \in Sessions, NEW x \in Team!Redemption,
           session' = [session EXCEPT ![s] = x],
           UNCHANGED <<invitation, membership>>,
           x.joined \subseteq x.accepted,
           x.cursor \cap x.expired = {},
           x.accepted \cap x.expired = {},
           \A i \in x.cursor \cup x.expired \cup x.accepted : invitation[i].status # "absent",
           \A i \in x.expired : invitation[i].status = "pending",
           \A i \in x.accepted : invitation[i].status # "revoked",
           \A t \in Sessions \ {s} : Touched(t) \cap (x.expired \cup x.accepted) = {}
    PROVE  AccessInv' /\ Stands
<1>1. \A t \in Sessions : session'[t] = IF t = s THEN x ELSE session[t]
  BY DEF AccessInv, AccessTypeOK
<1>2. AccessTypeOK'
  BY DEF AccessInv, AccessTypeOK
<1>3. SignInsKnow'
  <2> SUFFICES ASSUME NEW t \in Sessions PROVE KnowsOf(t)'
    BY DEF SignInsKnow
  <2>1. CASE t = s
    BY <1>1, <2>1 DEF KnowsOf, Touched
  <2>2. CASE t # s
    BY <1>1, <2>2 DEF AccessInv, SignInsKnow, KnowsOf, Touched
  <2>3. QED
    BY <2>1, <2>2
<1>4. RowsHaveOneWriter'
  <2>1. \A t \in Sessions : Touched(t)' = IF t = s THEN x.expired \cup x.accepted ELSE Touched(t)
    BY <1>1 DEF Touched
  <2>2. QED
    BY <2>1 DEF AccessInv, RowsHaveOneWriter
<1>5. JoinedByAccepted' /\ Stands
  BY DEF AccessInv, JoinedByAccepted, Stands
<1>6. QED
  BY <1>2, <1>3, <1>4, <1>5 DEF AccessInv

(* A sign-in that is undone. *)
LEMMA UndoneStep ==
    ASSUME AccessInv, NEW s \in Sessions, session' = [session EXCEPT ![s] = Team!Idle],
           UNCHANGED <<invitation, membership>>
    PROVE  AccessInv' /\ Stands
<1>1. /\ Team!Idle \in Team!Redemption
      /\ Team!Idle.joined = {} /\ Team!Idle.cursor = {}
      /\ Team!Idle.expired = {} /\ Team!Idle.accepted = {}
  BY DEF Team!Idle, Team!Redemption
<1>2. QED
  BY <1>1, SignInStep

LEMMA BeginStep ==
    ASSUME AccessInv, NEW s \in Sessions, Team!BeginRedeem(s)
    PROVE  AccessInv' /\ Stands
<1> DEFINE x == [Team!Idle EXCEPT !.step = "redeeming", !.cursor = Team!Pending \ Team!Lapsed,
                                  !.expired = Team!Lapsed]
<1>1. /\ x \in Team!Redemption
      /\ x.cursor = Team!Pending \ Team!Lapsed /\ x.expired = Team!Lapsed
      /\ x.joined = {} /\ x.accepted = {}
  BY DEF Team!Idle, Team!Redemption, Team!Lapsed, Team!Pending
<1>2. session' = [session EXCEPT ![s] = x] /\ UNCHANGED <<invitation, membership>>
  BY DEF Team!BeginRedeem, Team!Goes
<1>3. \A i \in Team!Pending : invitation[i].status = "pending"
  BY DEF Team!Pending
<1>4. Team!Lapsed \subseteq Team!Pending
  BY DEF Team!Lapsed
<1>5. \A t \in Sessions : Touched(t) \cap Team!Lapsed = {}
  BY DEF Team!BeginRedeem, Team!Locked, Touched
<1> HIDE DEF x
<1>6. QED
  BY <1>1, <1>2, <1>3, <1>4, <1>5, SignInStep

LEMMA AccountStep ==
    ASSUME AccessInv, NEW s \in Sessions, Team!TakeAccount(s)
    PROVE  AccessInv' /\ Stands
<1> DEFINE x == [session[s] EXCEPT !.account = TRUE]
<1>1. session[s] \in Team!Redemption /\ KnowsOf(s)
  BY DEF AccessInv, AccessTypeOK, SignInsKnow
<1>2. /\ x \in Team!Redemption
      /\ x.cursor = session[s].cursor /\ x.expired = session[s].expired
      /\ x.joined = session[s].joined /\ x.accepted = session[s].accepted
  BY <1>1 DEF Team!Redemption
<1>3. session' = [session EXCEPT ![s] = x] /\ UNCHANGED <<invitation, membership>>
  BY DEF Team!TakeAccount, Team!Goes
<1>4. \A t \in Sessions \ {s} : Touched(t) \cap Touched(s) = {}
  BY DEF AccessInv, RowsHaveOneWriter
<1> HIDE DEF x
<1>5. /\ \A i \in x.cursor \cup x.expired \cup x.accepted : invitation[i].status # "absent"
      /\ \A i \in x.expired : invitation[i].status = "pending"
      /\ \A i \in x.accepted : invitation[i].status # "revoked"
  BY <1>1, <1>2 DEF KnowsOf, Touched
<1>6. /\ x.joined \subseteq x.accepted
      /\ x.cursor \cap x.expired = {}
      /\ x.accepted \cap x.expired = {}
  BY <1>1, <1>2 DEF KnowsOf
<1>7. \A t \in Sessions \ {s} : Touched(t) \cap (x.expired \cup x.accepted) = {}
  BY <1>2, <1>4 DEF Touched
<1>8. QED
  BY <1>2, <1>3, <1>5, <1>6, <1>7, SignInStep

LEMMA AcceptStep ==
    ASSUME AccessInv, NEW s \in Sessions, NEW i \in Invitations, Team!Accept(s, i)
    PROVE  AccessInv' /\ Stands
<1>1. session[s] \in Team!Redemption /\ KnowsOf(s)
  BY DEF AccessInv, AccessTypeOK, SignInsKnow
<1>2. PICK joined \in SUBSET Invitations :
          /\ joined \subseteq session[s].joined \cup {i}
          /\ session' = [session EXCEPT ![s] =
                [session[s] EXCEPT !.cursor = session[s].cursor \ {i},
                                   !.accepted = session[s].accepted \cup {i},
                                   !.joined = joined]]
  <2> DEFINE g == invitation[i].grant
             joined == IF \/ Team!AlreadyIn(g)
                          \/ \E j \in session[s].joined : invitation[j].grant = g
                       THEN session[s].joined ELSE session[s].joined \cup {i}
  <2>1. joined \in SUBSET Invitations /\ joined \subseteq session[s].joined \cup {i}
    BY <1>1 DEF Team!Redemption
  <2>2. session' = [session EXCEPT ![s] =
                [session[s] EXCEPT !.cursor = session[s].cursor \ {i},
                                   !.accepted = session[s].accepted \cup {i},
                                   !.joined = joined]]
    BY <1>1 DEF Team!Accept, Team!Goes, Team!Redemption
  <2> HIDE DEF joined
  <2>3. QED
    BY <2>1, <2>2
<1> DEFINE x == [session[s] EXCEPT !.cursor = session[s].cursor \ {i},
                                   !.accepted = session[s].accepted \cup {i},
                                   !.joined = joined]
<1>3. /\ x \in Team!Redemption
      /\ x.cursor = session[s].cursor \ {i} /\ x.expired = session[s].expired
      /\ x.joined = joined /\ x.accepted = session[s].accepted \cup {i}
  BY <1>1 DEF Team!Redemption
<1>4. session' = [session EXCEPT ![s] = x]
  BY <1>2
<1>5. /\ i \in session[s].cursor
      /\ invitation[i].status # "revoked"
      /\ \A t \in Sessions \ {s} : i \notin Touched(t)
      /\ UNCHANGED <<invitation, membership>>
  BY DEF Team!Accept, Team!MayAccept, Team!Goes, Touched
<1>6. \A t \in Sessions \ {s} : Touched(t) \cap Touched(s) = {}
  BY DEF AccessInv, RowsHaveOneWriter
<1> HIDE DEF x
<1>7. /\ x.joined \subseteq x.accepted
      /\ x.cursor \cap x.expired = {}
      /\ x.accepted \cap x.expired = {}
  BY <1>1, <1>2, <1>3, <1>5 DEF KnowsOf
<1>8. /\ \A j \in x.cursor \cup x.expired \cup x.accepted : invitation[j].status # "absent"
      /\ \A j \in x.expired : invitation[j].status = "pending"
      /\ \A j \in x.accepted : invitation[j].status # "revoked"
  BY <1>1, <1>3, <1>5 DEF KnowsOf, Touched
<1>9. \A t \in Sessions \ {s} : Touched(t) \cap (x.expired \cup x.accepted) = {}
  BY <1>3, <1>5, <1>6 DEF Touched
<1>10. QED
  BY <1>3, <1>4, <1>5, <1>7, <1>8, <1>9, SignInStep

(* The commit of a sign-in: what it accepted, what had lapsed and who it   *)
(* joined, together.                                                       *)
LEMMA CommitStep ==
    ASSUME AccessInv, NEW s \in Sessions, Team!CommitRedeem(s)
    PROVE  AccessInv' /\ Stands
<1> DEFINE x == session[s]
           Joining(g) == {i \in x.joined : invitation[i].grant = g}
           By(g) == CHOOSE i \in Joining(g) : TRUE
           Row(g) == [status |-> "active", by |-> By(g)]
<1>1. x \in Team!Redemption /\ KnowsOf(s)
  BY DEF AccessInv, AccessTypeOK, SignInsKnow
<1>2. /\ x.accepted \subseteq Invitations /\ x.expired \subseteq Invitations
      /\ x.joined \subseteq x.accepted /\ x.accepted \cap x.expired = {}
      /\ \A i \in x.accepted : invitation[i].status \notin {"revoked", "absent"}
      /\ \A i \in x.expired : invitation[i].status = "pending"
  BY <1>1 DEF Team!Redemption, KnowsOf, Touched
<1>3. /\ session' = [session EXCEPT ![s] = Team!Idle]
      /\ invitation' = [i \in Invitations |->
             IF i \in x.accepted THEN [invitation[i] EXCEPT !.status = "accepted"]
             ELSE IF i \in x.expired THEN [invitation[i] EXCEPT !.status = "expired"]
             ELSE invitation[i]]
      /\ membership' = [g \in Grants |->
             IF Joining(g) = {} THEN membership[g] ELSE Append(membership[g], Row(g))]
  BY DEF Team!CommitRedeem
<1>4. \A i \in Invitations :
          /\ i \in x.accepted => /\ invitation'[i] \in Team!InvitationRow
                                 /\ invitation'[i].status = "accepted"
                                 /\ invitation'[i].grant = invitation[i].grant
          /\ i \in x.expired => /\ invitation'[i] \in Team!InvitationRow
                                /\ invitation'[i].status = "expired"
          /\ i \notin x.accepted \cup x.expired => invitation'[i] = invitation[i]
  <2> SUFFICES ASSUME NEW i \in Invitations
               PROVE  /\ i \in x.accepted => /\ invitation'[i] \in Team!InvitationRow
                                             /\ invitation'[i].status = "accepted"
                                             /\ invitation'[i].grant = invitation[i].grant
                      /\ i \in x.expired => /\ invitation'[i] \in Team!InvitationRow
                                            /\ invitation'[i].status = "expired"
                      /\ i \notin x.accepted \cup x.expired => invitation'[i] = invitation[i]
    OBVIOUS
  <2>1. i \in x.accepted \cup x.expired => invitation[i] \in Team!InvitationRow
    BY <1>2, InvitationIsRow DEF AccessInv
  <2>2. QED
    BY <1>2, <1>3, <2>1 DEF Team!InvitationRow
<1>5. \A g \in Grants : Joining(g) # {} =>
          /\ By(g) \in Invitations /\ By(g) \in x.accepted
          /\ invitation[By(g)].grant = g
          /\ Row(g) \in Team!MembershipRow /\ Row(g).by = By(g)
  <2> SUFFICES ASSUME NEW g \in Grants, Joining(g) # {}
               PROVE  /\ By(g) \in Invitations /\ By(g) \in x.accepted
                      /\ invitation[By(g)].grant = g
                      /\ Row(g) \in Team!MembershipRow /\ Row(g).by = By(g)
    OBVIOUS
  <2>1. By(g) \in Joining(g)
    OBVIOUS
  <2> HIDE DEF By
  <2>2. QED
    BY <1>2, <2>1 DEF Team!MembershipRow
<1> HIDE DEF x, By, Row
<1>6. ASSUME NEW g \in Grants
      PROVE  /\ membership'[g] \in Seq(Team!MembershipRow)
             /\ \A n \in DOMAIN membership[g] : membership'[g][n] = membership[g][n]
             /\ \A n \in DOMAIN membership'[g] :
                    \/ n \in DOMAIN membership[g]
                    \/ Joining(g) # {} /\ membership'[g][n] = Row(g)
  <2>1. membership[g] \in Seq(Team!MembershipRow)
    BY DEF AccessInv, AccessTypeOK
  <2>2. CASE Joining(g) = {}
    BY <1>3, <2>1, <2>2
  <2>3. CASE Joining(g) # {}
    <3>1. membership'[g] = Append(membership[g], Row(g)) /\ Row(g) \in Team!MembershipRow
      BY <1>3, <1>5, <2>3
    <3> HIDE DEF Joining
    <3>2. QED
      BY <2>1, <2>3, <3>1
  <2>4. QED
    BY <2>2, <2>3
<1>7. \A i \in Invitations : invitation[i].status = "accepted" =>
          invitation'[i].status = "accepted" /\ invitation'[i].grant = invitation[i].grant
  BY <1>2, <1>4
<1>8. JoinedByAccepted'
  <2> SUFFICES ASSUME NEW g \in Grants, NEW n \in DOMAIN membership'[g],
                      membership'[g][n].by # None
               PROVE  /\ invitation'[membership'[g][n].by].status = "accepted"
                      /\ invitation'[membership'[g][n].by].grant = g
    BY DEF JoinedByAccepted
  <2>1. CASE n \in DOMAIN membership[g]
    <3>1. membership[g][n] \in Team!MembershipRow /\ membership'[g][n] = membership[g][n]
      BY <1>6, <2>1 DEF AccessInv, AccessTypeOK
    <3>2. PICK i \in Invitations : i = membership[g][n].by
      BY <3>1 DEF Team!MembershipRow
    <3>3. invitation[i].status = "accepted" /\ invitation[i].grant = g
      BY <2>1, <3>1, <3>2 DEF AccessInv, JoinedByAccepted
    <3>4. QED
      BY <1>7, <3>1, <3>2, <3>3
  <2>2. CASE n \notin DOMAIN membership[g]
    <3>1. Joining(g) # {} /\ membership'[g][n] = Row(g)
      BY <1>6, <2>2
    <3> HIDE DEF Joining
    <3>2. QED
      BY <1>4, <1>5, <3>1
  <2>3. QED
    BY <2>1, <2>2
<1>9. Stands
  <2>1. \A i \in Invitations :
            invitation[i].status = "revoked" => invitation'[i] = invitation[i]
    BY <1>2, <1>4
  <2>2. QED
    BY <1>6, <1>8, <2>1 DEF Stands, JoinedByAccepted
<1>10. Team!Idle \in Team!Redemption
  BY DEF Team!Idle, Team!Redemption
<1>11. AccessTypeOK'
  <2>1. invitation' \in [Invitations -> Team!InvitationRow \cup {Team!Absent}]
    BY <1>3, <1>4 DEF AccessInv, AccessTypeOK
  <2>2. membership' \in [Grants -> Seq(Team!MembershipRow)]
    BY <1>3, <1>6
  <2>3. session' \in [Sessions -> Team!Redemption]
    BY <1>3, <1>10 DEF AccessInv, AccessTypeOK
  <2>4. QED
    BY <2>1, <2>2, <2>3 DEF AccessTypeOK
<1>12. \A t \in Sessions : session'[t] = IF t = s THEN Team!Idle ELSE session[t]
  BY <1>3 DEF AccessInv, AccessTypeOK
<1>13. RowsHaveOneWriter'
  BY <1>12 DEF AccessInv, RowsHaveOneWriter, Touched, Team!Idle
<1>14. SignInsKnow'
  <2> SUFFICES ASSUME NEW t \in Sessions PROVE KnowsOf(t)'
    BY DEF SignInsKnow
  <2>1. CASE t = s
    BY <1>12, <2>1 DEF KnowsOf, Touched, Team!Idle
  <2>2. CASE t # s
    <3>1. KnowsOf(t) /\ session[t] \in Team!Redemption /\ session'[t] = session[t]
      BY <1>12, <2>2 DEF AccessInv, AccessTypeOK, SignInsKnow
    <3>2. /\ session[t].cursor \subseteq Invitations
          /\ session[t].expired \subseteq Invitations
          /\ session[t].accepted \subseteq Invitations
      BY <3>1 DEF Team!Redemption
    <3>3. Touched(t) \cap (x.expired \cup x.accepted) = {}
      BY <2>2 DEF AccessInv, RowsHaveOneWriter, Touched, x
    <3>4. \A i \in session[t].cursor \cup Touched(t) : invitation'[i].status # "absent"
      BY <1>4, <3>1, <3>2 DEF KnowsOf, Touched
    <3>5. \A i \in session[t].expired : invitation'[i].status = "pending"
      BY <1>4, <3>1, <3>2, <3>3 DEF KnowsOf, Touched
    <3>6. \A i \in session[t].accepted : invitation'[i].status # "revoked"
      BY <1>4, <3>1, <3>2 DEF KnowsOf
    <3>7. QED
      BY <3>1, <3>4, <3>5, <3>6 DEF KnowsOf, Touched
  <2>3. QED
    BY <2>1, <2>2
<1>15. QED
  BY <1>8, <1>9, <1>11, <1>13, <1>14 DEF AccessInv

(* The invariant holds through every command and every step of a sign-in, *)
(* and what must stand does.                                              *)
LEMMA AccessStep == AccessInv /\ [Team!Next]_(Team!vars) => AccessInv' /\ [Stands]_(Team!vars)
<1> SUFFICES ASSUME AccessInv, [Team!Next]_(Team!vars) PROVE AccessInv' /\ [Stands]_(Team!vars)
  OBVIOUS
<1>1. CASE UNCHANGED Team!vars
  BY <1>1 DEF Team!vars, AccessInv, AccessTypeOK, SignInsKnow, KnowsOf, RowsHaveOneWriter,
              Touched, JoinedByAccepted
<1>2. ASSUME NEW g \in Grants, Team!Invite(g) PROVE AccessInv' /\ Stands
  <2>1. CASE \E i \in Team!Pending :
                /\ invitation[i].grant = g
                /\ invitation' = [invitation EXCEPT ![i].lapsed = FALSE]
    <3>1. PICK i \in Team!Pending : invitation' = [invitation EXCEPT ![i].lapsed = FALSE]
      BY <2>1
    <3> DEFINE x == [invitation[i] EXCEPT !.lapsed = FALSE]
    <3>2. i \in Invitations /\ invitation[i].status = "pending"
      BY DEF Team!Pending
    <3>3. invitation[i] \in Team!InvitationRow
      BY <3>2, InvitationIsRow DEF AccessInv
    <3>4. x \in Team!InvitationRow /\ x.status = "pending"
      BY <3>2, <3>3 DEF Team!InvitationRow
    <3>5. invitation' = [invitation EXCEPT ![i] = x] /\ UNCHANGED <<membership, session>>
      BY <1>2, <3>1 DEF Team!Invite
    <3> HIDE DEF x
    <3>6. QED
      BY <3>2, <3>4, <3>5, InvitationStep
  <2>2. CASE \E i \in Invitations :
                /\ invitation[i] = Team!Absent
                /\ invitation' = [invitation EXCEPT ![i] =
                       [grant |-> g, status |-> "pending", lapsed |-> FALSE]]
    <3>1. PICK i \in Invitations :
                /\ invitation[i] = Team!Absent
                /\ invitation' = [invitation EXCEPT ![i] =
                       [grant |-> g, status |-> "pending", lapsed |-> FALSE]]
      BY <2>2
    <3> DEFINE x == [grant |-> g, status |-> "pending", lapsed |-> FALSE]
    <3>2. x \in Team!InvitationRow /\ x.status = "pending"
      BY DEF Team!InvitationRow
    <3>3. invitation[i].status = "absent" /\ invitation' = [invitation EXCEPT ![i] = x]
          /\ UNCHANGED <<membership, session>>
      BY <1>2, <3>1 DEF Team!Absent, Team!Invite
    <3> HIDE DEF x
    <3>4. QED
      BY <3>2, <3>3, InvitationStep
  <2>3. QED
    BY <1>2, <2>1, <2>2 DEF Team!Invite
<1>3. ASSUME NEW i \in Invitations, Team!Lapse(i) \/ Team!RevokeInvitation(i)
      PROVE  AccessInv' /\ Stands
  <2>1. invitation[i].status = "pending" /\ UNCHANGED <<membership, session>>
    BY <1>3 DEF Team!Lapse, Team!RevokeInvitation, Team!Pending
  <2>2. invitation[i] \in Team!InvitationRow
    BY <2>1, InvitationIsRow DEF AccessInv
  <2>3. CASE Team!Lapse(i)
    <3> DEFINE x == [invitation[i] EXCEPT !.lapsed = TRUE]
    <3>1. x \in Team!InvitationRow /\ x.status = "pending"
      BY <2>1, <2>2 DEF Team!InvitationRow
    <3>2. invitation' = [invitation EXCEPT ![i] = x]
      BY <2>3 DEF Team!Lapse
    <3> HIDE DEF x
    <3>3. QED
      BY <2>1, <3>1, <3>2, InvitationStep
  <2>4. CASE Team!RevokeInvitation(i)
    <3> DEFINE x == [invitation[i] EXCEPT !.status = "revoked"]
    <3>1. x \in Team!InvitationRow /\ x.status = "revoked"
      BY <2>1, <2>2 DEF Team!InvitationRow
    <3>2. invitation' = [invitation EXCEPT ![i] = x] /\ ~ Team!Locked(i)
      BY <2>4 DEF Team!RevokeInvitation
    <3> HIDE DEF x
    <3>3. QED
      BY <2>1, <3>1, <3>2, InvitationStep
  <2>5. QED
    BY <1>3, <2>3, <2>4
<1>4. ASSUME NEW g \in Grants, Team!GrantMembership(g) PROVE AccessInv' /\ Stands
  <2> DEFINE entry == [status |-> "active", by |-> None]
             rows == Append(membership[g], entry)
  <2>1. entry \in Team!MembershipRow /\ entry.by = None
    BY DEF Team!MembershipRow
  <2>2. membership[g] \in Seq(Team!MembershipRow)
    BY DEF AccessInv, AccessTypeOK
  <2>3. membership' = [membership EXCEPT ![g] = rows] /\ UNCHANGED <<invitation, session>>
    BY <1>4 DEF Team!GrantMembership
  <2> HIDE DEF entry
  <2>4. /\ rows \in Seq(Team!MembershipRow)
        /\ \A n \in DOMAIN membership[g] : n \in DOMAIN rows /\ rows[n] = membership[g][n]
        /\ \A n \in DOMAIN rows \ DOMAIN membership[g] : rows[n] = entry
    BY <2>1, <2>2
  <2> HIDE DEF rows
  <2>5. QED
    BY <2>1, <2>3, <2>4, MembershipStep
<1>5. ASSUME NEW g \in Grants, NEW n \in Team!Active(g), Team!RevokeMembership(g, n)
      PROVE  AccessInv' /\ Stands
  <2> DEFINE entry == [membership[g][n] EXCEPT !.status = "revoked"]
             rows == [membership[g] EXCEPT ![n] = entry]
  <2>1. membership[g] \in Seq(Team!MembershipRow)
    BY DEF AccessInv, AccessTypeOK
  <2>2. n \in DOMAIN membership[g] /\ membership[g][n].status = "active"
    BY DEF Team!Active
  <2>3. membership[g][n] \in Team!MembershipRow
    BY <2>1, <2>2
  <2>4. entry \in Team!MembershipRow /\ entry.by = membership[g][n].by
    BY <2>3 DEF Team!MembershipRow
  <2>5. membership' = [membership EXCEPT ![g] = rows] /\ UNCHANGED <<invitation, session>>
    BY <1>5 DEF Team!RevokeMembership
  <2> HIDE DEF entry
  <2>6. /\ rows \in Seq(Team!MembershipRow)
        /\ DOMAIN rows = DOMAIN membership[g]
        /\ \A m \in DOMAIN membership[g] : rows[m] = IF m = n THEN entry ELSE membership[g][m]
    BY <2>1, <2>2, <2>4
  <2> HIDE DEF rows
  <2>7. QED
    BY <2>2, <2>4, <2>5, <2>6, MembershipStep
<1>6. ASSUME NEW s \in Sessions,
             Team!RedeemStep(s) \/ Team!BreakDeadlock(s) \/ Team!Lose(s)
      PROVE  AccessInv' /\ Stands
  BY <1>6, BeginStep, AccountStep, AcceptStep, CommitStep, UndoneStep
     DEF Team!RedeemStep, Team!Refused, Team!BreakDeadlock, Team!Lose, Team!Goes
<1>7. QED
  BY <1>1, <1>2, <1>3, <1>4, <1>5, <1>6 DEF Team!Next

(* RevocationsStand, for any number of invitations, grants and tabs: what  *)
(* was revoked stays revoked, and every membership by invitation is by one *)
(* that stands as accepted (0013 and 0014, redeem_invitations).            *)
THEOREM RevocationsAreKept == Team!Spec => Team!RevocationsStand
<1>1. Team!Spec => []AccessInv
  BY InitAccess, AccessStep, PTL DEF Team!Spec
<1>2. QED
  BY <1>1, AccessStep, PTL DEF Team!Spec, Team!RevocationsStand, Stands

(***************************************************************************)
(* One sign-in at a time.  A second membership by one invitation takes two *)
(* tabs; without them none of the invitations that a sign-in has read is   *)
(* accepted before it commits.                                             *)
(***************************************************************************)
OneSignIn == \A s, t \in Sessions : session[s] # Team!Idle /\ session[t] # Team!Idle => s = t

ReadsAreUnanswered ==
    \A s \in Sessions : \A i \in session[s].cursor \cup session[s].accepted :
        invitation[i].status # "accepted"

(* Invitations are accepted by the commit of a sign-in, and a sign-in reads *)
(* those that are pending.                                                  *)
LEMMA UnansweredStep ==
    ASSUME AccessInv, ReadsAreUnanswered, OneSignIn, [Team!Next]_(Team!vars)
    PROVE  ReadsAreUnanswered'
<1> USE DEF AccessInv, AccessTypeOK
<1>1. ASSUME UNCHANGED session,
             \A i \in Invitations :
                 invitation'[i].status = "accepted" => invitation[i].status = "accepted"
      PROVE  ReadsAreUnanswered'
  BY <1>1 DEF ReadsAreUnanswered, Team!Redemption
<1>2. ASSUME NEW s \in Sessions, NEW x, session' = [session EXCEPT ![s] = x],
             x.cursor \cup x.accepted
                \subseteq session[s].cursor \cup session[s].accepted \cup Team!Pending,
             UNCHANGED invitation
      PROVE  ReadsAreUnanswered'
  BY <1>2 DEF ReadsAreUnanswered, Team!Pending
<1>3. Team!Idle.cursor = {} /\ Team!Idle.accepted = {}
  BY DEF Team!Idle
<1>4. CASE UNCHANGED Team!vars
  BY <1>1, <1>4 DEF Team!vars
<1>5. ASSUME NEW g \in Grants, Team!Invite(g) PROVE ReadsAreUnanswered'
  <2>1. UNCHANGED session
    BY <1>5 DEF Team!Invite
  <2>2. ASSUME NEW i \in Team!Pending, invitation' = [invitation EXCEPT ![i].lapsed = FALSE]
        PROVE  \A j \in Invitations : invitation'[j].status = invitation[j].status
    BY <2>2, InvitationIsRow DEF Team!Pending, Team!InvitationRow
  <2>3. ASSUME NEW i \in Invitations,
               invitation' = [invitation EXCEPT ![i] =
                                 [grant |-> g, status |-> "pending", lapsed |-> FALSE]]
        PROVE  \A j \in Invitations :
                   invitation'[j].status = "accepted" => invitation[j].status = "accepted"
    BY <2>3
  <2>4. QED
    BY <1>1, <1>5, <2>1, <2>2, <2>3 DEF Team!Invite
<1>6. ASSUME NEW i \in Invitations, Team!Lapse(i) \/ Team!RevokeInvitation(i)
      PROVE  ReadsAreUnanswered'
  <2>1. i \in Team!Pending /\ invitation[i] \in Team!InvitationRow
    BY <1>6, InvitationIsRow DEF Team!Lapse, Team!RevokeInvitation, Team!Pending
  <2>2. QED
    BY <1>1, <1>6, <2>1 DEF Team!Lapse, Team!RevokeInvitation, Team!Pending, Team!InvitationRow
<1>7. ASSUME NEW g \in Grants,
             Team!GrantMembership(g) \/ \E n \in Team!Active(g) : Team!RevokeMembership(g, n)
      PROVE  ReadsAreUnanswered'
  BY <1>1, <1>7 DEF Team!GrantMembership, Team!RevokeMembership
<1>8. ASSUME NEW s \in Sessions, Team!BeginRedeem(s) PROVE ReadsAreUnanswered'
  BY <1>2, <1>8 DEF Team!BeginRedeem, Team!Goes, Team!Idle
<1>9. ASSUME NEW s \in Sessions, Team!TakeAccount(s) PROVE ReadsAreUnanswered'
  BY <1>2, <1>9 DEF Team!TakeAccount, Team!Goes, Team!Redemption
<1>10. ASSUME NEW s \in Sessions, NEW i \in Invitations, Team!Accept(s, i)
       PROVE  ReadsAreUnanswered'
  BY <1>2, <1>10 DEF Team!Accept, Team!Goes, Team!Redemption
<1>11. ASSUME NEW s \in Sessions, Team!Refused(s) \/ Team!BreakDeadlock(s) \/ Team!Lose(s)
       PROVE  ReadsAreUnanswered'
  BY <1>2, <1>3, <1>11 DEF Team!Refused, Team!BreakDeadlock, Team!Lose, Team!Goes
<1>12. ASSUME NEW s \in Sessions, Team!CommitRedeem(s) PROVE ReadsAreUnanswered'
  <2>1. session[s] # Team!Idle /\ session' = [session EXCEPT ![s] = Team!Idle]
    BY <1>12 DEF Team!CommitRedeem, Team!Idle
  <2>2. \A t \in Sessions : session'[t] = Team!Idle
    BY <2>1 DEF OneSignIn
  <2>3. QED
    BY <1>3, <2>2 DEF ReadsAreUnanswered
<1>13. QED
  BY <1>4, <1>5, <1>6, <1>7, <1>8, <1>9, <1>10, <1>11, <1>12 DEF Team!Next, Team!RedeemStep

(* What every step does to the memberships by one grant: their invitations *)
(* stay, and one more is by none or by one that a sign-in has accepted.    *)
LEMMA JoiningStep ==
    ASSUME AccessInv, [Team!Next]_(Team!vars), NEW g \in Grants
    PROVE  \/ /\ DOMAIN membership'[g] = DOMAIN membership[g]
              /\ \A n \in DOMAIN membership[g] : membership'[g][n].by = membership[g][n].by
           \/ \E entry \in Team!MembershipRow :
                 /\ membership'[g] = Append(membership[g], entry)
                 /\ \/ entry.by = None
                    \/ \E s \in Sessions : entry.by \in session[s].accepted
<1> USE DEF AccessInv, AccessTypeOK
<1>1. ASSUME UNCHANGED membership
      PROVE  /\ DOMAIN membership'[g] = DOMAIN membership[g]
             /\ \A n \in DOMAIN membership[g] : membership'[g][n].by = membership[g][n].by
  BY <1>1
<1>2. ASSUME NEW h \in Grants, Team!GrantMembership(h)
      PROVE  \/ membership'[g] = membership[g]
             \/ \E entry \in Team!MembershipRow :
                   membership'[g] = Append(membership[g], entry) /\ entry.by = None
  <2> DEFINE entry == [status |-> "active", by |-> None]
  <2>1. entry \in Team!MembershipRow /\ entry.by = None
    BY DEF Team!MembershipRow
  <2>2. membership' = [membership EXCEPT ![h] = Append(membership[h], entry)]
    BY <1>2 DEF Team!GrantMembership
  <2> HIDE DEF entry
  <2>3. QED
    BY <2>1, <2>2
<1>3. ASSUME NEW h \in Grants, NEW n \in Team!Active(h), Team!RevokeMembership(h, n)
      PROVE  /\ DOMAIN membership'[g] = DOMAIN membership[g]
             /\ \A m \in DOMAIN membership[g] : membership'[g][m].by = membership[g][m].by
  <2>1. membership[g] \in Seq(Team!MembershipRow) /\ membership[h] \in Seq(Team!MembershipRow)
    OBVIOUS
  <2>2. membership' = [membership EXCEPT ![h] =
                          [membership[h] EXCEPT ![n] = [membership[h][n] EXCEPT !.status = "revoked"]]]
    BY <1>3 DEF Team!RevokeMembership
  <2>3. \A m \in DOMAIN membership[g] : membership[g][m] \in Team!MembershipRow
    BY <2>1
  <2>4. QED
    BY <2>1, <2>2, <2>3 DEF Team!MembershipRow
<1>4. ASSUME NEW s \in Sessions, Team!CommitRedeem(s)
      PROVE  \/ membership'[g] = membership[g]
             \/ \E entry \in Team!MembershipRow :
                   /\ membership'[g] = Append(membership[g], entry)
                   /\ entry.by \in session[s].accepted
  <2> DEFINE Joining == {i \in session[s].joined : invitation[i].grant = g}
             By == CHOOSE i \in Joining : TRUE
             entry == [status |-> "active", by |-> By]
  <2>1. membership'[g] = IF Joining = {} THEN membership[g] ELSE Append(membership[g], entry)
    BY <1>4 DEF Team!CommitRedeem
  <2>2. CASE Joining = {}
    BY <2>1, <2>2
  <2>3. CASE Joining # {}
    <3>1. By \in Joining
      BY <2>3
    <3>2. session[s].joined \subseteq session[s].accepted /\ session[s].joined \subseteq Invitations
      BY DEF SignInsKnow, KnowsOf, Team!Redemption
    <3> HIDE DEF By
    <3>3. entry \in Team!MembershipRow /\ entry.by \in session[s].accepted
      BY <3>1, <3>2 DEF Team!MembershipRow
    <3> HIDE DEF entry
    <3>4. QED
      BY <2>1, <2>3, <3>3
  <2>4. QED
    BY <2>2, <2>3
<1>5. ASSUME \/ \E h \in Grants : Team!Invite(h)
             \/ \E i \in Invitations : Team!Lapse(i) \/ Team!RevokeInvitation(i)
             \/ \E s \in Sessions : \/ Team!RedeemStep(s) /\ ~ Team!CommitRedeem(s)
                                    \/ Team!BreakDeadlock(s)
                                    \/ Team!Lose(s)
             \/ UNCHANGED Team!vars
      PROVE  UNCHANGED membership
  BY <1>5 DEF Team!Invite, Team!Lapse, Team!RevokeInvitation, Team!RedeemStep, Team!BeginRedeem,
              Team!TakeAccount, Team!Accept, Team!Refused, Team!BreakDeadlock, Team!Lose,
              Team!Goes, Team!vars
<1>6. QED
  BY <1>1, <1>2, <1>3, <1>4, <1>5 DEF Team!Next

LEMMA OneJoinStep ==
    ASSUME AccessInv, ReadsAreUnanswered, Team!OneMembershipPerInvitation,
           [Team!Next]_(Team!vars)
    PROVE  Team!OneMembershipPerInvitation'
<1> SUFFICES ASSUME NEW g \in Grants, NEW m \in DOMAIN membership'[g],
                    NEW n \in DOMAIN membership'[g], m # n, membership'[g][m].by # None
             PROVE  membership'[g][m].by # membership'[g][n].by
  BY DEF Team!OneMembershipPerInvitation
<1>1. membership[g] \in Seq(Team!MembershipRow)
  BY DEF AccessInv, AccessTypeOK
<1>2. CASE /\ DOMAIN membership'[g] = DOMAIN membership[g]
           /\ \A k \in DOMAIN membership[g] : membership'[g][k].by = membership[g][k].by
  BY <1>2 DEF Team!OneMembershipPerInvitation
<1>3. ASSUME NEW entry \in Team!MembershipRow,
             membership'[g] = Append(membership[g], entry),
             entry.by = None \/ \E s \in Sessions : entry.by \in session[s].accepted
      PROVE  membership'[g][m].by # membership'[g][n].by
  <2>1. /\ DOMAIN membership[g] = 1 .. Len(membership[g]) /\ Len(membership[g]) \in Nat
        /\ DOMAIN membership'[g] = 1 .. Len(membership[g]) + 1
        /\ membership'[g][Len(membership[g]) + 1] = entry
        /\ \A k \in DOMAIN membership[g] : membership'[g][k] = membership[g][k]
    BY <1>1, <1>3
  <2>2. \A k \in DOMAIN membership[g] :
            membership[g][k].by # None => membership[g][k].by # entry.by
    <3> SUFFICES ASSUME NEW k \in DOMAIN membership[g], membership[g][k].by # None,
                        membership[g][k].by = entry.by
                 PROVE  FALSE
      OBVIOUS
    <3>1. invitation[entry.by].status = "accepted"
      BY DEF AccessInv, JoinedByAccepted
    <3>2. QED
      BY <1>3, <3>1 DEF ReadsAreUnanswered
  <2>3. CASE m \in DOMAIN membership[g] /\ n \in DOMAIN membership[g]
    BY <2>1, <2>3 DEF Team!OneMembershipPerInvitation
  <2>4. CASE m \in DOMAIN membership[g] /\ n \notin DOMAIN membership[g]
    <3>1. membership'[g][n] = entry /\ membership'[g][m] = membership[g][m]
      BY <2>1, <2>4
    <3>2. QED
      BY <2>2, <2>4, <3>1
  <2>5. CASE m \notin DOMAIN membership[g]
    <3>1. m = Len(membership[g]) + 1 /\ n \in DOMAIN membership[g]
      BY <2>1, <2>5
    <3>2. membership'[g][m] = entry /\ membership'[g][n] = membership[g][n]
      BY <2>1, <3>1
    <3>3. QED
      BY <2>2, <3>1, <3>2
  <2>6. QED
    BY <2>3, <2>4, <2>5
<1>4. QED
  BY <1>2, <1>3, JoiningStep

(***************************************************************************)
(* OneMembershipPerInvitation, which two tabs break, holds when sign-ins   *)
(* come one at a time, whoever invites, revokes and grants meanwhile.      *)
(***************************************************************************)
THEOREM SerialInvitationsJoinOnce == Team!Spec /\ []OneSignIn => []Team!OneMembershipPerInvitation
<1>1. Team!Init => ReadsAreUnanswered /\ Team!OneMembershipPerInvitation
  BY DEF Team!Init, ReadsAreUnanswered, Team!OneMembershipPerInvitation, Team!Idle
<1>2. Team!Spec => []AccessInv
  BY InitAccess, AccessStep, PTL DEF Team!Spec
<1>3. AccessInv /\ ReadsAreUnanswered /\ OneSignIn /\ [Team!Next]_(Team!vars)
        => ReadsAreUnanswered'
  BY UnansweredStep
<1>4. AccessInv /\ ReadsAreUnanswered /\ Team!OneMembershipPerInvitation
        /\ [Team!Next]_(Team!vars) => Team!OneMembershipPerInvitation'
  BY OneJoinStep
<1>5. QED
  BY <1>1, <1>2, <1>3, <1>4, PTL DEF Team!Spec
==============================================================================
