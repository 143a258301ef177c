------------------------------- MODULE TeamAccess -------------------------------
(***************************************************************************)
(* How a person comes into the companies that invited them and out of them *)
(* again: org.invitation, org.membership and the functions of migrations   *)
(* 0013 and 0014.  Everything is of one identity, since the functions read *)
(* and lock nothing of another's.  A grant stands for a tenant, a role and *)
(* a scope.                                                                *)
(*                                                                         *)
(* redeem_invitations runs on every sign-in, so that two tabs redeem at    *)
(* once.  Its statements see what is committed when each of them begins:   *)
(* the cursor is of the beginning, the memberships are of their moment.    *)
(* What it has written is locked until it commits.                         *)
(***************************************************************************)
EXTENDS FiniteSets, Naturals, Sequences

CONSTANTS
    Grants,         \* tenant, role and scope
    Unscoped,       \* the grants on all the legal entities of their tenant
    Invitations,    \* rows of org.invitation that can come to be
    MaxRows,        \* bound on the memberships that an administrator can give by one grant
    MaxLosses,      \* bound on the connections that are lost
    Sessions,       \* sign-ins that can be under way at once
    None

ASSUME TeamAccessAssumption ==
    Unscoped \subseteq Grants /\ MaxRows \in Nat /\ MaxLosses \in Nat /\ None \notin Grants

VARIABLES
    invitation,     \* the rows of org.invitation
    membership,     \* the rows of org.membership of each grant, the oldest first
    session,        \* what each sign-in has read and written
    losses          \* how many connections were lost

vars == <<invitation, membership, session, losses>>

Absent == [grant |-> None, status |-> "absent", lapsed |-> FALSE]

(* `lapsed` tells that the row's expires_at has passed. *)
InvitationRow ==
    [grant : Grants, status : {"pending", "accepted", "revoked", "expired"}, lapsed : BOOLEAN]

(* `by` is the invitation of the InvitationAccepted that is on record. *)
MembershipRow == [status : {"active", "revoked"}, by : Invitations \cup {None}]

Idle == [step |-> "idle", cursor |-> {}, account |-> FALSE, expired |-> {}, accepted |-> {},
         joined |-> {}]

Redemption ==
    [step : {"idle", "redeeming"}, cursor : SUBSET Invitations, account : BOOLEAN,
     expired : SUBSET Invitations, accepted : SUBSET Invitations, joined : SUBSET Invitations]

TypeOK ==
    /\ invitation \in [Invitations -> InvitationRow \cup {Absent}]
    /\ membership \in [Grants -> Seq(MembershipRow)]
    /\ session \in [Sessions -> Redemption]
    /\ losses \in 0 .. MaxLosses

Init ==
    /\ invitation = [i \in Invitations |-> Absent]
    /\ membership = [g \in Grants |-> <<>>]
    /\ session = [s \in Sessions |-> Idle]
    /\ losses = 0
-----------------------------------------------------------------------------
Pending == {i \in Invitations : invitation[i].status = "pending"}

(* The rows that an open sign-in has written. *)
Locked(i) == \E s \in Sessions : i \in session[s].expired \cup session[s].accepted

(* inviteMember: the conflict on invitation_pending_key renews the row.    *)
Invite(g) ==
    /\ \A i \in Pending : invitation[i].grant = g => ~ Locked(i)
    /\ \/ \E i \in Pending :
             /\ invitation[i].grant = g
             /\ invitation' = [invitation EXCEPT ![i].lapsed = FALSE]
       \/ /\ \A i \in Pending : invitation[i].grant # g
          /\ \E i \in Invitations :
                /\ invitation[i] = Absent
                /\ invitation' = [invitation EXCEPT ![i] =
                       [grant |-> g, status |-> "pending", lapsed |-> FALSE]]
    /\ UNCHANGED <<membership, session, losses>>

(* expires_at passes. *)
Lapse(i) ==
    /\ i \in Pending
    /\ invitation' = [invitation EXCEPT ![i].lapsed = TRUE]
    /\ UNCHANGED <<membership, session, losses>>

RevokeInvitation(i) ==
    /\ i \in Pending
    /\ ~ Locked(i)
    /\ invitation' = [invitation EXCEPT ![i].status = "revoked"]
    /\ UNCHANGED <<membership, session, losses>>

Active(g) == {n \in DOMAIN membership[g] : membership[g][n].status = "active"}

(* A mistake in the next definition: the scopes are compared with `=`,     *)
(* which is not true of two nulls.                                         *)
AlreadyInScope(g) == Active(g) # {} /\ g \notin Unscoped

(* The membership that grant_membership and redeem_invitations look for.   *)
AlreadyIn(g) == Active(g) # {}

(* The unique index membership_active_grant_key. *)
MayJoin(g) == Active(g) = {}

AccountHeld == \E s \in Sessions : session[s].account

(* grant_membership: the update of org.user_account waits for the sign-ins *)
(* that hold it.                                                           *)
GrantMembership(g) ==
    /\ ~ AccountHeld
    /\ ~ AlreadyIn(g)
    /\ MayJoin(g)
    /\ Len(membership[g]) < MaxRows
    /\ membership' = [membership EXCEPT ![g] = Append(@, [status |-> "active", by |-> None])]
    /\ UNCHANGED <<invitation, session, losses>>

RevokeMembership(g, n) ==
    /\ n \in Active(g)
    /\ membership' = [membership EXCEPT ![g][n].status = "revoked"]
    /\ UNCHANGED <<invitation, session, losses>>
-----------------------------------------------------------------------------
Goes(s, x) ==
    /\ session' = [session EXCEPT ![s] = x]
    /\ UNCHANGED <<invitation, membership, losses>>

Lapsed == {i \in Pending : invitation[i].lapsed}

(* redeem_invitations: what has lapsed is marked, and the rest is the      *)
(* cursor of the loop.  The marking waits for the others' locks.  The      *)
(* tenants that invite are active: no command changes that.                *)
BeginRedeem(s) ==
    /\ session[s] = Idle
    /\ \A i \in Lapsed : ~ Locked(i)
    /\ Goes(s, [Idle EXCEPT !.step = "redeeming", !.cursor = Pending \ Lapsed,
                            !.expired = Lapsed])

(* The first iteration of the loop inserts or updates org.user_account.    *)
TakeAccount(s) ==
    /\ session[s].cursor # {}
    /\ ~ AccountHeld
    /\ Goes(s, [session[s] EXCEPT !.account = TRUE])

(* A mistake in the next definition: the constraint is missing. *)
MayAcceptRevoked(i) == TRUE

(* invitation_revoked_consistency: the date of a revocation stays, so its  *)
(* status must.  The update itself asks for no status.                     *)
MayAccept(i) == invitation[i].status # "revoked"

(* An iteration of the loop. *)
Accept(s, i) ==
    LET g == invitation[i].grant
    IN  /\ session[s].account
        /\ i \in session[s].cursor
        /\ \A t \in Sessions \ {s} : i \notin session[t].expired \cup session[t].accepted
        /\ MayAccept(i)
        /\ ~ AlreadyIn(g) => MayJoin(g)
        /\ Goes(s, [session[s] EXCEPT
               !.cursor = @ \ {i},
               !.accepted = @ \cup {i},
               !.joined = IF AlreadyIn(g) \/ \E j \in @ : invitation[j].grant = g
                          THEN @ ELSE @ \cup {i}])

(* A constraint or an index refuses an iteration, and aborts the sign-in.  *)
Refused(s) ==
    /\ session[s].account
    /\ \E i \in session[s].cursor :
          \/ ~ MayAccept(i)
          \/ ~ AlreadyIn(invitation[i].grant) /\ ~ MayJoin(invitation[i].grant)
    /\ Goes(s, Idle)

(* Two sign-ins wait for each other: one for the account, the other for a  *)
(* row that the first has marked.  PostgreSQL aborts one of them.          *)
Deadlocked(s, t) ==
    /\ session[s].cursor # {} /\ ~ session[s].account
    /\ session[t].account /\ session[t].cursor \cap session[s].expired # {}

BreakDeadlock(s) ==
    /\ \E t \in Sessions : Deadlocked(s, t) \/ Deadlocked(t, s)
    /\ Goes(s, Idle)

CommitRedeem(s) ==
    LET x == session[s]
        Joining(g) == {i \in x.joined : invitation[i].grant = g}
    IN  /\ x.step = "redeeming"
        /\ x.cursor = {}
        /\ invitation' = [i \in Invitations |->
               IF i \in x.accepted THEN [invitation[i] EXCEPT !.status = "accepted"]
               ELSE IF i \in x.expired THEN [invitation[i] EXCEPT !.status = "expired"]
               ELSE invitation[i]]
        /\ membership' = [g \in Grants |->
               IF Joining(g) = {} THEN membership[g]
               ELSE Append(membership[g],
                           [status |-> "active", by |-> CHOOSE i \in Joining(g) : TRUE])]
        /\ session' = [session EXCEPT ![s] = Idle]
        /\ UNCHANGED losses

(* The connection is lost. *)
Lose(s) ==
    /\ session[s] # Idle
    /\ losses < MaxLosses
    /\ losses' = losses + 1
    /\ session' = [session EXCEPT ![s] = Idle]
    /\ UNCHANGED <<invitation, membership>>

RedeemStep(s) ==
    \/ BeginRedeem(s)
    \/ TakeAccount(s)
    \/ \E i \in Invitations : Accept(s, i)
    \/ Refused(s)
    \/ CommitRedeem(s)

Next ==
    \/ \E g \in Grants : Invite(g) \/ GrantMembership(g)
    \/ \E g \in Grants : \E n \in Active(g) : RevokeMembership(g, n)
    \/ \E i \in Invitations : Lapse(i) \/ RevokeInvitation(i)
    \/ \E s \in Sessions : RedeemStep(s) \/ BreakDeadlock(s) \/ Lose(s)

Spec == Init /\ [][Next]_vars

(* The person keeps signing in, PostgreSQL gives a lock to who has waited  *)
(* for it, so that a sign-in that can go on again and again does (SF), and *)
(* it detects deadlocks.                                                   *)
FairSpec ==
    /\ Spec
    /\ \A s \in Sessions : SF_vars(RedeemStep(s))
    /\ WF_vars(\E s \in Sessions : BreakDeadlock(s))
-----------------------------------------------------------------------------
(* What was revoked stays revoked, invitations and memberships alike,      *)
(* although a sign-in had read the invitation before (0014).  Its          *)
(* acceptance undoes the whole sign-in instead, so that every membership   *)
(* by invitation is by one that stands as accepted.                        *)
RevocationsStand ==
    [][/\ \A i \in Invitations :
             invitation[i].status = "revoked" => invitation'[i] = invitation[i]
       /\ \A g \in Grants : \A n \in DOMAIN membership[g] :
             membership[g][n].status = "revoked" => membership'[g][n] = membership[g][n]
       /\ \A g \in Grants : \A n \in DOMAIN membership'[g] :
             LET i == membership'[g][n].by
             IN  i # None => invitation'[i].status = "accepted" /\ invitation'[i].grant = g]_vars

(* An invitation does not stay pending for who keeps signing in, whether   *)
(* they already have the grant, another tab redeems it too or they wait    *)
(* for each other.                                                         *)
InvitationsResolve ==
    \A i \in Invitations : invitation[i].status = "pending" ~> invitation[i].status # "pending"

(* A promise that is not kept: redeeming is idempotent (auth.ts: "Es       *)
(* idempotente"), so that an invitation gives one membership.  A sign-in   *)
(* that read it before another tab accepted it gives a second one, if the  *)
(* first has been revoked meanwhile.                                       *)
OneMembershipPerInvitation ==
    \A g \in Grants : \A m, n \in DOMAIN membership[g] :
        m # n /\ membership[g][m].by # None => membership[g][m].by # membership[g][n].by
==============================================================================
