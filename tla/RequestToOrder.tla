--------------------------- MODULE RequestToOrder ----------------------------
(***************************************************************************)
(* From a service request to a committed order: requests, versioned quotes *)
(* and their approval, the credit of one customer with one legal entity,   *)
(* and the commitment.  These commands lock the row they act upon until    *)
(* they commit; what they read besides it, the accepted quote and the      *)
(* credit profile, may change before they do.  So createQuote,             *)
(* acceptServiceRequest and commitTransportOrder are split where they      *)
(* read, and the commands that only touch their own row are one step.      *)
(***************************************************************************)
EXTENDS Integers, Sequences, FiniteSets

CONSTANTS
    Requests,
    Actors,
    Sessions,
    VersionsOf,      \* [Requests -> Nat]: a bound on the versions quoted for each
    Prices,          \* a price: [revenue, margin], the margin as percentage
    MarginPolicies,  \* policies MIN_MARGIN: [threshold_pct, requires_maker_checker]
    Limits,          \* credit limits that are set
    CreditPolicy,    \* [default_limit, block_on_hold, include_uninvoiced_committed]
    Waivable,        \* requests that may have an exception to CREDIT
    None

RequestState ==
    {"draft", "submitted", "needs_information", "accepted", "converted", "cancelled"}

Profile == [limit : Nat, committed : Nat, hold : BOOLEAN]

ASSUME RequestAssumption ==
    /\ None \notin Requests \cup Actors
    /\ None \notin RequestState
    /\ None \notin Profile
    /\ VersionsOf \in [Requests -> Nat]
    /\ Prices \subseteq [revenue : Nat, margin : Int]
    /\ MarginPolicies \subseteq [threshold_pct : Int, requires_maker_checker : BOOLEAN]
    /\ Limits \subseteq Nat
    /\ CreditPolicy \in [default_limit : Nat, block_on_hold : BOOLEAN,
                         include_uninvoiced_committed : BOOLEAN]
    /\ Waivable \subseteq Requests

VARIABLES
    request,       \* status of each request, None before it is created
    complete,      \* requests without gaps
    frozen,        \* requests whose time zones were frozen and completed_at set
    quotes,        \* the versions quoted for each request
    marginPolicy,  \* the policy MIN_MARGIN in force
    profile,       \* the credit profile, None until there is one
    orders,        \* committed orders, by folio
    session        \* the transactions under way

requestVars == <<request, complete, frozen>>
vars == <<requestVars, quotes, marginPolicy, profile, orders, session>>

QuoteState == {"draft", "costed", "pending_approval", "changes_requested",
               "approved", "sent", "accepted", "rejected"}

(* The exception to the margin policy a version may need. *)
NoException == [status |-> "none", requestedBy |-> None, decidedBy |-> None]

Exception == [status : {"none", "pending", "approved"},
              requestedBy : Actors \cup {None}, decidedBy : Actors \cup {None}]

(* price is None until the version is costed. *)
Quote == [status : QuoteState, price : Prices \cup {None}, exception : Exception]

Draft == [status |-> "draft", price |-> None, exception |-> NoException]

Order == [request : Requests, version : Nat \ {0}, revenue : Nat]

(* version and revenue are those of the quote that the transaction has read. *)
Idle == [command |-> "none", on |-> None, version |-> 0, revenue |-> 0, cleared |-> FALSE]

Decision == {"AcceptServiceRequest", "CommitTransportOrder"}

Session ==
    {Idle} \cup
    [command : Decision \cup {"CreateQuote"}, on : Requests, version : Nat \ {0},
     revenue : Nat, cleared : BOOLEAN]

TypeOK ==
    /\ request \in [Requests -> RequestState \cup {None}]
    /\ complete \subseteq Requests
    /\ frozen \subseteq Requests
    /\ quotes \in [Requests -> Seq(Quote)]
    /\ marginPolicy \in MarginPolicies
    /\ profile \in Profile \cup {None}
    /\ orders \in Seq(Order)
    /\ session \in [Sessions -> Session]

Init ==
    /\ request = [r \in Requests |-> None]
    /\ complete = {}
    /\ frozen = {}
    /\ quotes = [r \in Requests |-> <<>>]
    /\ marginPolicy \in MarginPolicies
    /\ profile = None
    /\ orders = <<>>
    /\ session = [s \in Sessions |-> Idle]

------------------------------------------------------------------------------
(* Service requests. *)

(* A mistake in the next definition: the row is not selected for update. *)
LockedNever(r) == FALSE

(* Another transaction holds the row of request r. *)
Locked(r) == \E s \in Sessions : session[s].on = r /\ session[s].command \in Decision

CreateServiceRequest(r, full) ==
    /\ request[r] = None
    /\ request' = [request EXCEPT ![r] = "draft"]
    /\ complete' = IF full THEN complete \cup {r} ELSE complete
    /\ UNCHANGED <<frozen, quotes, marginPolicy, profile, orders, session>>

(* A patch adds what was missing, or leaves a field blank. *)
UpdateServiceRequest(r, full) ==
    /\ request[r] \in {"draft", "needs_information"}
    /\ ~Locked(r)
    /\ complete' = IF full THEN complete \cup {r} ELSE complete \ {r}
    /\ UNCHANGED <<request, frozen, quotes, marginPolicy, profile, orders, session>>

(* Submitted, and in the same transaction returned if something is missing. *)
SubmitServiceRequest(r) ==
    /\ request[r] = "draft"
    /\ ~Locked(r)
    /\ \/ /\ r \in complete
          /\ request' = [request EXCEPT ![r] = "submitted"]
          /\ frozen' = frozen \cup {r}
       \/ /\ r \notin complete
          /\ request' = [request EXCEPT ![r] = "needs_information"]
          /\ UNCHANGED frozen
    /\ UNCHANGED <<complete, quotes, marginPolicy, profile, orders, session>>

RequestServiceInformation(r) ==
    /\ request[r] = "submitted"
    /\ ~Locked(r)
    /\ request' = [request EXCEPT ![r] = "needs_information"]
    /\ UNCHANGED <<complete, frozen, quotes, marginPolicy, profile, orders, session>>

CancelServiceRequest(r) ==
    /\ request[r] \in {"submitted", "accepted"}
    /\ ~Locked(r)
    /\ request' = [request EXCEPT ![r] = "cancelled"]
    /\ UNCHANGED <<complete, frozen, quotes, marginPolicy, profile, orders, session>>

------------------------------------------------------------------------------
(* Quotes. *)

(* coalesce(max(version), 0) + 1; versions are never deleted. *)
NextVersion(r) == Len(quotes[r]) + 1

(* createQuote reads the request without locking it, and the next version. *)
ReadQuotable(s, r) ==
    /\ session[s] = Idle
    /\ request[r] \notin {None, "cancelled", "converted"}
    /\ NextVersion(r) <= VersionsOf[r]
    /\ session' = [session EXCEPT ![s] =
                      [command |-> "CreateQuote", on |-> r, version |-> NextVersion(r),
                       revenue |-> 0, cleared |-> FALSE]]
    /\ UNCHANGED <<requestVars, quotes, marginPolicy, profile, orders>>

(***************************************************************************)
(* The insertion: quote_request_version_key rejects a version that exists, *)
(* and the foreign key waits for a transaction that has locked the request. *)
(***************************************************************************)
CreateQuote(s) ==
    LET r == session[s].on
    IN  /\ session[s].command = "CreateQuote"
        /\ ~Locked(r)
        /\ session[s].version > Len(quotes[r])
        /\ quotes' = [quotes EXCEPT ![r] = Append(@, Draft)]
        /\ session' = [session EXCEPT ![s] = Idle]
        /\ UNCHANGED <<requestVars, marginPolicy, profile, orders>>

HasStatus(r, v, status) == v \in DOMAIN quotes[r] /\ quotes[r][v].status = status

SetQuote(r, v, quote) ==
    /\ quotes' = [quotes EXCEPT ![r][v] = quote]
    /\ UNCHANGED <<requestVars, marginPolicy, profile, orders, session>>

CostQuote(r, v, price) ==
    /\ HasStatus(r, v, "draft")
    /\ SetQuote(r, v, [quotes[r][v] EXCEPT !.status = "costed", !.price = price])

(* evaluateStoredMargin under the policy in force now, not that of the costing. *)
Compliant(quote) == quote.price.margin >= marginPolicy.threshold_pct

(* Below the margin, an exception is requested along with the approval. *)
RequestQuoteApproval(r, v, actor) ==
    /\ HasStatus(r, v, "costed")
    /\ SetQuote(r, v,
          [quotes[r][v] EXCEPT
              !.status = "pending_approval",
              !.exception = IF Compliant(quotes[r][v]) THEN @
                            ELSE [status |-> "pending", requestedBy |-> actor,
                                  decidedBy |-> None]])

(* A mistake in the next definition: whoever asks may decide. *)
MayDecideAlone(exception, actor) == exception.status = "pending"

(* decideException: once, and under maker-checker by someone else. *)
MayDecide(exception, actor) ==
    /\ exception.status = "pending"
    /\ marginPolicy.requires_maker_checker => actor # exception.requestedBy

(***************************************************************************)
(* approveQuote: compliant, or with the pending exception granted in the   *)
(* same act.  An exception is granted nowhere else, so that an active one  *)
(* belongs to a version that is approved already.                          *)
(***************************************************************************)
ApproveQuote(r, v, actor) ==
    LET quote == quotes[r][v]
    IN  /\ HasStatus(r, v, "costed") \/ HasStatus(r, v, "pending_approval")
        /\ \/ /\ Compliant(quote)
              /\ SetQuote(r, v, [quote EXCEPT !.status = "approved"])
           \/ /\ ~Compliant(quote)
              /\ MayDecide(quote.exception, actor)
              /\ SetQuote(r, v, [quote EXCEPT !.status = "approved",
                                              !.exception.status = "approved",
                                              !.exception.decidedBy = actor])

RejectQuoteApproval(r, v) ==
    /\ HasStatus(r, v, "pending_approval")
    /\ SetQuote(r, v, [quotes[r][v] EXCEPT !.status = "changes_requested"])

SendQuote(r, v) ==
    /\ HasStatus(r, v, "approved")
    /\ SetQuote(r, v, [quotes[r][v] EXCEPT !.status = "sent"])

RecordQuoteAcceptance(r, v) ==
    /\ HasStatus(r, v, "sent")
    /\ SetQuote(r, v, [quotes[r][v] EXCEPT !.status = "accepted"])

RecordQuoteRejection(r, v) ==
    /\ HasStatus(r, v, "sent")
    /\ SetQuote(r, v, [quotes[r][v] EXCEPT !.status = "rejected"])

------------------------------------------------------------------------------
(* Credit and policies. *)

(* An upsert that leaves what is committed alone. *)
SetCreditLimit(limit) ==
    /\ profile' = IF profile = None THEN [limit |-> limit, committed |-> 0, hold |-> FALSE]
                                    ELSE [profile EXCEPT !.limit = limit]
    /\ UNCHANGED <<requestVars, quotes, marginPolicy, orders, session>>

SetCreditHold(hold) ==
    /\ profile # None
    /\ profile' = [profile EXCEPT !.hold = hold]
    /\ UNCHANGED <<requestVars, quotes, marginPolicy, orders, session>>

(* What assessCredit assumes where there is no profile. *)
ProfileInForce ==
    IF profile # None THEN profile
    ELSE [limit |-> CreditPolicy.default_limit, committed |-> 0, hold |-> FALSE]

Exposure ==
    IF CreditPolicy.include_uninvoiced_committed THEN ProfileInForce.committed ELSE 0

(* evaluateCredit. *)
CreditApproved(amount) ==
    /\ amount <= ProfileInForce.limit - Exposure
    /\ ~(CreditPolicy.block_on_hold /\ ProfileInForce.hold)

PublishMarginPolicy(policy) ==
    /\ marginPolicy' = policy
    /\ UNCHANGED <<requestVars, quotes, profile, orders, session>>

------------------------------------------------------------------------------
(* Acceptance and commitment. *)

(* A mistake in the next definition: a quote the customer has only received. *)
AcceptedVersionsOrSent(r) ==
    {v \in DOMAIN quotes[r] : quotes[r][v].status \in {"sent", "accepted"}}

AcceptedVersions(r) == {v \in DOMAIN quotes[r] : quotes[r][v].status = "accepted"}

(* A mistake in the next definition: an order without an accepted request. *)
AdmitsSubmitted(command, r) ==
    /\ request[r] \in {"submitted", "needs_information", "accepted"}
    /\ r \in complete

(* A request that the decision may be taken upon. *)
Admits(command, r) ==
    \/ /\ command = "AcceptServiceRequest"
       /\ request[r] \in {"submitted", "needs_information"}
       /\ r \in complete
    \/ /\ command = "CommitTransportOrder"
       /\ request[r] = "accepted"

(* The request is locked, and its last accepted version read. *)
ReadAcceptedQuote(s, command, r) ==
    /\ session[s] = Idle
    /\ ~Locked(r)
    /\ Admits(command, r)
    /\ \E v \in AcceptedVersions(r) :
          /\ \A w \in AcceptedVersions(r) : w <= v
          /\ session' = [session EXCEPT ![s] =
                [command |-> command, on |-> r, version |-> v,
                 revenue |-> quotes[r][v].price.revenue, cleared |-> FALSE]]
    /\ UNCHANGED <<requestVars, quotes, marginPolicy, profile, orders>>

(***************************************************************************)
(* assessCredit, which locks nothing.  No command requests an exception to *)
(* CREDIT: the rows that others insert, and which lapse by themselves,     *)
(* cover a request of Waivable at some moments and not at others.          *)
(***************************************************************************)
AssessCredit(s) ==
    /\ session[s].command \in Decision
    /\ ~session[s].cleared
    /\ CreditApproved(session[s].revenue) \/ session[s].on \in Waivable
    /\ session' = [session EXCEPT ![s].cleared = TRUE]
    /\ UNCHANGED <<requestVars, quotes, marginPolicy, profile, orders>>

AcceptServiceRequest(s) ==
    /\ session[s].command = "AcceptServiceRequest"
    /\ session[s].cleared
    /\ request' = [request EXCEPT ![session[s].on] = "accepted"]
    /\ session' = [session EXCEPT ![s] = Idle]
    /\ UNCHANGED <<complete, frozen, quotes, marginPolicy, profile, orders>>

(* A mistake in the next definition: a profile that the commitment creates starts at zero. *)
AddCommittedExposureToExisting(amount) ==
    profile' = IF profile = None THEN [limit |-> 0, committed |-> 0, hold |-> FALSE]
               ELSE [profile EXCEPT !.committed = @ + amount]

(* Added in place; a customer without profile gets one, whose limit is zero. *)
AddCommittedExposure(amount) ==
    profile' = IF profile = None THEN [limit |-> 0, committed |-> amount, hold |-> FALSE]
               ELSE [profile EXCEPT !.committed = @ + amount]

(* The order with the next folio, the exposure and the conversion, together. *)
CommitTransportOrder(s) ==
    LET r == session[s].on
    IN  /\ session[s].command = "CommitTransportOrder"
        /\ session[s].cleared
        /\ orders' = Append(orders, [request |-> r, version |-> session[s].version,
                                     revenue |-> session[s].revenue])
        /\ AddCommittedExposure(session[s].revenue)
        /\ request' = [request EXCEPT ![r] = "converted"]
        /\ session' = [session EXCEPT ![s] = Idle]
        /\ UNCHANGED <<complete, frozen, quotes, marginPolicy>>

(* A rejection, a constraint or a lost connection: rollback. *)
Abort(s) ==
    /\ session[s] # Idle
    /\ session' = [session EXCEPT ![s] = Idle]
    /\ UNCHANGED <<requestVars, quotes, marginPolicy, profile, orders>>

------------------------------------------------------------------------------
RequestCommand(r) ==
    \/ \E full \in BOOLEAN : CreateServiceRequest(r, full) \/ UpdateServiceRequest(r, full)
    \/ SubmitServiceRequest(r)
    \/ RequestServiceInformation(r)
    \/ CancelServiceRequest(r)

QuoteCommand(r, v) ==
    \/ \E price \in Prices : CostQuote(r, v, price)
    \/ \E actor \in Actors : RequestQuoteApproval(r, v, actor) \/ ApproveQuote(r, v, actor)
    \/ RejectQuoteApproval(r, v)
    \/ SendQuote(r, v)
    \/ RecordQuoteAcceptance(r, v)
    \/ RecordQuoteRejection(r, v)

CreditCommand ==
    \/ \E limit \in Limits : SetCreditLimit(limit)
    \/ \E hold \in BOOLEAN : SetCreditHold(hold)

Transaction(s) ==
    \/ \E r \in Requests : ReadQuotable(s, r)
    \/ CreateQuote(s)
    \/ \E command \in Decision, r \in Requests : ReadAcceptedQuote(s, command, r)
    \/ AssessCredit(s)
    \/ AcceptServiceRequest(s)
    \/ CommitTransportOrder(s)
    \/ Abort(s)

Next ==
    \/ \E r \in Requests : RequestCommand(r)
    \/ \E r \in Requests : \E v \in DOMAIN quotes[r] : QuoteCommand(r, v)
    \/ CreditCommand
    \/ \E policy \in MarginPolicies : PublishMarginPolicy(policy)
    \/ \E s \in Sessions : Transaction(s)

Spec == Init /\ [][Next]_vars

------------------------------------------------------------------------------
(* Properties. *)

FoliosOf(r) == {n \in DOMAIN orders : orders[n].request = r}

(***************************************************************************)
(* A converted request has exactly one order and no other has any, however *)
(* many transactions try to commit it (docs/12 section 5, Accepted ->      *)
(* Converted; no constraint of the database says so).                      *)
(***************************************************************************)
OneOrderPerRequest ==
    \A r \in Requests :
        Cardinality(FoliosOf(r)) = IF request[r] = "converted" THEN 1 ELSE 0

(***************************************************************************)
(* An order keeps the version it came from: one that the customer accepted *)
(* and whose price is the revenue of the order (docs/12 section 4),        *)
(* whatever was quoted for the request before and after.                   *)
(***************************************************************************)
OrdersKeepTheirVersion ==
    \A n \in DOMAIN orders :
        LET order == orders[n]
        IN  /\ HasStatus(order.request, order.version, "accepted")
            /\ order.revenue = quotes[order.request][order.version].price.revenue

(* What these orders add up to. *)
Revenue(these) ==
    LET first[n \in 0 .. Len(these)] ==
            IF n = 0 THEN 0 ELSE first[n - 1] + these[n].revenue
    IN  first[Len(these)]

(***************************************************************************)
(* The exposure of the customer is the sum of his orders: neither two      *)
(* commitments at once nor a change of the limit between the read and the  *)
(* update lose an amount (addCommittedExposure).                           *)
(***************************************************************************)
ExposureIsTheOrders == ProfileInForce.committed = Revenue(orders)

SignsLowMargin ==
    \A r \in Requests : \A v \in DOMAIN quotes[r] :
        LET quote == quotes'[r][v]
        IN  /\ quotes[r][v].status # "approved" /\ quote.status = "approved"
            /\ quote.price.margin < marginPolicy.threshold_pct
            => /\ quote.exception.status = "approved"
               /\ marginPolicy.requires_maker_checker
                     => quote.exception.decidedBy # quote.exception.requestedBy

(***************************************************************************)
(* A version that is below the margin in force when it is approved has an  *)
(* exception, asked for and granted by two people if the policy wants it,  *)
(* although the policy may have changed since the version was costed and   *)
(* the approval requested (docs/12, criterion 9.4).                        *)
(***************************************************************************)
LowMarginIsSigned == [][SignsLowMargin]_vars

Stage(status) ==
    CASE status = "accepted"  -> "agreed"
      [] status = "converted" -> "committed"
      [] status = "cancelled" -> "withdrawn"
      [] OTHER                -> "open"

Commitment == INSTANCE OneCommitment WITH
    stage    <- [r \in Requests |-> Stage(request[r])],
    accepted <- [r \in Requests |-> {v \in DOMAIN quotes[r] : HasStatus(r, v, "accepted")}],
    contract <- [r \in Requests |->
                    IF FoliosOf(r) = {} THEN 0
                    ELSE orders[CHOOSE n \in FoliosOf(r) : TRUE].version]

(* The commands implement the promise of the sale. *)
CommitsOnce == Commitment!Spec

------------------------------------------------------------------------------
(* What the repository says and these commands do not keep.                 *)

(***************************************************************************)
(* Two orders in a row do not both fit in a limit that was enough for one  *)
(* (addCommittedExposure): without an exception, an order leaves the       *)
(* exposure within the limit.                                              *)
(***************************************************************************)
LimitIsRespected ==
    [][ Len(orders) < Len(orders') /\ orders'[Len(orders')].request \notin Waivable =>
          profile'.committed <= ProfileInForce.limit ]_vars

(***************************************************************************)
(* "Zona horaria congelada al enviar" (submitServiceRequest): what was     *)
(* agreed is read with the time zones of its submission.                   *)
(***************************************************************************)
AcceptedIsFrozen ==
    \A r \in Requests : request[r] \in {"accepted", "converted"} => r \in frozen
==============================================================================
