------------------------ MODULE RequestToOrder_proofs -------------------------
(***************************************************************************)
(* What the commands of the sale keep for any number of requests, versions, *)
(* prices, policies and transactions.  The argument is that what a decision *)
(* has read stays true until it commits: its request because it is locked, *)
(* its version because the acceptance of a customer is the end of a life   *)
(* cycle, so that no lock is needed for it.                                *)
(***************************************************************************)
EXTENDS RequestToOrder, FiniteSetTheorems, TLAPS

(* What transaction x, which is deciding upon a request, has read. *)
ReadIsTrue(x) ==
    /\ Admits(x.command, x.on)
    /\ HasStatus(x.on, x.version, "accepted")
    /\ x.revenue = quotes[x.on][x.version].price.revenue

ReadsStand == \A s \in Sessions : session[s].command \in Decision => ReadIsTrue(session[s])

OneHolder ==
    \A s, u \in Sessions :
        /\ session[s].command \in Decision
        /\ session[u].command \in Decision
        /\ session[s].on = session[u].on
        => s = u

PricedOnceCosted ==
    \A r \in Requests : \A v \in DOMAIN quotes[r] :
        quotes[r][v].status # "draft" => quotes[r][v].price \in Prices

OrdersAreConversions ==
    /\ \A n \in DOMAIN orders : request[orders[n].request] = "converted"
    /\ \A r \in Requests :
          request[r] = "converted" => \E n \in DOMAIN orders : orders[n].request = r
    /\ \A n, k \in DOMAIN orders : orders[n].request = orders[k].request => n = k

IInv ==
    /\ TypeOK
    /\ PricedOnceCosted
    /\ ReadsStand
    /\ OneHolder
    /\ OrdersAreConversions
    /\ OrdersKeepTheirVersion

------------------------------------------------------------------------------
LEMMA InitInvariant == Init => IInv
<1> SUFFICES ASSUME Init PROVE IInv
  OBVIOUS
<1>1. TypeOK
  BY DEF Init, TypeOK, Session
<1>2. PricedOnceCosted
  BY DEF Init, PricedOnceCosted
<1>3. ReadsStand /\ OneHolder
  BY DEF Init, Idle, Decision, ReadsStand, OneHolder
<1>4. OrdersAreConversions
  BY RequestAssumption DEF Init, RequestState, OrdersAreConversions
<1>5. OrdersKeepTheirVersion
  BY DEF Init, OrdersKeepTheirVersion
<1>6. QED
  BY <1>1, <1>2, <1>3, <1>4, <1>5 DEF IInv

(* A transaction that is deciding is a record that names a request. *)
LEMMA DecisionsAreTyped ==
    ASSUME TypeOK, NEW s \in Sessions, session[s] # Idle
    PROVE  /\ session[s].command \in Decision \cup {"CreateQuote"}
           /\ session[s].on \in Requests
           /\ session[s].version \in Nat \ {0}
           /\ session[s].revenue \in Nat
           /\ session[s].cleared \in BOOLEAN
BY DEF TypeOK, Session

LEMMA OrdersAreTyped ==
    ASSUME TypeOK, NEW n \in DOMAIN orders
    PROVE  /\ n \in 1 .. Len(orders)
           /\ orders[n].request \in Requests
           /\ orders[n].version \in Nat \ {0}
           /\ orders[n].revenue \in Nat
<1>1. orders \in Seq(Order)
  BY DEF TypeOK
<1>2. n \in 1 .. Len(orders) /\ orders[n] \in Order
  BY <1>1
<1>3. QED
  BY <1>2 DEF Order

(* A command on a request that no decision holds and that has no order. *)
LEMMA RequestStep ==
    ASSUME IInv, NEW r \in Requests, NEW status \in RequestState \ {"converted"},
           request[r] # "converted",
           \A s \in Sessions : session[s].command \in Decision => session[s].on # r,
           request' = [request EXCEPT ![r] = status],
           complete' \subseteq Requests, complete' \ {r} = complete \ {r},
           frozen' \subseteq Requests,
           UNCHANGED <<quotes, marginPolicy, profile, orders, session>>
    PROVE  IInv'
<1>1. TypeOK'
  BY DEF IInv, TypeOK
<1>2. PricedOnceCosted' /\ OneHolder' /\ OrdersKeepTheirVersion'
  BY DEF IInv, PricedOnceCosted, OneHolder, OrdersKeepTheirVersion, HasStatus
<1>3. ReadsStand'
  BY DEF IInv, TypeOK, ReadsStand, ReadIsTrue, Admits, HasStatus
<1>4. OrdersAreConversions'
  BY DEF IInv, TypeOK, Order, OrdersAreConversions
<1>5. QED
  BY <1>1, <1>2, <1>3, <1>4 DEF IInv

(* A command on a version that the customer has not accepted. *)
LEMMA QuoteStep ==
    ASSUME IInv, NEW r \in Requests, NEW v \in DOMAIN quotes[r], NEW quote \in Quote,
           quotes[r][v].status # "accepted",
           quote.status # "draft" => quote.price \in Prices,
           SetQuote(r, v, quote)
    PROVE  IInv'
<1>1. /\ quotes' = [quotes EXCEPT ![r] = [quotes[r] EXCEPT ![v] = quote]]
      /\ UNCHANGED <<request, complete, frozen, marginPolicy, profile, orders, session>>
      /\ quotes[r] \in Seq(Quote)
  BY DEF SetQuote, requestVars, IInv, TypeOK
<1>2. [quotes[r] EXCEPT ![v] = quote] \in Seq(Quote)
  BY <1>1
<1>3. \A p \in Requests :
        /\ DOMAIN quotes'[p] = DOMAIN quotes[p]
        /\ \A w \in DOMAIN quotes[p] :
              quotes'[p][w] = IF p = r /\ w = v THEN quote ELSE quotes[p][w]
  BY <1>1 DEF IInv, TypeOK
<1>4. TypeOK'
  BY <1>1, <1>2 DEF IInv, TypeOK
<1>5. PricedOnceCosted'
  BY <1>3 DEF IInv, PricedOnceCosted
<1>6. OneHolder' /\ OrdersAreConversions'
  BY <1>1 DEF IInv, OneHolder, OrdersAreConversions
<1>7. ReadsStand'
  <2> SUFFICES ASSUME NEW s \in Sessions, session[s].command \in Decision
               PROVE  ReadIsTrue(session[s])'
    BY <1>1 DEF ReadsStand
  <2>1. session[s].on \in Requests /\ ReadIsTrue(session[s])
    BY DecisionsAreTyped DEF IInv, Idle, Decision, ReadsStand
  <2>2. QED
    BY <1>1, <1>3, <2>1 DEF ReadIsTrue, Admits, HasStatus
<1>8. OrdersKeepTheirVersion'
  <2> SUFFICES ASSUME NEW n \in DOMAIN orders
               PROVE  /\ HasStatus(orders[n].request, orders[n].version, "accepted")'
                      /\ orders[n].revenue
                            = quotes'[orders[n].request][orders[n].version].price.revenue
    BY <1>1 DEF OrdersKeepTheirVersion
  <2>1. orders[n].request \in Requests
    BY OrdersAreTyped DEF IInv
  <2>2. QED
    BY <1>1, <1>3, <2>1 DEF IInv, OrdersKeepTheirVersion, HasStatus
<1>9. QED
  BY <1>4, <1>5, <1>6, <1>7, <1>8 DEF IInv

(* A step that only changes a transaction, into one whose reads are true. *)
LEMMA SessionStep ==
    ASSUME IInv, NEW s \in Sessions, NEW x \in Session,
           x.command \in Decision =>
              /\ ReadIsTrue(x)
              /\ \A u \in Sessions \ {s} : session[u].command \in Decision => session[u].on # x.on,
           session' = [session EXCEPT ![s] = x],
           UNCHANGED <<requestVars, quotes, marginPolicy, profile, orders>>
    PROVE  IInv'
<1>1. TypeOK'
  BY DEF IInv, TypeOK, requestVars
<1>2. ReadsStand'
  BY DEF IInv, TypeOK, ReadsStand, ReadIsTrue, Admits, HasStatus, requestVars
<1>3. OneHolder'
  BY DEF IInv, TypeOK, OneHolder
<1>4. QED
  BY <1>1, <1>2, <1>3 DEF IInv, PricedOnceCosted, OrdersAreConversions,
                          OrdersKeepTheirVersion, HasStatus, requestVars

(* The commitment: the only step that adds an order. *)
LEMMA CommitStep ==
    ASSUME IInv, NEW s \in Sessions, CommitTransportOrder(s)
    PROVE  IInv'
<1> DEFINE r == session[s].on
           new == [request |-> r, version |-> session[s].version,
                   revenue |-> session[s].revenue]
<1>1. /\ session[s].command = "CommitTransportOrder"
      /\ session[s].command \in Decision /\ session[s] # Idle
      /\ r \in Requests
      /\ ReadIsTrue(session[s])
      /\ request[r] = "accepted"
      /\ new \in Order
  BY DecisionsAreTyped DEF CommitTransportOrder, Idle, Decision, IInv, ReadsStand, ReadIsTrue,
                           Admits, Order
<1>2. \A u \in Sessions \ {s} : session[u].command \in Decision => session[u].on # r
  BY <1>1 DEF IInv, OneHolder
<1>3. /\ orders' = Append(orders, new)
      /\ request' = [request EXCEPT ![r] = "converted"]
      /\ session' = [session EXCEPT ![s] = Idle]
      /\ UNCHANGED <<complete, frozen, quotes, marginPolicy>>
  BY DEF CommitTransportOrder
<1>4. Idle \in Session /\ Idle.command \notin Decision
  BY DEF Idle, Session, Decision
<1>5. /\ orders' \in Seq(Order)
      /\ DOMAIN orders = 1 .. Len(orders) /\ Len(orders) \in Nat
      /\ DOMAIN orders' = 1 .. Len(orders) + 1
      /\ orders'[Len(orders) + 1] = new
      /\ \A n \in DOMAIN orders : orders'[n] = orders[n]
  BY <1>1, <1>3 DEF IInv, TypeOK
<1>6. TypeOK'
  <2>1. profile' \in Profile \cup {None}
    <3>1. profile \in Profile \cup {None} /\ session[s].revenue \in Nat
      BY <1>1, DecisionsAreTyped DEF IInv, TypeOK
    <3>2. CASE profile = None
      BY <3>1, <3>2 DEF CommitTransportOrder, AddCommittedExposure, Profile
    <3>3. CASE profile # None
      <4>1. profile \in Profile /\ profile.committed + session[s].revenue \in Nat
        BY <3>1, <3>3 DEF Profile
      <4>2. profile' = [profile EXCEPT !.committed = profile.committed + session[s].revenue]
        BY <3>3 DEF CommitTransportOrder, AddCommittedExposure
      <4>3. QED
        BY <4>1, <4>2 DEF Profile
    <3>4. QED
      BY <3>2, <3>3
  <2>2. QED
    BY <1>1, <1>3, <1>4, <1>5, <2>1 DEF IInv, TypeOK, RequestState
<1>7. PricedOnceCosted'
  BY <1>3 DEF IInv, PricedOnceCosted
<1>8. OneHolder'
  BY <1>3, <1>4 DEF IInv, TypeOK, OneHolder
<1>9. ReadsStand'
  BY <1>2, <1>3, <1>4 DEF IInv, TypeOK, ReadsStand, ReadIsTrue, Admits, HasStatus
<1>10. OrdersAreConversions'
  <2>1. \A n \in DOMAIN orders : orders[n].request \in Requests \ {r}
    BY <1>1, OrdersAreTyped DEF IInv, OrdersAreConversions
  <2>2. \A n \in DOMAIN orders' : request'[orders'[n].request] = "converted"
    BY <1>1, <1>3, <1>5, <2>1 DEF IInv, TypeOK, OrdersAreConversions
  <2>3. \A p \in Requests :
          request'[p] = "converted" => \E n \in DOMAIN orders' : orders'[n].request = p
    <3> SUFFICES ASSUME NEW p \in Requests, request'[p] = "converted"
                 PROVE  \E n \in DOMAIN orders' : orders'[n].request = p
      OBVIOUS
    <3>1. CASE p = r
      <4>1. Len(orders) + 1 \in DOMAIN orders' /\ orders'[Len(orders) + 1].request = r
        BY <1>5
      <4>2. QED
        BY <3>1, <4>1
    <3>2. CASE p # r
      <4>1. PICK n \in DOMAIN orders : orders[n].request = p
        BY <1>3, <3>2 DEF IInv, TypeOK, OrdersAreConversions
      <4>2. n \in DOMAIN orders' /\ orders'[n].request = p
        BY <1>5, <4>1
      <4>3. QED
        BY <4>2
    <3>3. QED
      BY <3>1, <3>2
  <2>4. \A n, k \in DOMAIN orders' : orders'[n].request = orders'[k].request => n = k
    BY <1>1, <1>5, <2>1 DEF IInv, OrdersAreConversions
  <2>5. QED
    BY <2>2, <2>3, <2>4 DEF OrdersAreConversions
<1>11. OrdersKeepTheirVersion'
  <2> DEFINE Kept(order) == /\ HasStatus(order.request, order.version, "accepted")
                            /\ order.revenue = quotes[order.request][order.version].price.revenue
  <2>1. Kept(new)
    BY <1>1 DEF ReadIsTrue
  <2>2. \A n \in DOMAIN orders' : Kept(orders'[n])
    <3> HIDE DEF Kept
    <3>1. \A n \in DOMAIN orders : Kept(orders[n])
      BY DEF IInv, OrdersKeepTheirVersion, Kept
    <3>2. QED
      BY <1>5, <2>1, <3>1
  <2>3. QED
    BY <1>3, <2>2 DEF OrdersKeepTheirVersion, HasStatus
<1>12. QED
  BY <1>6, <1>7, <1>8, <1>9, <1>10, <1>11 DEF IInv

(* The invariant holds through every command and every step of a transaction. *)
LEMMA StepInvariant == IInv /\ [Next]_vars => IInv'
<1> SUFFICES ASSUME IInv, [Next]_vars PROVE IInv'
  OBVIOUS
<1>1. ASSUME NEW r \in Requests, RequestCommand(r) PROVE IInv'
  <2> USE <1>1
  <2> DEFINE Free == \A s \in Sessions : session[s].command \in Decision => session[s].on # r
  <2>1. ~Locked(r) => Free
    BY DEF Locked
  <2>2. request \in [Requests -> RequestState \cup {None}] /\ complete \subseteq Requests
                                                       /\ frozen \subseteq Requests
    BY DEF IInv, TypeOK
  <2>3. ASSUME NEW full \in BOOLEAN, CreateServiceRequest(r, full) PROVE IInv'
    <3>1. Free
      BY <2>3, RequestAssumption
         DEF CreateServiceRequest, IInv, ReadsStand, ReadIsTrue, Admits, RequestState
    <3>2. QED
      BY <2>2, <2>3, <3>1, RequestStep, RequestAssumption DEF CreateServiceRequest, RequestState
  <2>4. ASSUME NEW full \in BOOLEAN, UpdateServiceRequest(r, full) PROVE IInv'
    <3>1. request' = [request EXCEPT ![r] = request[r]]
      BY <2>2, <2>4 DEF UpdateServiceRequest
    <3>2. QED
      BY <2>1, <2>2, <2>4, <3>1, RequestStep DEF UpdateServiceRequest, RequestState
  <2>5. CASE SubmitServiceRequest(r)
    BY <2>1, <2>2, <2>5, RequestStep DEF SubmitServiceRequest, RequestState
  <2>6. CASE RequestServiceInformation(r)
    BY <2>1, <2>2, <2>6, RequestStep DEF RequestServiceInformation, RequestState
  <2>7. CASE CancelServiceRequest(r)
    BY <2>1, <2>2, <2>7, RequestStep DEF CancelServiceRequest, RequestState
  <2>8. QED
    BY <2>3, <2>4, <2>5, <2>6, <2>7 DEF RequestCommand
<1>2. ASSUME NEW r \in Requests, NEW v \in DOMAIN quotes[r], QuoteCommand(r, v) PROVE IInv'
  <2> DEFINE quote == quotes[r][v]
  <2>1. /\ quote \in Quote
        /\ quote.status # "draft" => quote.price \in Prices
    BY DEF IInv, TypeOK, PricedOnceCosted
  <2>2. ASSUME NEW price \in Prices, CostQuote(r, v, price) PROVE IInv'
    <3> DEFINE new == [quote EXCEPT !.status = "costed", !.price = price]
    <3>1. new \in Quote /\ new.price \in Prices
      BY <2>1 DEF Quote, QuoteState
    <3>2. QED
      BY <2>2, <3>1, QuoteStep DEF CostQuote, HasStatus
  <2>3. ASSUME NEW actor \in Actors, RequestQuoteApproval(r, v, actor) PROVE IInv'
    <3> DEFINE exception == IF Compliant(quote) THEN quote.exception
                            ELSE [status |-> "pending", requestedBy |-> actor, decidedBy |-> None]
               new == [quote EXCEPT !.status = "pending_approval", !.exception = exception]
    <3>1. exception \in Exception
      BY <2>1 DEF Quote, Exception
    <3>2. new \in Quote /\ new.price = quote.price
      BY <2>1, <3>1 DEF Quote, QuoteState
    <3>3. quote.status = "costed" /\ SetQuote(r, v, new)
      BY <2>3, <2>1 DEF RequestQuoteApproval, HasStatus, Quote
    <3>4. QED
      BY <2>1, <3>2, <3>3, QuoteStep
  <2>4. ASSUME NEW actor \in Actors, ApproveQuote(r, v, actor) PROVE IInv'
    <3> DEFINE granted == [quote EXCEPT !.status = "approved", !.exception.status = "approved",
                                        !.exception.decidedBy = actor]
               approved == [quote EXCEPT !.status = "approved"]
    <3>1. quote.status \in {"costed", "pending_approval"}
      BY <2>4 DEF ApproveQuote, HasStatus
    <3>2. granted \in Quote /\ approved \in Quote
      BY <2>1 DEF Quote, Exception, QuoteState
    <3>3. granted.price = quote.price /\ approved.price = quote.price
      BY <2>1 DEF Quote
    <3>4. SetQuote(r, v, granted) \/ SetQuote(r, v, approved)
      BY <2>4 DEF ApproveQuote
    <3>5. QED
      BY <2>1, <3>1, <3>2, <3>3, <3>4, QuoteStep
  <2>5. ASSUME NEW status \in QuoteState \ {"draft"},
               quote.status \notin {"draft", "accepted"},
               SetQuote(r, v, [quote EXCEPT !.status = status])
        PROVE  IInv'
    <3> DEFINE new == [quote EXCEPT !.status = status]
    <3>1. new \in Quote /\ new.price = quote.price
      BY <2>1 DEF Quote
    <3>2. QED
      BY <2>1, <2>5, <3>1, QuoteStep
  <2>6. QED
    BY <1>2, <2>2, <2>3, <2>4, <2>5
       DEF QuoteCommand, RejectQuoteApproval, SendQuote, RecordQuoteAcceptance,
           RecordQuoteRejection, HasStatus, QuoteState
<1>3. ASSUME CreditCommand \/ \E policy \in MarginPolicies : PublishMarginPolicy(policy)
      PROVE  IInv'
  <2>1. UNCHANGED <<requestVars, quotes, orders, session>>
    BY <1>3 DEF CreditCommand, SetCreditLimit, SetCreditHold, PublishMarginPolicy
  <2>2. marginPolicy' \in MarginPolicies
    BY <1>3
       DEF CreditCommand, SetCreditLimit, SetCreditHold, PublishMarginPolicy, IInv, TypeOK
  <2>3. profile' \in Profile \cup {None}
    <3>1. profile \in Profile \cup {None}
      BY DEF IInv, TypeOK
    <3>2. ASSUME NEW limit \in Limits, SetCreditLimit(limit) PROVE profile' \in Profile
      BY <3>1, <3>2, RequestAssumption DEF SetCreditLimit, Profile
    <3>3. ASSUME NEW hold \in BOOLEAN, SetCreditHold(hold) PROVE profile' \in Profile
      BY <3>1, <3>3 DEF SetCreditHold, Profile
    <3>4. QED
      BY <1>3, <3>1, <3>2, <3>3 DEF CreditCommand, PublishMarginPolicy
  <2>4. QED
    BY <2>1, <2>2, <2>3 DEF requestVars, IInv, TypeOK, PricedOnceCosted, ReadsStand, ReadIsTrue, Admits,
                      HasStatus, OneHolder, OrdersAreConversions, OrdersKeepTheirVersion
<1>4. ASSUME NEW s \in Sessions, Transaction(s) PROVE IInv'
  <2>1. ASSUME NEW r \in Requests, ReadQuotable(s, r) PROVE IInv'
    <3> DEFINE x == [command |-> "CreateQuote", on |-> r, version |-> NextVersion(r),
                     revenue |-> 0, cleared |-> FALSE]
    <3>1. x \in Session /\ x.command \notin Decision
      BY DEF Session, Decision, NextVersion, IInv, TypeOK
    <3>2. QED
      BY <2>1, <3>1, SessionStep DEF ReadQuotable
  <2>2. CASE CreateQuote(s)
    <3> DEFINE r == session[s].on
    <3>1. r \in Requests
      BY <2>2, DecisionsAreTyped DEF CreateQuote, IInv, Idle
    <3>2. /\ quotes' = [quotes EXCEPT ![r] = Append(quotes[r], Draft)]
          /\ session' = [session EXCEPT ![s] = Idle]
          /\ UNCHANGED <<request, complete, frozen, marginPolicy, profile, orders>>
      BY <2>2 DEF CreateQuote, requestVars
    <3>3. \A p \in Requests :
            /\ DOMAIN quotes[p] \subseteq DOMAIN quotes'[p]
            /\ \A v \in DOMAIN quotes[p] : quotes'[p][v] = quotes[p][v]
            /\ \A v \in DOMAIN quotes'[p] \ DOMAIN quotes[p] : quotes'[p][v] = Draft
      BY <3>1, <3>2 DEF IInv, TypeOK
    <3>4. TypeOK'
      <4>1. Draft \in Quote /\ Idle \in Session
        BY DEF Draft, NoException, Quote, QuoteState, Exception, Session
      <4>2. quotes' \in [Requests -> Seq(Quote)]
        BY <3>1, <3>2, <4>1 DEF IInv, TypeOK
      <4>3. QED
        BY <3>2, <4>1, <4>2 DEF IInv, TypeOK
    <3>5. PricedOnceCosted'
      BY <3>3 DEF IInv, PricedOnceCosted, Draft
    <3>6. Idle.command \notin Decision
      BY DEF Idle, Decision
    <3>7. OneHolder' /\ OrdersAreConversions'
      BY <3>2, <3>6 DEF IInv, TypeOK, OneHolder, OrdersAreConversions
    <3>8. ReadsStand'
      <4> SUFFICES ASSUME NEW u \in Sessions \ {s}, session[u].command \in Decision
                   PROVE  ReadIsTrue(session[u])'
        BY <3>2, <3>6 DEF IInv, TypeOK, ReadsStand
      <4>1. session[u].on \in Requests /\ ReadIsTrue(session[u])
        BY DecisionsAreTyped DEF IInv, Idle, Decision, ReadsStand
      <4> DEFINE x == session[u]
      <4>2. x' = x /\ request' = request /\ complete' = complete
        BY <3>2 DEF IInv, TypeOK
      <4>3. /\ x.version \in DOMAIN quotes[x.on]
            /\ quotes[x.on][x.version].status = "accepted"
            /\ x.revenue = quotes[x.on][x.version].price.revenue
            /\ Admits(x.command, x.on)
        BY <4>1 DEF ReadIsTrue, HasStatus
      <4>4. /\ x.version \in DOMAIN quotes'[x.on]
            /\ quotes'[x.on][x.version] = quotes[x.on][x.version]
        BY <3>3, <4>1, <4>3
      <4> HIDE DEF x
      <4>5. ReadIsTrue(x)'
        BY <4>2, <4>3, <4>4 DEF ReadIsTrue, Admits, HasStatus
      <4>6. QED
        BY <4>5 DEF x
    <3>9. OrdersKeepTheirVersion'
      BY <3>2, <3>3, OrdersAreTyped DEF IInv, OrdersKeepTheirVersion, HasStatus
    <3>10. QED
      BY <3>4, <3>5, <3>7, <3>8, <3>9 DEF IInv
  <2>3. ASSUME NEW command \in Decision, NEW r \in Requests, ReadAcceptedQuote(s, command, r)
        PROVE  IInv'
    <3>1. PICK v \in AcceptedVersions(r) :
             session' = [session EXCEPT ![s] =
                [command |-> command, on |-> r, version |-> v,
                 revenue |-> quotes[r][v].price.revenue, cleared |-> FALSE]]
      BY <2>3 DEF ReadAcceptedQuote
    <3> DEFINE x == [command |-> command, on |-> r, version |-> v,
                     revenue |-> quotes[r][v].price.revenue, cleared |-> FALSE]
    <3>2. HasStatus(r, v, "accepted") /\ v \in Nat \ {0} /\ quotes[r][v].price \in Prices
      BY DEF AcceptedVersions, HasStatus, IInv, TypeOK, PricedOnceCosted
    <3>3. x \in Session
      BY <3>2, RequestAssumption DEF Session
    <3>4. ReadIsTrue(x)
      BY <2>3, <3>2 DEF ReadIsTrue, ReadAcceptedQuote
    <3>5. \A u \in Sessions \ {s} : session[u].command \in Decision => session[u].on # r
      BY <2>3 DEF ReadAcceptedQuote, Locked
    <3>6. QED
      BY <2>3, <3>1, <3>3, <3>4, <3>5, SessionStep DEF ReadAcceptedQuote
  <2>4. CASE AssessCredit(s)
    <3> DEFINE x == [session[s] EXCEPT !.cleared = TRUE]
    <3>1. session[s] # Idle /\ session[s].command \in Decision
      BY <2>4 DEF AssessCredit, Idle, Decision
    <3>2. /\ x \in Session /\ x.command = session[s].command /\ x.on = session[s].on
          /\ x.version = session[s].version /\ x.revenue = session[s].revenue
      BY <3>1 DEF IInv, TypeOK, Session
    <3>3. ReadIsTrue(x)
      BY <3>1, <3>2 DEF IInv, ReadsStand, ReadIsTrue
    <3>4. \A u \in Sessions \ {s} : session[u].command \in Decision => session[u].on # x.on
      BY <3>1, <3>2 DEF IInv, OneHolder
    <3>5. QED
      BY <2>4, <3>2, <3>3, <3>4, SessionStep DEF AssessCredit
  <2>5. CASE AcceptServiceRequest(s)
    <3> DEFINE r == session[s].on
    <3>1. /\ r \in Requests /\ request[r] # "converted"
          /\ session[s].command \in Decision
      BY <2>5, DecisionsAreTyped DEF AcceptServiceRequest, Idle, Decision, IInv, ReadsStand,
                                     ReadIsTrue, Admits
    <3>2. \A u \in Sessions \ {s} : session[u].command \in Decision => session[u].on # r
      BY <3>1 DEF IInv, OneHolder
    <3>3. /\ request' = [request EXCEPT ![r] = "accepted"]
          /\ session' = [session EXCEPT ![s] = Idle]
          /\ UNCHANGED <<complete, frozen, quotes, marginPolicy, profile, orders>>
      BY <2>5 DEF AcceptServiceRequest
    <3>4. Idle \in Session /\ Idle.command \notin Decision
      BY DEF Idle, Session, Decision
    <3>5. TypeOK'
      BY <3>1, <3>3, <3>4 DEF IInv, TypeOK, RequestState
    <3>6. PricedOnceCosted' /\ OrdersKeepTheirVersion'
      BY <3>3 DEF IInv, PricedOnceCosted, OrdersKeepTheirVersion, HasStatus
    <3>7. OneHolder'
      BY <3>3, <3>4 DEF IInv, TypeOK, OneHolder
    <3>8. ReadsStand'
      BY <3>2, <3>3, <3>4 DEF IInv, TypeOK, ReadsStand, ReadIsTrue, Admits, HasStatus
    <3>9. OrdersAreConversions'
      BY <3>1, <3>3, OrdersAreTyped DEF IInv, TypeOK, OrdersAreConversions
    <3>10. QED
      BY <3>5, <3>6, <3>7, <3>8, <3>9 DEF IInv
  <2>6. CASE CommitTransportOrder(s)
    BY <2>6, CommitStep
  <2>7. CASE Abort(s)
    <3>1. Idle \in Session /\ Idle.command \notin Decision
      BY DEF Idle, Session, Decision
    <3>2. QED
      BY <2>7, <3>1, SessionStep DEF Abort
  <2>8. QED
    BY <1>4, <2>1, <2>2, <2>3, <2>4, <2>5, <2>6, <2>7 DEF Transaction
<1>5. CASE UNCHANGED vars
  BY <1>5 DEF vars, requestVars, IInv, TypeOK, PricedOnceCosted, ReadsStand, ReadIsTrue, Admits,
              HasStatus, OneHolder, OrdersAreConversions, OrdersKeepTheirVersion
<1>6. QED
  BY <1>1, <1>2, <1>3, <1>4, <1>5 DEF Next

(* The inductive invariant is an invariant. *)
THEOREM Invariant == Spec => []IInv
BY InitInvariant, StepInvariant, PTL DEF Spec

(* TypeOK: every variable keeps its type. *)
THEOREM TypeCorrect == Spec => []TypeOK
<1>1. IInv => TypeOK
  BY DEF IInv
<1>2. QED
  BY <1>1, Invariant, PTL

(***************************************************************************)
(* OrdersKeepTheirVersion: an order keeps an accepted version and its      *)
(* price (commitTransportOrder), whatever is quoted and however many       *)
(* transactions commit.                                                    *)
(***************************************************************************)
THEOREM VersionsAreKept == Spec => []OrdersKeepTheirVersion
<1>1. IInv => OrdersKeepTheirVersion
  BY DEF IInv
<1>2. QED
  BY <1>1, Invariant, PTL

(***************************************************************************)
(* OneOrderPerRequest: a converted request has one order, and no other has *)
(* any, although no constraint of the database says so.                    *)
(***************************************************************************)
THEOREM OrdersAreUnique == Spec => []OneOrderPerRequest
<1>1. IInv => OneOrderPerRequest
  <2> SUFFICES ASSUME IInv, NEW r \in Requests
               PROVE  Cardinality(FoliosOf(r)) = IF request[r] = "converted" THEN 1 ELSE 0
    BY DEF OneOrderPerRequest
  <2>1. CASE request[r] = "converted"
    <3>1. PICK n \in DOMAIN orders : orders[n].request = r
      BY <2>1 DEF IInv, OrdersAreConversions
    <3>2. FoliosOf(r) = {n}
      BY <3>1 DEF IInv, OrdersAreConversions, FoliosOf
    <3>3. QED
      BY <2>1, <3>2, FS_Singleton
  <2>2. CASE request[r] # "converted"
    <3>1. FoliosOf(r) = {}
      BY <2>2 DEF IInv, OrdersAreConversions, FoliosOf
    <3>2. QED
      BY <2>2, <3>1, FS_EmptySet
  <2>3. QED
    BY <2>1, <2>2
<1>2. QED
  BY <1>1, Invariant, PTL

------------------------------------------------------------------------------
(* Only the approval of a version can make it approved. *)
LEMMA StepSignsLowMargin == IInv /\ [Next]_vars => [SignsLowMargin]_vars
<1> SUFFICES ASSUME IInv, Next PROVE SignsLowMargin
  OBVIOUS
<1> SUFFICES ASSUME NEW r \in Requests, NEW v \in DOMAIN quotes[r],
                    quotes[r][v].status # "approved",
                    quotes'[r][v].status = "approved",
                    quotes'[r][v].price.margin < marginPolicy.threshold_pct
             PROVE  /\ quotes'[r][v].exception.status = "approved"
                    /\ marginPolicy.requires_maker_checker
                          => quotes'[r][v].exception.decidedBy
                                # quotes'[r][v].exception.requestedBy
  BY DEF SignsLowMargin
<1>1. PICK p \in Requests : \E w \in DOMAIN quotes[p] : QuoteCommand(p, w)
  <2>1. ASSUME UNCHANGED quotes PROVE FALSE
    BY <2>1
  <2>2. ASSUME NEW q \in Requests, RequestCommand(q) PROVE UNCHANGED quotes
    BY <2>2 DEF RequestCommand, CreateServiceRequest, UpdateServiceRequest, SubmitServiceRequest,
                RequestServiceInformation, CancelServiceRequest
  <2>3. ASSUME CreditCommand \/ \E policy \in MarginPolicies : PublishMarginPolicy(policy)
        PROVE  UNCHANGED quotes
    BY <2>3 DEF CreditCommand, SetCreditLimit, SetCreditHold, PublishMarginPolicy
  <2>4. ASSUME NEW s \in Sessions, Transaction(s) PROVE FALSE
    <3>1. CASE CreateQuote(s)
      <4>1. session[s].on \in Requests
        BY <3>1, DecisionsAreTyped DEF CreateQuote, IInv, Idle
      <4>2. quotes'[r][v] = quotes[r][v]
        BY <3>1, <4>1 DEF CreateQuote, IInv, TypeOK
      <4>3. QED
        BY <4>2
    <3>2. CASE UNCHANGED quotes
      BY <2>1, <3>2
    <3>3. QED
      BY <2>4, <3>1, <3>2 DEF Transaction, ReadQuotable, ReadAcceptedQuote, AssessCredit,
                              AcceptServiceRequest, CommitTransportOrder, Abort
  <2>5. QED
    BY <2>1, <2>2, <2>3, <2>4 DEF Next
<1>2. PICK w \in DOMAIN quotes[p] : QuoteCommand(p, w)
  BY <1>1
<1>3. ASSUME NEW quote, SetQuote(p, w, quote)
      PROVE  p = r /\ w = v /\ quotes'[r][v] = quote
  BY <1>3 DEF SetQuote, IInv, TypeOK
<1>4. /\ quotes[p][w] \in Quote
      /\ quotes[p][w].status # "draft" => quotes[p][w].price \in Prices
  BY DEF IInv, TypeOK, PricedOnceCosted
<1> DEFINE quote == quotes[p][w]
<1>5. ASSUME NEW actor \in Actors, ApproveQuote(p, w, actor)
      PROVE  \/ /\ Compliant(quote)
                /\ SetQuote(p, w, [quote EXCEPT !.status = "approved"])
             \/ /\ MayDecide(quote.exception, actor)
                /\ SetQuote(p, w, [quote EXCEPT !.status = "approved",
                                                !.exception.status = "approved",
                                                !.exception.decidedBy = actor])
  BY <1>5 DEF ApproveQuote
<1>7. PICK actor \in Actors : ApproveQuote(p, w, actor)
  <2>2. ASSUME NEW price \in Prices, CostQuote(p, w, price) PROVE FALSE
    <3> DEFINE new == [quote EXCEPT !.status = "costed", !.price = price]
    <3>1. quotes'[r][v] = new
      BY <1>3, <2>2 DEF CostQuote
    <3>2. new.status = "costed"
      BY <1>4 DEF Quote
    <3>3. QED
      BY <3>1, <3>2
  <2>3. ASSUME NEW a \in Actors, RequestQuoteApproval(p, w, a) PROVE FALSE
    <3> DEFINE exception == IF Compliant(quote) THEN quote.exception
                            ELSE [status |-> "pending", requestedBy |-> a, decidedBy |-> None]
               new == [quote EXCEPT !.status = "pending_approval", !.exception = exception]
    <3>1. SetQuote(p, w, new)
      BY <1>4, <2>3 DEF RequestQuoteApproval, Quote
    <3>2. quotes'[r][v] = new /\ new.status = "pending_approval"
      BY <1>3, <1>4, <3>1 DEF Quote
    <3>3. QED
      BY <3>2
  <2>4. ASSUME NEW status \in QuoteState \ {"approved"},
               SetQuote(p, w, [quote EXCEPT !.status = status])
        PROVE  FALSE
    BY <1>3, <1>4, <2>4 DEF Quote
  <2>5. QED
    BY <1>2, <2>2, <2>3, <2>4
       DEF QuoteCommand, RejectQuoteApproval, SendQuote, RecordQuoteAcceptance,
           RecordQuoteRejection, QuoteState
<1>8. quote.status # "draft"
  BY <1>7 DEF ApproveQuote, HasStatus
<1>9. CASE Compliant(quote) /\ SetQuote(p, w, [quote EXCEPT !.status = "approved"])
  <2>1. quotes'[r][v].price = quote.price
    BY <1>3, <1>4, <1>9 DEF Quote
  <2>2. quote.price.margin \in Int /\ marginPolicy.threshold_pct \in Int
    BY <1>4, <1>8, RequestAssumption DEF IInv, TypeOK
  <2>3. QED
    BY <1>9, <2>1, <2>2 DEF Compliant
<1>10. CASE /\ MayDecide(quote.exception, actor)
            /\ SetQuote(p, w, [quote EXCEPT !.status = "approved",
                                            !.exception.status = "approved",
                                            !.exception.decidedBy = actor])
  <2>1. quotes'[r][v].exception
          = [quote.exception EXCEPT !.status = "approved", !.decidedBy = actor]
    <3> DEFINE new == [quote EXCEPT !.status = "approved", !.exception.status = "approved",
                                    !.exception.decidedBy = actor]
    <3>1. quotes'[r][v] = new
      BY <1>3, <1>10
    <3>2. new.exception = [quote.exception EXCEPT !.status = "approved", !.decidedBy = actor]
      BY <1>4 DEF Quote, Exception
    <3>3. QED
      BY <3>1, <3>2
  <2>2. /\ quotes'[r][v].exception.status = "approved"
        /\ quotes'[r][v].exception.decidedBy = actor
        /\ quotes'[r][v].exception.requestedBy = quote.exception.requestedBy
    BY <1>4, <2>1 DEF Quote, Exception
  <2>3. QED
    BY <1>10, <2>2 DEF MayDecide
<1>11. QED
  BY <1>5, <1>7, <1>9, <1>10

(***************************************************************************)
(* LowMarginIsSigned: no version is approved below the margin in force     *)
(* without the exception that approveQuote demands, signed by somebody     *)
(* else than who asked for it if the policy in force says so.              *)
(***************************************************************************)
THEOREM LowMarginsAreSigned == Spec => LowMarginIsSigned
BY StepSignsLowMargin, Invariant, PTL DEF Spec, LowMarginIsSigned

------------------------------------------------------------------------------
(* What orders add up to, however many they are: Revenue is a recursive    *)
(* function, so that its value takes an induction.                         *)
LEMMA NumberInduction ==
    ASSUME NEW T \in SUBSET Nat, 0 \in T, \A n \in T : n + 1 \in T
    PROVE  T = Nat
<1> DEFINE R == OpToRel(<, Nat)
<1>1. IsWellFoundedOn(R, Nat)
  BY NatLessThanWellFounded
<1>2. \A m, n \in Nat : m < n => <<m, n>> \in R
  BY DEF OpToRel
<1> HIDE DEF R
<1>3. SUFFICES ASSUME Nat \ T # {}
               PROVE  FALSE
  OBVIOUS
<1>4. PICK n \in Nat \ T : \A m \in Nat \ T : <<m, n>> \notin R
  BY <1>1, <1>3, WFMin
<1>5. n # 0 /\ n - 1 \in Nat /\ n - 1 < n
  OBVIOUS
<1>6. n - 1 \in T
  BY <1>2, <1>4, <1>5
<1>7. QED
  BY <1>5, <1>6

OfFirst(first, these, n) == IF n = 0 THEN 0 ELSE first[n - 1] + these[n].revenue

Adds(first, these) == first = [n \in 0 .. Len(these) |-> OfFirst(first, these, n)]

LEMMA OrderOf ==
    ASSUME NEW these \in Seq(Order), NEW n \in Nat \ {0}, n <= Len(these)
    PROVE  these[n].revenue \in Nat
<1>1. these[n] \in Order
  OBVIOUS
<1>2. QED
  BY <1>1 DEF Order

LEMMA AdditionExists ==
    ASSUME NEW these \in Seq(Order)
    PROVE  \E first : Adds(first, these)
<1> DEFINE Size == 0 .. Len(these)
           UpTo(k, first) == \A n \in Size : n <= k => first[n] = OfFirst(first, these, n)
           T == {k \in Nat : \E first \in [Size -> Nat] : UpTo(k, first)}
<1>1. 0 \in T
  <2>1. UpTo(0, [n \in Size |-> 0])
    BY DEF OfFirst
  <2>2. QED
    BY <2>1
<1>2. ASSUME NEW k \in T PROVE k + 1 \in T
  <2>1. PICK first \in [Size -> Nat] : UpTo(k, first)
    OBVIOUS
  <2> DEFINE next == [n \in Size |-> OfFirst(first, these, n)]
  <2>2. \A n \in Size : n # 0 => these[n].revenue \in Nat /\ n - 1 \in Size
    BY OrderOf
  <2>3. next \in [Size -> Nat]
    BY <2>2 DEF OfFirst
  <2>4. \A n \in Size : n <= k => next[n] = first[n]
    BY <2>1
  <2>5. ASSUME NEW n \in Size, n <= k + 1 PROVE next[n] = OfFirst(next, these, n)
    <3>1. n # 0 => next[n - 1] = first[n - 1]
      BY <2>2, <2>4, <2>5
    <3>2. QED
      BY <3>1 DEF OfFirst
  <2> HIDE DEF next
  <2>6. QED
    BY <2>3, <2>5
<1>3. T = Nat
  <2> T \in SUBSET Nat
    OBVIOUS
  <2> HIDE DEF T
  <2>1. QED
    BY <1>1, <1>2, NumberInduction
<1>4. PICK first \in [Size -> Nat] : UpTo(Len(these), first)
  BY <1>3
<1>5. QED
  BY <1>4 DEF Adds

LEMMA RevenueAdds ==
    ASSUME NEW these \in Seq(Order)
    PROVE  \E first : Adds(first, these) /\ Revenue(these) = first[Len(these)]
<1>1. Revenue(these) = (CHOOSE first : Adds(first, these))[Len(these)]
  BY DEF Revenue, Adds, OfFirst
<1>2. QED
  BY <1>1, AdditionExists

(* One order more adds its revenue, wherever the addition of the others    *)
(* has come from.                                                          *)
LEMMA RevenueOfAppend ==
    ASSUME NEW these \in Seq(Order), NEW order \in Order
    PROVE  /\ Revenue(these) \in Nat
           /\ Revenue(Append(these, order)) = Revenue(these) + order.revenue
<1> DEFINE more == Append(these, order)
<1>1. /\ more \in Seq(Order)
      /\ Len(more) = Len(these) + 1
      /\ more[Len(these) + 1] = order
      /\ \A n \in 1 .. Len(these) : more[n] = these[n]
  OBVIOUS
<1> HIDE DEF more
<1>2. PICK first : Adds(first, these) /\ Revenue(these) = first[Len(these)]
  BY RevenueAdds
<1>3. PICK next : Adds(next, more) /\ Revenue(more) = next[Len(more)]
  BY <1>1, RevenueAdds
<1>4. /\ \A n \in 0 .. Len(these) : first[n] = OfFirst(first, these, n)
      /\ \A n \in 0 .. Len(these) + 1 : next[n] = OfFirst(next, more, n)
  BY <1>1, <1>2, <1>3 DEF Adds
<1> DEFINE T == {n \in Nat : n <= Len(these) => first[n] \in Nat /\ next[n] = first[n]}
<1>5. 0 \in T
  BY <1>4 DEF OfFirst
<1>6. ASSUME NEW n \in T PROVE n + 1 \in T
  <2> SUFFICES ASSUME n + 1 <= Len(these)
               PROVE  first[n + 1] \in Nat /\ next[n + 1] = first[n + 1]
    OBVIOUS
  <2>1. first[n] \in Nat /\ next[n] = first[n]
    OBVIOUS
  <2>2. first[n + 1] = first[n] + these[n + 1].revenue
    BY <1>4 DEF OfFirst
  <2>3. next[n + 1] = next[n] + more[n + 1].revenue
    BY <1>4 DEF OfFirst
  <2>4. more[n + 1] = these[n + 1] /\ these[n + 1].revenue \in Nat
    BY <1>1, OrderOf
  <2>5. QED
    BY <2>1, <2>2, <2>3, <2>4
<1>7. T = Nat
  <2> T \in SUBSET Nat
    OBVIOUS
  <2> HIDE DEF T
  <2>1. QED
    BY <1>5, <1>6, NumberInduction
<1>8. first[Len(these)] \in Nat /\ next[Len(these)] = first[Len(these)]
  BY <1>7
<1>9. next[Len(these) + 1] = next[Len(these)] + order.revenue
  BY <1>1, <1>4 DEF OfFirst
<1>10. QED
  BY <1>1, <1>2, <1>3, <1>8, <1>9 DEF more

LEMMA NoRevenue == Revenue(<<>>) = 0
<1>1. PICK first : Adds(first, <<>>) /\ Revenue(<<>>) = first[Len(<<>>)]
  <2>1. <<>> \in Seq(Order)
    OBVIOUS
  <2>2. QED
    BY <2>1, RevenueAdds
<1>2. Len(<<>>) = 0 /\ 0 \in 0 .. Len(<<>>)
  OBVIOUS
<1>3. first[0] = OfFirst(first, <<>>, 0)
  BY <1>1, <1>2 DEF Adds
<1>4. QED
  BY <1>1, <1>2, <1>3 DEF OfFirst

(* Only a commitment moves the exposure, with the order that it adds; a    *)
(* limit or a hold that is set before, after or between leaves it alone.   *)
LEMMA StepKeepsExposure ==
    IInv /\ ExposureIsTheOrders /\ [Next]_vars => ExposureIsTheOrders'
<1> SUFFICES ASSUME IInv, ExposureIsTheOrders, [Next]_vars
             PROVE  ExposureIsTheOrders'
  OBVIOUS
<1>1. profile \in Profile \cup {None} /\ orders \in Seq(Order)
  BY DEF IInv, TypeOK
<1>2. ASSUME NEW s \in Sessions, CommitTransportOrder(s) PROVE ExposureIsTheOrders'
  <2> DEFINE new == [request |-> session[s].on, version |-> session[s].version,
                     revenue |-> session[s].revenue]
  <2>1. new \in Order /\ new.revenue = session[s].revenue /\ session[s].revenue \in Nat
    BY <1>2, DecisionsAreTyped DEF CommitTransportOrder, Idle, IInv, Order
  <2>2. orders' = Append(orders, new) /\ AddCommittedExposure(session[s].revenue)
    BY <1>2 DEF CommitTransportOrder
  <2> HIDE DEF new
  <2>3. Revenue(orders') = Revenue(orders) + session[s].revenue
    BY <1>1, <2>1, <2>2, RevenueOfAppend
  <2>4. profile' \in Profile \cup {None} /\ profile' # None
        /\ profile'.committed = ProfileInForce.committed + session[s].revenue
    <3>1. CASE profile = None
      <4>1. profile' = [limit |-> 0, committed |-> session[s].revenue, hold |-> FALSE]
        BY <2>2, <3>1 DEF AddCommittedExposure
      <4>2. ProfileInForce.committed = 0
        BY <3>1 DEF ProfileInForce
      <4>3. profile' \in Profile /\ profile'.committed = session[s].revenue
        BY <2>1, <4>1 DEF Profile
      <4>4. QED
        BY <2>1, <4>2, <4>3, RequestAssumption
    <3>2. CASE profile # None
      <4>1. profile \in Profile /\ ProfileInForce = profile
        BY <1>1, <3>2 DEF ProfileInForce
      <4>2. profile' = [profile EXCEPT !.committed = profile.committed + session[s].revenue]
        BY <2>2, <3>2 DEF AddCommittedExposure
      <4>3. profile' \in Profile /\ profile'.committed = profile.committed + session[s].revenue
        BY <2>1, <4>1, <4>2 DEF Profile
      <4>4. QED
        BY <4>1, <4>3, RequestAssumption
    <3>3. QED
      BY <3>1, <3>2
  <2>5. ProfileInForce' = profile'
    BY <2>4 DEF ProfileInForce
  <2>6. QED
    BY <2>3, <2>4, <2>5 DEF ExposureIsTheOrders
<1>3. ASSUME UNCHANGED orders, ProfileInForce'.committed = ProfileInForce.committed
      PROVE  ExposureIsTheOrders'
  BY <1>3 DEF ExposureIsTheOrders
<1>4. ASSUME NEW limit \in Limits, SetCreditLimit(limit) PROVE ExposureIsTheOrders'
  <2>1. CASE profile = None
    <3>1. profile' = [limit |-> limit, committed |-> 0, hold |-> FALSE] /\ limit \in Nat
      BY <1>4, <2>1, RequestAssumption DEF SetCreditLimit
    <3>2. profile' \in Profile
      BY <3>1 DEF Profile
    <3>3. ProfileInForce'.committed = 0 /\ ProfileInForce.committed = 0
      BY <2>1, <3>1, <3>2, RequestAssumption DEF ProfileInForce
    <3>4. QED
      BY <1>3, <1>4, <3>3 DEF SetCreditLimit
  <2>2. CASE profile # None
    <3>1. profile \in Profile /\ limit \in Nat /\ profile' = [profile EXCEPT !.limit = limit]
      BY <1>1, <1>4, <2>2, RequestAssumption DEF SetCreditLimit
    <3>2. profile' \in Profile /\ profile'.committed = profile.committed
      BY <3>1 DEF Profile
    <3>3. ProfileInForce'.committed = ProfileInForce.committed
      BY <2>2, <3>2, RequestAssumption DEF ProfileInForce
    <3>4. QED
      BY <1>3, <1>4, <3>3 DEF SetCreditLimit
  <2>3. QED
    BY <2>1, <2>2
<1>5. ASSUME NEW hold \in BOOLEAN, SetCreditHold(hold) PROVE ExposureIsTheOrders'
  <2>1. profile \in Profile /\ profile # None /\ profile' = [profile EXCEPT !.hold = hold]
    BY <1>1, <1>5 DEF SetCreditHold
  <2>2. profile' \in Profile /\ profile'.committed = profile.committed
    BY <2>1 DEF Profile
  <2>3. ProfileInForce'.committed = ProfileInForce.committed
    BY <2>1, <2>2, RequestAssumption DEF ProfileInForce
  <2>4. QED
    BY <1>3, <1>5, <2>3 DEF SetCreditHold
<1>6. CASE UNCHANGED <<profile, orders>>
  BY <1>3, <1>6 DEF ProfileInForce
<1>7. ASSUME NEW r \in Requests, RequestCommand(r) PROVE ExposureIsTheOrders'
  BY <1>6, <1>7
     DEF RequestCommand, CreateServiceRequest, UpdateServiceRequest, SubmitServiceRequest,
         RequestServiceInformation, CancelServiceRequest
<1>8. ASSUME NEW r \in Requests, NEW v \in DOMAIN quotes[r], QuoteCommand(r, v)
      PROVE  ExposureIsTheOrders'
  BY <1>6, <1>8
     DEF QuoteCommand, CostQuote, RequestQuoteApproval, ApproveQuote, RejectQuoteApproval,
         SendQuote, RecordQuoteAcceptance, RecordQuoteRejection, SetQuote
<1>9. ASSUME NEW policy \in MarginPolicies, PublishMarginPolicy(policy)
      PROVE  ExposureIsTheOrders'
  BY <1>6, <1>9 DEF PublishMarginPolicy
<1>10. ASSUME NEW s \in Sessions, Transaction(s) PROVE ExposureIsTheOrders'
  BY <1>2, <1>6, <1>10
     DEF Transaction, ReadQuotable, CreateQuote, ReadAcceptedQuote, AssessCredit,
         AcceptServiceRequest, Abort
<1>11. QED
  BY <1>4, <1>5, <1>6, <1>7, <1>8, <1>9, <1>10 DEF Next, CreditCommand, vars

(***************************************************************************)
(* ExposureIsTheOrders: the credit that a customer has used is what his    *)
(* orders add up to, for any number of orders and transactions             *)
(* (addCommittedExposure adds in place, in the transaction of the order).  *)
(***************************************************************************)
THEOREM ExposureAddsUp == Spec => []ExposureIsTheOrders
<1>1. Init => ExposureIsTheOrders
  BY NoRevenue DEF Init, ExposureIsTheOrders, ProfileInForce
<1>2. QED
  BY <1>1, StepKeepsExposure, Invariant, PTL DEF Spec

------------------------------------------------------------------------------
StageOf == [r \in Requests |-> Stage(request[r])]

AcceptedOf == [r \in Requests |-> {v \in DOMAIN quotes[r] : HasStatus(r, v, "accepted")}]

ContractOf ==
    [r \in Requests |->
        IF FoliosOf(r) = {} THEN 0 ELSE orders[CHOOSE n \in FoliosOf(r) : TRUE].version]

(* Every step of the commands is a step of OneCommitment or changes nothing in it. *)
LEMMA StepCommitsOnce ==
    IInv /\ IInv' /\ [Next]_vars => [Commitment!Next]_<<StageOf, AcceptedOf, ContractOf>>
<1> SUFFICES ASSUME IInv, IInv', [Next]_vars
             PROVE  [Commitment!Next]_<<StageOf, AcceptedOf, ContractOf>>
  OBVIOUS
<1>1. UNCHANGED request => UNCHANGED StageOf
  BY DEF StageOf
<1>2. UNCHANGED quotes => UNCHANGED AcceptedOf
  BY DEF AcceptedOf, HasStatus
<1>3. UNCHANGED orders => UNCHANGED ContractOf
  BY DEF ContractOf, FoliosOf
<1>4. ASSUME NEW r \in Requests, RequestCommand(r)
      PROVE  Commitment!Withdraw(r) \/ UNCHANGED <<StageOf, AcceptedOf, ContractOf>>
  <2>1. UNCHANGED <<AcceptedOf, ContractOf>>
    BY <1>2, <1>3, <1>4
       DEF RequestCommand, CreateServiceRequest, UpdateServiceRequest, SubmitServiceRequest,
           RequestServiceInformation, CancelServiceRequest
  <2>2. CASE CancelServiceRequest(r)
    <3>1. /\ StageOf[r] \in {"open", "agreed"}
          /\ StageOf' = [StageOf EXCEPT ![r] = "withdrawn"]
      BY <2>2 DEF CancelServiceRequest, StageOf, Stage, IInv, TypeOK
    <3>2. QED
      BY <2>1, <3>1 DEF Commitment!Withdraw, StageOf, AcceptedOf, ContractOf
  <2>3. CASE ~CancelServiceRequest(r)
    <3>1. UNCHANGED StageOf
      BY <1>4, <2>3, RequestAssumption
         DEF RequestCommand, CreateServiceRequest, UpdateServiceRequest, SubmitServiceRequest,
             RequestServiceInformation, StageOf, Stage, IInv, TypeOK, RequestState
    <3>2. QED
      BY <2>1, <3>1
  <2>4. QED
    BY <2>2, <2>3
<1>5. ASSUME NEW r \in Requests, UNCHANGED <<request, orders>>,
             DOMAIN quotes[r] \subseteq DOMAIN quotes'[r],
             \A v \in DOMAIN quotes[r] :
                quotes[r][v].status = "accepted" => quotes'[r][v].status = "accepted",
             \A p \in Requests \ {r} : quotes'[p] = quotes[p]
      PROVE  Commitment!CustomerAccepts(r)
  <2>1. AcceptedOf[r] \subseteq AcceptedOf'[r] /\ AcceptedOf'[r] \subseteq Nat \ {0}
    <3>1. DOMAIN quotes'[r] \subseteq Nat \ {0}
      BY DEF IInv, TypeOK
    <3>2. QED
      BY <1>5, <3>1 DEF AcceptedOf, HasStatus
  <2>2. AcceptedOf' = [AcceptedOf EXCEPT ![r] = AcceptedOf'[r]]
    BY <1>5 DEF AcceptedOf, HasStatus
  <2>3. QED
    BY <1>1, <1>3, <1>5, <2>1, <2>2 DEF Commitment!CustomerAccepts, StageOf, AcceptedOf, ContractOf
<1>6. ASSUME NEW r \in Requests, NEW v \in DOMAIN quotes[r], QuoteCommand(r, v)
      PROVE  Commitment!CustomerAccepts(r)
  <2>1. PICK quote : SetQuote(r, v, quote)
    BY <1>6 DEF QuoteCommand, CostQuote, RequestQuoteApproval, ApproveQuote,
                RejectQuoteApproval, SendQuote, RecordQuoteAcceptance, RecordQuoteRejection
  <2>2. quotes[r][v].status # "accepted"
    BY <1>6 DEF QuoteCommand, CostQuote, RequestQuoteApproval, ApproveQuote, HasStatus,
                RejectQuoteApproval, SendQuote, RecordQuoteAcceptance, RecordQuoteRejection
  <2>3. /\ quotes' = [quotes EXCEPT ![r] = [quotes[r] EXCEPT ![v] = quote]]
        /\ UNCHANGED <<request, orders>>
    BY <2>1 DEF SetQuote, requestVars
  <2>4. QED
    BY <1>5, <2>2, <2>3 DEF IInv, TypeOK
<1>7. ASSUME CreditCommand \/ \E policy \in MarginPolicies : PublishMarginPolicy(policy)
      PROVE  UNCHANGED <<StageOf, AcceptedOf, ContractOf>>
  BY <1>1, <1>2, <1>3, <1>7
     DEF CreditCommand, SetCreditLimit, SetCreditHold, PublishMarginPolicy, requestVars
<1>8. ASSUME NEW s \in Sessions, Transaction(s)
      PROVE  \/ \E r \in Requests : \/ Commitment!CustomerAccepts(r) \/ Commitment!Agree(r)
                                     \/ Commitment!Commit(r)
             \/ UNCHANGED <<StageOf, AcceptedOf, ContractOf>>
  <2>1. PICK r : r = session[s].on /\ (session[s] # Idle => r \in Requests)
    BY DecisionsAreTyped DEF IInv
  <2>2. CASE CreateQuote(s)
    <3>1. r \in Requests
      BY <2>1, <2>2 DEF CreateQuote, Idle
    <3>2. /\ quotes' = [quotes EXCEPT ![r] = Append(quotes[r], Draft)]
          /\ UNCHANGED <<request, orders>>
      BY <2>1, <2>2 DEF CreateQuote, requestVars
    <3>3. /\ DOMAIN quotes[r] \subseteq DOMAIN quotes'[r]
          /\ \A v \in DOMAIN quotes[r] : quotes'[r][v] = quotes[r][v]
          /\ \A p \in Requests \ {r} : quotes'[p] = quotes[p]
      BY <3>1, <3>2 DEF IInv, TypeOK
    <3>4. Commitment!CustomerAccepts(r)
      BY <1>5, <3>1, <3>2, <3>3
    <3>5. QED
      BY <3>1, <3>4
  <2>3. CASE AcceptServiceRequest(s)
    <3>1. /\ r \in Requests /\ ReadIsTrue(session[s])
          /\ request[r] \in {"submitted", "needs_information"}
      BY <2>1, <2>3 DEF AcceptServiceRequest, Idle, Decision, IInv, ReadsStand, ReadIsTrue, Admits
    <3>2. StageOf[r] = "open" /\ StageOf' = [StageOf EXCEPT ![r] = "agreed"]
      BY <2>1, <2>3, <3>1 DEF AcceptServiceRequest, StageOf, Stage, IInv, TypeOK
    <3>3. AcceptedOf[r] # {}
      BY <2>1, <3>1 DEF ReadIsTrue, AcceptedOf, HasStatus
    <3>4. UNCHANGED <<AcceptedOf, ContractOf>>
      BY <1>2, <1>3, <2>3 DEF AcceptServiceRequest
    <3>5. QED
      BY <3>1, <3>2, <3>3, <3>4 DEF Commitment!Agree, StageOf, AcceptedOf, ContractOf
  <2>4. CASE CommitTransportOrder(s)
    <3> DEFINE new == [request |-> r, version |-> session[s].version,
                       revenue |-> session[s].revenue]
    <3>1. /\ r \in Requests /\ ReadIsTrue(session[s]) /\ request[r] = "accepted"
      BY <2>1, <2>4 DEF CommitTransportOrder, Idle, Decision, IInv, ReadsStand, ReadIsTrue, Admits
    <3>2. StageOf[r] = "agreed" /\ StageOf' = [StageOf EXCEPT ![r] = "committed"]
      BY <2>1, <2>4, <3>1 DEF CommitTransportOrder, StageOf, Stage, IInv, TypeOK
    <3>3. session[s].version \in AcceptedOf[r] /\ UNCHANGED AcceptedOf
      BY <1>2, <2>1, <2>4, <3>1 DEF CommitTransportOrder, ReadIsTrue, AcceptedOf, HasStatus
    <3>4. /\ orders' = Append(orders, new)
          /\ DOMAIN orders = 1 .. Len(orders) /\ Len(orders) \in Nat
          /\ DOMAIN orders' = 1 .. Len(orders) + 1
          /\ orders'[Len(orders) + 1] = new
          /\ \A n \in DOMAIN orders : orders'[n] = orders[n]
      BY <2>1, <2>4 DEF CommitTransportOrder, IInv, TypeOK
    <3>5. \A p \in Requests \ {r} : FoliosOf(p)' = FoliosOf(p)
      BY <3>4 DEF FoliosOf
    <3>6. FoliosOf(r)' = {Len(orders) + 1}
      <4>1. \A n \in DOMAIN orders : orders[n].request # r
        BY <3>1 DEF IInv, OrdersAreConversions
      <4>2. \A n \in DOMAIN orders' : orders'[n].request = r <=> n = Len(orders) + 1
        BY <3>4, <4>1
      <4>3. Len(orders) + 1 \in DOMAIN orders'
        BY <3>4
      <4>4. QED
        BY <4>2, <4>3 DEF FoliosOf
    <3>7. ContractOf'[r] = session[s].version
      <4>1. (CHOOSE n \in FoliosOf(r)' : TRUE) = Len(orders) + 1
        BY <3>6
      <4>2. ContractOf'[r] = orders'[CHOOSE n \in FoliosOf(r)' : TRUE].version
        BY <3>1, <3>6 DEF ContractOf
      <4>3. orders'[Len(orders) + 1].version = session[s].version
        BY <3>4
      <4>4. QED
        BY <4>1, <4>2, <4>3, Zenon
    <3>8. \A p \in Requests \ {r} : ContractOf'[p] = ContractOf[p]
      <4> SUFFICES ASSUME NEW p \in Requests \ {r} PROVE ContractOf'[p] = ContractOf[p]
        OBVIOUS
      <4>1. CASE FoliosOf(p) = {}
        BY <3>5, <4>1 DEF ContractOf
      <4>2. CASE FoliosOf(p) # {}
        <5>1. (CHOOSE n \in FoliosOf(p) : TRUE) \in DOMAIN orders
          BY <4>2 DEF FoliosOf
        <5>2. /\ ContractOf[p] = orders[CHOOSE n \in FoliosOf(p) : TRUE].version
              /\ ContractOf'[p] = orders'[CHOOSE n \in FoliosOf(p)' : TRUE].version
          BY <3>5, <4>2 DEF ContractOf
        <5>3. (CHOOSE n \in FoliosOf(p)' : TRUE) = (CHOOSE n \in FoliosOf(p) : TRUE)
          BY <3>5
        <5>4. QED
          BY <3>4, <5>1, <5>2, <5>3
      <4>3. QED
        BY <4>1, <4>2
    <3>9. ContractOf' = [ContractOf EXCEPT ![r] = session[s].version]
      BY <3>1, <3>7, <3>8 DEF ContractOf
    <3>10. QED
      BY <3>1, <3>2, <3>3, <3>9 DEF Commitment!Commit, StageOf, AcceptedOf, ContractOf
  <2>5. CASE UNCHANGED <<request, quotes, orders>>
    BY <1>1, <1>2, <1>3, <2>5
  <2>6. QED
    BY <1>8, <2>2, <2>3, <2>4, <2>5
       DEF Transaction, ReadQuotable, ReadAcceptedQuote, AssessCredit, Abort, requestVars
<1>9. CASE UNCHANGED vars
  BY <1>1, <1>2, <1>3, <1>9 DEF vars, requestVars
<1>10. QED
  BY <1>4, <1>6, <1>7, <1>8, <1>9 DEF Next, Commitment!Next

(***************************************************************************)
(* CommitsOnce: the commands implement OneCommitment.                      *)
(***************************************************************************)
THEOREM SaleCommitsOnce == Spec => CommitsOnce
<1>1. Init => Commitment!Init
  <2> SUFFICES ASSUME Init PROVE Commitment!Init
    OBVIOUS
  <2>1. \A r \in Requests : Stage(request[r]) = "open"
    BY RequestAssumption DEF Init, Stage, RequestState
  <2>2. \A r \in Requests : FoliosOf(r) = {} /\ DOMAIN quotes[r] = {}
    BY DEF Init, FoliosOf
  <2>3. QED
    BY <2>1, <2>2 DEF Commitment!Init
<1>2. IInv /\ IInv' /\ [Next]_vars => [Commitment!Next]_(Commitment!vars)
  BY StepCommitsOnce DEF Commitment!vars, StageOf, AcceptedOf, ContractOf
<1>3. QED
  BY <1>1, <1>2, Invariant, PTL DEF Spec, CommitsOnce, Commitment!Spec

------------------------------------------------------------------------------
(***************************************************************************)
(* What a lock on the credit would give.  assessCredit locks nothing; the  *)
(* commands below behave as if it locked the profile: nobody changes it    *)
(* while another transaction has an assessment of it.                      *)
(***************************************************************************)
KeepsAssessments ==
    profile' # profile => \A s \in Sessions : session[s].cleared => session'[s] = Idle

(* What an open assessment says of the credit is so. *)
AssessmentsAreTrue ==
    \A s \in Sessions : session[s].cleared =>
        \/ session[s].on \in Waivable
        \/ session[s].revenue <= ProfileInForce.limit - ProfileInForce.committed

(* A step leaves a transaction without assessment, with the one it had, or *)
(* with a new one of the credit as it is.                                  *)
LEMMA ClearedStep ==
    ASSUME IInv, CreditPolicy.include_uninvoiced_committed, [Next]_vars, NEW s \in Sessions,
           session'[s].cleared
    PROVE  \/ session'[s] = session[s]
           \/ /\ UNCHANGED profile
              /\ \/ session'[s].on \in Waivable
                 \/ session'[s].revenue <= ProfileInForce.limit - ProfileInForce.committed
<1> USE DEF IInv, TypeOK
<1>1. ASSUME NEW r \in Requests, RequestCommand(r) PROVE UNCHANGED session
  BY <1>1 DEF RequestCommand, CreateServiceRequest, UpdateServiceRequest, SubmitServiceRequest,
              RequestServiceInformation, CancelServiceRequest
<1>2. ASSUME NEW r \in Requests, NEW v \in DOMAIN quotes[r], QuoteCommand(r, v)
      PROVE  UNCHANGED session
  BY <1>2 DEF QuoteCommand, CostQuote, RequestQuoteApproval, ApproveQuote, RejectQuoteApproval,
              SendQuote, RecordQuoteAcceptance, RecordQuoteRejection, SetQuote
<1>3. ASSUME CreditCommand \/ \E policy \in MarginPolicies : PublishMarginPolicy(policy)
      PROVE  UNCHANGED session
  BY <1>3 DEF CreditCommand, SetCreditLimit, SetCreditHold, PublishMarginPolicy
<1>4. ASSUME NEW u \in Sessions, Transaction(u), ~AssessCredit(u)
      PROVE  session'[s] = session[s]
  <2>1. \E x : x.cleared = FALSE /\ session' = [session EXCEPT ![u] = x]
    <3>1. Idle.cleared = FALSE
      BY DEF Idle
    <3>2. QED
      BY <1>4, <3>1 DEF Transaction, ReadQuotable, CreateQuote, ReadAcceptedQuote,
                        AcceptServiceRequest, CommitTransportOrder, Abort
  <2>2. QED
    BY <2>1
<1>5. ASSUME NEW u \in Sessions, AssessCredit(u)
      PROVE  \/ session'[s] = session[s]
             \/ /\ UNCHANGED profile
                /\ \/ session'[s].on \in Waivable
                   \/ session'[s].revenue <= ProfileInForce.limit - ProfileInForce.committed
  <2>1. CASE s = u
    <3>1. session[u] # Idle
      BY <1>5 DEF AssessCredit, Idle, Decision
    <3>2. session'[u].on = session[u].on /\ session'[u].revenue = session[u].revenue
      BY <1>5, <3>1 DEF AssessCredit, Session
    <3>3. QED
      BY <1>5, <2>1, <3>2 DEF AssessCredit, CreditApproved, Exposure
  <2>2. CASE s # u
    BY <1>5, <2>2 DEF AssessCredit
  <2>3. QED
    BY <2>1, <2>2
<1>6. CASE UNCHANGED vars
  BY <1>6 DEF vars
<1>7. QED
  BY <1>1, <1>2, <1>3, <1>4, <1>5, <1>6 DEF Next

LEMMA AssessmentsStep ==
    ASSUME IInv, CreditPolicy.include_uninvoiced_committed, AssessmentsAreTrue, [Next]_vars,
           [KeepsAssessments]_vars
    PROVE  AssessmentsAreTrue'
<1> SUFFICES ASSUME NEW s \in Sessions, session'[s].cleared
             PROVE  \/ session'[s].on \in Waivable
                    \/ (session[s].revenue <= ProfileInForce.limit - ProfileInForce.committed)'
  BY DEF AssessmentsAreTrue
<1>1. profile' = profile \/ session'[s] # session[s]
  BY DEF KeepsAssessments, Idle, vars
<1>2. profile' = profile
  BY <1>1, ClearedStep
<1>3. ProfileInForce' = ProfileInForce
  BY <1>2 DEF ProfileInForce
<1>4. QED
  BY <1>3, ClearedStep DEF AssessmentsAreTrue

(* An order is added by the commitment of a transaction with an assessment. *)
LEMMA OrderedWithinTheLimit ==
    ASSUME IInv, AssessmentsAreTrue, [Next]_vars, Len(orders) < Len(orders'),
           orders'[Len(orders)'].request \notin Waivable
    PROVE  profile'.committed <= ProfileInForce.limit
<1>1. Len(orders) \in Nat /\ orders \in Seq(Order)
  BY DEF IInv, TypeOK
<1>2. orders' # orders
  BY <1>1
<1>3. PICK s \in Sessions : CommitTransportOrder(s)
  <2>1. ASSUME NEW r \in Requests, RequestCommand(r) PROVE UNCHANGED orders
    BY <2>1 DEF RequestCommand, CreateServiceRequest, UpdateServiceRequest, SubmitServiceRequest,
                RequestServiceInformation, CancelServiceRequest
  <2>2. ASSUME NEW r \in Requests, NEW v \in DOMAIN quotes[r], QuoteCommand(r, v)
        PROVE  UNCHANGED orders
    BY <2>2 DEF QuoteCommand, CostQuote, RequestQuoteApproval, ApproveQuote, RejectQuoteApproval,
                SendQuote, RecordQuoteAcceptance, RecordQuoteRejection, SetQuote
  <2>3. ASSUME CreditCommand \/ \E policy \in MarginPolicies : PublishMarginPolicy(policy)
        PROVE  UNCHANGED orders
    BY <2>3 DEF CreditCommand, SetCreditLimit, SetCreditHold, PublishMarginPolicy
  <2>4. ASSUME NEW s \in Sessions, Transaction(s), ~CommitTransportOrder(s)
        PROVE  UNCHANGED orders
    BY <2>4 DEF Transaction, ReadQuotable, CreateQuote, ReadAcceptedQuote, AssessCredit,
                AcceptServiceRequest, Abort
  <2>5. CASE UNCHANGED vars
    BY <2>5 DEF vars
  <2>6. QED
    BY <1>2, <2>1, <2>2, <2>3, <2>4, <2>5 DEF Next
<1> DEFINE new == [request |-> session[s].on, version |-> session[s].version,
                   revenue |-> session[s].revenue]
<1>4. orders' = Append(orders, new) /\ AddCommittedExposure(session[s].revenue)
  BY <1>3 DEF CommitTransportOrder
<1>5. orders'[Len(orders)'] = new
  BY <1>1, <1>4
<1>6. session[s].cleared /\ session[s].on \notin Waivable
  BY <1>3, <1>5 DEF CommitTransportOrder
<1>7. session[s].revenue <= ProfileInForce.limit - ProfileInForce.committed
  BY <1>6 DEF AssessmentsAreTrue
<1>8. session[s].revenue \in Nat
  <2>1. session[s] # Idle
    BY <1>6 DEF Idle
  <2>2. QED
    BY <2>1, DecisionsAreTyped DEF IInv
<1>9. CASE profile = None
  <2>1. profile'.committed = session[s].revenue
    BY <1>4, <1>9 DEF AddCommittedExposure
  <2>2. ProfileInForce.committed = 0 /\ ProfileInForce.limit \in Nat
    BY <1>9, RequestAssumption DEF ProfileInForce
  <2>3. QED
    BY <1>7, <1>8, <2>1, <2>2
<1>10. CASE profile # None
  <2>1. profile \in Profile /\ ProfileInForce = profile
    BY <1>10 DEF IInv, TypeOK, ProfileInForce
  <2>2. profile.committed \in Nat /\ profile.limit \in Nat
    BY <2>1 DEF Profile
  <2>3. profile'.committed = profile.committed + session[s].revenue
    BY <1>4, <1>10, <2>1 DEF AddCommittedExposure, Profile
  <2>4. QED
    BY <1>7, <1>8, <2>1, <2>2, <2>3
<1>11. QED
  BY <1>9, <1>10

(***************************************************************************)
(* LimitIsRespected, which concurrent commitments break, would hold if the *)
(* assessment locked the credit, whoever changes limits, holds and quotes  *)
(* at the same time: addCommittedExposure's promise needs that lock only.  *)
(***************************************************************************)
THEOREM LockedCreditIsRespected ==
    ASSUME CreditPolicy.include_uninvoiced_committed
    PROVE  Spec /\ [][KeepsAssessments]_vars => LimitIsRespected
<1>1. Init => AssessmentsAreTrue
  BY DEF Init, AssessmentsAreTrue, Idle
<1>2. IInv /\ AssessmentsAreTrue /\ [Next]_vars /\ [KeepsAssessments]_vars => AssessmentsAreTrue'
  BY AssessmentsStep
<1>3. IInv /\ AssessmentsAreTrue /\ [Next]_vars =>
        [ Len(orders) < Len(orders') /\ orders'[Len(orders')].request \notin Waivable =>
            profile'.committed <= ProfileInForce.limit ]_vars
  BY OrderedWithinTheLimit
<1>4. QED
  BY <1>1, <1>2, <1>3, Invariant, PTL DEF Spec, LimitIsRespected
==============================================================================
