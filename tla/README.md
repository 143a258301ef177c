# A verification project for the BOS transport platform

This directory models the Business Operating System of this repository in TLA+: what its
commands do to requests, orders, trips, resources, evidence, contracts, document templates,
invitations, events and idempotency keys; what concurrent transactions, crashes and lost
answers do to them; and which promises of the documents hold. Every definition is taken from
the TypeScript of `packages/` and the SQL of `supabase/migrations/`; `PROJECT.json` maps each
to its lines.

## 1. The system

One Next.js application over one PostgreSQL database. A command is an HTTP request
(`apps/bos-web/lib/api/handler.ts`), runs in one READ COMMITTED transaction
(`packages/platform/src/db/unit-of-work.ts`) and writes the change, its audit entry and its
event together. Separate worker processes publish the events.

| component | state it keeps | operations | what makes it correct | module |
|---|---|---|---|---|
| Trip execution (`core/transport/{planning,trips,stops}.ts`, migration 0016) | orders, shipments, route plans, trips, assignments, stop executions, trip exceptions | createShipment, createRoutePlan, activateRoutePlan, planTrip, assignResources, confirmAssignment, checkReleaseGate, releaseTrip, startTrip, recordStopArrival, recordStopOutcome, settleOrder, closeTripOperationally | statuses of order, trip, assignment and stops explain each other; an order settles, and not too early; closed is closed | TripExecution, TripPromises, OrderlyExecution |
| Release gate (`domain/release-gate.ts`) | none | evaluateReleaseGate, coversAllCauses | no trip sets out with a defect nobody signed for | ReleaseGate |
| Capacity resources (`core/capacity/resources.ts`, migration 0015) | vehicles, trailers, drivers, credentials | register, recordCredential, blockResource, releaseResource, resourceFacts | a block is either a cause of the gate or an alert on the trip | CapacityResources |
| Concurrency of trip commands | rows read without locks, constraints, unique indexes | the same commands, statement by statement | what the constraints save when reads are stale | TripRaces |
| Delivery outcomes (`domain/delivery.ts`) | none | validateQuantities, deriveOutcome, assessClosure | quantities are conserved; the outcome is what they say | DeliveryOutcome |
| Evidence (`core/transport/evidence.ts`), with the outcome and the close of `stops.ts` | requirements, submissions, outcomes, closes | submit, accept, reject, waive; record an outcome; close | a requirement is satisfied by what somebody else accepted; a close hides nothing | TripFile |
| Requests, quotes, orders, credit (`core/transport/{service-requests,transport-orders}.ts`, `core/commercial/{quotes,credit}.ts`) | requests, versioned quotes and approvals, credit profiles, orders | create, update, submit, requestServiceInformation, accept and cancel a request; create, cost, approve, send and decide a quote; setCreditLimit, setCreditHold, assessCredit; commitTransportOrder | an order is committed once, on an accepted version and at its price; no low margin is approved unsigned; no exposure is lost | RequestToOrder implements OneCommitment |
| Contracts (`core/commercial/contracts.ts`, migration 0020) | versions of contracts, their rates and signatures | createContractVersion, advanceContract, activateContract, terminateContract | one version is in force, priced, signed and reviewed; what was signed or ended stays so | Contracts |
| Documents (`platform/documents`, `domain/document-render.ts`, migration 0019) | versions of formats, their fields, issued documents | upload, setTemplateFields, publishTemplate, renderTemplate | one published version; no document with a gap nobody decided on | DocumentTemplates implements Editions |
| Invitations and memberships (`platform/provisioning/invitations.ts`, migrations 0013 and 0014) | invitations, memberships, accounts | invite, revoke, redeem, grant, expire | what was revoked stays revoked; an invitation is answered | TeamAccess |
| Outbox (`platform/outbox`, migrations 0003 and 0008) | status, attempts and due time of each event; batches of the workers | enqueueEvent, claim_outbox_batch, mark_outbox_published, mark_outbox_retry, publishPendingEvents | at-least-once delivery, one worker per event, nothing lost | OutboxPublisher implements AtLeastOnce |
| Idempotent commands (`platform/idempotency`, `core/shared/execute.ts`) | keys and their recorded responses; audit of denials | executeCommand, withIdempotency, recordDeniedAttempt | one effect per key, true answers, nobody waits for ever | Idempotency implements ExactlyOnce |
| Exceptions (`platform/exceptions`) | requested and decided exceptions | requestException, decideException, activeException | nobody decides his own request; what has lapsed authorises nothing | partly in TripExecution and RequestToOrder |
| Policies (`platform/policy`, `domain/policy-evaluation.ts`) | versions of policies per scope | publish, resolve | one version in force per scope, the most specific wins | evaluation in RequestToOrder only |
| Money and decimals (`domain/{money,decimal}.ts`) | none | sums, rates, allocation, rounding | nothing is lost in a division | sums and comparisons in DeliveryOutcome only |
| Provisioning of tenants; actor, authorization, row level security | tenants; none that commands change | one insertion; permission checks, policies of the database | every model is of one tenant with an authorised actor | not modelled |
| Masters, web pages, scripts | master rows | registration, rendering | no life cycle | not modelled |

How the components interact: `commitTransportOrder` turns a request and a quote into an order;
trip execution reads the order, the resources and the exceptions through the gate;
`blockResource` reads the trips; the outcome of a stop is derived from its quantities, the last
delivery settles the order, and the close of a trip declares the evidence that lacks; all
commands write the outbox and are wrapped by `executeCommand`. The behaviours that are hard:
trip, contract and evidence commands read without locks, compare the revision with that same
read and write later, so what protects the rows are constraints, triggers and unique indexes
that say less than the commands mean; `settleOrder` runs inside one trip's transaction but
counts the deliveries of all; the version of an event is derived from a stale read; the publication
of a format and a change of its fields do not wait for each other; every tab that signs in redeems
the same invitations; a worker commits its claim before it delivers; requests with one key wait
for each other. `PROJECT.json` lists every hazard at its line.

## 2. The modules

**ReleaseGate** is the gate as a function: `Causes(facts)` is the set of cause codes of
`evaluateReleaseGate`, one operator per block of that function, and `CoversAllCauses` the
coverage of an exception.

**CapacityResources** holds `standing`, `credential` and `announced` of each resource. One action
per command: `RecordCredential`, `Block`, `ReleaseResource`; `CredentialLapses` is the calendar.
`Announce` carries the unique index of the outbox, which the constant version 1 of these events
runs into.

**TripExecution** extends it with orders, plans, trips, crews, stops, causes, exceptions and
alerts. One command is one atomic action, whose guard is the conjunction of the command's
rejections and of the constraints of migration 0016 that would abort it. `GateFacts` gathers
what `checkReleaseGate` queries. `GrantException` and `ExceptionLapses` stand for the rows of
`plt.exception_decision`; a cause is signable only if the policies let an exception be requested
for it, which the shipped code never does for the gate, so instances choose `Signable`.
Outcomes are the derived kinds (DeliveryOutcome derives them); times, positions and notes are left
out, as are the events of a trip (TripRaces has them). **TripPromises** states what documents and comments
say beyond that, whether or not the commands keep it; **OrderlyExecution** restricts the drivers
to the behaviour of docs/13 and adds fairness.

**TripRaces** is the same life of a trip split where commits of others fall in: each read of a
command is a step, its writes and commit another. A session holds what it has read (`seen`,
`seq`, `found`). Constraints and unique indexes are guards of the commit; a session may abort at
any time. The stale status is not compared with the row at the commit, because the code does not.
The trips are planned before: a `planTrip` that overlaps the start or the settlement of another trip
of its order, and then writes `planned` from the status it has read, is not raced here.

**DeliveryOutcome** has the pure functions of `domain/delivery.ts`, over lines whose quantities
are integers in units of the sixth decimal, and `OutcomeTells`, the reference definition of what
an outcome means, which is stated over single lines and does not use the sums of the derivation.
**TripFile** extends it with what the trip keeps: `outcome` with the lines it came from,
`requirement`, `submissions` by attempt, and `closing` with what it declared as pending. Submitting,
accepting and closing read first and write later (`session`); rejecting and waiving decide on
nothing they read. The indexes, triggers and constraints of migration 0016 are `MayOpen`,
`MayRewrite` and `MaySatisfy`. Only the part of `trip` that the close depends on is kept; the rest
is TripExecution's. All requirements are mandatory, as `planTrip` creates them.

**RequestToOrder** is the sale. These commands lock the row they act upon, so most are one step;
`createQuote`, `acceptServiceRequest` and `commitTransportOrder` read more than they lock and are
split there: a session holds the version and the revenue it has read, and whether credit cleared
it. What a request lacks is abstracted to `complete`, the time zones and `completed_at` of its
submission to `frozen`; a quote is its status, its price and the exception asked for it. `Locked`
is the `for update` of the request, which the foreign key of a new quote waits for too. The
revision that a client may send is left out: without one the code compares nothing, so the model
has every behaviour. **OneCommitment** is the promise of the sale: agreed once a version is
accepted, committed at most once, never after a withdrawal.

**Contracts** holds one row per version: its status, author and signer, whether it has rates, and
its signature. A command reads its version without a lock and writes it in a later step; activating
one takes a statement more, which expires the versions in force (`Supersede`) and locks them.
`OnlyActive` is the unique index, `MayRewrite` the trigger that protects a signature.
`overtaken` is a history variable: the versions written by a command that had read them before
another's commit. The properties say what holds for all other versions, and
`SignatureIsKept` shows that the exception is needed.

**DocumentTemplates** holds the status and the fields of each version and the documents issued. A
body is the marks it uses, as plain text and as blocks; a binding is a path of the catalogue, or a
text that the trigger takes for one (`Loose`) or that is none (`Unknown`); the data of a subject
says what every column and table can be, empty ones included. What is printed is whether a mark
shows its data, the text for its absence, or itself. The statements of a publication and of a change of fields
are steps; `rewritten` marks the versions whose fields were written past the checks.
**Editions** is what publishing promises: the next edition replaces the one in force in the same
step, and what was replaced never comes back.

**TeamAccess** is of one person: `invitation`, `membership` by grant (tenant, role and scope), the
sign-ins under way and the connections lost. `redeem_invitations` is a loop over a cursor of its
beginning: each statement is a step, `expired`, `accepted` and `account` are its locks, and two
sign-ins may wait for each other until PostgreSQL breaks the deadlock.

**AtLeastOnce** and **OutboxPublisher**: rows with status, attempts and due time; workers that
poll, claim, call the handlers in turn, mark and retry; deaths and failed calls, counted by
`faults`. `fate` maps the five statuses to the four fates of the abstract specification.

**ExactlyOnce** and **Idempotency**: each arriving request is a process; `claimed` is the
uncommitted row another insertion waits for, `row` the committed record, `effects` the requests
whose change is committed.

`MC*` modules hold instances, symmetry and, for two of them, the bound of a `CONSTRAINT`.
Definitions whose comment begins "A mistake in the next definition" are plausible bugs of that
definition, kept to show that the properties notice them; no specification uses them.

## 3. What the runs show

| run | question | bounds |
|---|---|---|
| TripExecution_fleet | Two trips, one driver, his licence, his blocks and the exceptions: no double booking unsigned, no block unnoticed | 2 trips, 1 managed driver, 2 signable sets |
| TripExecution_delivery | Two trips of one order, three stops each, any order and time, two outcomes: trip explained by stops, order by trips, truthful settlement, closed is frozen | 2 trips, 3 visits |
| OrderlyExecution | Plans change under planned trips, shipments come late, one plan picks up twice; drivers follow the sequence: the order settles, the first arrival moves the trip, stops are the plan's, and released trips close (liveness) | 2 plans, 2 trips, 4 visits, weights to 30 against a capacity of 20 |
| TripRaces | Two sessions assign, block, release, deliver and close two trips of one order on stale reads: every commit publishes its event, the crew stands after the release, fulfilled is delivered | 2 sessions, 2 trips, 11 events a trip, `OneAfterTheOther` |
| TripFile | Two people submit, validate and waive evidence while stops declare whole, short, refused, lost and impossible quantities and the trip is closed: outcomes tell the quantities, satisfied is proven, one live submission, decisions stand, the close hides nothing | 2 stops, 8 declarations, 2 requirements, 2 attempts, 2 people, 2 sessions |
| RequestToOrder | A request quoted twice while the margin policy changes, and two requests whose customer has credit for one of them at a time: one order each, of an accepted version at its price, low margins signed, no exposure lost, and the refinement of OneCommitment | 2 requests, 2 versions and 1, 2 prices, 3 policies, 2 people, 2 sessions, `AlikeTogether` |
| Contracts | Two versions of one contract are drafted, signed, replaced and terminated by commands that overtake each other: one in force, agreed before, what was signed and what ended stands | 2 versions, 2 people, 2 signatures, 2 sessions |
| DocumentTemplates | Two versions of one format are configured, published and issued at once, with right and wrong fields: no gaps, documents match their version, and the refinement of Editions | 2 versions, 7 configurations, every subject of 2 paths, 1 document, 2 sessions |
| TeamAccess | Two tabs redeem while administrators invite, revoke and grant, invitations lapse and a connection is lost: revocations stand, and invitations resolve (liveness) | 2 invitations, 2 grants, 1 direct membership a grant, 1 loss, 2 sessions |
| OutboxPublisher | Two workers that may die or lose an answer: safety, the refinement of AtLeastOnce, and every event resolves in the behaviours without a fault | 3 events, batches of 2, 2 handlers, 2 attempts, 1 fault |
| Idempotency | One effect per key, denials without effect, refinement of ExactlyOnce; nobody waits for ever | 4 requests, 2 keys, 2 bodies |
| Outbox_crash | An event claimed by a worker that dies is never resolved (a violation) | 1 worker, 1 event, 1 fault |

Why the bounds are enough: the statements of a trip speak of at most two trips (double booking,
settlement) and of a first, a middle and a last stop; races between commands are between the
read of one and the commit of another, so two sessions show them; a requirement needs a second
attempt for a rejection to be followed by another submission, and one that is never submitted to be
declared; the declarations have a line for every branch of the derivation and one for every
violation, and one of them is empty; three events with batches of two let a worker hold one event while it delivers another
and leave one to the other worker; two versions let one be accepted before and one after the
request is, one contract version replace another and one format supersede another. Two constraints
keep the product of independent stories out of the two largest runs. `AlikeTogether`: versions,
prices and policies vary for the first request, and once there is a second, which shares its
credit, both are quoted alike. `OneAfterTheOther`: the trip ahead, at its last delivery, goes on
only when the other has been released smoothly, and before that the other has seven events
at most. Counters (`MaxEvents`, `MaxAttempts`, `MaxFaults`, `MaxWeight`, `VersionsOf`, `AttemptsOf`,
`MaxDocuments`, `MaxRows`, `MaxLosses`) are constants, each in a guard.

`CHECK_DEADLOCK FALSE` is given where the system comes to rest: closed trips, resolved events,
answered requests, converted or cancelled service requests, terminated contracts, superseded formats with
all documents issued.

### Fairness

`OrderlyExecution`: weak fairness of each trip's driver and of its operational close; planning,
release and fleet have none. `OutboxPublisher`: weak fairness of each worker (`publisher-cli`
loops, a supervisor restarts it) and of the passing of backoff time. Deaths are not prevented:
`EventsResolveWithoutFaults` speaks of the behaviours in which none happens, `EventsResolve` of
all, and fails. `Idempotency`: weak fairness of the server's handling of every request received;
none for clients. `TeamAccess`: strong fairness of each sign-in, because the person keeps signing
in and PostgreSQL gives a lock to who has waited for it, and weak fairness of its deadlock
detector; administrators have none. Safety properties are checked without relying on fairness.

### Disagreements between code and documents

`Outbox_crash` belongs to the entry of `findings` in `PROJECT.json`, with the quoted sentence: an
event whose worker died after the claim stays in `publishing`.

The modules state more sentences of the documents, comments and constraints that the commands do
not keep. Each is a definition whose comment quotes its source. To see the counterexample, put it in
place of the properties of the configuration; nothing else is to be changed, except where said.

| definition | configuration | what happens |
|---|---|---|
| OrdersSettle | TripExecution_delivery | deliveries recorded out of sequence leave the order in execution for ever |
| StopsInSequence | TripExecution_delivery | any pending stop can be reached at any time |
| ArrivalMovesTheTrip | TripExecution_delivery | an arrival recorded before the departure advances nothing, then or later |
| ReassignUntilRelease | TripExecution_delivery | a confirmed assignment cannot be superseded: a constraint aborts the command |
| ReleasedWithCredentials | TripExecution_fleet | a credential never recorded is no cause of the gate |
| ActiveCanBeBlocked | TripExecution_fleet | the second block repeats the event of the first, and aborts |
| NeverOverloaded | OrderlyExecution | a shipment created after the release adds weight unseen |
| BlockedIsMarked | TripRaces | a release that read before the block leaves no cause and no alert |
| TripNeverGoesBack | TripRaces | a command that read the trip before another's commit takes it back |
| VersionsAreDense | TripRaces | a version derived from a stale read skips a number |
| OutcomesStand | TripRaces | a late arrival resets the stop that has its outcome |
| OrderSettles | TripRaces | two last deliveries do not see each other |
| DriverExclusive of TripRaces | TripRaces with one driver, both trips starting at step 3 of `Course`, 5 events a trip and no constraint | two trips with one driver are released at once |
| LimitIsRespected | RequestToOrder | two commitments assess the credit before either adds to the exposure |
| AcceptedIsFrozen | RequestToOrder | a request completed after it was returned is accepted without the submission that freezes its time zones |
| SignatureIsKept | Contracts | an advance that read the version before its activation takes it back to review, where it is signed again |
| OneBindingVersion | Contracts | a version about to expire is left beside the one put in force |
| PublishedFieldsStand | DocumentTemplates | the trigger looks at the status alone: a superseded version, or one being published, gets other fields |
| UnknownPathsAbort | DocumentTemplates | the trigger accepts `path[]...`, which the rendering takes for a path without data |
| RejectedStands | TripFile | a rejected submission is rejected again, or accepted by who had read it |
| NothingSubmittedAfterWaiver | TripFile | a submission that read the requirement before the waiver is inserted after it |
| DeliveredWasPickedUp | TripFile | each stop declares its own `loaded`; nothing compares it with the pickup |
| OneMembershipPerInvitation | TeamAccess | a tab that read the invitation before another accepted it joins again, if the first membership was revoked meanwhile |

(`OrdersSettle` and `ArrivalMovesTheTrip` hold when drivers follow the plan, which
OrderlyExecution checks.)

Read in the code, without a definition of their own: `waiveEvidence` takes an exception as an option
although its comment says one is required, and waives a satisfied requirement too, where docs/03 §6
goes from Required to Waived only; rejecting evidence asks for no second person; a stop whose
quantities are all zero is `failed`, where docs/13 §9 compares delivered with planned and would
call it complete; the planned and loaded quantities of an outcome come from the client and are
compared with no shipment; a quantity with more than six decimals is cut off by the domain and
rounded by the database; a tenant can revoke the membership of its last administrator; the preview
renders the published version of a code, not the version asked for; a column of a block without
data prints blank; a mark that a body uses both as a block and as plain text prints the text
for its absence in one of them.

## 4. What is proved

`*_proofs` modules hold the theorems; they assume only the named assumptions on the constants
(typed and finite inputs; `None` is nobody and nothing) and hold for any number of orders, trips,
drivers, versions, sessions, events, workers and requests. Every safety property that a run checks,
invariant or action property, and the four refinements are theorems. Each component with a proof
module also has its type invariant proved, which no run repeats.

* **TripExecution_proofs** (with OrderlyExecution):
  * `CrewFollowsStatus`, which is inductive and tells that an active trip has a confirmed crew, so
    that the overlap query of the gate sees it; with it `DriverExclusive` (the step that matters is
    the release) and `BlockedIsKnown` (the block and the release).
  * `StopsAreThePlans`: a plan is fixed once a trip has it. With it `TripFollowsStops`: outcomes are
    never taken back, a status is only reached by the arrival or the outcome it stands for, and the
    arrivals out of sequence that move nothing leave what explains the status as it was.
  * `OrderFollowsTrips`: an order goes on by the start of a trip or by its settlement, and trips only
    advance. `OrderSettlesTruthfully` follows from the count of `settleOrder`, which is atomic here;
    TripRaces has it split. `ClosedIsFrozen` rests on a closed trip having all its outcomes.
  * for `OrderlySpec`: `ArrivalMovesTheTrip`, because nothing after the current stop has been reached
    yet, and `OrdersSettle`, because the last of the deliveries finds all others resolved: the two
    promises that any order of the stops breaks.
* **TripRaces_proofs**: an invariant that ties the stale reads to the rows: what a session has
  read can only lie behind, a released trip has its confirmed driver, a closed one its outcomes
  (`ClosedForGood`, proved only: the races that would break it take three sessions),
  and a session that found nothing pending is right for ever, because outcomes are never deleted.
  `EveryCommitPublishes`: the unique index makes each event of a trip another pair of version and
  type, so that their number grows with `event_seq` although versions repeat.
* **TripFile_proofs**: an invariant over the sessions: the submission that an open acceptance has
  read exists and was captured by somebody else, and what an open close holds as pending includes
  all that is required now, since nothing becomes required again. With it, `SatisfiedIsProven` (an
  accepted submission cannot be rewritten, and a waiver cannot become satisfied), `OneLiveSubmission`,
  `DecisionsStand` and, for fewer than 20 000 requirements, `ClosingHidesNothing`: from there on the
  rounding of completeness to ten thousandths can print a whole file that lacks one.
  `OutcomesTellTheQuantities`, for lines of any number and size: the derivation adds up lines, the
  reference definition looks at each. The lemmas say that the sum over a finite set exists, is a
  natural number, and is zero exactly when every term is; conserved lines do the rest.
* **RequestToOrder_proofs**: what a decision has read stays true until it commits, its request
  because it is locked (no two sessions decide upon one request) and its version because
  acceptance is terminal; with it, one order per request, orders that keep their version, signed
  margins and, action by action, the refinement of OneCommitment. `ExposureIsTheOrders`: the revenue
  of one more order is that of the others and its own, and the exposure grows by the same amount in
  the same step, whatever the profile was when the credit was assessed.
* **Contracts_proofs**: an invariant that ties each session to its version: what it read is true
  unless another has committed since, an activation has found rates and an author other than the
  signer, both fixed at the creation, and the versions it expires stay in force and locked until it
  commits. `OneInForce` rests on the unique index; the two action properties on a draft
  having no signature unless `overtaken` names it.
* **DocumentTemplates_proofs**: a publication that is written and not committed is the only one of
  its code and still finds the version it supersedes; with it, action by action, the refinement of
  Editions. The fields of a published version passed the checks unless `rewritten` names it, and
  with the checks of the rendering they leave no gap.
* **OutboxPublisher_proofs**: an invariant that says that a held event is in `publishing` (or
  `published` while an answer is lost), has one holder and at least one attempt, and that the
  handlers called so far have accepted; from it all safety properties (`PublishedWasAccepted`
  and `FailedIsExhausted` are proved only) and, action by action, the refinement of AtLeastOnce.
* **Platform_proofs**, Idempotency: an invariant that ties the phase of a request to the claim it
  holds; from it all safety properties (`SuccessesAreRecorded` and `AnswersAreTrue` are proved only)
  and the refinement of ExactlyOnce.
* **Platform_proofs**, TeamAccess (as the instance `Team`): the rows that a sign-in has written are
  nobody else's until it commits, so none of those it accepts can have been revoked, and a membership
  by invitation is by an accepted one; with it `RevocationsStand`. The types are part of the
  invariant; the bound on lost connections is not.

Some promises that concurrent commands break (the table in section 3) are proved under the one
hypothesis that excludes the race, which shows that nothing else is wrong with them:

| theorem | promise | hypothesis |
|---|---|---|
| SerialTripsAdvance, SerialVersionsAreDense, SerialCrewsHold, SerialOutcomesStand, SerialOrdersSettle | TripNeverGoesBack, VersionsAreDense, DriverExclusive and BlockedIsMarked, OutcomesStand, OrderSettles of TripRaces | no two transactions are open at once; for the last, a trip that is not delivered from the start |
| SerialSignaturesAreKept | SignatureIsKept of Contracts | no two transactions are open at once |
| SerialInvitationsJoinOnce | OneMembershipPerInvitation of TeamAccess | no two sign-ins are open at once; administrators go on |
| LockedCreditIsRespected | LimitIsRespected of RequestToOrder | nobody changes the profile while another transaction has an assessment of it (a lock on one row), and the policy counts what is committed |

The argument is the same in each: what an open transaction has read is still so when it commits
(`Fresh`, `ReadsAreFresh`, `ReadsAreUnanswered`, `AssessmentsAreTrue`). Of the other promises
of that table, `NothingSubmittedAfterWaiver` is a race too, without a theorem; the rest fail for want
of a rule, one command after the other.

Induction over numbers is by the least counterexample, where a proof needs it (`NumberInduction`),
because the library's theorems take an operator that the provers cannot instantiate.

Only model-checked: the liveness properties (`ReleasedTripsClose`, `EventsResolveWithoutFaults`,
`NobodyWaitsForEver`, `InvitationsResolve`), which are out of the provers' reach as everything that
rests on fairness and ENABLED is.

## 5. Not modelled, and the plan

Not modelled: parsing, routes, row level security, registration of masters, the provisioning of
tenants, scripts (no state that commands contend for); the wording of documents; the arithmetic of
rates and charges. What is left, in order:

1. Policies: versions per scope, published at once, and the resolution of the most specific.
2. The life of an exception (requested, decided, used, lapsed) as a module of its own, which the
   gate, the margin and the waiver would share.
3. Money: allocation of an amount without losing a cent, as functions against a reference.
4. `planTrip` in TripRaces, with an order that is read as committed and written later.
5. Proofs: that a lock of the row it reads, and not a single open transaction, is enough for each of
   the trip commands.
