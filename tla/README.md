# A TLA+ verification of the Service Commerce Platform core

Specifications, model-checking configurations and machine-checked proofs kept
beside the code of `stardance-scp`. Paths below are relative to the repository
root as `src/...`; TypeScript lives in `src/src`, migrations in `src/db`.

## 1. The system and its parts

The platform sells appointments. A customer's demand is judged against market
configuration, becomes an **offer** that holds capacity, is committed into a
**Service Request**, and the request is then worked by an owner, providers and
the customer through a governed state machine. State is kept in PostgreSQL;
every operation runs inside `withTransaction` (`src/src/db/pool.ts`): READ
COMMITTED, commit on any normal return (a refusal value included), rollback and
retry on deadlock or serialization failure, rollback and rethrow otherwise.

| Part | State | Operations | What is hard about it | Correct when |
|---|---|---|---|---|
| Operational lifecycle (`lifecycle/*`) | request state, dispatch attempts, assignments, confirmation contexts, recovery, fulfillment result | the sixteen actions of `orchestrator.ts` | late answers against expiry, reassignment against consent, refusals after writes | offer, authority, consent, capacity and evidence agree with the request's state |
| Action envelope (`lifecycle/orchestrator.ts`, `actions.ts`, `db/pool.ts`) | `core_operational_action` | lookup, row lock, second lookup, savepoint, insert, commit | duplicate deliveries, one key on two requests, lost replies, retries | a key is decided once, its effect lands with it, callers hear that decision |
| Commerce kernel (`kernel/*`, kernel half of `capacity.ts`) | `core_sellable_offer`, `core_capacity_hold` | evaluate, create, supersede, replay, commit, invalidate, expire, release | judging free and taking are different moments; several resources; two clocks that run out | a slot is sold once, and for a whole commitment |
| G2 capacity (`core/capacity`) | HELD and COMMITTED holds of a request | hold, commit, release, withdraw | rivals between loss and re-hold | an ended request has no time left, an adopted amendment its own |
| Amendment (`core/request/amendment.ts`) | `core_amendment`, request versions | propose, validate, apply, reject | validated now, applied later, consent in between | consent is always about the authoritative version |
| Core dispatch (`core/dispatch`, `core/confirmation`, `core/fulfillment`) | same tables as the lifecycle, without its envelope | offer, respond, sweep, assign, confirm, fulfill | accept against sweep; reads that nothing locks | one decision per offer, and the request says the same |
| Legacy services (`services/*`) | G1 tables | accept, time out | accept against sweep | one decision per offer |
| Channel (`channel/*`, `host/channelHost.ts`) | channel messages and events | ingest, correlate, send, receipt | redelivery, reordering, sending inside a transaction, one id on two channels | nobody is held to what was not said about that question; a question is decided once |
| Demand ingress (`customer/*`, `host/customerHost.ts`) | ingress records, catalogue bindings, price versions | submit, replay, project the catalogue | the configuration and the prices change while hosts serve and while a demand is being taken | an accepted demand was governed, and keeps its terms |
| Provider supply (`provider/*`, `host/partnerHost.ts`) | sessions, profiles, cards, availability, windows | submit, approve, reject, confirm, supersede | versions decided while others replace them; refusals that commit half their work | what is sold is what was confirmed and approved |
| Tenant configuration (`config/*`, `runtime/*`) | configuration versions, the active one | publish, approve, activate, roll back | running processes keep what they resolved; a rollback takes what nobody approved | what governs was valid, and it is on record how it came to govern |
| Owner (`owner/*`) | none of its own | commands, queue, matching | two actions under two keys | see lifecycle |
| Host, adapters, catalogue | none, or reference data | I/O | | |

They interact through the database and by direct calls: the owner's commands
(`owner/commands.ts:226`) and channel ingress (`channel/ingress.ts:601`, key
`channel:<event>`) call `executeOperationalAction`; the orchestrator writes the
lifecycle rows and releases capacity; `commitOffer` consumes kernel holds and
creates the request the orchestrator then works. A host reads the active
configuration when it starts, projects it into Core's catalogue and service areas,
and judges by it what customers and partners submit. `PROJECT.json` lists every
part with its status, and, under `hazards`, each place where something can go
wrong that a test would hardly reach, with the property that would notice.

## 2. Modules

### RequestLifecycle

One Service Request. `executeOperationalAction` takes the request's row with
`FOR UPDATE` before any handler runs and handlers touch only rows that hang off
that request, so **each handler is one action** and one request is the whole
state (that this isolation really holds is what ActionEnvelope checks). Other
requests appear as `busy`, the provider windows rivals hold.

| Variable | Code |
|---|---|
| `state`, `currentVersion` | `core_service_request` |
| `judgement`, `eligible` | newest `core_request_qualification`; the CUSTOMER role it grants |
| `attempts` | `core_dispatch_offer` in `attempt_version` order |
| `assignments` | `core_assignment` in `assignment_version` order |
| `contexts` | `core_customer_confirmation` in `context_version` order |
| `offerElapsed`, `consentElapsed` | `effectiveAt` past the newest row's `expires_at` |
| `recovery`, `result` | newest `core_operational_recovery`; `core_fulfillment.result` |
| `holds`, `busy` | `core_capacity_hold`, this request's and everyone else's |
| `approved` | `core_provider.supply_status` |

Actions carry the names of the operational actions. A refusal that has written
nothing is a stutter; `CANCEL_SERVICE`, which writes before it can be refused,
is a step with both outcomes. `Conclude` is `terminalResult`, shared by three
actions as in the code. Who may act (owner, customer, SYSTEM) is a property of
the caller and is left to `Next`; the CUSTOMER role is kept because a judgement
grants it. `openAttempt`'s superseding of an open row and the refused tail of
`EXPIRE_DISPATCH` cannot be reached: `OfferMatchesRequest` is what says so.
`currentVersion` is 1 throughout: it moves only by amendment, which CoreBooking
models. The graph of states itself is in `ServiceRequestStates`, which both extend.
`Unanswerable` is a state the code can reach and not mend: once the question was
withdrawn by a reassignment, or its window closed, nothing asks the customer again,
for `REQUEST_CUSTOMER_CONFIRMATION` is accepted from OWNER_ASSIGNED alone. What
`NothingComesBack` says is that it then stays unanswered: such a request is never
confirmed, only cancelled or given up.

### CoreBooking

The core foundation (`src/src/core`) can work a request without the orchestrator:
dispatch offer, answer, expiry sweep, assignment, confirmation, fulfillment, and the
amendment of what was committed, which has no other path. Here no action takes the
request's row first; `transitionRequest` locks it when it comes to move it. So the
question is what an operation read *before* that lock. Where all of it is final
by then, or read under a lock of its own row, the operation is one action. Four
operations are two:

| Operation | First step reads | Second step writes |
|---|---|---|
| `offerDispatch` | `ReadForOffer`: the owner's judgement | `OfferDispatch`, or `OfferRefused` |
| `expireDispatchOffers` | `SweepListsOffer`: which offers are overdue | `SweepExpiresOffer`, or `SweepSkipsOffer` |
| `confirmBooking` | `ReadForConfirmation`: the authoritative version | `ConfirmBooking`, or `ConfirmationRefused` |
| `applyAmendment` | `ReadForAdoption`: the request's state, its assignment | `Adopt`, or `AbandonAdoption` |

`versions` are the `core_service_request_version` rows and `amendments` the
`core_amendment` rows; only the newest can be open (`uq_amendment_single_open`).
`ValidateAmendment` drafts the version after the authoritative one, which must be
free (`uq_request_version`): the candidate of an amendment rejected after its
validation (`DraftIsStranded`) stays in the way of every later one, which
`AuthorityMovesByAdoption` states: from then on nothing is drafted or adopted. `Adopt` swaps capacity under its
savepoint, moves `currentVersion`, and ends the consent if validation said so.
`offer` is a single row: this path always inserts attempt 1, so a request whose
offer was declined or expired cannot be offered again by it. A proposal's fields and
hash are abstracted to the terms (window and price) that its validation drafts.

### OperationalAction, DecideOnce, ActionEnvelope

`OperationalAction` holds what the other two share: calls, fingerprints, rows,
`Replay` (`replayOf`). `DecideOnce` is the abstract promise: a key is settled in
one step together with its effect, and every call is told that decision, a
conflict, or an error. `ActionEnvelope` is the code: `EarlyCheck`, `LockRequest`,
`Recheck`, `Handle`, `Persist` (unique index, rollback to the savepoint),
`Commit`, each in a snapshot of its own, plus transactions lost and retried
(`Retry`), lost and reported (`Fail`), committed but unheard (`CommitUnheard`),
and commands sent again (`Redeliver`). A handler is reduced to accepting from one
stage of its request. `KeepsPromise` is the refinement: an answer exists once the
call has returned, everything else maps to itself. `WaitsFor` says which
transactions a call's next statement waits for. Refusals made before anything
is recorded (unknown action, unknown request) are not modelled.

### SlotLedger, SellableOffer

`SlotLedger` is what the kernel's holds promise, without offers' states, clocks of
their own or holds as rows: who has each resource, which are sold, and the four ways
that may change (`Take`, `GiveUp`, `Sell`, `Lapse`). `SellableOffer` is the code and
`KeepsSlots` the refinement: the holder of a resource is the offer with a blocking
hold on it, the sold are the consumed.

Offers of one window, so a resource has at most one holder. `Evaluate` and
`CreateSellableOffer` are two steps of one transaction because other transactions
commit between the free/busy read and the inserts; from the first hold on,
advisory and row locks make the rest one step. `Taken` is the prefix of an
offer's resources that `placeKernelHold` obtains before it meets a conflict;
what was written before the refusal stays, since the refusal is committed.
`quoted` says which offers a customer was given: those created in full, and those
handed out by replay of their key. An evaluation may name a predecessor that exists,
in whatever state: `closeOffer` does not ask, so a COMMITTED offer becomes SUPERSEDED
and the retry that `kernel/commit.ts:81` promises its one result is refused.
`CommittedOrReplaced` says that nothing else takes a commitment back. `lapsed`, `overdue` and `drifted` are the three
ways `revalidateOffer` finds an offer stale. Pricing and the choice of a slot are
data.

### Channel

The lifecycle composed with the conversation about one request: it EXTENDS
`RequestLifecycle`, whose provider and customer now answer only through events.

| Variable | Code |
|---|---|
| `messages` | `core_channel_message`, by age: what a message was about, and its status |
| `events` | `core_channel_event`, by transport and id |
| `actions` | `core_operational_action`, by `idempotency_key` |

The webhook is one transaction behind an advisory lock on the event id, so an
arriving event is one action: `Receipt`, `RefuseEvent` (authenticity,
correlation, scope, actor, intent: steps 1 to 7 write nothing but the event; an
authentic payload that does not parse leaves not even that and is a stutter) or
`Answer`, which executes the orchestrator's handler or replays what the key
already settled. The key is `channel:<id>` and leaves the channel out, so the
instance delivers one id on two channels. An event lost with its transaction,
and one delivered again, change nothing and are stutters: `EventsAreFinal` is the
claim about the second. `core_channel_message.status` never shows CREATED to
another transaction, for the transport is asked before the row is committed.
`Operate` is everybody else: the owner, the expiry of dispatches and the clocks.
Rival bookings and the provider's standing, which the conversation does not read,
stay as they began.

### ProviderSupply

One partner and one week. The host's request is one transaction and one action:
the key is claimed under an advisory lock, cards and versions are decided under
their row lock.

| Variable | Code |
|---|---|
| `session`, `supplyStatus` | the live `core_provider_session`; `core_provider.supply_status` |
| `profiles`, `cards` | `core_provider_profile` by version; `core_provider_card` by age |
| `publicId`, `capabilities` | `core_provider_public_id`; `core_provider_service` |
| `schedules`, `windows` | availability versions of the week; the active windows linked to them |
| `catalogue`, `areas` | services with a binding; active service areas |
| `ingress` | `core_provider_ingress`, by key |

Refusals commit: `ProfileRefusedForPortrait` leaves a provider without a profile,
`ApprovalRefused` a public id and some capabilities, `ConfirmationRefused` a week
CONFIRMED without capacity. Other refusals, replays and conflicts write nothing, but
what a replay *answers* is not what `provider/ingress.ts:13` promises ("the original
result"): it is read from the rows as they are by then. `RepeatIsTold` is that answer,
per command: the newest profile version, the card of a profile that is still the
newest, the week if its regions are governed still, the confirmed week if it is the
newest still, the card that was decided. `AnsweredUnlessOvertaken` says that the row
a key names is as its command made or decided it, and that its repetition is told of
it unless a newer profile, a newer week or another coverage overtook it.
`Sellable` is the kernel's join of the tables, `ApprovedSupply` the owner's; that
the first never shows more than the second is `SellableIsApprovedSupply`.

### TenantConfiguration, GovernedDemand

`TenantConfiguration` is the store: versions published (in two steps, since the
newest is read without a lock), approved, activated, rolled back to. `events` are the
rows of its log that tell what became of a validated version. A rollback refuses only
what is REJECTED (or DRAFT, which nothing writes), so a version nobody approved may
govern: `OnlyApprovedGoverns`, the store's own rule, is violated, and
`ForceIsOnRecord` is what holds instead.
`GovernedDemand` EXTENDS it with the hosts that read the active version
(`StartRuntime`), project it (`ProjectCatalogue`, a later transaction) and serve it
until they stop, and with the demands they take. Every version lists one service,
which stands for the catalogue; `Offered` says whether a version has it active.
A submission is one transaction and four steps: `BeginSubmission` judges the intent
by the host's version and finds the binding, `ReadService` and `ReadPrice` are the
statements of `buildCommercialSnapshot`, and `SubmitCustomerDemand` commits. At READ
COMMITTED each sees what is committed by then, and no lock keeps another host's
projection from falling between them. `submission` is that transaction, under the
advisory lock of its key; `since` marks in it where the prices stood when it began.
So an ingress row records the version its *host* read, which need not be the one "in
force when this intent was accepted" (migration 011:109), and a price that may be of
another version again; `DemandIsGoverned` says how far apart they can be. A
projection stays one step: it begins by updating the service's row, which the
projection of another host then waits for.

### MC modules and proof modules

The `MC` modules only give constants their values. `RequestLifecycleProofs`,
`RequestSafetyProofs`, `ChannelProofs`, `ActionEnvelopeProofs`,
`SellableOfferProofs`, `CoreBookingProofs`, `GovernedDemandProofs` and
`ProviderSupplyProofs` hold the theorems. Definitions marked as deliberate faults
stand in for a definition when one asks whether a property could fail at all.

## 3. Runs

| Run | Instance | Shows |
|---|---|---|
| request_lifecycle | 2 providers (symmetric), 2 attempts, 3 assignments; 792,920 states | offer, authority, consent and conclusion agree with the request; what ended or cannot be answered does not come back; endings free capacity; rows only accumulate |
| action_envelope | 4 calls, 2 keys, 2 requests, 1 fault, 2 deliveries per call; 55,168 states | isolation, effects as decided, honest answers, no circle of waits, every call answered, refinement of DecideOnce |
| sellable_offer | 3 offers, 2 resources; 328,719 states | exclusivity, consumption only for a request, no hold outliving its offer, a commitment undone by a successor only, refinement of SlotLedger |
| core_booking | 1 provider, 2 windows, 1 price, 2 amendments; 740,664 states | offer and request agree, consent matches state, versions move by adoption and trace back to adopted amendments, an amendment is decided once |
| cancel_atomicity | as request_lifecycle | **violated**: a refused cancellation has revoked, withdrawn and released |
| inherited_consent | as core_booking | **violated**: amended terms become authoritative under a consent to the old ones |
| whole_commitment | as sellable_offer | **violated**: a partly held offer is replayed as good and committed |
| unapproved_governor | as governed_demand | **violated**: a version that was validated and never approved is rolled back to, and governs |
| provider_supply | 2 services, 2 regions (both symmetric), 1 key, 2 profiles, 2 cards, 2 weeks; 563,872 states | what is sellable was confirmed and approved; decisions are taken once; a repeated command is told what it settled unless it was overtaken |
| schedule_and_supply | as provider_supply | **violated**: a refused confirmation leaves a week CONFIRMED without its capacity |
| channel | 1 provider, 2 attempts, 2 assignments, 2 messages, 3 events with 2 ids on 2 channels; 1,439,017 states | answers are about the question asked, a question is decided once, service rests on both parties' replies about it, what is recorded stays |
| governed_demand | 2 hosts (symmetric), 1 key, 2 intents, 4 versions, 3 prices; 811,704 states | what governs was valid and is on record; demands are governed; accepted terms are frozen |

The five violated properties each state a sentence of the code's own comments,
quoted under `findings` in `PROJECT.json` with the line that contradicts it.

**Why the bounds are enough.** A request has room for a declined or expired
attempt and the next one, so stale answers and late sweeps meet a successor; three
assignments let a confirmed request be reassigned and reassigned back; two
providers make each of these go somewhere else. `contexts` needs no bound: a
request never returns to OWNER_ASSIGNED, so it opens at most one row. The four
calls meet in every way a key can be met: two deliveries of one command, the same
key on another request, the same effect under another key; one fault and one
redelivery of each let a lost reply be followed by a repetition. In the kernel one
offer conflicts with another in the *last* of its resources, the case in which a
prefix was already taken, and the third replaces that other, open or committed, on a
resource they do not share: a predecessor's live hold counts as busy like anybody's. A booking has two
amendments, so that one is decided before the next is proposed, and two windows, so
that an amendment can change the terms, or not, and meet a rival or the request's own
hold; a candidate rejected after its validation strands its draft before the second.
A partner has one key, so that a retry can meet everything that happened since; a second card
after the first is decided, a second week after the first is confirmed; and two
services and two regions, so that a projection may know one and not the other. Three
events let two channels deliver one id, about the same message or another, and a
third answer come late; a second assignment lets a confirmed customer's provider be
replaced under the conversation. Of four configuration versions the last is invalid and the
third takes the service off; the other two differ in price and in what they admit,
so a stale host, a late projection and one that falls between the reads of a
submission all show; one key is enough there, since submissions under different keys
share nothing they write. The theorems remove the bounds for
every safety property that a passing run checks.

**Deadlock** is not checked: a request or an offer that has ended may really stay
as it is, and calls that are all answered have nothing left to do.

**Fairness** is assumed in one place: weak fairness of `Progress(c)` for every call
of the envelope, i.e. a transaction whose next statement can run does run, which
Node and PostgreSQL provide for an open connection. Faults and redeliveries are
never owed. The other modules have no fairness and no liveness
property: nothing in the code schedules the expiry of a dispatch, of an offer or
of a hold, and no person is obliged to answer.

## 4. Theorems

All proofs are checked by tlapm down to the last leaf and hold for every value of
the constants under `BoundsAssumption` (bounds are positive numbers) and
`OffersAssumption` (each offer needs a non-empty sequence of resources, and
replaces an offer or nothing); CoreBooking's hold for any number of amendments, and
GovernedDemand's under `ConfigurationAssumption` and `DemandAssumption` (each version
has a price and a set of intents it admits). ProviderSupply's hold for any services,
regions and keys under `SupplyAssumption` (bounds are numbers, no key is `None`).
ActionEnvelope's hold for any finite set of calls, none of them `None`, over any keys
and requests (`CallsAssumption`), and for any number of faults and deliveries
(`FaultsAssumption`); Channel's for any set of events.

* **RequestLifecycleProofs.** `TypeCorrect`. The lemmas `EndActiveRows`,
  `EndedRows`, `DecideRows` say what the row operators do to a table, and carry
  most of the later proofs.
* **RequestSafetyProofs.** A ladder, each rung inductive only with those below:
  `TypeOK`, then `OfferAlwaysMatches` (an open offer is the newest attempt),
  then `AuthorityAlwaysChained` (so a decision on an open offer cannot add a second
  acceptance, and an assignment's attempt stays accepted), then
  `AlwaysUnderConsent` (so the context confirmed is about the only active
  assignment). `ConclusionAlwaysClean` needs types only.
  `NothingEverComesBack`, `EndingAlwaysFrees` and `EvidenceOnlyGrows` are action
  properties that follow, action by action, from the type invariant; the first also
  from `OfferMatchesRequest`, without which a late answer could move a request that
  awaits its customer. `CustomerIsAskedOnce` rests on the graph of states
  (`MovesAreLegal`): no path leads back to a state where a question is put.
  `RevocationCancels` says how far the fault of cancel_atomicity goes.
* **ChannelProofs.** `ConversationIsALifecycle` shows that every step of the
  conversation is a step of RequestLifecycle or leaves the request alone, so the
  theorems above hold of it too. `CInv` adds to types and `OfferMatchesRequest` what
  ties events, actions and the request together: what an accepted action did still
  stands (`ActionsStand`), no two accepted actions are the same (`ActionsDiffer`: the
  second would have found its row decided), every accepted answer is such an action
  about what it replied to (`AnswersOnRecord`), and every decision has its answer
  (`DecisionsAnswered`), because the provider and the customer act only through
  events. All of it needs that a request asks for consent once (`AskedOnce`): an
  action about a context names none, so a second context could be taken for the first.
  `ServiceAlwaysOnTheirWord` joins this with the lifecycle's theorems: whoever is in
  service rests on the last assignment and the consent to it (`AuthorityChain`,
  `ConfirmedUnderConsent`), each of which was decided, so each has its event.
* **ActionEnvelopeProofs.** `IInv` ties locks to steps: a transaction between its lock
  and its end owns its request's row (`Locking`), so what its handler judged stays so
  (`Judged`), and whoever is about to commit a row is alone with its key
  (`KeyIsFree`), which is what the waiting insert of `Persist` buys. `AboutToTell`
  says what a call will be told before it is told. With these, a landing decision
  finds its key free, adds one element to the request's evidence and one stage to the
  request, and every step maps to `Settle`, `Lose`, `AskAgain` or a stutter of
  DecideOnce (`EnvelopeDecidesOnce`). `WaitsAlwaysEnd` follows from `Locking`: who owns
  a row can wait for a key only, and who has a key in flight only has to commit.
* **SellableOfferProofs.** `IInv` conjoins type correctness and the three
  invariants: that a slot is exclusive needs that a closed offer holds nothing
  live, which needs that consumed holds belong to requests. `HoldsOnlyEnd` treats
  at once every step that only ends holds; `CreateStep`, `CommitStep` and
  `CloseStep` are the others. `SoldIsKept` follows from `IInv`, and so does
  `HoldsKeepSlots`: exclusivity makes the holder of a resource the one offer that
  blocks it, no live hold of a predecessor is in its successor's way
  (`PredecessorGivesWay`), and each action then is `Take`, `GiveUp`, `Sell`, `Lapse`
  or a stutter of SlotLedger. `CommittedUnlessReplaced` is inductive beside it, action
  by action. `CommitmentIsAPrefix` confines whole_commitment; its invariant is that
  holds are placed in lock order.
* **CoreBookingProofs.** `IInv` conjoins types, `NoSplitBrain`,
  `ConsentMatchesState` and `AmendmentsInOrder`, which is why an adoption may act on
  what it read two steps before: its amendment is still the newest and open, its
  candidate still the next version, and one that ends consent was validated on a
  consent that, once given, only an adoption ends (`ConfirmedStays`). Had the request
  been confirmed since it was read, such an adoption could leave it confirmed without
  consent; `AdoptionReturnsTheRequest` shows it cannot. `AuthorityOnlyByAdoption` and
  `AmendmentsDecidedOnce` follow step by step from `IInv`, and `AuthorityAlwaysTraced`
  is inductive beside it.
  `ConsentDriftsInTwoWindows` confines the inherited_consent run: consent parts from
  what is promised only when a change is adopted that the customer confirmed past
  after its validation (`Overtaken`, which only a confirmation brings about), or when
  a confirmation lands that read its version before an adoption. TLC reaches both.
* **GovernedDemandProofs.** `IInv` conjoins types, `GovernanceInv` (`ForceIsOnRecord`;
  `NothingUnvalidated`: what was not rejected was valid, without which a rollback
  could put anything in force; `ApprovalsFit`: an approval on record fits the state),
  `DemandIsGoverned` and `PricedByProjection` (there are prices exactly since the
  first projection). What a host read stays proven however long it keeps it, because
  no step takes a version out of ACTIVE or SUPERSEDED; so does what was projected or
  recorded. `RepricedRows` says what a projection does to the prices, also to those a
  submission has read. `ApprovalIsSkippedByRollbackOnly` confines the
  unapproved_governor run, and `EveryDemandIsQuotedAsRead` says what a submission may
  be charged: a price its transaction read, the newest when it began or appended
  since. `TypeOK` of this module is proved and not among the run's properties.
* **ProviderSupplyProofs.** `IInv` conjoins types, `SupplyIsWhatWasConfirmed`,
  `KeysStand` (the row a settled key names is as its command made or decided it) and
  `Standing` (an applicant has no provider yet; whoever is APPROVED has a public id
  and an approved card), and `SellableAlwaysApproved` follows from it. A settled key
  names a row that others go on to change, so each action is shown (`StepOK`) to let
  rows only evolve: profiles stay, a decided card stays, a week keeps its regions and
  never reopens. `RowKept` then keeps every key true at once, and `DecisionsStand` is
  what `StepOK` says of a step. `RepeatsAlwaysAnswered` goes from the row to the
  answer: by cases on the command, each of the code's reads finds that row or one
  that came after it. `ScheduleDriftsByRefusalOnly` confines the schedule_and_supply
  run to the one refusal that exhibits it.

Proved, and not asked of TLC because a stronger property of the same run implies them
or took their place: `DecisionIsFinal` (ActionEnvelope), `SoldStaysSold`
(SellableOffer), `NetworkFactsAdvanceNothing` (Channel).

Model-checked only: that every call is answered (`EveryCallIsAnswered`) and the
fairness that `KeepsPromise` claims beside its safety. Liveness under fairness and
ENABLED are beyond the proof system used; so is induction over what recursive
definitions compute (no module here needs any).

## 5. Not modelled, and what is left

Left out for good: pricing, duration and alternative search, validation of
configuration documents, message rendering and the reading of free text, HTTP
hosting, adapters, read-only projections, uploaded media, and the legacy booking
services (`services/*`), which no host calls.

Modelled, and with nothing in the code to claim: an approval takes the capabilities
of the profile that is newest then, not of the one the card was submitted with
(`provider/card.ts:503`); EXPIRE_DISPATCH may resolve a
recovery opened for another reason (`lifecycle/recovery.ts:63`), and an open one
outlives a completed service; core dispatch can never offer a declined request again
(`core/dispatch/dispatchOffer.ts:140`). Two more are stated as what they lead to, for
nothing in the code promises a way out: a request may await a customer whom nobody can
ask (`lifecycle/orchestrator.ts:872`), and a rejected draft ends all amendment of its
booking (`core/request/amendment.ts:322`). Three sentences the code does not keep are
stated as what holds in their place, and named there: a retried commit after a
supersession (`CommittedOrReplaced`), the original result of a partner's repeated
command (`AnsweredUnlessOvertaken`), and the configuration in force when a demand is
accepted (`DemandIsGoverned`). No property is stated where no comment, doc
or test says what should hold.

What is left, in this order:

1. **HoldLocking**: advisory and row locks taken hold by hold, the deadlock the
   sorted keys are meant to exclude, a superseding offer that updates rows first, the
   opposite lock orders of core dispatch and the orchestrator, and a rival that
   expires holds by the database's clock while the commit judges them by its
   caller's; then SellableOffer composed with the lifecycle (kernel holds never
   receive a `request_id`).
2. **Owner commands**: pairs of actions under two keys, and the audit log, whose key
   is unique over all tenants.
