# Ghost Mesh in TLA+

Ghost Mesh is a runtime for *cards*. A card moves through the buckets of a
declarative workflow graph, a *Patch Panel*; workers claim cards from input
pipes under time-limited leases, submit references to artifacts through output
pipes, validators choose exits, and every change leaves an event in the card's
history. The runtime exists twice, in memory and on Postgres, beside a small
Postgres lease store. Above it a node executor, boundary adapters, a registry
of panels, shadow runs, intents and an authorization service make several
runtime calls per request. This directory models these parts, checks the models
with TLC and proves the central results with TLAPS.

Source paths are relative to `src/src/ghostmesh/`.

## 1. Inventory

| component | source | state | operations | modelled in |
|---|---|---|---|---|
| Patch Panels and their validator | `patchpanel/validator.py`, `domain/models.py`, `artifacts/validation.py` | none (a panel is a value) | `validate`, pipe resolution, acceptance contracts | `PatchPanel` |
| Card runtime contract | `runtime/service.py` | none | the protocol class and shared helpers | `LeaseService`, `PatchPanel` |
| In-memory runtime | `runtime/memory.py` | dicts of panels, cards, leases, events, artifacts, idempotent results | register, create, claim, submit, renew, release, expire, validate, move, record | `CardRuntime` |
| Lease store | `runtime/sqlalchemy_store.py` | tables `leases`, `idempotency_records`, row locks | `acquire_lease`, `release_lease` | `LeaseStore` |
| Durable runtime | `runtime/postgres.py`, `persistence/tables.py` | eight tables, row locks, unique keys | as in memory, each a transaction | `PostgresRuntime` |
| Node executor | `nodes/executor.py` | none of its own | source, worker, validator, sink; topology check, publication, provisioning | `NodeExecutor`, `Publication`, `Onboarding`, `Delivery` |
| Boundary adapters | `boundaries.py` | none of its own | ingress with deduplication, egress with idempotency keys | `Delivery` |
| Shadow runs and mutations | `runtime/shadow.py` | links, mutations, in memory | create, complete; propose, validate, promote | `Delivery` |
| Registry | `registry/service.py` | registry entries | register, search, update, archive, supersede | `Registry`, `Publication` |
| Genesis | `genesis/service.py` | intents, deduplication index, in memory | receive, search, launch, propose | `Genesis` |
| Authorization | `auth/*` | participants, roles, grants, audit trail | authorize, assign, grant | `Authority`, `Onboarding` |
| Bootstrap | `bootstrap.py`, `defaults/bootstrap.py` | none | registers system workflows, seeds the root operator | `SystemPanels`, `Publication`, `Onboarding` |
| HTTP API | `api/main.py` | none of its own | the routes that write | the actions of `Publication`, `Onboarding`, `Genesis`, `Delivery` |
| Panel loader, artifact stores, MCP server, SDK, CLI, observability, configuration | the rest | none, or external | input, output and gateways | not modelled |

**How they interact.** API and MCP handlers authorize a request and call one
operation of a component. The node executor, the boundary adapters, the shadow
service and Genesis call the card runtime, several operations per call and
without a common transaction. The sinks of the two system workflows publish
panels to the registry and provision participants. Panels registered with the
runtime decide where claims look and where submissions and validations go.

**What is hard.**

* *Concurrency.* Every Postgres operation is a transaction under READ
  COMMITTED: what a statement read may be stale when the next one writes, and
  a lock that is granted late does not repeat the test that came before it.
  API handlers are synchronous and run in a thread pool, so the in-memory
  dicts are shared by threads as well.
* *Time.* A lease ends by submission, release, sweep or by the clock; the last
  one leaves the record as it is.
* *Retries.* Idempotency keys are shared by all operations; a retry may race
  the request it repeats or come after the state has changed.
* *Versions.* A panel may be replaced under cards in flight.
* *Failure.* Transactions abort between statements; executor calls fail
  between runtime calls.

**What makes each component correct.** Panels: what `validate` accepts can be
executed. Runtime: one active lease per card, evidence that agrees with the
state, keys that are answered once, no card lost. Lease store: the atomic lease
service, in spite of interleaving. Executor: a sink takes effect only after the
approvals it names, completely and once, whatever attempt was cut short.
Boundaries: one effect per delivery and per egress, evidence in order. Shadow:
no egress of shadow cards, a promoted mutation is in force. Registry: what is
indexed can be run. Genesis: one launch per deduplication key. Authorization: a
provisioned participant has all the permissions of its roles, and only approved
ones.

`PROJECT.json` lists the hazards line by line, with the properties that cover
them.

## 2. Modules

| module | what it is |
|---|---|
| `PatchPanel` | panels as records; `validate` and its parts; `resolve_pipe_bucket` as `Resolvable`, `pipe_bucket`, `pipe_node`; the artifact checks |
| `CardRuntime` | `InMemoryCardRuntime`; one action per method |
| `LeaseService` | abstract: what the protocol promises about leases, every operation atomic |
| `LeaseStore` | `acquire_lease` statement by statement, `release_lease` |
| `PostgresRuntime` | `PostgresCardRuntime`; transactions as lists of statements |
| `CardCalls` | the runtime as its callers see it: each call one transaction, with its idempotency key |
| `NodeExecutor` | executions as sequences of such calls, cut short anywhere (`EXTENDS CardCalls`) |
| `Registry` | registry entries and their life cycle |
| `Publication` | `system_pp_approval`, the publication sink, the bootstrap of workflows and the `/registry` routes (`EXTENDS NodeExecutor, Registry`) |
| `Authority` | participants, assignments, grants, role catalogue, scope matching |
| `Onboarding` | `system_agent_registration`, the provisioner sink, the seeding of the root operator and the `/participants` routes (`EXTENDS NodeExecutor, Authority`) |
| `Genesis` | intents over the publication workflow (`EXTENDS Publication`) |
| `Delivery` | boundary adapters, worker execution, shadows and mutations (`EXTENDS NodeExecutor`) |
| `SystemPanels` | the two workflows of `defaults/patchpanels/` |
| `HelloWorld` | the panel of `examples/patchpanels/hello-world-patchpanel.yaml`, a second version of it and a second workflow with the same pipe names |
| `MCCardRuntime`, `MCLeaseStore`, `MCPostgresRuntime`, `MCPublication`, `MCOnboarding`, `MCGenesis`, `MCDelivery` | instances for TLC |
| `CardRuntimeProofs`, `LeaseStoreProofs`, `PostgresRuntimeProofs`, `PublicationProofs`, `OnboardingProofs`, `DeliveryProofs` | theorems about the module of that name; `PublicationProofs` also about `Genesis` |
| `PatchPanelLemmas`, `NodeExecutorProofs` | lemmas that several of these cite: first matches and pipe resolution; what the calls of `CardCalls` and the steps of `NodeExecutor` leave true |

### PatchPanel

A panel has an id, a version, buckets (a function to acceptance contracts),
nodes (a sequence: the code takes first matches), edges, pipe bindings and
contracts. Ids are sequences of the parts between colons, because the two
runtimes cut `"id:version"` at different colons (`rsplit` in memory, `split`
on Postgres). Artifact references keep what rules can tell apart: id, card,
role, and whether they are well formed.

### CardRuntime

Variables are the dicts of `InMemoryCardRuntime` (`panels`, `cards`, `leases`,
`events`, `artifacts`, `idempotency`), the clock `now`, and `answers`, a
history variable of the results given under each key. Cards and leases are
numbered in order of creation. A method that raises changes nothing, so its
conditions are guards; a method that finds its key stored is `Replay`.
`record_event` accepts any event type and is modelled with the type
`recorded`: a caller that imitates the runtime's own event types is left out.
So is one whose `validate_card` payload names a `destination_bucket`: the code
merges that payload into the event, so without an output pipe such a
`card_validated` event tells of a place the card did not go to, and
`LocationIsReplayable` does not hold for it.
Each operation is atomic; threads inside one are left out (section 5). The
clock is shared and never steps back.

### LeaseService

`Acquire` needs a card without an active lease, `Renew` an active lease, `End`
leases that have not ended. Its `leases` is a sequence of card, expiry and
flag. `CardRuntime` implements it with `LeaseView` (node and pipe dropped),
`LeaseStore` with its committed rows.

### LeaseStore

A session goes through begin (and key lookup), `lock_card`, `check_active`,
`insert_lease`, `store_idempotency`, `commit`. The row lock excludes other
sessions until commit or rollback; an insert of a key that another open
transaction has inserted waits, and fails if that one commits. `abort` is a
lost connection or a crash at any point.

### PostgresRuntime

`Program` gives each operation the statements it runs after the key lookup;
`tx` holds, per session, what is still to run, what was read and which locks
are held. Writes reach the tables with `commit`. Postgres is external and
modelled by how the code uses it:

* a statement sees the rows committed when it starts; an UPDATE or a SELECT
  FOR UPDATE that has to wait looks at the row again, and only at the row.
  Hence two actions each for the claim (`select_card`, `lock_card`) and for
  leaving a location (`select_locations`, `exit_locations`); a claim keeps the
  lock of a row that it waited for and that is no longer in the bucket;
* FOR UPDATE on a card excludes every other lock on it, the key share of a
  foreign key included; an UPDATE of a card excludes claims and other updates;
* unique keys make an insert wait for an uncommitted row of the same key.

Events are dated when they are made, inside the transaction (`occurred_at`),
and `card_history` sorts by that date. The model has one clock for these dates,
which never gives two events the same one. In the code each process reads its
own `datetime.now(UTC)`, so with clocks that differ, or two events of one
instant, the order of a history is not determined by the locks;
`EvidenceEndsAtLocation` and its theorem rest on this clock. Statements that
write in a row without any possible wait between them are one action: the
UPDATE of a lease that `update_lease` has locked and the inserts of its event
and artifacts after it. `expire_leases` updates in the order of the table; that
two sweeps scan it in different orders is left out. A panel whose `id:version`
text equals that of another panel with other parts is left out.

### CardCalls and NodeExecutor

`PostgresRuntime` shows what the statements of racing transactions do.
`CardCalls` stands above it: a call of the durable runtime is one step with the
effect and the answer its caller relies on, and the question is what requests
of *several* calls do to each other and what is left when one ends half way. An
idempotency key is looked up and stored in the same step: two requests that
race with one key are the business of `PostgresRuntime` (`pg_keys`,
`KeyKeepsItsAnswer`), and no property of the modules above says that a key has
one event. A key is a sequence of segments, the text between its colons, so
`f"{key}:source"` is `Append` and keys of different callers can collide as they
do in the code.

`call[c]` is the request client `c` has under way: what it has still to do, the
card, the key, the reference its record will name and its other local
variables. Every module above it has one action per step of a request, and
`End` (in `NodeExecutor`: `Abort`) ends a request between any two, for an
exception, a crash or a lost connection; a client may then try again. Guards of
the first step are the checks a handler makes before its first write.

In all of these modules but `Onboarding` the setting `authorization_enabled` is
off, its default. Audit events are left out: they are only ever written.

### Registry and Publication

An entry is a panel version with a status; who made it and for which card are
recorded for the properties (`origin`, `card`). `EditEntry` and `WriteEntry`
are the two transactions of `update_metadata`. A publishing request runs
`history`, `register`, `search`, `publish` and `sink_executed`; the bootstrap
runs `register`, `search` and `publish` for the workflow itself. Proposal
payloads are the panel proposed; nobody proposes or registers a panel with the
id of the workflow itself (`NoProposalOfTheWorkflow`, section 4).
`ValidateCard` is the route that takes a validator's name and decision as they
come, `Move` the one that puts a card into any bucket, so the history check is
the only thing in the sink's way.

### Authority and Onboarding

Assignments and grants are bags, since nothing in the tables keeps duplicates
out; `origin` tells what the system provisions from what operators add.
`ensure_builtin_role_assignment` is `Find`, `Assign`, `List` and one `Grant`
per missing grant, each a transaction. The grants of a role are those of its
template, at the template's positions; a request keeps the positions it has
still to add (`missing`) and takes the least first, as the loop does. Expiry and revocation dates are never
set by the code, so every stored grant counts. Routes are open to participants
that `authorize` lets through; the route that moves cards asks for nothing.

### Genesis

Intents are in memory and the rest is durable; `Restart` ends all requests and
marks the intents as gone (`live`), keeping them for the properties. `launch`
takes any entry a client names, and one found at intake is one of those. The
payload of a launched card is represented by the deduplication key.

### Delivery

Boundary contracts are a field of the node's configuration. A card's payload
is an `Ingress`: the data and, of its metadata, the boundary source and the
deduplication key the adapter wrote there. `BoundarySource` and `BoundarySink`
start an adapter's request; the executor's event and the adapter's own
(`RecordSource`, `RecordSink`, `RecordBoundary`) are steps of their own. An
absent egress template is the default `card_id + sink_id`. `CreateCard` is
`POST /cards` under a client's key, which a shadow request may use again. A
client that writes an adapter's or a shadow's metadata itself is left out, and
so is the plain execution of a source: to this module it is a `CreateCard`
followed by an event.

`claim_card` and `submit_artifact` keep of leases what `execute_worker` depends
on; the time of a lease runs out with `Expire`. Links and mutations are in
memory: `Restart` loses them. A promotion copies the mutation
(`StartPromotion`), registers the panel in the database (`RegisterPromoted`)
and writes the copy back (`MarkPromoted`); other requests and restarts come
between them. `claim_card` of the durable runtime wants exactly one registered
panel, so this module describes a deployment whose `system_patch_panel_paths`
is empty; with the two system panels registered every claim is a conflict, and
so it is after a promotion.

## 3. Runs

State counts are distinct states.

| run | bounds | states | result |
|---|---|---|---|
| `leases` | 1 card, 2 leases, 5 events, clock 0..2, durations 0 and 1 | 52 thousand | `ExclusiveLease`, `LocationIsReplayable`, `LeaseEvidence`, `ArtifactEvidence`, `ReclaimableAfterLease`, `EndedLeaseIsFinal`, `ImplementsLeaseService` hold |
| `in_flight` | three panels, 1 card, 2 leases, 4 events, 1 key | 0.4 million | `RepeatedRequestsAgree`, `ClaimedFromOwnInput` hold |
| `lease_store` | 2 sessions, 2 cards, 1 key, 3 leases, clock 0..2 | 0.1 million | `ExclusiveLease`, `ImplementsLeaseService`, `KeyKeepsItsLease`, `EveryAcquireEnds` hold |
| `pg_races` | 3 sessions, 4 transactions, clock 0..1, symmetric sessions | 0.14 million | `NoCardDisappears`, `EvidenceEndsAtLocation` hold |
| `pg_keys` | 2 sessions, 1 key; from a claimed card on, 2 transactions | 41 thousand | `KeyKeepsItsAnswer`, `EveryTransactionEnds` hold |
| `publication` | 1 client, 1 proposal card, 4 events, 2 entries; a valid and an invalid proposal, two panels registered directly | 0.5 million | `IndexedIsRegistered`, `PublishedWithApproval`, `OneEntryPerVersion`, `SinkEvidenceNamesEntry` hold |
| `onboarding` | 1 client, 1 registration for two roles, 4 events, 3 assignments, 7 grants of the five permissions the routes ask for | 0.35 million | `ProvisionedIsAuthorized`, `NoDuplicateProvisioning`, `ProvisionedWithApproval` hold |
| `delivery` | 2 symmetric clients, 2 cards, 6 events, 1 delivery, 2 external references, a client's key for cards and one for workers and shadows, 2 leases, 1 link, 1 mutation | 0.21 million | `DeliveredOnce`, `EgressedOnce`, `RetriesContinue`, `EvidenceInOrder`, `ShadowsHaveNoEgress`, `PromotedIsRegistered` hold |
| `genesis` | 1 client, 2 cards, 3 events, 2 entries, 2 intents of 1 key | 0.6 million | `OneLaunchPerKey`, `LaunchedInWorkflow` hold |
| `own_version` | two versions | | `BucketOfOwnVersion` is violated |
| `pg_claims` | 2 sessions, 3 transactions | | `ExclusiveLease` is violated |
| `sink_retry` | 1 client, 1 key, a registration for one role | | `RepeatedSinkHasNoEffect` is violated |

**What the violations show.** Each states a sentence of the repository's docs.

* `own_version`: a re-registration replaces the panel of an id, and the card's
  version is dropped on lookup, so the new version routes old cards into
  buckets their own version does not have.
* `pg_claims`: the lease test is part of the SELECT whose lock is granted
  later. Two claims that both passed it both get the card. `LeaseStore`, which
  tests after the lock, has no such run: the difference is the order.
* `sink_retry`: `execute_sink` performs the configured sink before
  `record_event` looks at the key, so a repeated execution under a recorded key
  writes the participant again; one that was suspended meanwhile becomes active.

**Known limits.** The models also contain behaviour that other sentences of the
docs, or a reader, would rule out. No property states these, because they are
false; each was found by checking one that did.

* A key of `create_card` is answered by `move_card` with the created card: only
  the type of the stored result is compared (`CardRuntime`).
* After a re-registration, a card of the old version whose lease expired cannot
  be claimed (`CardRuntime`).
* Two concurrent moves leave two active rows in `card_locations`, and a
  submission that read its lease before a release committed is accepted after
  it (`PostgresRuntime`).
* Two publication sinks, or two provisionings, at once both find nothing and
  both write (`Publication`, `Onboarding` with two clients).
* An edit of registry metadata undoes an archive made between its read and its
  write (`Publication`).
* An event that another request records between `submit_artifact` and
  `card_history(...)[-1]` makes `execute_worker` report that nothing was
  submitted; a retry after the lease expired gets the ended lease back under its
  key and never succeeds (`Delivery`).
* After a crash between `sink_executed` and `boundary_sink_egressed`, a retry
  with another external reference makes the two name different ones
  (`Delivery`).
* A shadow requested under the key of an earlier `POST /cards` is answered with
  that card. The link then names a card without the shadow mark, and
  `execute_sink`, which looks at the mark only, runs on it; `delivery` gives
  shadows and cards different keys (`Delivery`).
* Two shadow requests pass the parallel limit together, a retried one adds a
  second link, and a rejection between the check and the write of a promotion is
  overwritten (`Delivery`).
* Genesis launches archived and draft entries, always in the active version of
  the panel, and repeats a proposal after a restart (`Genesis`).

**Why the bounds are enough.** The lease properties concern two leases of one
card, or a lease and the events about it: one card, two leases and three clock
readings reach every order of grant, renewal, expiry and second grant, with a
lease that is over as soon as it is given (duration 0). Five events suffice for
claim, renewal, end, move and second claim. Key properties concern one key.
Races need two sessions; a third one checks that a waiting session is not
overtaken into a bad state. Four transactions are one creation, one claim and
two that race. Operations on leases race only once there is a lease, so
`pg_keys` begins where a creation and a claim have been committed
(`FromClaimed`, a state that the other runs reach as well) and puts every pair
of operations side by side: submission, renewal, release, sweep, move,
validation, record and a second claim, under one key or none. Publication needs
the creation, two approvals and the record of the sink: four events, or a move
by hand in place of an approval; two entries are a second publication, or the
one a wrong search would find. Onboarding has room for the root's grants, ann's
and one assignment by hand, so that every prefix of a provisioning is
interrupted and repeated. In `delivery` six events are a delivery, its
execution, a claim and a submission or a sink and its report, a second external
reference is what a repeated egress may bring, and its constraint
`MutationWindow` keeps the mutation, which shares only `registered` with the
rest, to the beginning of the work. Its second card and lease are what a
repeated `execute_worker` could wrongly take. In `genesis` two intents of one
key are one before and one after a restart. `MaxEvents`, `MaxLeases`,
`MaxCards`, `MaxRequests`, `MaxTime` and the other `Max` constants are guards,
so no state beyond a bound is cut off half way. The runs of `LeaseStore` and
`PostgresRuntime` do not check for deadlock: clients need not make further
requests, and when the requests and the clock are used up nothing happens any
more. That nobody waits for ever is `EveryAcquireEnds` and
`EveryTransactionEnds`.

**Fairness.** Only database sessions are fair: a session executes the
statements of the transaction it has opened, which the code does without
waiting for anything else (weak fairness of `Step` and `Statement`). In
`LeaseStore`, where others may begin transactions for ever, waiting for a row
lock or a key needs that Postgres serves waiters in turn (strong fairness of
`lock_card` and `store_idempotency`). Clients, the clock and aborts are never
fair, and no sweep of leases is assumed: nothing in the repository schedules
`expire_leases`.

## 4. Proofs

The theorems hold for all panels, pipes, keys, durations, sessions, clients and
bounds. Every invariant that was strengthened for a proof was checked with TLC
first, on the instances of section 3.

**Assumptions.** The named `ASSUME`s of the modules, which TLC evaluates in
every run: bounds are natural numbers; what a panel mentions is among the
buckets and nodes of the system; durations are integers; `None` is neither a
key nor a bucket, node or pipe (an absent value is not a string,
`KeyAssumption`, `NoneAssumption`); the status a client may give an entry is
one of the enumeration (`EntryStatusAssumption`: the route validates it); the
registration workflow is valid, a compliant payload and what operators assign
by hand name roles of the catalogue and statuses of the enumeration
(`RegistrationAssumption`, `PayloadAssumption`, `ByHandAssumption`: pydantic
and `BUILT_IN_ROLE_TEMPLATES` see to it), and a role's template names no
permission twice (`RoleTemplateAssumption`). One is about what clients do and
not about what the code enforces: nobody proposes or registers a panel with the
id of `system_pp_approval` (`NoProposalOfTheWorkflow`). The routes would take
one, and it would replace the workflow that the other requests go through.
Theorems that need more say so as hypotheses:

| hypothesis | of | why it is needed |
|---|---|---|
| `OneVersion`, `OwnPipes` | `CardsAreReclaimable` | a second version replaces the panel that could claim the card; a second panel on a pipe makes claims conflicts |
| `OneClient` | `OneEntry`, `GenesisTypes`, `ProvisioningAddsOnce` | two publications at once both find no entry and both add one; two provisionings do the same with an assignment or a grant |
| `KeysApart`, `IntentsAreNoPanels` | `GenesisKeysMean`, `LaunchesAreInWorkflow`, `GenesisTypes` | a client that uses a key beginning with `genesis:` gets Genesis's card under it or gives Genesis its own; the model represents a launch's payload by its deduplication key |
| `Isolated` | `ShadowsStayInside` | a sink with `allow_shadow_egress` is meant to run on shadows; a client that takes a boundary source's key, or the key of a card, for a shadow has it answered with a production card |
| `ClientKeys` | `EverythingHasAnOrigin` and the three that rest on it | keys of clients are texts, so that a suffix can be told from what it is added to |
| `KeySegments` | `DeliveriesAreTakenInOnce`, `CardsAreSentOutOnce` | panel ids without a colon: the ids `a:b` with source `c` and `a` with source `b:c` make one key |
| `StableEgress` | `CardsAreSentOutOnce` | a sink keeps its panel and its template from version to version, and the template leaves out the external reference; otherwise a card has two egress keys for one sink and leaves twice |
| `KeysNameCards` | `EvidenceIsInOrder` | panel ids without a colon, and egress key templates that are empty or begin with `card_id`, as the default does; a template without it lets two cards share a sink's key, and the second is answered with the execution of the first |

`CardRuntimeProofs`

* `TypeCorrect`: `TypeOK`, one lemma per operation. It carries the facts that
  the dicts refer to each other (a lease's card exists, a card has a history).
* `ExclusiveLeases`, `EndedLeasesAreFinal`, `LeasesAsPromised`: lemma
  `LeaseSteps` shows that every operation does one of five things to the
  leases: nothing, add one to a card without an active lease, extend an active
  one, end one, end the overdue ones. Each is then shown to keep exclusiveness
  (`ExclusiveLease` with `TypeOK` is inductive: an inactive lease is never
  revived, and the clock only ends leases), to leave ended leases alone, and
  to be a step of `LeaseService` under `LeaseView`.
* `LocationsAreReplayable`, `ArtifactsHaveEvidence`, `LeasesHaveEvidence`:
  lemma `EvidenceSteps` does the same for histories: nothing, a new card with
  its first event, one event together with what it says of card, lease and
  artifacts, or a sweep. The three properties are then facts about one history
  becoming longer. `LeaseEvidence` is not inductive alone: the claim of a new
  lease must find no event about it, hence `NamesLeases` (no history names a
  lease that has not been granted). The sweep needs that counting through its
  leases by rank reaches each exactly once (`RankIsStrict`, `NthIsMember`,
  `ExpiryEventsFacts`).
* `ClaimsAreFromOwnInput` rests on `LocationIsReplayable`: the bucket a claim
  looks at is the one the history named last. `CardsAreReclaimable` adds that
  the panel that granted a lease is still registered (`GrantInForce`).
* `RepetitionsAgree`: the invariant `AnswersHeld` says that every answer is the
  stored one, or that of releasing an ended lease, which stores nothing; in the
  second case its key is free or a different request has taken it since.

`LeaseStoreProofs`

* The inductive invariant is `TypeOK`, `Locking` (a transaction past
  `lock_card` holds its card's lock), `Cleared` (past `check_active`, no active
  lease of that card has appeared), `Planned` (a transaction about to commit
  has an expiry the service allows) and `KeyReserved` (a transaction about to
  commit with a key finds it free and shares it with no other such one).
  Exclusiveness alone is not inductive: the commit appends a lease on the
  strength of a test several statements ago, and it is the lock that keeps the
  answer true.
* From it: `TypeCorrect`, `StoreKeepsPromises` (the refinement),
  `StoreIsExclusive`, `KeysKeepTheirLease`.

`PostgresRuntimeProofs`

* `Invariant` adds to `TypeOK`, `NoCardDisappears` and
  `EvidenceEndsAtLocation`: `Tables` (the shape of the rows), `TxsOK` and
  `Dated` (dates have a common bound, so there is always a later one). `TxsOK`
  says of every open transaction that what is left of it is the end of its
  program (`Running`), that the rows it names exist (`Named`), that it exits
  locations of its own card only and, past `place_card`, holds that card
  (`Routed`), that it has dated its event by then (`Stamped`), later than any
  committed event about where the card went (`Latest`), and that its key is
  still free once it has stored it (`Reserved`); and of two transactions that
  they neither hold the same card nor have stored the same key (`Apart`). All
  this is needed because a commit applies what earlier statements prepared.
  `NoCardDisappears` then holds since whoever exits locations enters one of the
  same card in the same commit, and `EvidenceEndsAtLocation` since a move is
  dated while it holds the card. TLC checked the invariant on the 143,041 and
  41,196 states of `pg_races` and `pg_keys`.
* From it: `TypeCorrect`, `CardsNeverDisappear`, `EvidenceEnds`,
  `KeysKeepTheirAnswer`.

`PublicationProofs`

* `PublicationInvariant`: `Core` says of every request under way what the steps
  behind it have established (`CallOK`: past `history` both approvals are in the
  history, past `register` the version is registered, past `publish` the entry
  exists) and of every entry that its version is registered and, when the sink
  made it, approved. It stays true under the steps of other clients because
  histories, registrations and entries only grow (`Grows`, `EntriesGrow`).
* From it: `IndexedAreRegistered`, `PublishedAreApproved`,
  `SinkEvidenceIsTrue`, `PublicationTypes`, and with `OneClient` `OneEntry`.
* `GenesisInvariant` adds the intents and the requests of Genesis
  (`GenesisCore`); from it `OneLaunch`: a launched intent's card is the one its
  key stands for, and keys never change, so a restart that loses the intents
  cannot lead to a second launch. `GenesisKeysMean` (`Known`) says that a key
  Genesis makes stands for the card of that launch or proposal; from it
  `LaunchesAreInWorkflow` and `GenesisTypes`.

`OnboardingProofs`

* `OnboardingInvariant`: `Core` says of the tables what `TypeOK` does and that
  whoever got a role from the system was approved, and of every request that
  provisions (`Provisions`) how far it is: it was entitled to begin (`Entitled`:
  it is the bootstrap, or both approvals are in its card's history), every role
  it no longer has before it is assigned, and each permission of that role is
  granted or among the grants the request is still adding (`Ensured`, `Stage`).
  `ProvisionedIsAuthorized` alone is not inductive: the record of the sink
  claims something about writes that may be dozens of steps back, by this
  request or by an earlier one that was cut short. It stays true under the
  steps of others because the bags only grow. TLC checked `Core` on the 350,098
  states of `onboarding`.
* From it: `ProvisioningIsComplete`, `ProvisionedWereApproved`,
  `OnboardingTypes`. `ProvisioningAddsOnce` needs `OneClient` and adds
  `StillLacking`: what a request about to add a row has read still holds, so
  it adds a row that is not there.

`DeliveryProofs`

* `DeliveryInvariant`: `Core` relates histories to keys (the key of every event
  is stored, and belongs to one event only), leases to the claims in the
  history of their card, links and mutations to cards and registered panels,
  and says of every request what it has established: one about to run a sink
  works on a production card, one about to mark a mutation has registered its
  panel. Part of it is that a key has one event (`OneEventPerKey`).
* From it: `DeliveryTypes`, `PromotedAreRegistered`,
  `SubmissionsFollowClaims`, and with `Isolated` `ShadowsStayInside`.
* `EverythingHasAnOrigin` (`Origin`): the first event of a delivered card has
  the key of its delivery, and whatever comes later, in its history or in a
  request under way, has a key made from that key, from an egress of this card,
  or from the key of the request whose claim is stored for it. A key has one
  event, but that says nothing of deliveries as long as two of them, or a retry
  after a crash, might come under different keys: `Origin` says that they do
  not. From it `DeliveriesAreTakenInOnce` (the key determines panel, source and
  delivery), `CardsAreSentOutOnce` (`OneEgressKey`: card and sink determine the
  key) and `RetriedWorkersContinue` (the claim's key is answered with the first
  lease). TLC checked `Origin` on the 212,454 states of `delivery`.
* `EvidenceIsInOrder` (with `KeysNameCards`): a request that finds its event's
  key stored goes on to its report without having recorded the execution, so
  the order rests on what the key says. `Trace` holds it: the event key of a
  source is its card's key with one more segment, and `Append` is injective
  (`AppendInjective`), so it belongs to the same card; the key of a sink names
  the card in its fourth segment (`SinkKeyParts`); an event key of either kind
  is stored only once the execution is in that card's history. A client's own
  key that looks like one of an adapter does no harm: such keys are stored for
  cards, leases or artifacts, and `record_event` refuses them. TLC checked
  `Trace` on the 212,454 states of `delivery`.

**Only model-checked.**

* Liveness under fairness, which the prover does not handle:
  `EveryAcquireEnds`, `EveryTransactionEnds`.

## 5. Not modelled

Payloads beyond what properties tell apart, descriptive metadata, worker and
actor names, wording of errors, logging and dates other than lease expiry and
the order of events. Audit events: they are inserted after or before an
operation in a transaction of their own and nothing reads them; that an insert
may fail is part of `End`. Expiry and revocation of grants: the code tests for
them and never sets them. Threads inside one operation of the in-memory
runtime: which of their bytecodes interleave is the interpreter's choice, and
the durable runtime, whose statements interleave, is modelled. The in-memory
registry and authorization repository: the durable ones are modelled. The
in-memory methods do in one step what the durable ones do in one transaction,
with one exception: `add_role_assignment` appends an assignment of a
participant that does not exist, which the foreign key of `participant_roles`
refuses. That `TypeOK` of `Onboarding` ties assignments to participants is a
fact about the durable repository.
The read-only routes. Panel files, artifact storage, the MCP server (a second
gateway to the same operations), HTTP transport, the SDK and the command line,
dashboards, settings.

## 6. Plan

1. Done: `PatchPanel`, `CardRuntime` with proofs, `LeaseService`, `LeaseStore`
   with proofs, `PostgresRuntime`.
2. Done: the executor and what is built on it (`CardCalls`, `NodeExecutor`,
   `Registry`, `Publication`, `Authority`, `Onboarding`, `Genesis`,
   `Delivery`).
3. Done: proofs of `PostgresRuntime`, `Publication`, `Genesis`, `Onboarding`
   and `Delivery`, and of the evidence, claims and answers of `CardRuntime`.
   Every invariant of the passing runs is a theorem.
4. Left: liveness, which stays with TLC; the audit trail, once something reads
   it.
