# Verification of the Marka Kalkan backend

This directory holds TLA+ specifications of the Marka Kalkan backend (the
Cloud Functions under `src/functions` and the n8n gateway in
`src/n8n_contracts/public_lite`), the TLC configurations that check them on
small instances, and proofs checked by TLAPS. `PROJECT.json` maps every
definition to the source lines it stands for and lists, under `hazards`, what
in this code is hard to test, each at its line, with the properties about it.

## The system

The backend is a set of Cloud Functions over Firestore and Cloud Storage with a
Flutter client. Three kinds of concurrency occur in it:

- **A pipeline.** One anonymous risk scan crosses two Firestore-triggered
  functions, a scheduled reconciler, two HTTP endpoints and two n8n workflows,
  each of which may be cut off, time out, be delivered twice or see its answer
  lost. Its correctness rests on leases, attempt counters and replays.
- **Prepared bundles and journals.** The professional, legal and customs
  services decide on what they read, and write in a transaction that looks at a
  part of it again; clients repeat requests, and histories are counted and
  linked by hand.
- **Callables over one document store.** The other services share cases, tasks,
  signals and records. Many read before their transaction, and some go on after
  it (a webhook, a copy in storage, the deletion of a file).

### Components

| Component | State | Operations | Hard behaviour |
|---|---|---|---|
| Start (`public_lite_callable`, `public_lite_firestore_port`, `rate_limit_contract`) | run, channels, access token, rate-limit window | `createPublicLiteRun`, access, report | replays, partial bundles, the window limit under concurrent starts |
| Dispatch (`public_lite_execution_*`) | execution document, run and channel status, lease and attempt | prepare, queue (two transactions), claim, mark succeeded/failed | at-least-once delivery, cut-offs between transactions, stale holders, the lease whose owner every delivery shares |
| Gateway (`n8n_contracts/public_lite`, external process) | one n8n execution per request | persist the handoff, compare, answer 202 | late requests, lost answers |
| Handoff (`public_lite_provider_handoff_*`) | handoff document: state, attempt, lease, due time | accept, claim, mark, list due | trigger and reconciler race; back-off; dead letters |
| Reconciler (`public_lite_provider_handoff_reconciliation`) | the batch of one cycle | list, dispatch one by one | the batch is stale while it is worked off; cut-off inside it |
| Result receipts (`public_lite_result_receipt_firestore_port`) | receipts by provider event | persist | results of several child runs, before or after the dispatch is marked |
| Retention (`retention_*`, `recursive_cleanup_*`, `scheduled_cleanup`) | none of its own; deletes runs and channels | cycle, query steps, root transaction | races with replays of a start; scan limits |
| Professional services, legal workspace (`professional_services/v1`, `intervention_legal/v1`) | versioned documents, domain events, command receipts | twelve commands | decided on reads outside the transaction; idempotency keys and request ids that disagree |
| Customs protection (`customs_security/v1`) | profiles, interventions, their histories | create, update, change status, link, record | requests repeated with other content; histories counted by hand |
| Customs submissions and artifacts (`customs_authority_submission/v1`) | submissions, packages, responses, artifacts, objects in storage | draft, approve, generate, record, materialize | packages generated again after approval; two calls that materialize one artifact, a lease, storage failures |
| ODLA workspace and laboratories (`odla/v1`) | custody events, test requests, results, findings, appeals; registry of laboratories | append, request, record, issue, appeal, resolve, decide; register, review, suspend | two custodians with one predecessor; finality and resolution on a stale context |
| Digital detective (`digital_detective`) | tasks, executions, agent results | create, bridge, dispatch, record result | results overtake the answer of the webhook; results repeated and of two executions |
| Shared risk (`shared_risk`) | signals, receipts, audit | promote, persist | the source changes between read and write |
| Case evidence centre (`case_evidence_center/v1`) | cases, evidence, chain, holds, tasks, parties, retention, packages; upload sessions and promotions | one transaction each; upload, finalize | counts kept beside records; two finalizers, an expired session, an object that changed |
| Traceability (`traceability`) | product codes, scans, reviews, cases | verify, review, open a case | a review outside the transaction, two cases for a scan |
| Twin radar, IP priority, supply security, sponsors, onboarding | reports and comparisons; versions and hashes; controls and assets; records and logo files; applications and tenants | create, review, publish, seal, archive, upsert, provision | published, sealed and archived records written again; files deleted after the transaction |

How they interact. In the pipeline, `createPublicLiteRun` creates the run; its
creation event starts the dispatch. A dispatch attempt is one HTTP request to
the gateway, which calls `acceptPublicLiteRiskScanHandoff` back. The creation
event of the handoff starts the child dispatch, and the reconciler repeats it
when it is due. The acquisition workflow posts its result, which stores a
receipt and completes the handoff. Elsewhere: an AI field operation becomes a
detective task, a completed task, a suspicious scan or a monitoring signal
becomes a shared risk signal, and either becomes a case file; submissions to
the customs authority freeze profiles and interventions; legal matters and
service requests share the bundle mechanism; a comparison of the twin radar is
what was decided of a public report. Everything else shares only the store.

What makes the components correct, in a sentence each:

- dispatch: the run, its channels and the execution tell one story, an attempt
  has one owner, the attempt limit holds, a settled execution is final, and an
  execution settles;
- gateway: a dispatched execution is backed by a durable handoff;
- handoff: as the dispatch, across trigger and reconciler, and an unsettled
  handoff can always be found by the due query, so that it settles;
- receipts: a handoff is completed exactly when it has receipts, all of which
  agree, and only for a dispatched execution whose run is acquiring;
- start and retention: a replay never doubles a run, no window admits more than
  its limit, nothing is deleted that is in use or before what hangs on it, and
  what is due goes;
- commands: a bundle commits whole or not at all, no gate of a service request
  is passed on a state that has moved on, an approval is decided once and for
  the version it was asked for, and what is published was reviewed;
- customs: histories are gapless, what was sent is the package that was
  approved, a ready artifact is in storage with the bytes its package gives;
- document store: chains, counters and audits agree with what they count,
  results count once, publications tell what was decided, and what has ended is
  never written again.

## Modules

Public Lite:

- `RiskScanLifecycle` - the four transition tables as functions. No action
  asserts them; that no write breaks them is a property.
- `DispatchLedger` - the abstract specification: what a lease-guarded ledger of
  dispatch attempts promises (bounded attempts counted one by one, acceptance at
  most once and only by a holder, no return from acceptance or abandonment).
- `PublicLiteExecution` - the dispatch of one run. One action per transaction
  of `public_lite_execution_firestore_port.js` and per outcome of it; the
  handler's path (`prepare`, `validate`, `queue`, `claim`, `dispatch`, `mark`)
  is the `pc` of an invocation.
- `PublicLiteHandoff` - handoffs, trigger, reconciler and result receipts. The
  execution around it is reduced to its status (`ExecutionMoves`).
- `HandoffReconciliation` - the reconciler's cycles against a clock: which due
  handoffs the query lists, and how many of them, in which order, a cycle works
  off. Claims and marks are one step each, with their instants; who may make
  them is the question of `PublicLiteHandoff`.
- `PublicLitePipeline` - composes `PublicLiteExecution` and `PublicLiteHandoff` by `INSTANCE`, with a gateway execution
  per dispatch attempt in between. Its property `ImplementsHandoff` discharges
  the assumption `ExecutionMoves` makes: in the composition the execution moves
  only that way.
- `RiskScanRetention` - start and cleanup of several runs. One action per
  transaction, query or batch of `public_lite_firestore_port.js`,
  `scheduled_cleanup.js` and `recursive_cleanup_firestore_port.js`; the dispatch
  is reduced to whether it gave the run up (`RunFails`). It stands alone: it
  shares only the run and channel documents with the others, which never look
  at the clock of a run.

Services over a command store, and customs:

- `CommandBundles` - the store of versioned documents, events and receipts; a
  command is `Prepare` (all reads, checks and the bundle) and a commit that
  looks again for receipt and event and compares the versions the bundle names.
- `ProfessionalServices`, `LegalMatters` - the eight and the four commands, each
  the preparation of its bundle.
- `CommandServices` - composes them; its properties are about bundles that
  commit in any order.
- `EventJournal` - the history an entity of the customs services keeps, put
  together from the counters of the entity and the event documents.
- `CustomsProtection` - profiles and interventions; `CustomsSubmission` -
  submissions, packages, responses, outcomes, over it; `CustomsArtifact` -
  `materialize`, one action per transaction and storage call, over both.

The document store:

- `DocumentStore` - the documents of all collections by `<<kind, ...>>`, the
  calls that have read and not yet written, and the ways a handler is made of
  steps: `Transact`, `Read` or `Claim`, `Step`, `Commit`, `GiveUp`.
- `OdlaWorkspace`, `OdlaLaboratories`, `DigitalDetective`,
  `SharedRiskPersistence`, `CaseFiles`, `EvidenceObjects`, `Traceability`,
  `CounterfeitTwins`, `IpPriority`, `SponsorContent`, `SupplySecurity`,
  `BrandOnboarding` - one operator per callable, trigger or step of one.
- `Platform` - composes them all.

Proofs: `PublicLiteExecutionProofs`, `PublicLiteHandoffProofs`,
`PublicLitePipelineProofs`, `RiskScanScheduleProofs`, `CustomsProofs`,
`CommandServicesProofs`, `PlatformProofs` and, over the latter,
`CaseEvidenceProofs`. `MC*` - constants, budgets and symmetry sets for TLC.

Definitions that a comment calls a mutant are plausible errors in the code, one
per checked property; `PROJECT.json` says what each replaces. With it in place
TLC finds the property violated.

### State and code

| Model | Code |
|---|---|
| `run`, `channel`, `exec` | `status`, `attemptCount`, lease fields and `lastFailureCode` of the three documents |
| `inv[i]` | locals of one invocation of `dispatchPublicLiteRiskScan` between awaits |
| `event`, `handoffEvent` | whether the platform still has to deliver the creation event |
| `handoff[e]` | `state`, `childDispatchAttemptCount`, `childDispatchDueAtTimestamp`, `completedAt` of the handoff |
| `worker[w]`, `batch` | locals of the trigger invocations and of the reconciler's cycle |
| `now`, `cycle` (`HandoffReconciliation`) | the clock; locals of a cycle: the records not reached yet with the due times the query saw, `attemptedCount`; `unreached` is history |
| `overtaken`, `passedOver` | history: claims of others while a handoff was due; finished cycles that did not reach it |
| `receipts[e][p]` | receipt documents, by provider event, with `providerCompletedAt` |
| `child[e]` | whether the provider ever started the acquisition |
| `call[a]` (pipeline), `gatewayId` | the n8n executions of the gateway, `gatewayExecutionId` of the handoff |
| `run`, `channels` (`RiskScanRetention`) | existence, terminal or not, and `expiresAt` of the run; existence of its channels |
| `commands`, `count` | start commands between `buildPublicLiteStartCommand` and the transaction; rate-limit documents |
| `cleaner[c]`, `due` | locals of a cleanup cycle and of its current step; the scheduler |
| `admitted` | history: the runs created under a bucket, purged or not |
| `document`, `event`, `receipt` (`CommandBundles`) | documents with `version`; domain events by aggregate, request and type; command receipts by scope and key |
| `call[c]` (`CommandBundles`, `DocumentStore`) | what an open call has read and is going to write |
| `profile`, `intervention`, `submission`, `package`, `response`, `history` | the entity documents of the customs services and their event subcollections |
| `artifact`, `object`, `work[c]` | artifact documents with their lease, objects in storage, locals of `materialize` |
| `document` (`DocumentStore`) | the documents of the other collections, with the fields that guards and properties read |

### Abstractions

- **Time.** A lease is none, live or expired, a due time none, future or past;
  expiry is an action that may happen at any moment. That covers suspended
  instances, clocks that differ between instances, and a `now` read long before
  the transaction that uses it. A handoff in `child_dispatching` has one field
  for its lease and its due time: the code writes the same instant to both.
- **Identity.** The lease owner of a dispatch is the event id, equal for every
  delivery, so it is not state. A child's lease token is derived from
  owner, attempt and time; distinct claims have distinct attempts, so comparing
  attempts compares tokens. Elsewhere an id that is a hash is the tuple of what
  is hashed: two ids are equal when the code's inputs are.
- **Clock of the retention.** Windows, lifetimes and purges are compared with
  one clock, counted in ticks of the cleanup scheduler (15 minutes), within
  which every invocation ends: a callable after 60 seconds, a cleaner after 540.
  A start may commit in the tick after it read the clock. `minimumGraceSeconds`
  is 0 as in production.
- **One run.** Documents of different runs share nothing, so the dispatch and
  the pipeline are about one run; the handoff module takes a set of executions
  because the reconciler's batch connects them.
- **Answers.** HTTP outcomes are grouped by what the code does with them.
- **Reconciler limits.** In `PublicLiteHandoff` a batch has no limits and an
  arbitrary order. `HandoffReconciliation` has both limits and the order by due
  time, with equal due times in either order (the store breaks ties by document
  id), and one clock: the claimant, the query and the accepting instance agree
  on the time, and each transaction commits at the instant its `now` was read.
  A result may complete any handoff that was claimed.
- **Transactions** are atomic and see one state: Firestore runs them again when
  what they read has changed. A handler that reads outside its transaction is
  two actions. A transaction whose commit succeeds while its caller sees an
  error appears as a committed call that is repeated. The sponsor upsert
  answers every error of its transaction by deleting the logo it stored
  (`sponsor_content.js:676`), which the record would then name if the
  transaction had committed. That case is not modelled; a transaction that fails without
  committing, for whatever reason, is (`RefuseSponsor`).
- **Writers outside the functions.** Authorities, memberships, product codes,
  monitoring signals, uploads, and the closing or archiving of some records
  belong to other systems; they are actions marked external, or constants.
- **Payloads.** Contents are model values; hashes and validation are left out. A
  payload that fails validation appears as the answer the code maps it to, or
  not at all when nothing is written.

## Runs

| Run | Question | States |
|---|---|---|
| `PublicLiteExecution` | are the dispatch invariants, the transition tables, finality and the refinement of the ledger kept by three invocations, two channels, three attempts, two cut-offs, with duplicates | 24 400 |
| `PublicLiteExecutionLiveness` | does every dispatch settle, one delivery at a time, three cut-offs | 460 |
| `PublicLiteHandoff` | handoff invariants, transition table, ledger refinement, and settling, with two triggers that may hang anywhere, the reconciler, two events and two completion times | 132 800 |
| `HandoffReconciliation` | is a due handoff overtaken at most once by each other one, and reached within as many cycles as the limit allows, with three handoffs, a query limited to two, cycles limited to one, a trigger, cut-offs and a claim that throws | 1 690 900 |
| `PublicLitePipeline` | are dispatched executions backed, do results fit their runs, does the composition keep the handoff's assumption, with two concurrent deliveries, a cut-off on either side, the reconciler as the only worker | 506 500 |
| `RiskScanRetention` | window limit, order and legality of deletions, with replays and two cleaners that overlap | 563 600 |
| `RiskScanCleanup` | do retained runs stay whole and do terminal runs go, with one cleaner, three runs, a scan limit of two and a process limit of one | 178 100 |
| `Services` | are bundles whole, gates kept, publications reviewed and approvals decided once, with bundles prepared and committed in any order | 135 100 |
| `Customs` | are journals whole, what was sent approved and frozen, ready artifacts stored, with requests repeated and two calls that materialize | 220 800 |
| `Platform` | do the books of every component of the document store stay whole, and does what has ended stand, with two calls open | 370 100 |

Two runs check what a test of the repository says and are expected to fail:
`PublicLitePipelineReplay` and `ServicesRerun`; see Findings.

**Bounds of the pipeline.** The code's limit is five attempts. With two or three
attempts the model has a first, an inner and a last attempt, and every guard
compares an attempt only with the limit and with the current attempt. Two
invocations suffice for a stale holder and a successor, a third one for a
bystander that meets the lease. Cut-offs are bounded by `MaxCrashes`
(`MaxCutOffs` in the pipeline): one leaves an orphan, a second one hits its
successor. In the retention a window of two ticks and a lifetime of one let a
window end, its buckets be purged and a run expire within four ticks (`Horizon`,
where the clock stops and cycles go on). In `HandoffReconciliation` three
handoffs against limits of two and one make every listing choose and every cycle
leave somebody out; the lease and the back-off (one tick, then two) end within
the four instants of the clock, and `WaitsItsTurn` is tight: a handoff is passed
over twice, and three times with the claim that throws. One start request at a
time (`MaxCommands`) suffices in the retention, since each is one transaction,
and may still be late.
The theorems below hold without these bounds.

**Budgets.** `Services`, `Customs` and `Platform` start from one of several
budgets. A budget bounds the documents of each kind (or the requests sent to
each aggregate), the calls open at a time, and storage faults; what it does not
name has no room. So one run asks the question for each part of the system with
what that part depends on, and every part keeps all of its actions. A budget
gives two of what can collide (samples, requests, holds, sessions, scans,
logos, calls) and as many steps as the longest chain of causes of its
properties needs: an intervention takes six requests from its opening to the
link of a case and back, a submission eight from draft to package to outcome.
Two calls are enough for one that has read and one that overtakes it. What the
budgets do not reach: the volume thresholds of the scan risk (5 and 10 scans of
a code; the runs have four), more than two images per record, and packages
beyond the second.

`CHECK_DEADLOCK FALSE` is set where the system may stop: all events are
acknowledged and settled, or the budget is spent. Symmetry is used only in runs
that check invariants and action properties.

**Two cleaners.** `RetainedRunsAreWhole` holds for the one cleaner that
`scheduledCleanupOptions` allows (`maxInstances: 1`, `concurrency: 1`) and is
checked with one. With two that overlap it fails: one loads the plan of an
expired run, the other deletes the run, a replay creates it again, and the
first lists and deletes the channels of the new run, since only the deletion of
the root is validated again. The theorem `RetainedRunsStayWhole` says the same
of any sizes: it assumes `OneCleaner` and nothing else. The properties of the run
`RiskScanRetention` are checked with two cleaners, and proved for any number.

**Fairness.** For the dispatch: `retry: true` makes the platform redeliver an
event that was not acknowledged; a handler that is not cut off proceeds, since
every await ends by a timer; time passes. For the handoff nothing is assumed of
the trigger. Only the scheduled reconciler (one instance, every five minutes)
and time are fair. For the cleanup: the scheduler fires every tick, and a cycle
that is not cut off goes on. `Settles` is checked without concurrent
duplicates: when one of two deliveries is acknowledged and the other fails,
what the platform does is not fixed by this code (see the hazards). The
callables have no liveness: a client calls or does not.

## Findings

1. **Replay** (`PublicLitePipelineReplay`). The gateway of a retried dispatch
   refuses the stored handoff because it names the first gateway execution,
   while backend tests say that such a replay converges. The comparison is also
   what makes `DispatchedIsBacked` hold in its strong form: without it, an
   execution could be dispatched under a gateway execution that is not the
   handoff's.
2. **Rerun** (`ServicesRerun`). The rerun of an agent task that was sent back
   has to bear the request id of its first run, because the task's id is made
   of it, and then its event is the event of the first run, which the
   transaction refuses. Tests of the service and of the adapter, each on its own
   side of that boundary, say that the rerun is accepted.

### Disagreements

Six more properties state what a document, a message or a test says, and are
not kept by the code. Each is defined, with its source, in its module, and no
run of this directory checks it; to see the counterexample, add it to the
configuration named here.

| Property | Add to | What the code does |
|---|---|---|
| `ExpiredLeaseReclaimed` (PROPERTY) | `PublicLiteExecutionLiveness.cfg` | An invocation is cut off inside an attempt; its redelivery meets the live lease, gets `lease_held` and is acknowledged (`public_lite_execution_boundary.js:302` throws for `retryable_failure` only). Executions have no reconciler, so nothing reclaims the lease. The test "expired lease can be reclaimed" holds only if someone calls again. `Settles` shows it is the only way to stay unsettled. |
| `InvalidReceiptTerminal` (INVARIANT) | `PublicLiteExecution.cfg` | The service declares a malformed receipt terminal; the dispatcher has rewrapped the error as a retryable network error (`public_lite_execution_boundary.js:199`) before the service sees it. |
| `ExhaustedBeforeAcceptance` (INVARIANT) | `PublicLitePipeline.cfg` | "Dispatch attempts were exhausted before provider acceptance." is stored although the handoff was accepted; together with the replay finding, a single lost receipt leads there. |
| `AnsweredReadyIsReady` (INVARIANT) | `Customs.cfg` | A call of `materialize` is answered as ready by the event of its request, while the artifact was marked failed by another call of the same request meanwhile (`artifact.js:836`, 905-910). |
| `ReportedTaskIsOver` (INVARIANT) | `Platform.cfg` | The dispatch writes `running` after the webhook has answered, without a transaction (`digital_detective_dispatch.js:340`); the results of the agents, which come by another endpoint, may have completed the task before. It then stays running for ever, where a test (`digital_detective_result.test.js:333`) has it completed after the last result. |
| `OpenAppealBlocksFinality` (PROPERTY) | `Platform.cfg` | Finality is decided on a context read before the transaction (`workspace_service.js:771`); an appeal opened in between is not seen. |

### Observations

What the models show of the code and no document contradicts:

- *Dispatch and retention.* `TerminalRunsGo` needs its premise. Expired runs
  that are not terminal are never deleted and stay first in the query of every
  cycle; once there are as many as the scan limit, no later run is ever deleted.
  Every dispatched run is of that kind, since `markExecutionCompleted` has no
  caller, and so is a run that is created again after its cleanup: its execution
  document survived, and `prepareExecution` refuses it because the creation
  event is another one.
- *ODLA.* `conflict_review` is a dead end: its appeal stays open for ever. An
  appeal on a finding without a primary laboratory can never be resolved. The
  test request of an appeal may be replaced after the resolution. The retry of a
  completed custody append is answered as a duplicate with a different payload.
  Laboratories are registered as `ACTIVE`, while the eligibility test asks for
  `active`, so that none is ever eligible. `deriveFinding` never returns
  `CLEARED_AFTER_VERIFICATION`. Custody events after the opening one may change
  the seal. The operation callables require a module `server_authority` that
  the repository does not have.
- *Professional services.* An agent run starts although its service request was
  cancelled after the service had read it (`service.js:1228`): the transaction
  looks at the task alone.
- *Customs.* `recordExternalSubmission`, repeated after a later event, is
  answered as an internal error. Responses and outcomes move a submission along
  edges that its transition table does not have. An update may empty an active
  profile. The authentication result of a confirmed intervention can still
  change. Ownership is checked outside the transaction.
- *Shared risk.* A repeated persistence of a monitoring signal always conflicts,
  because its payload holds the time of its adaptation
  (`monitoring_server_adapter.js:88`), where the emulator test expects a replay.
- *Case centre.* The chain is verified over its last 100 events only. A
  promotion whose staged object is gone stays pending. The eligibility for
  disposition is not taken back by a later hold. The export manifest says that
  no storage binding exists, although `evidence_object_binding.js` makes them.
- *Detective.* A dispatch that is cut off leaves its task `dispatching`
  (`retry: false`). *Sponsors.* A sponsor may show the URL of a logo that was
  replaced. *Onboarding.* A second administrator who provisions the same tenant
  gets a conflict.

## Proofs

TLAPS proves eight groups of theorems, each for every value of the constants
that the named assumption of its module allows.

**`PublicLiteExecutionProofs`** (any non-empty set of channels, any invocations,
attempt limit and bound of cut-offs; `ExecutionAssumption`): `ExecutionTypes`,
`ExecutionInvariant`, from which `BundleAgrees` and `AttemptsFenced` follow, the
action properties `SettledStays` and `TransitionsFollowTables`, and the
refinement `ExecutionIsLedger`.

*The argument.* `BundleConsistent` is not inductive by itself. A transaction of
`queueExecution` that starts from a state where the execution document does not
exist would write the channels of a run that has no execution; the code cannot
be there, because `prepare` created the document earlier in the same handler,
but the bundle alone does not say so. `ControlConsistent` adds exactly that: an
invocation past `prepare` implies the document, a lease exists exactly while
dispatching, an execution is never completed, and one that is open has an
attempt left. The last conjunct is also what makes the failing step of the
ledger (`Release`) legal. `AttemptFence` needs the order of attempts: a claim
takes a number larger than every other invocation's.

**`PublicLiteHandoffProofs`** (any sets of executions, triggers, provider events
and completion times, any attempt limit; `HandoffAssumption`): `HandoffTypes`,
`HandoffInvariant`, `DueFound`, `ChildrenFenced`, `ResultsOfOneTime`, and the
refinement of the ledger by every handoff, `HandoffsAreLedgers`.

*The argument.* One lemma, `HandoffSteps`, says what any transaction can make of
one handoff (accepted, claimed, exhausted, reported, completed, elapsed, or
left); due times, attempts left, results and the ledger all follow from it
without looking at the actions again. `AttemptsLeft` is the strengthening: a
handoff that waits for its next dispatch has an attempt left. The fence is the
one part about workers: a claim numbers its attempt above every other
(`FenceClaimed`), and every other step only takes workers out of attempts
(`AttemptsQuiet`).

**`PublicLitePipelineProofs`** (`PipelineAssumption`): `PipelineIsDispatch` and
`PipelineIsHandoff` - the composition implements both of its parts, so that all
of the above holds in it - and the two invariants of the composition,
`DispatchBacked` and `ResultsOfAcquiringRuns`.

*The argument.* The handoff's model lets an execution become dispatched only
once the handoff exists. In the pipeline that is a fact about receipts:
`ReceiptsOwned` says that a receipt, whether the gateway still has it, an
invocation has read it or the execution was dispatched with it, belongs to the
gateway execution that persisted the handoff. It is preserved because a handoff,
once accepted, is never absent again (by `HandoffSteps`), and because the
gateway compares the stored execution id with its own. The lemma
`AcquisitionMoves` then maps every step to a step of the handoff or a stutter.

**`RiskScanScheduleProofs`**, the handoff reconciler (any finite set of
handoffs, any triggers, limits, lease and positive back-off, any number of
cut-offs and errors; `ReconciliationAssumption`): `ReconciliationInvariant`,
`NobodyOvertakesTwice` and, if the query lists at least as many handoffs as a
cycle attempts, `HandoffsWaitTheirTurn`. The defaults of the code, 100 and 25,
are such; the code does not enforce it, since each limit is checked by itself.

*The argument.* `NotOvertaken` counts claims; `Behind` says why they stop at
one. A claim and a failure write a due time later than now, and who waits has
been due by now, so whoever was claimed past it is behind it in the documents.
The query lists the oldest ones, so the next listing has it behind too or not at
all (`ListingKeepsBehind`), and what is left of the running listing, which may
be stale, no longer has it (`ClaimKeepsBehind`). With a query that applies its
limit before its order the proof fails in `ListingKeepsBehind`.

`WaitsItsTurn` counts cycles. `Turn` bounds what the cycles that passed over a
due handoff attempted by the number of handoffs that are behind it by now
(`Passed`) and the claims that threw: an attempt of the running cycle on another
handoff moves that one behind (`TurnAttempted`), unless it throws, and it was not
behind before, since a cycle works its listing off in the order of the due times
it saw (`ListingIs`). At the end of a cycle that did not reach the handoff, the
cycle has spent its limit on others (`TurnEnds`): either the handoff was listed,
or the query found as many older ones as it lists, which is where the assumption
on the limits is needed.

**`RiskScanScheduleProofs`**, retention and cleanup (any runs, channels,
cleaners, window, lifetime and limits; `RetentionAssumption`):
`RetentionInvariant`, and from it `WindowsLimited`, `ChannelsKeepTheirRun` and
`RetainedRunsStay`; and, of one cleaner, `RetainedRunsStayWhole`.

*The argument.* `WindowLimit` needs that a bucket which still exists, of a window
in which a start can still commit, counts what it admitted (`BucketsCount`),
which in turn needs that a start commits at most a tick after it read the clock
(`CommandsFresh`) and that buckets are purged later than that. That no channel
loses its run needs what a cleaner still relies on when it comes to the root
(`CleanersFollow`): if the run is terminal then, its channels are gone. A replay
may have created the run and its channels again meanwhile; but such a run never
becomes terminal a second time (`TerminalSettled`: its execution document
survived the cleanup), and the transaction that deletes the root refuses it.
With one cleaner nobody deletes the run under a plan that was loaded: whatever
the cleaner lists or deletes belongs to a run that is terminal and has expired
(`CleanerHolds`).

**`CustomsProofs`** (any cases, packages, profiles, calls and numbers;
`ProtectionAssumption`, `SubmissionAssumption`, `ArtifactAssumption`):
`CustomsInvariant`, and from it `JournalsStayWhole`, `SubmittedStands`,
`ReadyStaysStored` and `RecordsAreKept`.

*The argument.* The invariant has a part for each of the three modules. Journals:
an append whose version is the next one and whose event is new keeps a journal
whole (`AppendIsSound`), so every action only has to show that its event is new;
the two events of an outcome follow one another (`ConclusionsFollow`), and a
profile that does not exist has no events. Submissions: no status of a sent
package leads back to one before it was sent, so its approvals and the current
package of its case stay as they were (`SubmissionStands`, `PackagesStand`).
Artifacts: a call that is past the writing of the PDF or of the manifest finds
the objects that were rendered from its unit (`CallStands`), and objects are only
ever created, so a manifest always has its PDF.

**`CommandServicesProofs`** (any calls, requests, outputs, users, matters,
officers and budgets; no assumption): `CommandsInvariant`, and from it
`BundlesStayWhole`, `GatesAreKept`, `PublicationsAreReviewed`,
`ApprovalsAreDecidedOnce` and the action property `ApprovalsAreTimely`.

*The argument.* A bundle is prepared from what its command read and committed
later, so the guards of the command may no longer hold then. The strengthening is
`Fits`: if the versions a bundle expects are the present ones, its command could
prepare it now. It survives the commits of other calls (`FitsKept`), because each
write raises a version, so that an unchanged version means an unchanged document
(`CommitEffect`), and what a command reads without comparing it - engagements,
assignments, drafts - is written once (`WrittenOnce`). Every invariant is then
proved as if each command ran in one step. Without the comparison of versions in
the commit, or without the rule that the generic command does not assign, the
proof fails at `CommitEffect` and at `GatesKept`.

**`PlatformProofs`** and **`CaseEvidenceProofs`** (any calls, samples,
laboratories, owners, users, seals ..., any budgets; `BudgetAssumption`, that
budgets are numbers, and `NoIdAssumption`, that no laboratory is called "no id"):
the invariants of all components of `Platform` - `AuthoritiesHold`,
`ResultsAreCounted`, `ScansAreCounted`, `PriorityIsChained`,
`PublicationsAreTold`, `UploadsAreBound`, `CaseFilesAreWhole` - and the action
properties `ResolutionHolds`, `SignalsTell` and, about all of them, `EndedStay`.

*The argument.* The components share one store, and any of them may step between
two steps of a call. `Shapes` (`ShapesHold`) says what each has to know of
the others: documents and open calls are of the kind their identity tells, so
that a step of a component writes documents of its own kinds only (`Leaves`) and
moves a call of its own at most (`Touches`). Its invariant speaks of these kinds
and calls; every other step is a `Frame` that leaves them alone, and one lemma
for each component (`...Framed`) says that the invariant survives it.
What remains are the component's own steps, and there its strengthening:

- *registry* (`RegistryInv`): the audit events of an entity are those of its
  versions 1 to n, so the next version's event does not exist yet;
- *custody* (`CustodyInv`): every event continues the one before it, and a call
  that read an older head finds another number when it commits;
- *audit of the workspace* (`AuditInv`): audit events are counted with the
  records and the resolutions they tell of; a call that is to resolve an appeal
  knows a laboratory other than the first one, which stays the first;
- *detective* (`DetectiveInv`): a task has processed the results of its present
  execution, of either status, and its operation repeats what it says;
- *product codes* (`TraceInv`): the scans of a code bear the numbers up to its
  count, and a scan names a case that names it;
- *creations* (`PriorityInv`): the versions of a creation are numbered without a
  gap, and one after the first carries the hash of the one before, which is
  sealed;
- *publications* (`TwinInv`, `SponsorInv`, `BrandInv`): reports are numbered, those
  that were deleted too; a logo file that a sponsor, an upload not yet written
  or a deletion not yet done has is nobody else's; a brand names an application;
- *uploads* (`UploadsInv`): a session that waits for its promotion is the active
  one of its case, and a finalizer that has reserved its promotion goes on with
  the generation that is reserved;
- *case files* (`CaseInv`): each record has a chain of events that ends at its
  own count, and what it says of itself (`EvidenceTold`, `HoldTold`, ...) is what
  its events tell; a step makes a record gain one event (`Gains`), of which
  `GainsKeep` shows all the rest.

`EndedStay` rests on all of these. A transaction spares what has ended (`Spares`)
if it writes what is new or what it finds not to have ended, and each action is
shown to (`StandsStep`). That the written document is new needs the books: the
next number of records, reports and versions is free because they are
numbered without a gap, and an event of a record is new because the record counts
its events. `StandInv` says what the components did not need for themselves:
the records of the radar and the packages of a case are numbered, an event of a
case has a subject that exists, and a control is a function, so that a second
withdrawal, which writes the values of the first one again, changes nothing.

The bounds of a budget are constants of a behaviour (`BudgetStays`). The store has
its own `:>` and `@@`, because the prover has no definitions for those of module
TLC.

**Model-checked only.** Liveness (`Settles`, `HandoffsSettle`, `TerminalRunsGo`),
which needs fairness and ENABLED, out of the prover's reach. Every other
property of the passing runs is the statement of a theorem. No module that a
theorem reaches declares a RECURSIVE operator.

## Not modelled

- **Left out of the models.** Hashing, canonical JSON and validation of payloads;
  authorisation and the HTTP layer; wording and layout; the acquisition workflow
  inside n8n, of which only the results are seen; `markExecutionCompleted`, which
  has no caller.
- **Components.** `risk_operations` and `brand_portfolio` only read. The generic
  storage port of the risk scan has no caller outside its tests. The n8n
  workflows of `n8n_contracts` other than the gateway are generated bundles of
  contract code. The marketplace contract and the Trendyol adapter are pure
  translations. The Flutter client (`lib/`) reads what is modelled here, and the
  security rules say who may; neither changes it.

## Plan

1. *Done*: lifecycle tables, ledger, dispatch, handoff, pipeline, retention, all
   with proofs.
2. *Done*: command services and customs, with proofs, and the callables over the
   document store.
3. *Done*: the limits of the handoff reconciler and the order of its batch.
4. Next: an abstract specification of an append-only journal, refined by
   `EventJournal` in `CustomsProtection` and by the custody chains of
   `OdlaWorkspace` and `CaseFiles`.
5. *Done*: proofs of the modules of the document store, component by component,
   since their steps are local to a kind of document.
