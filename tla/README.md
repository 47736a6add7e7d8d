# Agent Work Relay in TLA+

Agent Work Relay (AWR) is a work broker. A planner (the *sender*) submits a
Markdown work order; the broker routes it to an executor (the *recipient*,
Cursor) that first writes a plan; the sender approves the plan; the broker hands
it to the provider, follows the run, and takes the result through a review and a
human acceptance, possibly over several revisions. Everything is durable, every
call can be repeated, and several processes can serve the same work order.

These modules model the broker's own logic (`src/awr`, in the repository
`src/src/awr`). All paths below are relative to it unless they start with `docs/`.

## 1. Inventory

| Component | State | Operations | Interacts through | Hard part | Correct when | Status |
|---|---|---|---|---|---|---|
| Lifecycle kernel (`lifecycle/`) | none (pure); judges a status and a `LifecycleSnapshot` | `apply_response`, `apply_broker_event`, `apply_decision`, `next_state`, `matching_plan_approval` | called under the store's lock | long sequences of legal calls; expiry; revisions | nothing runs unapproved; reports belong to the bound run; duties are separate | modelled: `Lifecycle` |
| Broker service, from planning to completion (`service.py`) | status, snapshot, packets, decisions, dispatches, ledger | `submit_response`, `record_decision`, `request_*`, `answer_question`, `dispatch_execution`, `refine_implementation`, `refresh_planning` | one transaction per call (`lock_work_order`) | two planning paths; retries; late packets; ids that clients choose | lineage does not fork, keys act once, terminal is final | modelled: `WorkOrder` |
| Execution dispatch (`service.py:785-1360`) | dispatch records: state, lease, attempt count, run, receipt | `refresh_external_run` and its helpers | several transactions and provider calls *between* locks | workers that race, die, time out, come late | at most one run per attempt; nothing waits for ever while the approval is valid | modelled: `ExecutionDispatch` |
| Submission and planning dispatch (`service.py:99-430, 1521-1640`) | work order row, ledger | `submit_prompt_for_planning`, `submit_work_bundle_for_planning`, `_route_and_dispatch`, `refresh_planning` | idempotency key; executor called outside the lock | replay against a call in flight; crash between accept and ack; lost answers | one planning run, one plan, no status goes back | modelled: `Planning` |
| SQLite store (`storage/sqlite.py`) | tables | `lock_work_order`, `claim_execution_lease`, lookups by key | `BEGIN IMMEDIATE` | lease against expiry | transactions are serial | partly: its atomicity is the models' actions |
| Firestore store (`storage/firestore.py`) | documents | sessions, `commit`, `claim_execution_lease` | lock per process; compare-and-set on the ledger sequence | several instances; sessions that do not move the sequence; commits that are run again | ledger whole, snapshots follow from each other, one post but for a late receipt | partly: `FirestoreSession` |
| Secure artifact relay (`artifacts/`, `storage/artifact_*`) | artifact rows, tickets, security receipts, bodies | intake, upload, `inspect`, retention, bundles | scan leases; body store outside the transaction | lease takeover; crash between receipt, promotion and status; a sweeper that works on an old listing | a verdict is earned, final, and its body is where readers expect it | modelled: `ArtifactRelay` |
| Content inspection (`artifacts/detect.py`, `scan.py`, `validate.py`, `policy.py`) | none | detect, scan, validate | called by `inspect` outside the lock | the scanner's errors | every outcome is a verdict | partly: its outcomes and their order, in `ArtifactRelay` |
| Response packets (`responses/`) | none | parse, render, digest | called by the service | - | - | partly: types and fields |
| Cursor adapter (`executors/`) | provider side | submit, recover, query | HTTP | timeouts, `agent_busy`, lost answers | an ambiguous answer is never retried | partly: its possible answers |
| Rate limiter (`auth/hardening.py`) | deque of hits per key | `allow` | lock | window boundary | never more than the limit in a window | not modelled: sequential, within reach of unit tests |
| Tokens, middleware, transports, CLI, settings, wrappers, decorators, logging | none worth the name | parse, verify, render | - | - | - | not modelled: I/O, cryptography or text |

`PROJECT.json` lists the same components with their files, and every hazard at
the line where it bites, with the properties that would see it go wrong.

## 2. Modules

| Module | Extends | Content |
|---|---|---|
| `Lifecycle` | - | The kernel as pure operators: the transition table as sets of edges, the snapshot, and for each `apply_*` function its guard (`Accepts...`) and its result (`After...`). |
| `WorkOrder` | `Lifecycle` | One work order; one action per handler of `BrokerService`. `LifecycleSpec` has the plan arrive as a packet; `Spec` adds the polling of the planning run (`refresh_planning`). |
| `MCWorkOrder` | `WorkOrder` | For TLC: bounds on histories that only repeat others, symmetry. |
| `WorkOrderProofs` | `WorkOrder`, `TLAPS` | The inductive invariant and the theorems. |
| `LifecycleProofs` | `WorkOrderProofs` | The theorems about `LifecycleSpec`: attempts, runs, questions, reviews and terminal statuses. |
| `ExecutionDispatch` | `WorkOrder` | `refresh_external_run` cut at every lock boundary and provider call, for any number of workers, with crashes, expiring leases, the provider's runs, the planner's moves and hand-made reports. Its transactions *are* `WorkOrder`'s actions (`SubmitResponse`, `CommitExecutionIntent`, ...). |
| `MCExecutionDispatch` | `ExecutionDispatch` | For TLC: worker symmetry, and a bound on the ids packets bring again. |
| `ExecutionDispatchProofs` | `ExecutionDispatch`, `WorkOrderProofs` | The inductive invariant of the composed system and its theorems. |
| `ExecutionRunProofs` | `ExecutionDispatchProofs`, `LifecycleProofs`, instances of `HandOff` and `WorkOrder` | The two refinement proofs of execution (a hand-off; a work order with atomic handlers), the lifecycle's properties with workers, and what a run reported by a worker is worth. |
| `HandOff` | - | The abstract specification of both dispatchers: a job is bound to at most one provider run, for ever, and whoever is told a run is told that one. |
| `Planning` | instance of `HandOff` | One work order from submission to plan, for any number of callers that submit, replay and refresh: one step per transaction and per call to the provider; the provider's agent and its runs, which a refinement of the work order may share. |
| `MCPlanning`, `PlanningProofs`, `HandOffProofs` | | For TLC; the inductive invariant, the theorems and the refinement proof of `Planning`; what every hand-off implies. |
| `ArtifactRelay` | - | One artifact: uploaders, scanners and the sweeper, one step per metadata transaction, read, or change of the body store. |
| `MCArtifactRelay`, `ArtifactRelayProofs` | | For TLC: three payloads; the inductive invariant and the theorems. |
| `FirestoreSession` | - | One work order's documents and the sessions of several instances on it, document by document. Says what the serial transactions of the other modules become on Firestore. |
| `MCFirestoreSession`, `FirestoreSessionProofs` | | For TLC; the inductive invariant and the theorems. |

### How state and actions correspond to the code

* `snap` is `LifecycleSnapshot`; `parent` is `current_parent_id`. A message id is a
  number. The ids that the broker makes (`uuid4`, digests) are fresh: the message that
  leads to version `v` has id `v`, and the work order is message 1. A client's packet brings
  its own `message_id`, any string (`responses/validate.py:86`), so the model lets it be a
  fresh id or that of any earlier message (`MessageIds`): of the event it answers, of the
  work order, of another event. An earlier packet's id is refused, because it is the
  primary key of the table (`PacketIdIsFree`, `storage/sqlite.py:69`). On Firestore it is
  not: the document of the earlier packet is overwritten (`storage/firestore.py:568-572`).
  That is not modelled.
* `plan` is the pair plan id and fingerprint, always compared together.
* `responses`, `decisions`: the stored rows. Each carries the version `at` which
  it was stored, which stands for the order of storage.
* `dispatches[n]` is the record of attempt `n`. `leaseOwner` is `None` once the
  lease is expired or cleared: the code never reads one without the other.
* `planLedger` says which of `plan.received`/`plan.available` and
  `executor.failed` the ledger holds, the only entries `refresh_planning` reads.
* `worker[w].pc` names the next step of a refresh. What the code read before that
  step and will use in it is in the same record (`dispatch`, `run`, `parent`, `type`, `key`).
  A refused call raises, ends the refresh and changes nothing.
* `runs` is the provider: the runs it started, for which dispatch, how they ended, and the
  idempotency key the end is reported under. The key is the agent's own when it wrote a
  packet (`service.py:1242`; `AgentKeys`), and one made for the run otherwise. A waiting run may ask
  again, under another key.
* `DispatchInit` has an approval that is valid for ever or until some instant; `Tick` may
  reach it in any state of the dispatch.
* `Planning`: `calls[c].pc` names the next transaction or provider call of a caller, with
  what it holds of the one before: `lookup`, `bundle`, `verify`, `route`, `submit`,
  then `raised`, `rejected` or `accepted`, or `polled` for a refresh. `ledger` is the
  ledger by event type and run. `runs` is the provider's agent: whose run, for which
  payload, how it ended. `CREATING` and `RUNNING` are one outcome. `parent` and `bundle`
  are the neighbours: the parent of a refinement may be acknowledged later, the
  artifacts of a bundle may change later. `answers` holds what acknowledgements and plans
  tell. The receipt of a rejection is not among them: it hands on the run id, if any, that the
  executor rejected with and that is stored nowhere (`service.py:1567-1576`; no shipped
  executor rejects).
* `ArtifactRelay`: `uploads`, `scans` and `sweep` say in the same way where each process is.
  `receipts[d]` is the security receipt of a digest; `quarantine` and `clean` are the two trees
  of the body store. `age` counts the two time limits of retention, not seconds. One
  scanner's `evaluate` covers detection, policy, the malware scanner and validation, in
  the order of the code. `sweep` keeps what the listing said; what it reads again is read
  from the state.
* `FirestoreSession`: sessions are numbered and write their number, so "computed from" can be
  said. A session's steps are the reads of `__init__`, in order, and its commit; the
  seven `Kinds` are the combinations of writes that `service.py` makes. Two of them write
  the dispatch and nothing else: `update` stores what the provider answered and is opened
  by whoever claimed the lease before; `remember` stores a receipt
  (`_remember_dispatch_receipt`) and looks the latest dispatch up, whatever its state.
* A call that is refused, or replayed and answered with a stored receipt, is a
  stuttering step of `WorkOrder`.

## 3. Runs

| Run | Specification | What it asks | Result |
|---|---|---|---|
| `lifecycle` | `LifecycleSpec` | attempts, questions, reports and reviews through a whole revision | holds |
| `work_order` | `Spec` | approval, lineage, keys and duties, with the planning poll, expiry and packets that bring the id of an earlier message | holds |
| `dispatch` | `DispatchSpec` | one run per attempt; settled means acknowledged | holds |
| `dispatch_revision` | `DispatchSpec` | a worker of the first attempt and the second attempt | holds |
| `dispatch_liveness` | `FairDispatchSpec` | a dispatch is resolved unless its approval expires; success is real | holds |
| `planning` | `FairPlanningSpec` | submissions, replays, refreshes, lost answers and a death agree on one run and one plan; planning is a hand-off | holds |
| `artifact_relay` | `FairArtifactSpec` | uploads, two scanners, the sweeper and a death leave one earned, final verdict, and bodies where readers expect them | holds |
| `firestore` | `FirestoreSpec` | what comparing the ledger sequence does protect, and the one way to a second post | holds |
| `question_of_another_run` | `LifecycleSpec` | `docs/AWR-LC-01B.md:42` | violated |
| `planning_poll_overwrites` | `Spec` | `docs/AWR-LC-01B.md:25-50` | violated |
| `question_receipt_is_lost` | `DispatchSpec` | `docs/AWR-EX-01.md:52` | violated |
| `firestore_stale_status` | `FirestoreSpec` | `docs/CURSOR_PRODUCT_SUMMARY_AND_CLOUD_RUN_BUILD.md:216` | violated |

`dispatch_revision` also checks `ExecutionIsAHandOff` and `planning` `PlanningIsAHandOff`:
both dispatchers implement `HandOff` under a refinement mapping (an attempt is bound by
its dispatch record and told by acknowledgement packets; a planning run is bound by
`executor.acknowledged` and told by receipts and plans). Both refinements are proved as well.

The four violations are disagreements between a document and the code:

* **A question of another run.** The table asks for "Parent, source, bound run"; the
  kernel checks the run only for progress, completion and failure.
* **The planning poll leaves the table.** `refresh_planning` sets `FAILED` or
  `PLAN_READY` whatever the status is, as long as no `plan.received` is in the
  ledger. If the plan came as a `plan.completed` packet there is none, and a late
  poll moves the work order along an edge nobody allowed.
* **The lost receipt.** The report of a question and the receipt on its dispatch are
  two transactions. Die between them and every later refresh of the waiting work
  order raises instead of returning the original receipt.

* **The status that is not compared.** On Firestore, `lock_work_order` locks within one
  process and the deployment runs two. It reads the work order before the ledger, and the
  commit compares the sequence of that ledger. What another instance commits between
  the two reads is overwritten, for example a cancellation by a late progress report.
  The snapshot is read after the ledger and is safe (`LifecycleIsCompared`).

Five behaviours the models have that a maintainer should know of, although no run is
spent on them:

* A **refinement** is posted to its parent's agent by every call, without a key the
  provider could recognise (`executors/cursor_cloud.py:70-84`). A replay sent while the
  first call is under way, or after it died before `executor.acknowledged`, starts a second
  planning run, against `docs/AWR-GT-001.md:40`. `OneRunWithoutParent` says what is left of it;
  `AnswersAgree` and `PlanIsOfOwnRun` hold all the same.
* A **scan that is given up** is completed as `REJECTED_SCANNER_UNAVAILABLE` even when a
  scanner has stored a CLEAN receipt meanwhile (`artifacts/retention.py:139`), and its promoted
  body stays in the clean tree until a later purge, against
  `docs/CURSOR_SECURE_ARTIFACT_RELAY_BUILD_PROMPTS.md:282`. `VerdictIsEarned` names this as the
  only way a verdict may differ from the receipt; bundles look at the status.
* On Firestore an **update of a dispatch** is dropped without an error when the ledger moved
  on since it was read (`storage/firestore.py:532`), and overwrites a claim that came
  in between otherwise. What the provider answered is stored after a claim, so the count of
  attempts never goes back to none by that.
* On Firestore a **late receipt** can make a follow-up run twice. A worker of attempt 1
  reports its run and is slow; the work is reviewed, revised and dispatched again; then the
  worker remembers its receipt on the latest dispatch, attempt 2, before anybody claimed
  it (`service.py:1208-1216`). The first claim posts the run without moving the ledger
  sequence, the receipt's commit puts the record back as it was (`attempt_count` 0,
  `PENDING`), and the next claim posts again, although `docs/AWR-EX-01.md:43-44` says that AWR
  fails closed "instead of posting a second run". `OnePost` names this as the only way:
  `posts > 1 => lapsed`, where `lapsed` is set by just that commit (`Lapses`), and TLC reaches
  two posts in the run. It takes the Firestore store; under SQLite the record is read and
  written in one transaction with the claims kept out (`dispatch`, `dispatch_revision`).
* A packet that brings the **id of an earlier message** makes that message the current
  parent again, and a second packet may answer it: two answers to one message, with the
  history still in order. `LineageIsLinear` says that this takes such a packet, stored
  between the two answers or as the first of them.

### Bounds, and why they are enough

* `work_order`: version 10 is the shortest history to `COMPLETE` (plan, request,
  approval, dispatch, acknowledgement, completion, review request, review,
  acceptance); any of its packets, or one detour on the way (`MaxDetours`: progress, a
  question, a packet with the id of an earlier message), may come at any point. One packet
  with an earlier id (`MaxReusedIds`) suffices for two answers to one message; ids that
  nothing answered are as good as fresh ones and are not explored (`ReusedIdsMatter`), and
  neither is expiry in a history with such a packet (`ReusedIdsWithoutExpiry`): which
  message a packet answers does not depend on the clock. Two plans, two keys, one instant
  of expiry and one tick let everything that is compared differ; whose run a packet names
  matters to the properties of `lifecycle` only, which has two. Two principals suffice
  because the sender may also act as executor; the third participant, the broker, has the
  recipient's rights.
* `lifecycle`: version 16 reaches the second review after a revision, with two
  detours (progress or question). One plan and fresh message ids: only `work_order`'s
  properties look at which plan it is and which message a packet answers.
* Keys are numbers used in order (`UsedInOrder`): they are only compared for
  equality, so this drops renamings only. Plans' fingerprints and runs are
  symmetric.
* `dispatch`: one attempt, two workers under two principals' names, one crash, up
  to two runs (one would make the property true by the bound) that complete or ask, and one
  report by hand (`OneReportByHand`): one is enough to move the work order under any
  step of a worker.
* `dispatch_revision`: two attempts, so that each step of a worker of the first can
  meet each state of the second; a crash. Runs end by completing, the only way to
  a revision.
* `dispatch_liveness`: one attempt and one run, two workers, one death, an approval that is
  valid for ever or expires with the one tick. A run ends in a completion, under a key made
  for it or one of the agent's own (`AgentKeys`), or in what is no packet; a failure is left
  out because it is reported as the last is, by `execution.failed`, and a question because
  it is only reported once the dispatch is resolved. Completions after questions are in the
  proof of `CompletionIsReal`.
* No run of the dispatch has packets with an earlier id (`MaxReusedIds` is 0): what two
  answers to one message look like is `work_order`'s subject, and the theorems about the
  dispatch hold for any number of such packets.
* `planning`: two callers, two payloads under one key, three submissions, two runs (one
  would make `OneRunWithoutParent` true by the bound), one death. Two callers are enough
  for a call in flight and a replay; the third submission comes after either. Refreshes
  are not bounded.
* `artifact_relay`: two scanners (takeover), one uploader, the sweeper, one death; a payload
  that is good, one that is malformed, one too large; with and without a declared digest.
  One uploader can still hold a ticket that is replaced, after a death too. Two uploaders that
  race do not fit the time of a run: `OneGeneration` is checked for one, and proved for any
  number (`BytesAreFinal`).
* `firestore`: three sessions of up to three instances, so that two can commit between the
  reads of a third, and two claims. Sequence numbers and attempts are bounded by these.
* `MaxVersion` is out of reach in the dispatch runs: attempts, runs and keys bound
  them. An attempt count is only compared with 1 and is capped at 2.

### Fairness

`FairDispatchSpec` assumes weak fairness of each worker and of the passing of a
lease's thirty seconds. A worker's steps include starting a refresh: the broker has
no scheduler of its own, `refresh_external_run` is "the reusable reconciler"
(`docs/AWR-EX-01.md:19`) and somebody has to go on calling it. Within a call the
code runs on unless its process dies: no step waits for another, and every call
to the provider has a timeout. Nothing is assumed of the planner, of the
provider's runs or of crashes, and a worker that dies stops where it is.
`DispatchIsResolved` then says that `EXECUTION_DISPATCHED` is left, or the dispatch is held
as `RECONCILIATION_REQUIRED` for a human, unless the approval expires first: this is
what the documents mean by failing closed. The exception is the code's. A decision may carry
`expires_at`; once it has passed, `apply_response` refuses every acknowledgement
(`lifecycle/kernel.py:161`), the record stays `PROVIDER_ACCEPTED`, every refresh raises, and
only a cancel by a human moves the work order.

`FairPlanningSpec` assumes weak fairness of each caller's steps and of its refreshes: within a
call the code runs on unless it dies, and a client that wants its plan polls
(`refresh_planning` is the only way a plan arrives). Submissions, runs and deaths are not
assumed. `PlanArrives` then says that the plan of an acknowledged run that finished gets
into the ledger.

`FairArtifactSpec` assumes that some scanner goes on (the owner calls `finalize_upload` again,
and a call goes on unless it dies) and that leases run out. It is not assumed of each
scanner: one may hang for ever. Nothing is assumed of the sweeper: nothing in `src/`
but tests calls `retention.purge`. `ScanEndsAtLast`: uploaded bytes get a verdict.

`CHECK_DEADLOCK FALSE` everywhere: a finished work order may really stop.

## 4. Proofs

`WorkOrderProofs` proves for `Spec`, for all principals, plans, runs, keys,
instants and bounds, from the two assumptions `LifecycleAssumption` and
`WorkOrderAssumption` (the sender is a principal; `None` is not a value, and names neither
a principal nor the broker; numbers are naturals):

| Theorem | Property |
|---|---|
| `TypeCorrectness` | `TypeOK` |
| `ApprovalGate` | `ApprovedBeforeExecution` |
| `DutiesSeparated` | `SeparationOfDuties` |
| `LineageNeverForks` | `LineageIsLinear` |
| `AnswersAreFew` | no message is answered three times, nor twice if every packet brings a fresh id |
| `KeysActOnce` | `OneEffectPerKey` |
| `PlanIsFrozen` | `PlanFingerprintIsFrozen` |

The safety properties are not inductive. `ApprovedBeforeExecution` compares dispatches
with the plan of the snapshot, so the plan must not change any more: the
strengthening `PlanIsSettled` says in which statuses there is no plan yet, so that
`plan.completed` can only come before any approval. A question and its answer
return to an earlier status, so `OriginWasReached` carries over to `blockedFrom`
what holds of the status. Lineage, keys and the order of decisions and
packets rest on three more: nothing stored is newer than the snapshot (`StoredIsOlder`), no
two packets share an id (`IdsAreUnique`), and if a packet answered the current parent
already, one came back to the parent's id since (`ParentWasBroughtBack`).
`InductiveInvariant` shows that they hold
together. `PlanIsFrozen` is an action property from that invariant.

`LifecycleProofs` proves for `LifecycleSpec`, from the same assumptions:

| Theorem | Property |
|---|---|
| `AttemptsAreAcknowledgedOnce` | `OneAcknowledgementPerDispatch` |
| `QuestionsComeBack` | `BlockedOriginIsCoherent` |
| `ReportsAreBound` | `ReportsAreOfBoundRun` |
| `ReviewsAreFresh` | `ReviewIsOfLatestCompletion` |
| `FinishedIsFinished` | `TerminalIsFinal` |
| `HandlersKeepToTheEdges` | `OnlyAllowedEdges` |

`LifecycleSpec` implies `Spec`, so what is proved of `Spec` is used as it stands. On top of
it `AttemptsAreCounted` says that the number of acknowledgements tells how far the newest
dispatch has come: one less than the dispatches while it waits for its acknowledgement,
as many afterwards. `RunIsBound` says that the run of the snapshot is the one of the newest
acknowledgement, and `CompletionIsStored` that whatever is about to be reviewed was
reported before. These do not hold of `Spec`: the planning poll sets the status
whatever the lifecycle says (`planning_poll_overwrites`). `HandlersKeepToTheEdges` is the other
half of that finding: without the poll no step leaves the transition table, so the poll is
the only cause of the run's counterexample.

`ExecutionDispatchProofs` proves for `DispatchSpec`, for any number of workers,
attempts, runs and crashes, from `DispatchAssumption` as well (the recipient and the
callers are principals, a provider run ends in one of four ways, runs are
numbered):

| Theorem | Property |
|---|---|
| `DispatchTypes` | `DispatchTypeOK` |
| `SingleRun` | `OneRunPerDispatch` |
| `SettledIsAcknowledged` | `SettledMeansAcknowledged` |
| `WorkOrderStaysSafe` | `ApprovedBeforeExecution`, `SeparationOfDuties`, `LineageIsLinear`, `OneEffectPerKey` |

Here the invariant (`DispatchInductive`) is about what a worker carries from one
transaction to the next. `SoundWorker`: the dispatch, the run and the
acknowledgement it saw are still there, because records only grow (`Grows`).
`SoleSubmitter`: a worker on its way to the provider has counted the first attempt
of its dispatch, no run of that dispatch exists (`RunsAreCounted`: every run was
counted before it was posted), and no other worker is on the same way. It is the
attempt count and not the lease that makes the run single: a lease may expire, or
be shared by two workers with one name, at any moment of the proof. Each
transaction of a worker is a handler of `WorkOrder` or an update of one
dispatch record, so the lemmas of `WorkOrderProofs` are used again for `Inductive`.
`WorkOrderStaysSafe` is what composing the two modules gives.

`ExecutionRunProofs` follows a run from the provider to the work order:

| Theorem | Property | Assumes |
|---|---|---|
| `ExecutionIsHandedOff` | `ExecutionIsAHandOff` | - |
| `SessionsAreAtomic` | `WorkOrderIsAtomic`: execution implements `LifecycleNext` step by step | - |
| `WorkOrderStaysCoherent` | `OneAcknowledgementPerDispatch`, `BlockedOriginIsCoherent`, `ReportsAreOfBoundRun`, `ReviewIsOfLatestCompletion` | - |
| `ApprovedPlanIsKept` | `PlanFingerprintIsFrozen` | - |
| `FinishedStaysFinished` | `Atomic!TerminalIsFinal` | - |
| `WorkersReportTruly` | what an actor outside `Reporters` reports of a run is what the provider says of it | - |
| `BoundRunCanBePolled` | `BoundRunIsPollable` | `Reporters = {}` |
| `CompletionsAreReal` | `CompletionIsReal` | `Reporters = {}` |

`OwnRuns`: since the sole submitter of an attempt posts it once, every record, worker and
acknowledgement of the attempt names that one run. So a step of a worker binds the
attempt (`Binds`), tells its run (`Tells`) or hands nothing off, which are the steps of
`HandOff`.

A worker's transactions are `WorkOrder`'s handlers, but between them it also writes to the
dispatch records (claims, leases, what the provider answered), and those are not visible
to the work order. `WorkOrderIsAtomic` says this as a refinement: with a dispatch standing
for what was handed out (`Handed`: its attempt, plan and approval, without what became of
it), every step of any number of workers, deaths, expiring leases and late answers is one
handler of `LifecycleNext` called by the broker or a client, or a stutter. On the abstract
level every record looks as the intent stored it, so the check of
`_commit_execution_intent` for an undelivered dispatch (`HasPendingDispatch`) has to be
redundant there: it is, since it asks for `EXECUTION_DISPATCHED`, which admits no intent.
The proof has one lemma per kind of step (`PlannerActs`, `WorkerActs`, `StepActs`): it is
a handler with an input a client could have sent, or an `UpdatesAttempt`, or leaves the
work order alone. From the same lemmas `LifecycleInductive` holds under workers
(`LifecycleHolds`), which carries the properties of `LifecycleProofs` over, and
`FinishedStaysFinished` is the abstract specification's own action property under the
mapping. `DispatchInit` begins with an approved plan and `LifecycleSpec` before it, so the
refinement is stated of steps.

`WorkersReportTruly` needs no assumption on the participants who report by hand: a packet
that they sent is theirs. The theorems about bound runs and completions assume, like the
runs that check the properties, that nobody reports by hand: `submit_response` takes an
acknowledgement or a completion of an executor at its word, whatever run it names. Then
`AttemptsInOrder` says that no attempt begins before the one before it was acknowledged,
so the bound run is the newest attempt's, and `ReportsAreTrue` that what a worker is about
to report is what the provider answered.

`PlanningProofs` proves for `PlanningSpec`, for any number of callers, payloads, submissions,
runs and deaths, from `PlanningAssumption`: `PlanningTypes`, `ReceiptsAreLoggedOnce`
(`LoggedOnce`), `RootRunsOnce` (`OneRunWithoutParent`), `EveryAnswerAgrees` (`AnswersAgree`),
`PlanIsAlwaysOwn` (`PlanIsOfOwnRun`), `ReadyPlansStay` (`PlanStaysReady`) and `PlanningIsHandedOff`
(`PlanningIsAHandOff`: the initial states map to initial states, and every step to a
binding, a telling or a stutter). The invariant `PlanningInductive` is about what a call
carries across the provider call: `SoundCalls` (its payload is the stored one, its run
exists and, unless somebody acknowledged first, is this work order's), `SoundRuns` (until
it is acknowledged, the agent has runs of this work order only, since a refinement needs
the acknowledgement to know the agent) and `SoundLedger`. `HandOffProofs` proves of the abstract
specification that a binding is for ever and that nobody is told two runs.

`ArtifactRelayProofs` proves for `ArtifactSpec`, for any number of payloads, uploaders,
scanners and deaths, from `ArtifactAssumption`: `ArtifactTypes`, `VerdictsAreEarned`
(`VerdictIsEarned`), `CleanTreeIsScanned` (`CleanBodyIsScanned`), `CleanCanBeRead`
(`CleanIsReadable`), `WaitingBodyIsKept` (`BodyKeptUntilVerdict`), `JournalIsTrue`
(`JournalAgrees`), `AttachmentsHold` (`AttachedStaysClean`), `VerdictsAreFinal`
(`VerdictIsFinal`) and `BytesAreFinal` (`OneGeneration`). The invariant says that what a
scanner or the sweeper is about to write is covered by the stored receipt
(`VerdictsAreStored`), that whoever completes a scan as clean has promoted the body before
(`BodiesAreThere`), and that the sweeper only deletes after it has seen a verdict. The
lease is nowhere in it: it is the unique receipt that makes several scanners agree.

`FirestoreSessionProofs` proves for `FirestoreSpec`, for any number of instances, sessions
and claims, from `FirestoreAssumption`: `FirestoreTypes`, `LedgerStaysWhole`
(`LedgerIsWhole`), `PostedOnce` (`OnePost`) and `SnapshotsAreCompared`
(`LifecycleIsCompared`). A session whose base is still the sequence has read the current
snapshot, because whoever replaces the snapshot moves the sequence and the base was read
first (`SnapshotIsCurrent`). `AttemptsAreCounted` says of the dispatch's record that its count of
attempts, and the one that a session storing an answer has read, tell whether there was a
claim, as long as no receipt put an earlier record back. `LedgerIsWhole` also says that a session's entries stand
together and once, although Firestore may run a commit again whose answer was lost; it is
not inductive: `EntriesAreOwn` adds that no two sessions share a number, and that an open
session has nothing in the ledger but the entries its commit, run before, was to add.
`OneInstanceComparesStatus` assumes a single instance and proves of it the property that
the run `firestore_stale_status` finds violated with two: the lock of the process does
what the commit does not.

Only model-checked: liveness (`DispatchIsResolved`, `PlanArrives`, `ScanEndsAtLast`),
which is out of reach of the prover. The properties that `planning_poll_overwrites` and
`firestore_stale_status` refute are proved under the restriction that removes the cause;
`question_of_another_run` and `question_receipt_is_lost` are left to TLC.

## 5. Not modelled, and what is left

Left out of the models above: packets of another work order, with another source
hash or another `expected_version` (they are only refused), work orders with
artifacts at execution (it refuses them as `DELIVERY_UNSUPPORTED`), evidence, and the
text of everything. Of the relay: the expiry of a ticket, `delete_expired` on orphaned files
(both look at clocks and file ages only), and the `artifact.relay_authorized` receipts that a
bundle writes into the artifacts' journals. Of Firestore: the projections
(`list_*`), the response packets and decisions a session carries along with its entries
(they are written or refused with them), and the order in which documents without a
sequence come back. The limiter, authentication, the transports, settings and the
rendering of directives, wrappers and packets hold no state that others share.

Known and modelled but without a property, because no document promises otherwise:
the fixed key of the progress packet, which makes the second poll of a running
run fail; `_mark_reconciliation` without a state guard; a cancel that leaves a provider run
behind; a receipt that lands on the next dispatch (but for `OnePost`); a failure after an earlier one, which is not recorded; the rejection
branch of `_route_and_dispatch`, which does not look for an acknowledgement and is
exempted in `PlanStaysReady`; an upload rejected as `REJECTED_TAMPERING`, whose quarantined
body no purge can name because the artifact has no digest; a sweep listed before the
upload, which rejects it without a security receipt; a late `begin_intake`, which leaves
an open ticket on an uploaded artifact. See the hazards.

Left for later: several work orders that share keys (`storage/sqlite.py:675`), and the
serial store as an abstract specification that `FirestoreSession` would implement but for the status.
