# Verification of YuantusPLM

TLA+ models, TLC runs and TLAPS proofs about YuantusPLM, a product-lifecycle
management server: a Python modular monolith (FastAPI, SQLAlchemy, PostgreSQL or
SQLite) whose core is `src/yuantus/meta_engine`. All paths below are relative to
the repository root.

The server's hard part is not any single algorithm. It is that many actors -
HTTP requests, drain workers, a scheduler, operators - work on the same rows
through short READ COMMITTED transactions, keep copies of rows across commits,
and talk to remote systems that may apply a request and lose the answer. The
models are about that.

## 1. How the code touches the database

Every module rests on these facts (`src/yuantus/database.py:178-188`):

- sessions are `autoflush=False`, `expire_on_commit=False`; the isolation level is
  the database's default, READ COMMITTED. A row loaded once is a *copy* that
  survives a commit and is only reloaded by a `refresh`, a rollback or a new query
  after the object is gone;
- a flush writes the attributes that differ from the values loaded, by primary
  key, with no version column: an update never notices that the row has changed;
- `SELECT ... FOR UPDATE SKIP LOCKED` is used by the claim queries on PostgreSQL
  (the SQLite fall-back is for development and is not modelled). Everything else
  reads without locks.

So a step of a model is one transaction (or the part of a handler between two
commits) or one remote call; what a worker carries from one step to the next is
a variable of its own, and a write updates only the attributes the code changes.
Where the operations are HTTP requests (`VersionLine`, `Eco`, `BomLines`,
`Writeback`, `Numbering`, `Events`, `BreakageLoopback`), a request is two steps or more:
one that reads, checks its guards and leaves its pending changes in a variable of the
request, and a `Commit` that writes the changed columns over whatever the rows hold by
then. A request that is refused changes nothing and has no step.

## 2. Inventory

| Component (directory) | State | Operations | Hard behaviour | What makes it correct |
|---|---|---|---|---|
| ECM publication outbox (`ecm_publication/`) | table `meta_ecm_publication_outbox`; worker's batch of copies; the remote document | enqueue at release, claim, process, send, reschedule, reclaim, replay, prune | stale copies, lost acknowledgements, crashes, order of versions | SENT means acknowledged, no older version overwrites a newer one that is SENT, attempts are bounded, every row is settled |
| Background jobs (`services/job_service.py`, `job_worker.py`) | table `meta_conversion_jobs`; worker's claimed job | submit with dedupe and quota, poll, run, complete, fail, requeue | stale requeues, crashes, late writes | attempts pay for runs, finished is final, key and quota exceeded by no more than the races under way |
| ERP publication outbox (`erp_publication/`) | its table; the session of each request | enqueue, dry run, process, replay | routes that do not commit | an answered enqueue is stored |
| Notification outbox (`notifications/`) | deliveries, worker's batch | enqueue, drain, retry | lost answers, crashes, stale claims | sent means the adapter said ok, attempts are bounded |
| Version line (`version/service.py`) | versions of an item, the current version, checkout columns, branches | create, checkout, checkin, release, revise, branch, merge | check-then-write without row locks | one current version, a released version is frozen, one holder of a checkout |
| Version files (`version/file_service.py`) | files of a version, per-file locks | attach, detach, lock, unlock, sync | locks against releases | no edit under a foreign lock, none after release |
| ECOs (`services/eco_service.py`) | an ECO, its stage, approvals; the product's current version | create, bind, revise, move, approve, reject, assign, escalate, suspend, resume, cancel, delete, apply | rounds of votes, suspension in between, overlapping votes | only an approved ECO is applied, approved means complete, a complete stage moves on |
| ECO activity gate (`ECOActivityValidationService`) | activities with dependencies | create, transition, bulk transition | a bulk walks a set in any order | nothing is left behind, dependencies go first |
| Breakage loopback (`BreakageIncidentService`) | an incident's link to its ECO | create, status change with auto-loopback | two creators, compare-and-swap | one ECO per incident |
| Lifecycle and workflow (`lifecycle/`, `workflow/`) | an item's state, permission, release; its process | promote with gates, hooks, nested workflow; vote; obsolete sweep | a failure half-way, promotes inside promotes | permission follows state, released items that have versions have a released one |
| Numbering (`services/numbering_service.py`) | a counter per type and prefix | allocate, type by hand, commit, roll back | the floor scanned before the counter is raised | numbers are unique |
| BOM (`services/bom_service.py`) | relationship items | add with a cycle check, remove, AML add | check-then-write | checked lines make no cycle |
| BOM write-back (`bom_multitable_writeback_service.py`) | a line's cells, the audit rows | keyed write with If-Match | retries, loads before locks | the audit explains the line |
| MES inbox (`consumption_mes_inbox_service.py`) | inbox rows, consumption records | accept, ingest, drain | duplicates, crashes between rows | a processed row is recorded, a refused one is not counted |
| Events and search index (`events/`, `search_indexer.py`) | a session's pending events; the index | AML add, update, promote, delete; commit, rollback, savepoints; handlers | when the hooks fire | the index follows the table, events are published after commit |
| Circuit breaker (`integrations/circuit_breaker.py`) | state, failures, half-open slots | calls that begin and end in any state | overlapping calls | a slot is a probe |
| Approvals, e-signatures, scheduler, manufacturing, quality, maintenance, subcontracting, box, cut parts, document sync, dedup | one table each | CRUD with a status | little | - |
| CAD import, conversion, checkin | files, storage, external converters | import, convert | partial failure | - |
| Release guards, effectivity, permissions, quotas, search queries, API, CLI, infrastructure, clients, plugins | lookups, translation | - | - | - |

How they interact: `VersionService.release` enqueues ECM rows in its own transaction
(a savepoint, so that a failed enqueue never fails the release); ERP rows come from
operators, through routes. ECO apply drives the version line; closing a breakage
incident creates an ECO; the activity gate blocks an ECO's moves. The lifecycle's
promote starts workflows, whose end promotes, and releases the version; AML operations
take numbers, promote, and raise the events that keep the search index. The CAD
routers, the scheduler and ECO automation submit background jobs; the outbox workers
are separate processes that only share the database. `PROJECT.json` lists every
component with its status, and every hazard with the line where it bites.

## 3. The modules

| Module | Content |
|---|---|
| `EcmOutbox`, `EcmOutboxMC` | the ECM outbox: table, release side, drain workers, operator, prune, remote document |
| `PublicationOutbox` | what any outbox promises; implemented by `EcmOutbox` and `NotificationOutbox` |
| `NotificationOutbox` | deliveries and their drain workers |
| `ErpOutbox` | the ERP routes and their sessions |
| `JobQueue`, `JobQueueMC` | the job table, submitting clients, workers |
| `VersionLine`, `VersionLineMC` | the versions of one item, check-out of versions and files, release, revision, branch, merge, the ECO's revision |
| `Eco` | engineering change orders, their votes, and the product version they make current |
| `EcoActivities` | the activity gate, single and bulk transitions |
| `BreakageLoopback` | the design ECO of a breakage incident |
| `Promotion` | an item's lifecycle and the workflow its states start |
| `Numbering` | counters, scans and numbers typed by hand |
| `BomLines` | lines, the cycle check, lines added behind it |
| `Writeback` | governed edits of a line, their keys and audit |
| `MesInbox` | acceptance, direct ingestion and drains of consumption events |
| `Events` | events of a session, their publication and the index |
| `Breaker` | the circuit breaker |
| `Services`, `ServicesMC` | twelve of them side by side, with the constants of all; the values for TLC |
| `EcmOutbox_proofs`, `EcmRefinement_proofs`, `JobQueue_proofs`, `VersionLine_proofs`, `Eco_proofs`, `Numbering_proofs`, `Breaker_proofs`, `Services_proofs` | theorems |

### EcmOutbox

A row stands for one controlled file of one released version. Rows are numbered
in the order of `released_at`; `Lineage` maps a row to its
(item, file role, target) - the remote document that successive versions
overwrite. `row` is the table. A record keeps `state`, `reason`, `fp` (the content
fingerprint of the snapshot), `attempts`, `conflict`
(`properties["conflict_after_sent"]`), and abstracts two timestamps: `claim`
(`claimed_at` absent, within the stale timeout, or past it) and `due`
(`next_attempt_at` reached).

| Action | Code |
|---|---|
| `Release`, `RacingRelease` | `EcmPublicationOutboxService.enqueue_release`, `_enqueue_existing`; the second one needs a release request that read the version before the first committed |
| `FileChanges` | edits after the snapshot: what `build_snapshot` will read at revalidation |
| `ReclaimRead`, `ReclaimWrite` | `_reclaim_stale`, two statements |
| `ClaimBatch` | `_claim_batch`, under `FOR UPDATE SKIP LOCKED` |
| `SkipRow`, `CheckRow`, `AbortTick` | `_process_row` up to `process()` |
| `RevalidateRejects`, `Prepare`, `PrepareFails` | `process()` before the send |
| `Send` | the adapter's call and what Athena does with it: applied or not, acknowledged or not, all four. `transfer_receiver_adapter.py` takes the dispositions UNCHANGED and SKIPPED for success, so that an acknowledgement does not mean that the document was overwritten |
| `Commit` | the result, written from the worker's copy, and `reschedule_retry` |
| `ProcessRaises` | the `except` branch: rollback, reload, count the attempt; for a row pruned meanwhile the handler's own log call raises, which ends the tick |
| `Crash` | the process dies and restarts |
| `ClaimAges`, `BackoffElapses` | time |
| `Replay`, `Prune`, `SwitchOff` | operator, retention job, operations |

Releases commit in any order, whatever their `released_at`. A racing re-enqueue also
takes the new snapshot's `released_at`; it is assumed to keep the row's place in the
order, no later version having been released between the two requests.

History variables: `acked` (rows a send of which Athena answered with success),
`everSent` (rows that were committed as SENT), `sends` (calls since enqueue or replay).

### JobQueue

`job` is the table (`attempts` = `attempt_count`; `due` abstracts `scheduled_at`,
`started` abstracts `started_at` against the stale cutoff, `index` is
`payload["index"]` of a `cad_dedup_vision` job). A client's submission is the dedupe
query (`SubmitDeduped` / `SubmitNew`) and the insert (`SubmitInsert`), two steps,
because they are two statements with no unique index behind them. A worker's
loop is `RequeueRead`, `RequeueWrite` (`requeue_stale_jobs`), `PollLimit`
(`_processing_limit_reached`), `Claim` / `NothingDue` (`poll_next_job`), `Refresh`,
`Run` / `NoHandler` (`_execute_job`), `Finish` (`complete_job`, `fail_job`). `Finished`
writes what the code writes: the attributes that differ from the worker's copy, and the
payload, index flag included, from that copy (`fail_job` always, `complete_job` only if
the handler returned a value to be stored, outcome "value"). `aged` is history: the jobs
a claim of which has passed the stale timeout. `worker_id` is written but
never read by any of this code, so the model leaves it out.

### VersionLine

One item and its versions, numbered as they are inserted. `ver[v]` is the row of
`meta_item_versions` with its rows of `meta_version_files`: the branch, the
predecessor, the three flags, `holder` (`checked_out_by_id`), the attached `files`
and `lock` (each file's `checked_out_by_id`). `item` is the item's
`current_version_id`, `eco` the target version and the outcome of an ECO on the item.
`req[r]` is the session of a request in flight: which versions get which column
set, and the row to insert. A refused request has no step.

| Action | Code |
|---|---|
| `CreateInitial`, `Checkout`, `Checkin`, `Revise`, `Release`, `CreateBranch`, `MergeBranch` | the methods of `VersionService`; `new_generation` differs from `revise` in the label only, so both are `Revise` |
| `NewRevision`, `Apply` | what `ECOService.action_new_revision` and `action_apply` do to the version line |
| `CheckoutFile`, `UndoCheckoutFile` | `VersionFileService`, with the router's guards |
| `AttachFile`, `DetachFile` | the same; the router lets only the holder of the version in (`web/version_file_router.py:45-68`) |
| `Commit` | the flush and commit. `Accepted` is what the database refuses: a second open draft on a branch (`uq_itemversion_open_current_per_line`), a file attached twice, the update of a deleted attachment |
| `Rollback` | a refused commit, or a request that ends before it |

A check-in takes the set of files attached to the item as an arbitrary input, since
the item's own attachments are edited elsewhere. All reads of one handler are one
step; what may come between them and the commit is modelled.

### Eco

`eco[e]` is the row of `meta_ecos` (`state`, `stage` by its sequence, whether a product
is bound, the target version), `votes[e]` the rows of `meta_eco_approvals` by stage and
user. A request reads the row (`at`), decides, and keeps the row it wants (`to`) and the
votes it stores (`put`); `Commit` writes the columns in which `to` differs from `at`, as
the ORM does, so that overlapping requests can be mixed. `stale` marks a request
whose ECO another one has changed meanwhile, `raced` the ECOs to which that happened:
the properties are about the others. `forced` holds the ECOs resumed with `force=true`,
which skips the diagnostics.

| Action | Code (`eco_service.py` and its routers) |
|---|---|
| `Create`, `BindProduct`, `BindAndBranch`, `NewRevision`, `MoveToStage`, `Suspend`, `Unsuspend`, `Cancel`, `Apply` | the methods of `ECOService` of these names |
| `Delete` | the route, which deletes drafts only |
| `Approve`, `Reject`, `AutoAssign`, `Escalate` | `ECOApprovalService`; an approval that completes a stage moves the ECO on and assigns the next approvers in the same transaction |
| `TurnGate` | anything that makes the activity gate block or free the ECO (`EcoActivities` has the details) |
| `Commit`, `Rollback` | the end of the request |

### The smaller modules

- `NotificationOutbox`: `row` is the table, `batch` the worker's copies; `answer`
  is what the adapter said, `accepted` the deliveries the mail server took, `confirmed`
  those the adapter said ok for. The two differ with the default
  `NullNotificationAdapter`, which says ok and mails nothing, and with a lost answer.
  `OutboxSpec` maps it to
  `PublicationOutbox`, each delivery a lineage of its own.
- `ErpOutbox`: `table` holds committed rows; a request's flushed rows are in its session
  until `Close`, which is `get_db`'s `finally`.
- `EcoActivities`: a bulk transition is a sequence of `BulkVisit` steps which take the
  remaining activities of a round in any order, as Python sets do.
- `BreakageLoopback`: the creation, the UPDATE that begins (`BeginLink`, with its
  snapshot), the same after it has the row lock (`LockRow`), and the loser's path.
- `Promotion`: a promote is one step with its outcome: which of its stages fails, what
  the workflow it starts does, and what is set back. Callers commit either way where the
  code does. `versionable` is `ItemType.is_versionable`: only such items are released.
- `Numbering`: `Scan`, `Holds` and `Allocate` are the three statements between which
  other transactions run; the counter row is locked from `Allocate` to the end. It is one
  counter, that of one tenant and organisation: the floor scan covers the whole table, and
  the numbers of others' items it finds are in the way as typed numbers are. A scan that
  fails on PostgreSQL aborts the transaction, so the fall-back to no floor allocates
  nothing there.
- `BomLines`, `Writeback`: `stale`/`mixed` mark what overlapped, as `raced` above. What the
  search below a part finds is `Reached`, the least set that has the part and is `Closed`
  under its lines: the code's search visits each part once and has no limit of depth.
- `MesInbox`: `batch` and `copy` are what each drain has read; `shared` the keys that two
  drains have held at once.
- `Events`: `pending[r]` is the session's list, `feed[r]` what is being published,
  `spoiled` the items whose events were lost to a savepoint, an error or an overlap.
- `Breaker`: `call[c]` says whether a call under way was admitted as a probe of the
  present half-open episode; `inflight` is the counter that should agree. With
  `half_open_max_calls = 0` the breaker turns half-open and refuses the call.

`Services` is a sum, not a product: `part` picks the one that moves, so that the
states add up. It is there because the runs are few and these instances small. It takes
the constants of its parts as its own; `ServicesMC` only gives values to them, and the
theorems about the parts are stated of `SumSpec`, the specification that the run checks.

## 4. Runs

Passing runs:

| Run | Instance | Shows |
|---|---|---|
| `ecm_single` | 1 worker, 2 versions of a document, 1 attempt, 1 racing release, 1 crash, 1 replay | `TypeOK`, `LatestWins`, `SentIsFinal`, and the refinement `OutboxSpec` |
| `ecm_overrun` | 1 row, 2 fair workers, 2 attempts, prune, 1 crash, 1 outlived claim | `ClaimExclusive`, `SentWasAcknowledged`, `Settles` |
| `jobs_workers` | 1 client, 2 fair workers, 2 jobs, 2 keys, 2 attempts, quota 1, 1 crash | `AttemptsBounded`, `RunsAreAttempts`, `ClaimsKeptApart`, `FinishedIsFinal`, `Settles`, `TypeOK` |
| `version_serial` | 3 versions, 2 users, 1 file, one request at a time, every operation | `ItemAtCurrent`, `OneCurrent`, `SupersededWasReplaced`, `LocksAgree`, `ReleasedIsFree`, `TypeOK` |
| `services` | the sum below | twenty-one properties of twelve modules |

The parts of `services`:

| Part | Instance | Properties |
|---|---|---|
| eco | 1 ECO, 2 users (1 admin), 2 stages (1 gated, both automatic), 2 approvals, 3 versions, one request at a time | `TypeOK`, `ApprovedIsComplete`, `CompletionProgresses`, `AppliedIsApproved`, `SuspensionHolds` |
| numbering | 3 items, 2 overlapping requests, numbers up to 2 | `NumbersUnique` |
| activities | 3 activities, 2 blocking | `BulkIsComplete`, `BulkKeepsOrder` |
| notifications | 3 deliveries (1 without address), 1 worker, batches of 2, 1 crash, 1 outlived claim | `SendsWithinBudget`, `OutboxSpec` |
| mes | 1 key, 2 payloads, 2 drains, 2 attempts | `ProcessedIsRecorded`, `RefusedIsNotCounted` |
| promotion | 5 states, 2 workflow activities, one broken workflow | `PermissionFollowsState`, `ReleasedHasVersion` |
| events | 1 item, 2 contents, 2 overlapping requests | `IndexFollowsStore` |
| bom | 3 parts, 2 overlapping requests | `CheckedIsDag` |
| writeback | 1 line, 2 cells, 2 keys, 2 overlapping requests | `AuditMatchesLine` |
| breaker | 3 calls, 2 probes | `SlotsAreProbes` |
| jobs | 2 workers, 3 clients, 4 jobs, 1 key, 1 attempt, quota 1, 1 crash | `LimitKept`, `DedupeUnique` |
| ecm | 1 row, 1 worker, 2 contents, 2 attempts, 1 racing release, 1 crash, 1 replay | `EcmSendsWithinBudget` |

Runs that find a disagreement between the code and what the repository says of it:

| Run | What happens |
|---|---|
| `ecm_prune` (`LatestWins`) | the retention prune deletes the SENT row that `_superseded_by_newer_sent` compares with; a failed row of an older version that is replayed later overwrites the newer document. `docs/DESIGN_ECM_PUBLISH_OUTBOX_RETENTION_PROPOSAL_20260621.md:17` calls pruning "not a correctness or publish-semantics gap" |
| `jobs_double` (`NoDoubleProcessing`) | two workers read the same stale job; one requeues and claims it, the other's late write puts it back to pending and it is claimed again, against `docs/DEV_AND_VERIFICATION_CI_CONTRACTS_JOB_QUEUE_TX_BOUNDARY_20260212.md:7` |
| `version_double` (`OneSuccessor`) | two requests read the same released version and revise it; the first one's draft is released before the second commits, so the unique index, which covers unreleased rows, refuses nothing. Two successors, both current. `version/models.py:121-124` says the index "makes a concurrent double-revise race impossible" |
| `version_ancestors` (`AncestorsSuperseded`) | a merge into a draft, or an ECO branched off one, makes a version whose predecessor is never released. Its release looks no further than that predecessor, and the older release stays active. `version/service.py:574-575` says older ancestors "were superseded inductively when their successor released" |
| `erp_durable` (`EnqueueIsDurable`) | the ERP routes flush and never commit; the session is closed and the row the answer names is rolled back. `docs/DEVELOPMENT_PLM_TO_ERP_PUBLICATION_CONTRACT_R2_ADAPTER_OUTBOX_TASKBOOK_20260528.md:29` says "Outbox is durable" |
| `events_commit` (`PublishedAfterCommit`) | SQLAlchemy fires `after_commit` for the release of a SAVEPOINT too; an update that changes one item and promotes another announces the first inside the open transaction, against `events/transactional.py:4-5` |
| `breakage_winner` (`OneWinner`) | two requests create the ECO of one incident. Under READ COMMITTED the UPDATE that has waited for the row lock evaluates its condition again on the winner's row, but its `NOT IN (SELECT id FROM meta_ecos)` still sees the snapshot the statement began with, in which the winner's ECO is missing: both links succeed, and one ECO is orphaned. `parallel_tasks_service.py:4538-4540` says "exactly one gets rowcount==1". Had the subquery a snapshot taken under the lock, `OneWinner` would hold in all 1072 states of this instance |

What the job properties say of several workers and clients is what the code gives, not
what one might wish. The processing count is read before the claim without a lock, so each
other worker may add a job to the quota: `LimitKept` bounds the processing jobs by
`Limit + |Workers| - 1`. The dedupe query has no unique index behind it, so each client
between its query and its insert may add one: `DedupeUnique` bounds the active jobs of a
key by `|Clients|`. TLC reaches both bounds. A late requeue of a job seen before its last
claim gives that job one more attempt for each other worker (`AttemptsBounded`).
`FinishedIsFinal` and `ClaimsKeptApart` leave out jobs a claim of which has passed the
stale timeout while there was another worker: `jobs_double` shows what happens to these.

Observed while modelling, with no run of its own:

- ECM outbox. A row is SENT although Athena may still show an older version, or nothing of
  this lineage at all: the receiver's default conflict policy is SKIP, and SKIPPED and
  UNCHANGED count as success (`transfer_receiver_adapter.py:47,146,361-371`). The tests
  (`test_success_dispositions_are_sent`) and the design take it so, hence no finding, and
  hence no property says that SENT content is shown: `LatestWins` says that no older
  content comes after it.
- Outboxes. `_reclaim_stale` has the same unlocked read-then-write as the job requeue,
  so with two drain workers and a crash `ClaimExclusive` fails; it fails as well after a
  racing release, which reopens a settled row with the claim it still carries. Hence it
  speaks of workers that have neither crashed nor outlived a claim, and of releases that
  have not raced; a worker whose claim outlives the
  stale timeout can take a row out of SENT; a racing re-enqueue during a send leaves a
  SENT row with a snapshot Athena never saw; a running worker never sees the kill switch
  turned off (`get_settings` is cached), against `ecm_publication/worker.py:164`. Two
  notification workers can send one delivery twice in the same way, and a notification
  without a key of its own is deduplicated against an unrelated one
  (`notifications/service.py:95`).
- Jobs. `poll_next_job` serves the smallest priority first, while `models/job.py:43` says
  "Higher is more urgent"; an index promotion that arrives after the handler has started
  is answered with the job, and lost, against the comment at `services/job_service.py:54-56`.
- Version line. Two overlapping check-outs of a version, or of a version and one of its
  files, both succeed, and one that commits after a release leaves a released version held
  (`LocksAgree`, `ReleasedIsFree` and `OneCurrent` fail with two requests in flight); a
  release ends any user's check-out without a word; a merged version has no files.
- ECOs. Two overlapping approvals each miss the other's row, and the ECO stays in
  progress with every approval given; an approval overlapping a rejection leaves it
  approved. A canceled or done ECO can be approved and applied again, while
  `docs/DESIGN_PARALLEL_ECO_SUSPENSION_GATE_FINAL_SUMMARY_20260406.md:61` says "`canceled`
  remains terminal". `delete_eco` of the service is called by no route.
- BOM. Two overlapping `add_child` requests make a cycle that each of them checked
  against. Of two overlapping write-backs the second restores the cells the first changed,
  and passes an `If-Match` that is stale, as the lock does not reload the line.
- MES. `accept_event` answers DUPLICATE for a key it knows whatever the payload; two
  drains may hold one row, and the slower one writes its failure over "processed".
- Workflow. A promote at the end of a workflow cannot start another: the process the
  session has just ended still looks active to the query, as sessions do not autoflush.
  A workflow without a start activity leaves an active process behind.

### Bounds

- Two rows are enough for an order of versions, a batch of two and a superseded row; two
  contents are enough for a drift. More versions repeat the same pairs: the proof of
  `LatestWins` covers any number.
- Two workers, or two requests, are enough for every race here: each is between two writes
  of a row. Where a property is about what does not overlap, one request at a time is its
  claim, not a shortcut: `Eco`'s and three of `VersionLine`'s are of that kind. The proofs
  of `Eco` cover any number of requests, those of the three any number of versions, users
  and files, and any number of requests one after the other.
- `MaxAttempts = 2` has a first, a last and an exhausted attempt; the counters of the
  rare events (`MaxCrashes`, `MaxReplays`, `MaxRaces`, `MaxOverruns`) are 1 or 2 and are
  named in each instance. Every counter appears in the guard of the action it bounds, and
  in `SendsWithinBudget`, which states the budget in terms of them.
- `LimitKept` can only fail with more jobs than `Limit + |Workers| - 1`, and `DedupeUnique`
  with more jobs of one key than clients: four jobs, two workers and three clients, with
  single attempts to keep the part small. The retries are in `jobs_workers`, where two jobs
  and two keys are enough: what a late write meets is one job. There `Overrun` is off, so a
  claim goes stale only after a crash; claims outlived by a running handler are in the
  theorems, which ask nothing of `Overrun`, and in `jobs_double`.
- Three versions hold a released version, its revision and a branch, a merge or an ECO's
  target beside it, the shortest line in which all operations interact. For an ECO they
  are the version it starts from, its target, and the target of a second revision.
- Two stages, one gated and both automatic, have an approval that goes to the next stage
  and one that ends the ECO; two users reach a minimum of two approvals no other way than
  together, and three make no new situation.
- Three parts make a cycle that no two lines make; three calls are two probes and a call
  admitted earlier; three items are two of one transaction and one of another.

### Fairness

`FairSpec` is weak fairness of each worker's steps taken together and of time. The
daemon loops (`run_forever`, `_run_loop`) catch every exception and tick again, and
a crash is followed by a restart of the service; timestamps pass without anyone's help.
Nothing is assumed of clients, operators, releases or the remote system: a send may
fail every time. `Settles` then says that retries end. In the ECM outbox it is stated
up to the kill switch: with it off no row is claimed, by design. No liveness is
stated of request-driven modules: nobody owes the server a request.

`services`, `erp_durable`, `events_commit` and `breakage_winner` disable deadlock checking:
their requests may all be done and their bounds used up. The daemons of the other runs
can always poll.

## 5. Proofs

TLAPS checks the following for every value of the constants that satisfies the modules'
assumptions (numbered rows or jobs, a positive number of attempts or approvals, Boolean
modes) and the hypotheses named here.

**`EcmOutbox_proofs!TypeCorrect`**, `Spec => []TypeOK`. Not immediate, because workers
write attributes of copies into the table: it needs that a worker busy with a row has a
copy of it, that this row has left the batch (leaving a row drops its copy), and that
rows in the batch have copies unless a rollback expired them (`CopiesOK`).

**`EcmOutbox_proofs!SentIsEvidence`**, `Spec => []SentWasAcknowledged`, with any number
of workers, outlived claims, prune, crashes and replays. It says that Athena has answered
a send of the row with success, not that it applied the content. The strengthening
(`SentInv`) says that an acknowledgement in a worker's hands is for the row it is busy with
and was given by Athena. `OnlyCommitSends` is the key lemma: of all steps only a commit of an
acknowledged attempt makes a row SENT.

**`EcmOutbox_proofs!PublishedStaysLatest`**, `Spec => LatestWins`: once a version has been
recorded as SENT, whether or not Athena applied it, the document is not overwritten by an
older one. Two hypotheses on the deployment: at most one worker, prune off. Both are needed: `ecm_prune` refutes
it without the second, and with two workers the check and the send are not one step. The
inductive invariant `LatestInv`: rows once SENT stay SENT (`SentStays`); the worker
holds no SENT row; while it is busy no newer row is SENT (`BusyWasChecked`, then nobody
else commits). The document changes by a send only, so the row sent is none that a SENT
row supersedes (`LatestIsKept`).

**`EcmOutbox_proofs!ClaimsAreExclusive`**, `Spec => []ClaimExclusive`, for any number of
workers. `ExclusiveInv` says, until something leaves a claim behind: a pending row that
is claimed is claimed freshly and by a worker that holds it (in its batch or at hand), a
held row is pending, and no reclaim has read anything. `ClaimBatch` then takes only rows
nobody holds, and the worker that commits a row is the one that drops it.

**`EcmRefinement_proofs!SentRowsStaySent`**, `Spec => SentIsFinal`, and
**`SendsAreBudgeted`**, `Spec => []SendsWithinBudget`, both for at most one worker; with
two, one that outlives its claim breaks both. The first follows from the invariant of
the refinement below. For the second `BudgetInv` adds what the sends of a row were paid
with: attempts in the table, plus one in the worker's copy until the result is
committed, plus crashes (`TablePays`, `CopyPays`). The difficulty is the copies:
`process()` counts in the copy and an exception rolls it back, so the invariant relates
the copy's count to the row's at each stage of the worker.

**`JobQueue_proofs!TypeCorrect`** and **`JobQueue_proofs!RunsPaidFor`**, `Spec =>
[]RunsAreAttempts`, for finitely many workers. Runs alone are not inductive: `PaidInv`
counts the runs made together with the claims whose run is still to come (`Unrun`),
whose sum never exceeds the attempts; a claim adds one to both sides, a run moves one
from the second to the first, a crash drops one.

**`JobQueue_proofs!FinishedStays`** (`FinishedIsFinal`) and **`ClaimsStayApart`**
(`ClaimsKeptApart`), for any number of workers and clients, crashes and outlived claims.
They speak of jobs no claim of which was seen past the stale timeout, or of a single
worker (`Undisturbed`). `QueueInv` says that what any worker has read as stale, claimed or
copied of such a job is still being processed, with the attempts it read, and that one
worker at most has claimed it (`WorkerSound`, `OneHolder`); `jobs_double` shows that this
fails once another worker has seen the claim stale. `JobMoves` is the lemma they share:
what any step does to one undisturbed job.

**`JobQueue_proofs!AttemptsHeld`** (`AttemptsBounded`), for finitely many workers, is about
the disturbed jobs too. `BudgetInv` counts, for a job whose attempts are spent, the workers
that read it before they were (`Tokens`): only these can still put it back into the queue,
each once, and nobody joins them.

**`JobQueue_proofs!QuotaHeld`** (`LimitKept`), for finitely many workers, and
**`DedupeHeld`** (`DedupeUnique`), for finitely many clients and any workers. `QuotaInv`
counts the processing jobs together with the workers between count and claim: their sum
stays within `Limit + |Workers| - 1`, because the worker that counts last counts within
the limit and a claim moves one from the second to the first. `KeyInv` does the same for
the active jobs of a key and the clients between query and insert.

**`VersionLine_proofs!TypeCorrect`**, **`PointerAndFlagAgree`** (`Spec =>
[]ItemAtCurrent`) and **`ReplacedBeforeRetired`** (`Spec => []SupersededWasReplaced`),
for any number of versions, users, files and overlapping requests. The properties are
about committed rows, but what breaks them is a commit of what was read earlier, so the
invariant also speaks of the sessions: `PlanOK(req[r])` says that a session which
retires a version also installs a current one, inserted or promoted; that a row it
inserts comes from a version that exists; and that one which supersedes a version
releases a version made from it. These outlive any interleaving because nothing in the
code clears a release, deletes a version or changes a predecessor.

**`VersionLine_proofs!CurrentIsUnique`**, **`CheckoutsAgree`** and **`ReleaseFrees`**
(`OneCurrent`, `LocksAgree`, `ReleasedIsFree`), from the hypothesis that there is one
request at a time, without which two overlapping ones refute all three. `SerialInv` adds
to the invariant above that what the open request has planned is still true of the
table: it flags a version current only where the item's current one gives way
(`FreshFlags`), its check-outs meet nobody else's and no release, and its release clears
every check-out (`FreshLocks`). Two facts about the rows make this inductive: only the
item's own version is flagged current (`OnlyItemCurrent`), and only attached files are
locked (`LockedIsAttached`), because the guards look at attached files only.

**`EcmRefinement_proofs!ImplementsOutbox`**, `Spec => OutboxSpec`, for at most one
worker: the whole of `EcmOutbox` implements `PublicationOutbox`. The mapping takes the
table's states as they are, the acknowledged rows from `acked`, and what the target shows
from `doc`; neither of the last two follows from the other. What the steps need is
`RefInv`: the worker holds pending rows only, no newer row of the lineage is SENT while it
is busy, and an acknowledgement it has was given for its row. Each action is then an abstract enqueue, delivery, settlement,
reopening or forgetting, or a stutter.

**`Eco_proofs`**, for any ECOs, stages and overlapping requests and a finite set of
users: `EcoTypes` (`[]TypeOK`), `EcoApprovedIsComplete` (`[]ApprovedIsComplete`),
`EcoCompletionProgresses`, `EcoAppliedIsApproved` and `EcoSuspensionHolds` (the action
properties). As in `VersionLine`, the invariant `EInv` speaks of what open requests will
write. `PlanOn` says of a request that is not stale that the row is still the one it
read, that it adds votes only for users who have none at the stage, that it approves
only a stage which its own votes complete, that it moves on an ECO whose stage they
complete, and what it may do to a suspended one; of a stale request it keeps just what
types and the product pointer need. A commit makes every other request on the ECO stale,
and that is why the plans survive it. `OneRow`, one row per user and stage, turns
approved rows into approvers: `EcoAppliedIsApproved` counts them by an injection. That
an approval takes no approval away and a rejection adds none are the lemmas
`StoredApproval` and `StoredOthers`.

**`Numbering_proofs!GeneratedNumbersUnique`**, `Spec => []NumbersUnique`, for any set of
items, overlapping requests, any start of the rule and any bound of the numbers. The
invariant `NInv` says that one transaction at a time has raised the counter
(`OneHolder`, the row lock), that every generated number is at most the counter its
transaction sees, committed or raised (`CounterAbove`), that what a request has scanned
is committed or its own (`ViewStays`, so a rollback cannot take it away), and that a
number generated over a typed one it had seen is larger (`SeenBelow`).

**`Breaker_proofs!BreakerSlotsAreProbes`**, `Spec => []SlotsAreProbes`, for a finite set
of calls. The property is inductive with types and one more fact, `ProbesAreOfEpisode`:
outside a half-open episode no running call counts as its probe, so calls admitted
earlier that end late cannot hand out or keep a slot.

**`Services_proofs`** proves the properties of the other components of the sum, of
`SumSpec`. `SumStart` and `SumStep` take a step of the sum to a step or a stutter of the
part that moves; five theorems then carry over results above (`NumbersStayUnique`,
`ProbesHoldSlots`, `QuotaIsKept`, `KeysAreDeduped`, `EcmSendsAreBudgeted`), the others have their
own invariants:

- `AuditExplainsLine`: the property with types is inductive, once it is shown what an
  appended audit row does to the last audited value of a cell (`AuditedAfter`).
- `ProcessedStaysRecorded`, `RefusedStaysUncounted`: by `MesInv` a row keeps the payload
  it was accepted with (`RowsHavePayloads`), and until two drains have held it, it has
  one drain, which holds it pending, and its event is recorded by the drain that
  processes it (`OneDrain`).
- `PermissionsFollow`, `ReleasesHaveVersions`: for every lifecycle map, permission table
  and workflow. A promote composes the exit, the entry, the start of a workflow, the
  promotes nested in it, the hooks and the release; there is a lemma for each of these
  operators, which says what it leaves of the item's shape, permission and version, and
  the promote follows. `ReleasesHaveVersions` is about versionable items.
- `BulksComplete`, `BulksKeepOrder`: for any activities and dependencies and any order
  of visits. `RoundsSuffice` is the argument that the code's bound on its rounds loses
  nothing: the activities that remain are at most as many as the rounds left, since a
  round that goes on has moved one; and what a round without progress has visited, it
  could not move.
- `NotificationsAreBudgeted` and the refinement `NotificationsAreAnOutbox`, for one
  worker: the copies are as new as the rows (`CopiesAreFresh`), an answer is for a row
  in hand and says "ok" only of what the adapter has confirmed (`AnswersAreOwn`), a send is
  counted, unsettled or lost in a crash (`SendsAreCounted`). `SendsWithinBudget` speaks
  of one worker itself; the refinement takes that as its hypothesis.
- `IndexStaysTrue`: for any number of items and overlapping requests. While a request is
  open its row locks make it the only writer of its items (`RowsAreLocked`), and the
  last of its events of an item tells what it has written (`PendingTells`); once
  committed, the events still to be handled tell what is in the table (`FeedTells`) and
  come from one request (`OnePublisher`). So the handler that runs last leaves the index
  right.
- `CheckedStaysDag`: for any finite set of parts. A request that has missed no line has
  checked its lines against all that are checked (`ChecksHold`). `DagExtends` is the
  reason why the search is enough: if the parts below the child do not include the
  parent, they can be ranked after all others, and the new line goes upwards.

The assumptions of `Services` that these need are what the code's data are: counters and
batches are numbers, parts, calls and workers are finitely many, a payload is not
mistaken for its absence, a lifecycle map's arcs join its states and it does not start
released, a bulk transition asks for one of the statuses.

So every invariant, action property and refinement of the passing runs is a theorem,
under the hypotheses named here. Where a theorem asks for one worker or one request at a time,
the property fails without it: TLC finds a counterexample on a small instance with a
second one. What stays with TLC is `Settles`, in `ecm_overrun` and `jobs_workers`:
liveness under fairness is beyond TLAPS, as is ENABLED. The properties of the violation
runs are false of the code and have no theorem, but for `LatestWins`, whose theorem names
the deployment in which it holds; `ClaimsKeptApart` is what remains of
`NoDoubleProcessing`.

## 6. Plan

Done: the core (`EcmOutbox`, `JobQueue`, `VersionLine`), the abstract outbox with two
implementations, the ECO with its activity gate and the breakage loopback, lifecycle and
workflow, numbering, MES inbox, events, BOM lines and write-back, the breaker; a theorem for
every safety property and refinement of the passing runs. Next:

1. Theorems about what the violation runs refute, for the case they leave: one successor
   per version when requests do not overlap, one ECO per incident when creators do
   not, events after the commit when there are no savepoints.
2. Composition of a release with its enqueue: a released version has its row unless the
   enqueue was suppressed.
3. The contents an ECO's apply copies, and its rebase conflicts.
4. Signature manifests and approval requests, if their documents come to promise
   something of overlapping signers.

## 7. Not modelled, and why

- Values that no property tells apart: payloads, file contents beyond a fingerprint,
  error texts, metrics, logs.
- `update_job_progress`, which nothing calls, and the file and attribute
  post-processing of a job: they write other tables and never decide the job's fate.
- Of the version line: labels and revision schemes, properties, history, workstation
  contexts, primary files and the staleness of thumbnails.
- Of ECOs: what apply copies (properties, files) and the BOM and routing comparisons behind
  a rebase conflict, deadlines, and the editing of stages. Any apply may be refused.
- Approvals and e-signatures: each request writes a row of its own or one guarded column.
  A manifest's completion is counted by each signer, so two who overlap may leave a
  complete manifest open; nothing in the repository says they may not.
- The scheduler: a tick is a test of dates and a deduplicated submission, which `JobQueue`
  has.
- The SQLite fall-back of the claim queries: one process, development only.
- Pure I/O (adapters' HTTP, storage, CAD converters), read-only services (search queries,
  reports; most of `parallel_tasks_service.py` and of the `web` directory), single-table
  CRUD (manufacturing, quality, maintenance, subcontracting, box, cut parts), generated
  migrations, the desktop clients and plugins. This is most of the repository's lines, and
  why the map covers a small share of them.
- Clock skew between workers: `due` and `stale` are judged by one clock.
