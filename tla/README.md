# Formal model of Mnemoir Provenance

TLA+ modules, TLC configurations and TLAPS proofs kept beside the code of
`src/mnemoir_provenance`. The modules model the part of the system where its
promises are hard to keep and hard to test: several processes that share one
SQLite database and, for writeback, a Markdown file that cannot commit together
with it.

Paths below are relative to `src/mnemoir_provenance` unless they start with
`docs/`.

## The system

Mnemoir Provenance stores memories of agents with their sources, approvals and
history. Everything is a row of one SQLite file in WAL mode (`db.py`). There is
no server: a command line (`cli.py`), a loopback interface (`local_ui.py`,
`local_ui_adapter.py`), a worker (`worker.py`), host plugins (`hermes_provider.py`,
`hermes_plugin/`) and programs that import the package open connections of their
own. Components call each other as Python functions and share state through
tables; the only shared state outside the database is the host's Markdown files
and the private directory that writeback keeps for them.

| Component | State | Operations | What makes it correct |
| --- | --- | --- | --- |
| Memory curation (`curation.py`) | `memory_proposals`, `memories`, `memory_versions`, `memory_lifecycle_events` | create, approve, edit, reject, write, tombstone, roll back | only approved content is stored, once; versions form a chain; the history explains the present state |
| Lexical index (triggers of `resources/0001_initial_schema.sql`) | FTS rows of memory versions | after each insert of a version and update of a memory | exactly the current versions of searchable memories are found |
| Scoring (`scoring.py`) | status and weights of memories | one operation with a scenario | a status change is recorded and respects tombstones |
| Worker (`worker.py`) | `jobs`, `worker_claims`, `worker_receipts`, `worker_control` | enqueue, request stop, run a batch | one verdict per job, true of the store, whatever leases expire and processes die; queued jobs settle |
| Live overflow (`live_overflow.py`) | the file, `writeback_authorizations`, `writeback_operations`, backup, spool and recovery authorization of each operation, a lock file, evidence rows | authorize, trim, roll back, reconcile, coordinate | no trim without recovery data, no completion without evidence, no overwriting of an edit; what is removed becomes evidence |
| Overflow policy (`overflow_policy.py`) | none of its own; writes evidence and memories | split, measure, promote removed blocks | sensitive blocks are kept; what removed blocks become without a human is not what the planner leaves to one |
| Fixture writeback (`policy_guard.py`) | proposals, policy decisions, a fixture file | classify, propose, approve, write, roll back, tombstone | what is withdrawn stays withdrawn; receipts tell how the file came to be what it is |
| Autonomy (`autonomy.py`) and Council (`council.py`) | `autonomy_ticks`, `jobs`, council records | plan, run, pause, resume, kill; record keeping | an idempotency key has one tick; a tick's outcome is borne out by its job, its receipt and its record; what needs approval does nothing; the council's lifecycle tells its state as closely as seconds can |
| Learning (`learning.py`) | learning events, failure clusters | record, list, draft proposals | clusters count the events; a draft rests on enough of them |
| Improvement (`improvement_proposals.py`, `experiments.py`) | proposals, experiments, model promotions | generate, experiment, evaluate, review, promote, roll back | a model takes effect only on a passed experiment and an approval; a rollback goes back to what was replaced; promotions are kept |
| Audit (`audit.py`) | `audit_events`, each with its predecessor's hash | append | nothing reads the chain back |
| Scope (`scope.py`) and tool gating (`tool_gating.py`) | actors, grants, visibility decisions | bind a profile, grant, decide, authorize a request | a profile reads what is its own or was lent to it |
| Ingest and sources (`ingest.py`, `sources.py`, `source_adapters.py`) | `sources`, `raw_events`, `evidence_items` | register, ingest, import | every block becomes evidence or none does; an import repeated completes the first |
| Retrieval (`retrieval.py`, `recall.py`, `embeddings.py`, `retrieval_hardening.py`) | chunks, embeddings, retrieval logs | rebuild, recall, retrieve | only live content, however stale the index |
| Service spine (`service.py`), health (`health.py`) | one `jobs` row | start, stop, restart | fail closed |
| Hermes adapter and plugin (`hermes_provider.py`, `hermes_plugin/provider.py`) | profile sources, completed turns, the plugin's configuration file | register, ingest, context packets, prefetch, sync turns, save and switch the configuration | a packet that says ok cites nothing that was withdrawn before; a save loses no setting |
| Installation, onboarding, migration, wiki projection, benchmark, interface code | files and reports | rendering, inventories, measurements | mostly input and output |

### What is hard

* **Transactions begin at the first write.** Python's `sqlite3` opens a
  transaction at the first INSERT or UPDATE. An operation that begins with one
  (create, review, write, score: they install runtime rows first) is atomic; one
  that begins with a SELECT (tombstone, rollback, pausing or killing a tick,
  everything about improvement proposals and promotions) acts on what it read before it held the
  write lock. The council's operations, and with them ticks, commit their runtime
  rows first and so read outside a transaction as well.
* **A failed operation leaves its transaction open.** Whoever owns the connection
  next commits it or rolls it back.
* **Ids from content or from a clock of one second** make retries idempotent, and
  make distinct events collide.
* **Leases expire under a worker that is still at work**, and the failure of a
  promotion is recorded in a second transaction.
* **A request is several transactions.** A context packet authorizes its sources and
  records its recall in two, then looks up each event by itself, and says one thing
  about all.
* **A failure is recorded late.** The exception that ends a file operation gives its lock
  back before the handler records the state, and another process acts in between.
* **What is read back is ordered by seconds and hashes**, not by the order of commits.
* **`INSERT OR IGNORE` ignores more than repetitions**: a second unique key drops rows
  that are not the same, and what refers to them then violates a foreign key.
* **A file and a database cannot commit together**: writeback is a sequence of
  durable steps, with a crash, an exception, an edit or another process between
  any two of them.

`PROJECT.json` lists each hazard with its line and the properties that cover it.

## Modules

| Module | Models |
| --- | --- |
| `MemoryLifecycle` | curation, scoring and the FTS triggers, over sessions that share the database |
| `Worker` | the promotion worker, composed with `MemoryLifecycle` (it EXTENDS it: a promotion is `StoreVersion` of the same store, in one step with its receipt) |
| `Writeback` | live overflow: the coordinator, trim, rollback and reconciliation of one file |
| `Council` | objectives, assignments and what is filed on them |
| `Autonomy` | ticks, composed with `Council` (it EXTENDS it: the record that a run files is the council's `CreateRecord`) |
| `Promotions` | improvement proposals, their experiments and reviews, promotion and rollback of model versions |
| `PromotionLedger` | what the worker promises, without leases, attempts and crashes; `Worker` implements it |
| `FixtureWriteback` | the policy guard's proposals, approvals, writes, rollbacks and tombstones of one fixture file |
| `MarkdownEvidence` | ingestion, trim evidence, overflow planning and automatic promotion for one Markdown file |
| `Access` | profile actors, grants, authorization, recall, context packets, the retrieval index |
| `ProviderConfig` | the plugin's configuration file and its two kinds of writer |
| `Provider` | the Hermes plugin, composed of `Access` and `ProviderConfig` (it EXTENDS both) |
| `Learning` | learning events, failure clusters, and the drafts made from them |
| `MCMemoryLifecycle`, `MCWorker`, `MCWriteback`, `MCAutonomy`, `MCPromotions`, `MCFixtureWriteback`, `MCMarkdownEvidence`, `MCProvider`, `MCLearning` | small instances for TLC |
| `StoreProofs` | TLAPS, of `MemoryLifecycle`: types, current versions, lexical index, approvals, version chain, append-only history, what the events explain; of `Worker`: types, one verdict per job, the refinement of `PromotionLedger` |
| `AutonomyProofs` | TLAPS: types, one tick per key, outcomes on record, no effect without permission, the council's lifecycle |
| `PromotionsProofs` | TLAPS: types, evidence of promotions, chains of rows, rows kept |
| `WritebackProofs` | TLAPS: types, recovery data, evidence of completed trims, stale hashes |
| `MarkdownEvidenceProofs` | TLAPS: types, complete ingestion, removed blocks, where the promotion gate bypasses the planner |
| `FixtureWritebackProofs` | TLAPS: types, receipts, withdrawals |
| `LearningProofs` | TLAPS: types, counts, drafts, changes of status |
| `ProviderProofs` | TLAPS: types, the configuration file, reading across profiles, packets, the index |

### MemoryLifecycle

`proposal`, `versions` and `lifecycle` are the tables of those names. The rows of
`memories` with their FTS index are an *image* (status, current version, indexed
versions of each memory); there are two, `db` as the open transaction sees it and
`disk` as last committed. `writer` is the session with an open write transaction,
`pc` what a tombstone or rollback has read, `now` the clock in whole seconds.
Memory ids are derived from the proposal that creates the memory, so a memory is
named by its proposal.

* `CreateProposal`, `Approve`, `Reject`, `Edit`: `create_proposal` and
  `review_proposal`. `signed` is the content that the last approval was given for
  (an auxiliary record: the code keeps it in the audit event).
* `WriteMemory`: `write_memory` with everything it does: the update of the
  memory, the version, the lifecycle event, the proposal's status and what the
  triggers do. `WriteCollides` is the same call when the version number is taken;
  it ends with an exception and an update left in the transaction.
* `TombstoneRead`, `RollbackRead`, then `FinishPending` or `PendingCollides`: the
  SELECT, and later the write transaction, of `tombstone_memory` and
  `rollback_memory`.
* `ScoreMemory`, `ScoreCollides`: `apply_scoring_scenario`; the time of an event
  is a parameter of the call. Scenarios that only move weights (`Reweighing`) are
  among them: they update the memories row and record an event as the others do. A
  correction first inserts a row of its own under a key that repeats when the event's
  does, so that its collision leaves nothing behind. Feedback on a retrieval is left out.
* `Refused`: the early exits, which have opened a transaction and do not end it.
* `HostCommits`, `HostRollsBack`, `Crash`: what becomes of such a transaction.
  `with conn` in `cli.py` commits after a `CurationError` it has caught; another
  exception leaves the block and rolls back. A session in `Continues` is a
  program that catches everything and goes on with its connection.

Left out: evidence links and reference validation, actors, weights, audit events
(see below), and the memories that overflow promotion writes without a proposal,
which are those of `MarkdownEvidence`.

What the model says of the code, beyond its properties: scoring a tombstoned memory
as stale makes it searchable again, although `docs/getting-started` says that
tombstones make a memory inactive; a tombstone or a rollback may record a status that
another session has changed since it was read (`HistoryExplainsStore` holds all the same,
as it looks at what events lead to, and holds only where hosts roll back after a failure).

### Worker

`job`, `claim`, `receipts` and `stop` are the tables; `queue` is the order of
creation; `work` is where each invocation of `run_bounded_worker` stands. `Claim`
is the whole of `_claim`, `Promote`/`PromoteExisting` the transaction that calls
`write_memory` and settles the job, `PromoteRaises` and `RecordFailure` the
exception and its second transaction, `Discard` the checks of
`_owns_live_attempt` that fail. A lease is a flag that `Expire` may clear at any
time, also under its holder. That contains every clock: the two ownership checks of one
transaction are one step because the write lock keeps other claims out, and a
lease that ends between them only leads to `Discard`.

`PromotionLedger` is the specification a caller relies on: a job is queued once and
gets one verdict, "succeeded" comes together with the written memory. `Worker`
implements it under the mapping `Ledger`, in which a running job is still queued and
the written memories are those of written proposals.

### Writeback

One target file with its private directory. Each database commit and each change
of a file is an action; `proc` is where each process stands. Actions carry the
names of the steps of `execute_writeback` (`Lock`, `Read`, `Backup`, `Spool`,
`RecheckTrim`, `ReplaceTrim`, `Replaced`, `Readback`, `Evidence`, `RenameSpool`,
`Complete`), `rollback_writeback` (`...Undo`) and `reconcile_writeback`
(`Reconcile...`). `Raise` and `ReadbackMismatch` are
exceptions. Each is three steps: `Fail` leaves the `with` block and gives the lock back,
`JudgeFailure` reads the state and decides (`StateAfterError`), `RecordFailure` commits
what was decided, and a reconciler may come between any two. `Crash` is the death of a process, `Edit` the owner saving the file in place or by
replacing it (a new inode). `author` is an auxiliary variable: which operation
made the file what it is.

Abstractions: a content is a value, and the plan `_trim_blocks` makes of it is a
constant function (`TrimOf`); `completed` stands for `completed_partial`;
authorizations always bind correctly (their checks compare values the caller
passes); operations on a content below the trigger change nothing and are left
out; the two reads that a reconciliation makes one after the other under the lock
are one; blocks are written, synchronized and renamed in one step where the code
synchronizes before it renames; identity rows are left out; the rows of the removed
blocks and their automatic promotion are those of `MarkdownEvidence`.

What the model says of the code, beyond its properties: an operation that stops while
it is locked, or on a stale hash, has no recovery authorization, and every later sweep
of its target fails on it; a reconciliation that waited for the lock overwrites what
another process has recorded meanwhile; after an executor has failed and a reconciler
has completed its operation and deleted the recovery authorization, the executor still
writes `recovery_required`, and every later sweep fails for want of that
authorization, though there is nothing left to recover; a content that is trimmed, rolled back and
trimmed again keeps its evidence withdrawn, as the rows of the first trim exist.

### Council

`status` holds objectives and assignments, `entries` the records, evidence packets,
reviews and handoffs, `log` the lifecycle events of each objective in the order
of their commits, `pc` the status update that a session has read for. Every
operation calls `ensure_council_runtime`, which commits, and reads before its own
transaction begins. For `Create` and the four operations that file something this
makes no difference: they check only that rows exist, and no row is ever deleted.
An update of a status does carry what it read into its event, so it is two steps
(`UpdateRead`, `UpdateWrite`). The ids of entries and of update events are made of
their content and the second; `UpdateCollides` and the guard `EntryIdTaken` are the
primary keys that refuse a repetition. A reader (`lifecycle`) is given the events by their
second and then by their ids, which are hashes, so that of two updates within a second
either may come last: `LogTellsCouncil` asks that some event of the latest second
tells the status, which is the last event where there is one.

A refused operation changes nothing: the commands wrap every call in `with conn`,
which rolls back. (A program that catches the exception and goes on would have the
remains committed by the next `ensure_council_runtime`; no caller in the
repository does.) Left out: the rows that `ensure_council_runtime` installs and
`bind_role` updates, audit events, and the validation of evidence references
outside the council. The actor of an operation, which is part of some ids, is the
same throughout.

### Autonomy

A row of `tick` is a row of `autonomy_ticks` with the status of its job, whether
`receipt_audit_id` is set, the seconds in which a run decided against it (they are
part of the primary key of that policy decision) and, as a history, those in which a
run filed its record. `task` is what each session does next to the tick it has read.

* `PlanRead`, then `PlanWrite` or `PlanCollides` (the unique index on the idempotency
  key): `plan_tick`.
* `RunRead` is the branching of `run_tick` on the tick it has read. An allowed run
  is three transactions: `RunStart` (committed by `create_record`'s call of
  `ensure_council_runtime`), `RunRecord` (committed by `create_record`) and
  `RunFinish`. `RunRecordCollides` is the record's primary key being taken; the tick
  stays running. `RunAsk`, `RunDeny` and `DecisionCollides` are
  `_approval_required_tick` and `_fail_tick`, `RunBlock` is `_blocked_receipt`.
* `Control`, then `PauseWrite`, `ResumeWrite` or `KillWrite`: the SELECT and the
  update of `pause_tick`, `resume_tick` and `kill_tick`.
* `Crash`: a session ends between two of its transactions.

Two branches of `run_tick` are left out because no state reaches them: a second
tick of the key that has succeeded (the index on the key excludes a second tick)
and an empty budget (`plan_tick` refuses it).

What the model says of the code, beyond its properties: two sessions that run a tick at
once, or a run repeated after a crash between `RunRecord` and `RunFinish`, file two
records for one idempotency key.

### Promotions

`proposal` and `promotions` are the tables `improvement_proposals` and
`model_promotions`, the latter in commit order with, for a row that a rollback
inserts, the row it `undoes` (in the code, the audit object of that row).
`experiments` are the completed `candidate_experiments`, `approvals` is a history of
reviews, `pc` what a session has read for its next write.

* `ProposeRead`, `ProposeWrite`: `generate_improvement_proposals`, which takes the
  model in effect as the baseline of new proposals. A row of `Proposals` is a
  failure cluster with its candidate.
* `RunExperiment`: `run_candidate_experiment`, for a proposal or on its own, whose
  last write replaces a row of the same id; `Attach`: the conditional UPDATE of
  `run_or_attach_proposal_experiment`.
* `EvaluateRead`, `EvaluateWrite`: `evaluate_promotion_recommendation`.
* `ApproveRead`, `ApproveWrite`: an approving `review_improvement_proposal`; `Refuse`:
  one that rejects or blocks, which depends on nothing it reads.
* `PromoteRead`, `PromoteCurrent`, `PromoteWrite`: the two reads and the write
  transaction of `promote_memory_model_version`; `RollbackRead`, `RollbackWrite`:
  those of `rollback_memory_model_promotion`.
* `Drop`: an exception (an id that is taken, for one) or the death of a process.

Abstractions: the first promotion has a baseline, `Base`, that stands for all
models of kind `baseline`; a candidate belongs to a proposal and exists from its
generation on (its row is committed just before); the metrics of an experiment are
the constant `Recommends`, the suites on which a candidate passes the safety gate
and improves a metric that its proposal names; the review decision is written with
the status and says no more than it; times come from callers and need not grow.

What the model says of the code, beyond its properties: a promotion that overlaps
another can leave both rows active, and the latest is then in effect; a proposal that
is generated while a candidate is in effect has that candidate as its baseline,
which experiments refuse, so it can never be tried or promoted.

### FixtureWriteback

`file` is the fixture file (a content stands for its hash as well), `status` and
`expected` the proposal rows, `decisions` the policy decisions of the approval queue,
`receipts` the audit events of replacements in the order of their commits, `op` what
each process is doing: an operation is a command with a connection of its own, and
nothing locks the file or the proposal between its reads and its writes.

* `ProposeRead`, `ProposeCommit`: `propose_writeback`, whose policy decision is
  committed first; `ApproveRead`, `ApproveCommit`: `approve_writeback`, the update of
  which does not look at the status again; `Tombstone`: `tombstone_writeback`.
* `WritebackRead` (or `WritebackRefused`), `WritebackCheck`, `Replace` (or
  `ReplaceFails`), `ReadBack`, `RecordWrite`: `writeback_fixture`.
* `RollbackCheck`, then the same replacement and `RecordRollback`: `rollback_fixture`,
  which takes any content and any proposal id.
* `Edit`: the owner of the file; `Crash`: a process stops between two steps.

`owner`, `trail` and `serial` are history: what the owner put there last, after how many
receipts, and whether every operation has so far run alone and to its end. Outside
that the code gives no guarantee about file and receipts, as nothing is locked, and the
property claims none. The validation of the root is left out (a root that fails it
changes nothing); what the authorization's validation returns is an input.

### MarkdownEvidence

A Markdown file is a sequence of blocks. `events` are the raw events of its source with
their evidence items (always inserted side by side in one transaction), `source` says
whether the adapter or a trim inserted the source row, which decides whose references
work; `trim` is the trim that has replaced the file and is not completed, with the phase
it is in, `trims` the completed ones. `memories` are what curation or the gate has linked
to the events: the events that any version cites, when the memory was created, the bands
of its weights, and whether its retention policy retains it.

* `Ingest`, `IngestRaises`, `IngestMissing`, `IngestUnreadable`: registration and
  `ingest_profile_markdown`. `Clash` and `Inserted` are the keys of `raw_events`: the id
  from position and content, and one event of a content per source and second.
* `TrimReplaces`: `_trim_blocks` and the replacement; `RecordRemoved`, `PromoteRemoved`,
  `CompleteTrim`: the transactions of `_record_removed_blocks` and `_promote_after_evidence`
  and the end of the operation, by the trim or its reconciliation. `TrimBreaksOff` is a
  failure or a crash between them, after which a reconciliation begins with the evidence
  again. `RollbackTrim`: `rollback_writeback`. Locks and journal are those of `Writeback`.
* `Candidates`, `Precedes`, `PlannedActions` are `plan_overflow_trim` (a block that comes
  again is a duplicate) with the decision table `CandidateAction`; `GatePromotes` is
  `evaluate_auto_promote`. Both share `Protected`; the planner also protects what a
  retention policy retains. It looks at the age of the event, the gate at that of the
  oldest memory linked to it.
* `Curate`, `Revise`, `Edit`, `Tick`: memories with any weights; a revision, which adds a
  newer event and keeps when the memory was created; the owner; the clock. A unit of the
  clock is as long as it takes an entry to become old (`RecentAge`, `StaleAge`).

What the model says of the code, beyond its properties: a trim writes memories by itself
(`PromoteRemoved`), although `docs/concepts/overflow-trim-and-writeback.md` says in lines
15 and 24 that a removed block becomes a durable memory only by an explicit, reviewable
decision, and is not promoted automatically; no property approves of it. The docstring of
`evaluate_auto_promote` says that it never bypasses a condition that would otherwise
require a human; it does for memories that their retention policy retains and for old
memories that were revised with a newer event (`BypassNeedsPolicyOrRevision` says that
there is no third way). A content that is trimmed, rolled back and trimmed again is not
citable. A file with two equal blocks cannot be ingested (`IngestRaises`); once a trim has
inserted the source row of a file that was not registered, registration raises
(`Registers`); where the adapter's row came first, the gate computes other ids than those
recorded and promotes nothing (`Promotable`).

### Access, ProviderConfig, Provider

`Access` is the data a reader is given. `health` and `actor` are the columns of `sources`
and `actors`, `grants` the read grants, `recorded` and `withdrawn` the raw events,
`memory` status and current version of memories with the evidence of each version in
`Support`, `index` the chunks with their embeddings, `request` the packet or retrieval in
progress. `asked` is history: the grants that somebody made, as opposed to those that
reading makes.

* `Authorize`, `Recall`, then `Annotate` for each event found, `Assess` and `Deliver`:
  `context_packet` (`authorized_sources_for_profile` and `recall` with a transaction each,
  the SELECTs of `_context_item_annotations`, packing with the count of impaired files, the
  audit event). Memories are not looked up again. `gone` is history: what was withdrawn
  when the request was recalled. What recall may
  find is `Recallable`; ranks are left out and a query is any choice of at most `Limit`
  results; a snippet may be cut or left out for the budget.
* `RetrieveCoverage`, `Retrieve`: `retrieve`, which looks at the sources first;
  `RebuildIndex`: `rebuild_retrieval_index`, whose earlier result remains in `index`
  while everything else changes.
* `BindProfile`, `GrantScope`, `Import`: `bind_profile_metadata`, `grant_scope` and the
  imports of session and vault exports. `CommitThenGrant` is `grant_scope(commit=False)`,
  which commits what its caller has written before it adds the grant: the caller may
  die there.
* `Register`: the registration and ingestion of a profile's Markdown files, which sets
  the health of both files at once, binds the profile and grants it the files that are
  there.
* `Withdraw`, `Curate`: rollbacks of trims and curation. All changes come at any time
  between the transactions of a request and are bounded together by `MaxChanges`.

`ProviderConfig` is the file `mnemoir_provenance.json` with its lock: `SaveLocks`,
`ReplaceConfig`, `Release` are `save_config`; `SwitchReads`, `SwitchLocks`,
`ReplaceConfig`, `Release` are `_set_daily_posture` of the commands plugin enable-daily and
disable-daily. `settings` is history: what was saved last for each key.

`Provider` composes them: `Prefetch` is an `Authorize` behind the classification of the
context and the recall mode, `SyncTurn` the proposal of a completed turn behind the
classification and the policy, and `ToolCall` the tools of the plugin, which work on
the session's own profile and propose a turn whatever the policy says. A session reads the file once, when it starts, so its
policy and mode are any that the file has had; requests and saves touch no common
state, and the bound `BeforeRequests` lets the saves come first.

What the model says of the code, beyond its properties: a switch of posture undoes a
save that came between its read and its lock; a packet that says ok may cite what was
withdrawn after its recall, for a memory until its end, as only events are looked up again,
each once; a session grant lends the whole source of
the session; a retrieval cites sources that its own coverage lists as impaired; a synced
turn makes its source healthy, whatever it was.

### Learning

`events` and `cluster` are the two tables, `listing` what a listing or a generation has
read before its transaction, `drafts` the proposals with the count in their evidence,
`behind` history: whether the last count was made from an older reading. `Record` is
`record_learning_event` (one transaction with its count), `ReadEvents` then `ListClusters`
or `Generate` are `learning_failure_clusters` and `generate_improvement_proposals`.
A generation commits its drafts one by one, so any part of them may be left
when it fails.

What the model says of the code, beyond its properties: a listing can resolve a cluster
whose first event was recorded after it had read, and a resolved cluster is never
reopened, so that its failures are never drafted from.

## Runs

| Run | Shows |
| --- | --- |
| `MemoryLifecycle` | two sessions, a memory and two competing revisions, two contents, three versions, three lifecycle events, two seconds; about 1.2 million states. Approval, chain, current version, index, history and append-only properties |
| `Worker` | two workers with batches of two, two attempts per job, one stop request, one operator session, a memory and its revision; 1.1 million states. One verdict per job; refinement of the ledger |
| `WorkerLiveness` | the same, without lifecycle operations, under fairness: every queued job settles |
| `Writeback` | two processes, one edit, one crash or exception, a second operation on the same content and one rollback; 2.7 million states. Recovery data before mutation, evidence before completion, stale hashes stop |
| `Autonomy` | two sessions; three ticks that compete for one idempotency key, one allowed, one in need of approval, one denied; an objective, an assignment and entries under one title; three lifecycle events, two seconds; 2.0 million states. One tick per key, outcomes on record, no effect of what is not allowed, what the council's lifecycle tells |
| `Promotions` | two sessions, two proposals with candidates of their own, a suite on which both succeed, three promotions, promotions at one time and rollbacks at two; 1.2 million states. Evidence of every promotion, chains of promotions and restorations, rows kept |
| `FixtureWriteback` | two processes, one proposal, two contents or no file, two receipts, one edit; 1.0 million states. What is withdrawn stays so; receipts explain the file |
| `MarkdownEvidence` | a file of three blocks, one sensitive, or with a repeated one; two trims with their breakdowns and rollbacks, one curated memory of middle or high stability or retained by policy, its revisions and what the gate promotes, one edit, three times; 1.3 million states. Ingestion is complete, what is removed stays citable, the gate bypasses the planner in two ways only |
| `Provider` | two profiles, one with a file and a binding, one with a session that can be lent and an export to import; a memory with two versions; two changes between the transactions of a request; two writers of the configuration with two saves and two postures; one event is doubtful; 404 000 states. Profiles stay apart, an ok packet cites nothing that was gone before its recall, a stale index is safe, a save loses nothing |
| `Learning` | two sessions, two clusters and six events, of which two are severe and one has no cluster; 55 000 states. Counts, drafts, changes of status |

Bounds are constants and named as such in the modules. They are small but let
the cases meet: a revision that follows a rollback needs two revisions, and a third
version to go wrong in; the collision of lifecycle ids needs two operations in one second
and the absence of one needs a second second; a lost lease needs two workers and
two attempts; in `Writeback` one failure at every step, one edit at every step and a
second process at every step occur together in all orders; in `Autonomy` two sessions
run, pause and kill the same tick at once, and a record collides with one of the
same title in one second and not in the next; in `Promotions` two sessions roll back one
promotion, or one promotes while the other rolls back, which takes three rows and, for
ids that differ, two times; in `Provider` two changes are what it takes to lend a source
and take its health away, or to rebuild the index and then supersede a version, with
every change at every point of a request; in `MarkdownEvidence` three times are what it
takes for a memory to become established and then old, and two trims are what it takes to
trim a content again, or another of the same blocks, after a rollback; in `Learning` a cluster of
three events meets a listing that has seen none, one or two of them. One suite is enough because an experiment that fails
has the effect of none. A bound on events,
attempts, edits or failures only removes steps at the end of a behaviour.
Symmetry is used for interchangeable sessions, revisions, workers and processes
in safety runs; the liveness run has none.

Two runs show where the code differs from what the documents say, each with one
property and one finding in `PROJECT.json`:

* `RevisionAfterRollback`: after a rollback a memory cannot be revised, because
  the next version number is taken.
* `RepeatedBlock`: a trim that removes two equal blocks replaces the file and can then
  never record what it removed. This run assumes that the host runs the coordinator
  again and again (`FairSpec`: weak fairness of `RecordRemoved` and of the clock), which
  `docs/concepts/overflow-trim-and-writeback.md` leaves to the host; the recording fails
  every time.

Each property of a passing run is broken by a mutant of the model: an operator
with a plausible mistake, defined beside the one it changes.

### Fairness

Safety runs assume none. `WorkerLiveness` assumes that

* the host invokes workers again and again (`docs/operations` leaves scheduling to
  it) and an invoked worker is granted the write lock in the end: strong fairness,
  because sessions take and give back the lock while SQLite's busy handler polls
  for it;
* the clock reaches the end of every lease (weak fairness of `Expire`), and a
  lease outlives the work of a worker that is alive (`Timely`): leases last at
  least five seconds, a promotion is a few statements. Without it a job may be
  taken over for ever, which the code does not exclude;
* a session with an open transaction ends it in the end (weak fairness of
  `HostRollsBack`): the commands and the interface end their `with conn` blocks or
  their process.

## Proofs

TLAPS checks the following for all values of the constants that satisfy the named
assumptions of the modules, and TLC evaluates those on every run. Assumptions
are types, except for these: a null value is not one of the values it stands beside;
a memory is not `NewMemory`; the baseline is not a candidate; the events are finitely
many (`LearningAssumption`); the actor ids made from the names of profiles are distinct
and not ids that a caller may ask for, the metadata source of a profile is its own,
readable and not a Markdown file, events that are neither spoken nor imported are
of sources that exist from the start, and the first version of a memory rests on an
event that does (`AccessAssumption`); writers of the configuration write keys of a
configuration (`KeysAssumption`). Everything else, every
set of sessions, proposals, contents, sources, events, actors and every bound, is
arbitrary.

* `StoreProofs`: of the store, `TypeCorrect`, `CurrentVersionStored` and `IndexIsExact`
  from the invariant `StoreInv`. Types alone are not inductive: whether an update
  names an existing version, and so which row the trigger indexes, rests on the
  current version of every stored memory existing *in both images* (a failed
  operation leaves one of them behind) and on a pending rollback naming a version
  that is never deleted (`PendingFounded`). `Sound` says of an image what an update
  needs and keeps: a stored memory's current version exists and the index holds
  it exactly when its status is searchable, an absent memory has no version.
  `OnlyApprovedContentIsWritten` and `VersionsFormAChain` follow from
  `HistoryInv`, which adds that an approved proposal's content is the one signed
  (`ApprovedIsSigned`) and that the memory a proposal creates starts with version 1,
  so that a write always adds the successor of an existing version. The proof
  splits steps into those that store a version (`StoreVersionEffect`) and those that
  store nothing (`NothingStored`). `HistoryGrows` proves the action property
  `HistoryIsAppendOnly` from type correctness.
  `HistoryExplainsStore` and `TransactionalEventsAreCurrent` are about hosts that
  roll back after a failure. `StoryInv` adds what that gives: whenever nobody has the
  lock, the two images are one (`FreshWhenFree`), so that whoever begins to write sees
  what was committed. Every step is then one of three (`Accounted`): it changes nothing
  that is committed and appends no event, it confirms a stale memory, or it appends one
  event that leads from the state committed before to the state committed now.
* `AutonomyProofs`: types on their own (`TickTypes`); `OneTickPerKey`, `OutcomeIsOnRecord` and `OnlyAllowedActionsAct` from the
  invariant `TickInv`. What makes it inductive is `TasksFounded`: of what a session
  read before it writes, the part that no other session can undo. The tick exists,
  a run past the classification is of an allowed action, and one about to finish
  has its record in the council. Statuses are not part of it, as they may have
  changed. The proof treats all updates of a row in one lemma (`RowKeepsInv`), and
  of the council's operations needs only that entries are never removed
  (`CouncilStepEffect`). `LogTellsCouncil` is proved from `CouncilInv`, which adds that an
  event filed for an entry names one that is there (`EventsFounded`), so that a new entry
  has none. One lemma says what an append does to the events of a subject
  (`EventsOfEffect`), one each that a row written with its event keeps the invariant.
* `PromotionsProofs`: `PromotedOnEvidence`, `PromotionsFormChains` and `PromotionsAreKept`
  from the invariant `PromotionInv`. A status proves nothing by itself, as sessions write
  it on stale reads; what does is `Backed`, that the proposal exists with the baseline
  as its baseline and that an experiment speaks for it, which no step takes away
  (`BackedKept`). `StatusFounded` says it of recommended and approved proposals and
  of attached experiments, `WorkFounded` of what sessions have read (`FoundedKept` is its
  stability), `PromotionsFounded` of promotions. All writes of a promotion are one
  lemma (`SupersedeStep`) about the row that is closed and the row that is added.

* `StoreProofs`, of the worker: `WorkerTypeOK`, `OneVerdictPerJob` and the refinement `ImplementsLedger`
  from `WorkerInv`, which adds to the first two, and to the invariant of the store, only
  that whoever promotes or fails a job has one (`BusyHasJob`): ownership is
  checked inside the transaction that settles the job, and a claim exists exactly for a
  running one. The refinement is a lemma per kind of step; that the highest attempt
  exists is proved by well-founded induction over sets.
* `FixtureWritebackProofs`: types need what an operation carries between its steps
  (`OpsFounded`). `WithdrawnStaysWithdrawn` is a step invariant: once withdrawn and quiet, no
  process can come to approve or write the proposal. `ReceiptsExplainFile` is proved from
  `SerialInv`, which says the same of the moments between a replacement and its
  receipt, where file and receipts differ by one operation.
* `WritebackProofs`: `TypeOK`, `TrimIsOnRecord`, `EvidenceBacksCompletion` and
  `StaleHashStops` from `WritebackInv`, which says of every process where it stands:
  it holds the lock exactly where the code does (`Placed`); while it executes a trim, the row has the
  state that its last commit gave it, and nobody else changes that row (`Executes`): a
  sweep finds it, but a reconciliation that has got past the lock finds the
  operation with a spool, and its executor gone or past the point where it matters;
  a process that has failed was the operation's only executor and judges by a row of which
  nothing early has been spooled (`Fails`);
  the evidence and the spool are stored in the order that completion relies on
  (`Evidenced`); what was compared last is what the file says unless the owner has
  saved it since (`Compared`). Between processes: one executes a trim, and none does
  while a rollback of it is past the lock (`Alone`), because a rollback is authorized
  for a row whose `after` is set, and that is set after the replacement. Last, the file
  is what its author made of it (`Authored`), and an author other than the
  undone trim is what a rollback leaves. Every update of a process or a row goes through
  lemmas that say it point by point (`RecordMoved`, `RowWritten`); the main lemma has one
  step per action. Operations need distinct ids for it (`WritebackAssumption`).
* `LearningProofs`: the four properties from `LearningInv`. What a listing has read must be
  part of what was recorded (`FoundedListings`), and counting is monotone in it.
* `ProviderProofs`: of the file, `ConfigInv`: whoever is past the lock holds it, and a save
  that has read under it extends what is there. `ProfilesStayApart` from `ScopeInv`: an actor
  belongs to one profile for ever (`ActorsApart`), a grant that nobody asked for is
  of a source of its own actor's profile (`GrantsFounded`), and what a request has searched
  and found was its own or lent to it (`RequestFounded`); no grant is ever taken back, so
  what others do in between does not disturb it. `OkPacketIsCurrent` from `LooksFounded`, which
  says what each step has seen: the memories recalled rested on events that were there, the
  events looked up without a flag were there and sound, and an assessment that is ok has
  found no flag; events that are withdrawn stay so. `IndexServesWhatRebuildWould` from `IndexFounded`. The types of all of it
  need what writers and requests carry from one transaction to the next (`KeysKnown`,
  `RequestTyped`) and that nothing is recorded without its source (`StoreTyped`).
* `MarkdownEvidenceProofs`: types and three properties from `EvidenceInv`. Inserts skip the ids
  that exist, so that an id keeps its event for good. `RemovedStaysCitable` needs that an event
  of a trim belongs to a trim of the same content (`EventsBelong`) and that every trim past its
  recording has its events (`TrimsAreRecorded`): a rollback then withdraws nothing of a trim
  of another content. The gate and the planner look at different ages: a memory
  cites an event that is at least as old as it is (`Founded`), so where the gate finds a
  memory old and the planner its event recent, the memory has been revised, which gives
  `BypassNeedsPolicyOrRevision`. `IngestIsComplete` needs that a rollback withdraws the events of
  an operation and ingestion has none. That the k-th of the removed indices exists
  (`EveryRankIsTaken`) is counted, as the provers cannot do the induction.

Only model-checked: liveness. Out of the prover's reach: liveness under fairness, ENABLED, and
induction over data.

## Plan

What would come next, in this order:

1. An abstract trim (the file and its evidence change together, or a recovery is
   pending) that `Writeback` implements, and the composition of `Writeback` with
   `MarkdownEvidence`, which now share only the meaning of a trim.
2. An abstract store (a memory is a sequence of approved contents with a position and a
   status) that `MemoryLifecycle` implements.
3. Runs for the remarks above ("what the model says of the code"), when the documents
   settle what is intended.

## Not modelled

* `audit.py`: each event carries the hash of its predecessor, selected by a timestamp of
  one second, so that events of one second may share one. Nothing in the repository
  reads the chain back or promises that it is linear.
* `service.py`, `health.py`, `wiki_projection.py`: one status row, and reports.
* `tool_gating.py`, `retrieval_hardening.py`, the ranking in `retrieval.py` and
  `embeddings.py`, the metrics in `experiments.py`: functions of text and numbers
  without state.
* `ingest.py` and `sources.py`: the repository's own documents, registered and ingested
  by one command; the keys that ingestion runs into are those of `MarkdownEvidence`.
* `plugin_install.py`, `plugin_onboarding.py`, `migration_*.py`: copying and inventory of
  files, and reports about them.
* `cli.py`, `operator_*.py`, `local_ui*.py`, `ui/`: parsing, rendering and HTTP; what their
  transactions mean for the components is modelled there.
* `benchmark.py` and the scripts: measurement and maintenance, not part of the running
  system.
