# PakPerk: specifications of the backend's control logic

PakPerk prepares arXiv papers for reading. Its backend (Rust, PostgreSQL) fetches
a paper, parses it, builds what the reader needs from it, and keeps the account
data of its mobile client. This directory holds TLA+ specifications of the parts
whose correctness depends on the order in which several actors do things, the TLC
configurations that check them on small instances, and proofs, checked by TLAPS,
that their main properties hold for any number of actors.

Source paths below are relative to `src/`.

## 1. The system

| Part | Where | State it keeps | Operations | What is hard | What makes it correct |
|---|---|---|---|---|---|
| Leased job queue | `backend/crates/jobs` | `jobs` rows: state, attempts, owner, lease, available_at | enqueue, requeue, claim (with a sweep of exhausted leases), extend, complete, fail | workers crash and come back under the same name; leases lapse under live workers; versions cancel rows under workers | one attempt settles a row, and it is the attempt the row counts; budgets; every live row settles |
| Paper worker, core jobs | `backend/apps/worker/src/runtime.rs` | what each process is executing | prepare_document, index_chat, resolve_connections, and what is done with their results | several transactions per job; failure between any two of them; two executions of one job | succeeded means published; remaining work is never lost |
| Paper processing state | `backend/crates/db/src/repository/papers.rs`, `rows/mod.rs`, `backend/crates/domain/src/processing.rs` | `paper_processing`: stage, capabilities, generation | prepare request, set_stage, publish_capability, mark_failure, mark_retry_scheduled | three jobs and the clients write one row in any order | capabilities in dependency order, only added; the stage agrees with them; a running stage has a live job |
| New arXiv versions | `backend/migrations/0001_initial.sql`, `metadata_sync.rs` | generation | trigger `invalidate_new_arxiv_version` | arrives between any two steps of a job | work on the old version leaves the new one alone |
| Shared arXiv gate | `papers.rs`, `backend/crates/arxiv_client` | time of the last request, cooldown | reserve, defer | processes race for the next permit while cooldowns are extended | permits are spaced, a cooldown is never pulled forward |
| Enrichment chain, version diff | `runtime.rs`, `passport.rs`, `version_diff.rs` | enrichment capabilities, anchors | visual objects, terms, facets, passport, comparison, re-anchoring | a chain of dependent jobs, partial failures, re-runs for new artifact versions | dependency order; a failure in the chain does not hide published work |
| Library server | `backend/crates/db/src/repository/library.rs` | items, revisions, operations, tombstones, purge floor | save, remove, list, changes, cleanup | retried operations, paging while the library changes, purged tombstones | an operation is applied once; a client that follows revisions converges |
| Mobile library sync | `mobile/lib/core/{library,database,sync}` | local items, outbox, cursor | optimistic edit, push, pull, reset | lost responses, offline edits, account switches | local edits are not lost and reach the server once; convergence |
| Account deletion | `backend/crates/account_deletion`, `db/src/repository/account_deletion.rs`, `apps/deletion-worker` | user, deletion ledger, job with lease, purge; identity provider; external ledger of tombstones | request, publish, claim, advance, complete, retry, reapply, remove verified, authorize, unlink, finalize | three stores that fail apart; crash at every stage; workers that outlive leases; restored backups | nothing of a deleted account comes back; a tombstone is unlinked only when nothing can |
| Comments and moderation | `backend/crates/{comments,moderation}` | comments, reports, decisions | post, edit, delete, report, decide | concurrent edits and decisions | a decision is about what was seen |
| Rate limits | `db/src/repository/rate_limits.rs` | windows per subject | consume, cleanup | shared by processes | limits hold across processes |
| Recommendation feed | `db/src/repository/{reading_feed,recommendations,recommendation_jobs}.rs`, `apps/api/src/recommendation_source.rs` | batches by key, a lease queue of its own, feedback revision | choose queue or recommendations, enqueue, claim, generate, persist, serve, supersede | a worker reads four revisions one by one, outside every lock; the account changes at any time; attempts are repeated | a served page is current; a batch is what its key says; a completed job has its batch |
| Mobile auth session | `mobile/lib/core/auth` | tokens, session state | sign in, refresh, sign out | concurrent refreshes, sign-out during one | one refresh at a time; nothing after sign-out |
| Mobile feed and prefetch | `mobile/lib/features/feed` | window of prefetched papers | prefetch, cancel, promote | bounded concurrency and cancellation | bound, no result applied to another feed |
| Discovery notifications | `db/src/repository/engagement.rs`, `crates/engagement/src/service.rs` | subscriptions, matches and digests, a lease queue of its own, preferences | evaluate, recheck, publish, hold back, build a digest, expire, withdraw | published only while the reading queue is empty, on a decision that is read elsewhere; items are repeated; every change of the library overwrites the state of all rows | nothing is shown while there is something to read; nothing of a changed subscription; each paper once; the day's budget |
| Accounts, research memory, imports, parsing, model providers, API, operations | various | tables, caches | mostly single statements and data transformations | little control of their own | not planned, see section 8 |

How they interact: the API turns a client's prepare request into job rows and a
stage (`prepare_with_trigger`). Workers poll the queue, execute one job at a time
and write artifacts, capabilities and stages in transactions that lock
`paper_processing` and compare the job's generation; `prepare_document` enqueues
its follow-ups. The metadata path (API, `metadata_sync`) upserts papers, and a
database trigger resets the processing row and cancels live jobs when the arXiv
version grows. Clients poll the processing row. Every change of the library takes
the next revision of the account, which also supersedes what was recommended
under the old one, and hides the discoveries that are shown; phones upload their operations and follow the revisions. The
deletion worker goes through the database, the identity provider and the external
ledger, in that order of trust: the ledger alone survives a restore.

## 2. Plan

Most important first; each stage ends with its runs and theorems.

1. **Job queue and preparation of a paper** - done: `LogicalJob`, `Preparation`
   (abstract), `JobQueue`, `PaperPipeline`, with proofs in `JobQueueProofs`,
   `PaperPipelineProofs` and `PaperPipelineWorkProofs`.
2. **Library** - done: `LibraryLog` (abstract), `LibraryServer`, `LibrarySync`,
   `LibraryImport`, with proofs in `LibrarySyncProofs` and `LibraryImportProofs`.
3. **Account deletion** - done: `AccountDeletion`, with proofs in
   `AccountDeletionProofs`.
4. **Recommendation feed** - done: `RecommendationFeed`, with proofs in
   `RecommendationFeedProofs`.
5. **Discovery notifications** - done: `DiscoveryNotifications`, with proofs in
   `DiscoveryNotificationsProofs`.
6. Left: comments and moderation (a decision is about the version that was seen);
   the shared arXiv gate for any number of processes; the enrichment chain on top
   of `JobQueue`; the mobile session's single refresh; feed prefetch.
7. Proofs left: that a phone stays honest from a full refresh up to its next import
   (`ImportFullRefreshRepairs` says it of the refresh itself); that `AccountDeletion`
   implements an abstract erasure.

## 3. Modules

**`LogicalJob`** is the abstract specification of the queue: a logical job is
absent, pending, succeeded, failed or cancelled; it is attempted within its budget
and only for the current generation; an outcome is final, except that a failed job
may be opened again.

**`JobQueue`** is the `jobs` table and the workers' loop. `jobs` maps each key
(generation, kind) to a row; a row that does not exist is `"absent"`. Times are
ticks left on a lease (`lease`) or before a queued row is available (`due`).
`exec` is what a worker process is doing: idle, behind the sweep of `claim`,
executing a claimed job with its heartbeat, or settling the result. Each SQL
statement is one action: `EnqueueOnce`, `RequeueFailed` (public, without a caller
in the repository), `PrepareJobs` (the statement of a client's request),
`NewArxivVersion` (the trigger), `FailExhaustedLeases`, `Claim`, `Heartbeat`,
`Complete`, `Fail`. `RetryDelay` computes the doubling, the jitter and the cap with a
tick for a second. `FinishExecution` stops the heartbeat, `DiscardStale` drops
work of an old generation, `Crash` kills a process, which comes back under the same
`WORKER_ID`. `complete` and `fail` check only the owner's name, as in the code.

**`PaperPipeline`** extends the queue with the row of `paper_processing` (`proc`),
two facts about stored artifacts (`document`: the normalized document exists;
`chunks`: the chat corpus is not empty), and the program of each worker (`task`):
which transaction of which job it is at. `fresh` says that the sections or
references the execution has read still exist, because replaced rows break the
foreign keys of what is published from them. The actions follow the functions of
the worker and the repository by name; a fetch that fails, a model that refuses and
a transaction that breaks are `ReturnFailure`, with the two sorts of failure the
code distinguishes (`Failures`). `RecordFailure` and `PublishFailure` are separate
steps, since `queue.fail` and `mark_failure` are separate statements.

**`Preparation`** is the abstract specification of the pipeline, what the reader of a
paper's status is promised: capabilities appear one at a time, the introduction
first, and are withdrawn only by the next version; work is on record as finished
only behind its capability; ready is said only when everything is there. `Promise`
in `PaperPipeline` is the refinement mapping: the generation, the published
capabilities, the jobs that succeeded, and the stage `ready`.

**`LibraryLog`** is what the library promises: a set of saved papers on which every
operation takes effect at most once.

**`LibraryServer`** is the server's side for one account: rows with their revision
(`items`), the account's revision (`revision`), how far tombstones are purged
(`floor`), and the ledger of accepted operations (`accepted`). `MutateItem` is the
transaction of a save or a removal, with the replay of an accepted operation and
the change that changes nothing; `CleanupTombstones` purges; the reads
(`ListPage`, `ChangesPage`) are operators on a snapshot.

**`LibrarySync`** composes it with the phones: local rows, outbox, checkpoint, and the
cycle of the sync controller (`cycle`), which drains the outbox and then refreshes,
in pages, from `changes` or, when the checkpoint is missing or behind the floor,
from a list taken under a snapshot revision. An upload whose answer does not come
is put into `stray`: it may take effect later, or never, while the phone recovers
the operation and repeats it under the same UUID. A phone may stop at any step and
come back with its database. Peers are devices of which only the operations are
seen.

**`LibraryImport`** adds the import of a paper by its link: the server makes the save,
and the response is applied to the local database beside the running cycle.
`CheckpointInReach` and `FullRefreshRepairs` are what imports leave intact.

**`AccountDeletion`** is one account over three stores. The database is `user`,
`ledger`, `job` and `purge`; the provider is `identity`, with `token` for an access
token that outlives it; `external` is the signed tombstone. The parts of a request
(`Request`, `Externalize`, `MarkExternalized`) and the workers' stages are one
transaction or one call each; a worker whose lease has lapsed goes on until a
transaction refuses it. `Restore` puts the database, the provider or both back to
a backup; `phase` is the runbook's: isolated, reconciling with the ledger,
serving.

**`RecommendationFeed`** has the revisions of the account (`library`, `feedback`,
`profile`, `searches`), the rows of the batches and of the generation jobs by key,
the requests (`req`: snapshot, `Prepare`, proof that the queue is empty, enqueue,
serve) and the workers (`exec`). A batch keeps two things apart: the key it is
found by and what its candidates were built from (`content`). The fences of the
code are the guards `SameContext` and `QueueEmptyAt`; what a worker does between
them is read step by step, outside any lock.

**`DiscoveryNotifications`** is one account: its library as far as notifications
look at it, its preferences, its subscriptions (`sub`), the rows of its matches and
digests by dedupe key (`note`), the work items that are pending (`work`) and the
workers (`exec`). `HeldBack` is the statement with which every change of the
library (`LibraryChange`), and a recheck that finds something to read (`HoldBack`),
takes back what is shown. A worker reads the decision about the queue
(`ReadDecision`) outside the transaction that acts on it; `ProvenEmpty` is the
comparison of that transaction with the account's revision, behind which matches
are published (`PublishMatches`) or folded into a digest (`AskForDigest`,
`BuildDigest`). `Withdrawn` is what a change or the end of a subscription does to
what was found for it.

**`JobQueueProofs`**, **`PaperPipelineProofs`**, **`PaperPipelineWorkProofs`**,
**`LibrarySyncProofs`**, **`LibraryImportProofs`**,
**`AccountDeletionProofs`**, **`RecommendationFeedProofs`** and
**`DiscoveryNotificationsProofs`** hold the theorems of section 6; the **`MC...`** modules are the instances for TLC.

### Abstractions

Queue and pipeline:

- One paper. Rows of different papers interact only through the order in which
  they are claimed, and `Claim` leaves that order open.
- A transaction is one step. All transactions that matter here lock the
  `paper_processing` row; what READ COMMITTED allows inside the version trigger
  (a follow-up inserted between its cancel statement and its commit) is not
  modelled, nor are lock orders.
- The upstream call in front of a transaction is folded into it: nothing shared
  changes between the two but what other actions change anyway.
- `retryable`, timestamps, error texts and job payloads are not kept.
- A tick of a retry's delay is a second, the cap of five minutes is `BackoffTicks`; the
  pipeline's runs cap it at zero.
- The heartbeat is an action of `JobQueue`. In `PaperPipeline` it is left out of
  `Next` and replaced by its effect: where `LeasesMayLapse` is FALSE, time does not
  pass while a lease is in use; where it is TRUE, any lease may run out under a
  live execution, as when heartbeats fail.
- The enrichment and comparison rows that `prepare_document` also enqueues, and
  the enrichment capabilities, are left out: they gate none of the core stages.
- Connections have no counterpart of `chunks`: a paper may have no connections,
  so their loss by a replay is not visible in a flag of the model.

Library:

- One account. The `saved_at` of a row is the revision that opened the interval in
  which the paper is saved; an encrypted cursor is its coordinates.
- A stop of the app takes effect between two local transactions. A cycle that still
  applies something after the stop is the same as a later stop.
- The limits of a drain (100 operations) and of a refresh (1000 pages) are left
  out, and so are validation, payloads and backoff times (`due` says whether the
  backoff has elapsed).
- The import's own row, its retries and its replay are left out; the v2 shelves
  and tags have a ledger of their own and are not modelled.
- What `allocate_revision` does to recommendation batches is in
  `RecommendationFeed`, and what it does to notifications in
  `DiscoveryNotifications`; briefs are left out.

Account deletion:

- One account and one deletion request. `"active"` stands for active and
  suspended. Rate limits, the proof of identity before a request and conflicts of
  reissued user ids are left out.
- Attempts and backoff are a nondeterministic choice between a retryable and a
  terminal failure. Of a lease only who holds it while it is live is kept; it may
  lapse at any time, which covers heartbeats that fail. A lease in a backup has
  lapsed when the backup is restored.
- A file of the external ledger is published in one step: the pending file and the
  hard link that make it atomic are below the model.
- The evidence about backups that an operator signs is true, and a restored
  database serves nobody until it is reconciled: both are what the runbook asks.
  Retention outlives access tokens and requests in flight.

Recommendation feed:

- One account, one query, one day, the first page, and one page of candidates. The
  model takes the union of what the modes read: saved searches belong to
  Following, the history of dismissals to For You.
- Ranking, explanations, policy versions, retry backoff, the 24 h expiry,
  retention and the inline fallback are left out. A read of the profile that fails
  counts as no profile, as in the code. Neighbouring reads of unrelated rows are
  one step.

Discovery notifications:

- One account. Reminders, version alerts and briefs are left out; what they have
  used of the day's budget is left open whenever the budget is read, and so is
  whether the delivery window (channel, pause, quiet hours) is open.
- Time is counted in days. Which papers a subscription finds, which rows are the
  oldest, and which subscriptions are due, is left open. A subscription whose
  frequency is off is one that finds nothing.
- A work item is pending or not: its window key, attempts and backoff are left out.
  A pending item may be claimed at any time, which covers leases that lapse under a
  live worker; the transaction that settles it is taken with the step before it.

## 4. Runs

| Run | Instance | Checks |
|---|---|---|
| `queue` | 2 workers, 1 kind (2 attempts), 2 versions, lease 2, delays capped at 2 | `QTypeOK`, `LeaseDiscipline`, `SettledByHolder`, `ImplementsLogicalJobs`, `EventuallySettled` |
| `pipeline_lapses` | 2 workers, 1 version, both failures, leases lapse | `TypeOK`, `CapabilityOrder`, `SucceededIsPublished`, `RemainingWorkIsKept` |
| `pipeline_versions` | 2 workers, 2 versions, 1 crash, retries asked for, no failures | `ChatHasCorpus`, `ImplementsPreparation`, `StaleWorkIsInert`, `RequestedBecomesReady` |
| `library` | a phone with 1 operation, a peer with 2, 2 papers, pages of 1 | `TypeOK`, `CheckpointHonest`, `ShownIsExplained`, `ImplementsLog`, `PhonesConverge` |
| `deletion` | 2 workers, 1 backup, 1 restore | `TypeOK`, `CompletedIsErased`, `AcceptedStaysDeleted`, `PurgedIsUnrecoverable`, `ErasureInOrder`, `AcceptedIsErased` |
| `recommendations` | 1 request at a time, 2 workers, 2 attempts, 1 change of the account | `TypeOK`, `ReadyIsCurrent`, `BuiltAsLabelled`, `CompletedIsPublished`, `PagesAreCurrent`, `BatchesAreImmutable` |
| `notifications` | 1 paper, 2 subscriptions, 1 worker, 3 changes, 2 days | `TypeOK`, `EligibleIsAuthorized`, `WithdrawnIsHidden`, `PaperShownOnce`, `WithinBudget` |
| `pipeline_stuck` | 1 worker, both failures | finds `RunningStageHasLiveJob` violated |
| `pipeline_stage` | 2 workers, retryable failures | finds `StageMatchesCapabilities` violated |
| `pipeline_corpus` | 2 workers, leases lapse | finds `ChatHasCorpus` violated |
| `library_import` | 1 operation on the phone, 1 on the peer, 2 papers | finds `CheckpointHonestWithImports` violated |
| `notifications_digest` | that of `notifications`, saves and removals in turn | finds `HiddenDigestsComeBack` violated |

What the properties say:

- `QTypeOK`: besides the types, attempts stay within the budget of a kind, and no
  retry is put off beyond the cap, although the delay doubles and has a jitter on top.
- `LeaseDiscipline`: a running row belongs to the current generation, is within its
  budget, and if its owner is executing a job of that key, it is executing exactly
  the attempt the row counts. This is what makes the name check of `complete` and
  `fail` enough, although names survive restarts.
- `SettledByHolder`: only the holder of that attempt turns a row into a success.
- `ImplementsLogicalJobs`: the refinement of `LogicalJob`.
- `EventuallySettled`: no live row of the current generation is left behind by
  crashes, by lapsed leases or by a final attempt that never reports.
- `CapabilityOrder`, `SucceededIsPublished`, `StaleWorkIsInert`: the row is right
  whatever the interleaving of repeated jobs, late workers, client requests and new
  versions.
- `ImplementsPreparation`: the refinement of `Preparation`; `CapabilitiesOnlyGrow`,
  which is proved, is a part of it.
- `ChatHasCorpus`: `chat_ready` means that there is a corpus to answer from. It holds
  where no lease runs out under a live execution, and `pipeline_corpus` shows that it
  needs that.
- `RemainingWorkIsKept`: after the introduction is published, a missing
  capability always has a row that is not settled successfully, its own or that of
  `prepare_document`; the follow-ups are enqueued one by one, and a failure between
  them must not lose the rest.
- `RequestedBecomesReady`: end to end progress.
- `CheckpointHonest`: what a phone's checkpoint covers, the phone has: whatever the
  server has not changed since is in the local database as the server holds it,
  although pages are read while the library changes, tombstones are purged and
  cycles are cut off.
- `ShownIsExplained`: a paper is shown as its newest pending operation asks, and
  without one as the server is known to hold it; no edit is silently lost.
- `ImplementsLog`: an operation is applied once, however often its request is
  repeated or however late it arrives (refinement of `LibraryLog`).
- `PhonesConverge`: once nobody edits any more, every phone that is not stopped for
  ever shows the server's library and has an empty queue.
- `CompletedIsErased`, `AcceptedStaysDeleted`: after a completion the user's rows and
  the identity are gone, and after a 202 the account is never active where traffic
  is served, whatever is restored.
- `PurgedIsUnrecoverable`: when a tombstone is unlinked, no store and no backup can
  bring the account back.
- `ErasureInOrder`: tombstone before identity, identity before data; an unlinked
  tombstone is not published again by a late request or worker (said only while
  nothing has been restored, since a restore may lose the authorization).
- `AcceptedIsErased`: an accepted deletion is carried out, through crashes, failures
  and restores.
- `ReadyIsCurrent`, `PagesAreCurrent`: what is ready, and what is served, was built
  for the account's revisions of that moment, and there is nothing left to read.
- `BuiltAsLabelled`: the candidates of a batch were built from the revisions it is
  found by.
- `CompletedIsPublished`: a completed job has its batch; a repeated request is
  answered from the job's row and would find nothing otherwise.
- `BatchesAreImmutable`: a repeated attempt changes no batch.
- `EligibleIsAuthorized`: what is shown was published at the present revision of the
  library, at which nothing is left to read: a save never loses to a delivery,
  however old the decision is that the worker carries.
- `HiddenDigestsComeBack`: what `build_digest` says of itself, that an unread digest
  hidden by a save can be restored where the queue is proved empty. It cannot
  (section 5).
- `WithdrawnIsHidden`: after a subscription has changed or gone, nothing that was
  found for it before is shown or waits, alone or in a digest it shares with others.
- `PaperShownOnce`, `WithinBudget`: two subscriptions that find one paper, and
  workers that repeat each other's items, show it once and keep to the day's budget.

### Bounds

Two workers are enough for an owner and a worker that takes over. A budget of two
attempts has a first and a last one; keys do not interact in the queue, and
`queue` has one kind in two generations, a superseded and a current one (a larger
instance without liveness, with a second kind of one attempt, passed too). A lease
of two ticks can be held, renewed in time, or lapse. Crashes are unbounded in
`queue` (`Crash`) and bounded by one in `pipeline_versions`, one fewer than the
attempts. Attempts need no bound: a row that is revived starts
again at zero. The
first delay of `queue` reaches the cap, which its jitter alone would exceed; that the
cap holds on any attempt is lemma `DelayIsCapped`. `Generations` is bounded by `MaxGeneration` and crashes of the
pipeline by `MaxCrashes`, in the guards. `pipeline_versions` has no upstream
failures, which `pipeline_lapses` has: with a crash and a version in the same run they
multiply the states beyond it. The same three safety properties passed on an instance
with two versions, both failures, explicit retries and one attempt per job
(1,116,435 states), and they are proved.

Library: two papers and pages of one make every refresh go over several pages with
changes between them. One operation of the phone meets two of a peer: its own
retry, a purge and a reset all happen. Two pending operations of a phone on one
paper are covered by a larger instance without liveness (two operations of the
phone, one of the peer: 431,934 states) and by the theorems, which hold for any
number. Bounds: `MaxOperations`, `Touches`, `PageSize`. The instance of
`library_import` satisfies `TypeOK`, `ImplementsLog`, `CheckpointInReach` and
`FullRefreshRepairs` (37,586 states); they are no run of their own, since all four
are proved.

Deletion: two workers give one that outlives its lease and one that takes over; one
backup can be from before the request, between any two stages, or from after the
completion; one restore is enough to lose or to repeat each stage. Larger instances
without liveness were checked too: one worker, two backups and three restores
(1,767,504 states), two workers, one backup and three restores (940,098). Bounds:
`MaxBackups`, `MaxRestores`.

Recommendations: one change between any two steps makes each read stale in turn;
two attempts give a repeated one. Larger instances passed: two requests with two
workers and one attempt, two requests with one worker and two attempts, and two
changes with one worker. Bounds: `MaxAttempts`, `MaxChanges`.

Notifications: two subscriptions that find one paper make duplicates, and digests
they share; three changes give a subscription, its change and a save, or two
subscriptions and a save, in any order with the worker's steps; two days with a
lifetime of one make rows old, attempts late and cadences due. One worker, since a
second one multiplies the states beyond a run; a smaller instance with two workers
and two changes passed (885,468 states), and the theorems hold for any number. Bounds: `MaxChanges`, `MaxDay`.

### Fairness

Workers poll for ever and never hang inside a step, because every upstream call has
a timeout: weak fairness of the sweep, of finding nothing, of each job's steps and
of settling (`Poll`, `Execute` in `PaperPipeline`). The database clock advances: weak fairness of `Tick`. A row that is
claimable again and again is claimed: strong fairness of claiming it by some
worker, because claims take the oldest `available_at` first and a row keeps its
`available_at` until it is claimed; in `PaperPipeline` this is said of the core rows of
the present generation. Nothing is assumed of crashes, failures, client
requests and new versions.

Library: the controller carries a running cycle on (weak fairness of `Proceed`); a
backoff elapses, a refresh is triggered again (by a timer, a resume or the reader),
and a server that is asked again and again answers in the end (strong fairness of
`BackoffElapses`, of a refresh, of the answers and the fetches). Nothing is assumed of
edits, stops and purges, and `PhonesConverge` speaks only of phones that some day are
stopped no more; edits end because `MaxOperations` bounds them.

Deletion: workers poll for ever (weak fairness of claiming by some worker and of
each worker's steps), the lease of a worker that is gone lapses, operators retry a
terminal failure and reconcile a restored database. `AcceptedIsErased` holds under
the assumption that trouble - crashes, failed calls, restores - ends some day.

The recommendation feed and the notifications are checked for safety only.

## 5. Disagreements between code and comments

Each is a run that TLC ends with a counterexample.

1. **A paper shown as running with nothing to run it** (`pipeline_stuck`).
   `mark_retry_scheduled` (`papers.rs:524`) writes a running stage over the failed
   stage of another job of the same paper; `set_stage` would keep the failure. When
   `index_chat` has failed for good and `resolve_connections` is retried, the stage
   ends as `indexing_chat` with no live job; clients poll for ever and a prepare
   request returns early because the stage is running. The comment above the
   function promises a durable job that remains queued.
2. **A row no reader can decode** (`pipeline_stage`). The scheduled retry of
   `prepare_document` writes `queued` even after its own execution has committed the
   introduction; `Capabilities::valid_for_stage` rejects the combination, so reading
   the row fails, for the retried job too.
3. **A chat capability without a corpus** (`pipeline_corpus`). When a lease lapses
   under a live `prepare_document`, its replay of the parser output deletes the
   chunks that `index_chat` has published meanwhile, and `chat_ready` stays true.
   The comment calls the replay safe. Without lapsed leases `ChatHasCorpus` holds
   (`pipeline_versions`).
4. **An import skips a change** (`library_import`). `applyImportedPaper`
   (`mobile/lib/core/database/library_v2_dao.dart:898`) moves the checkpoint up to
   the revision of the import's response. A change of another device with a smaller
   revision, not fetched yet, is then behind the checkpoint: the phone shows the
   old state until that paper changes again or a full refresh is forced.
   `docs/library-sync.md:118-119` lets clients persist a revision only after they
   have applied the whole page.
5. **A digest that never comes back** (`notifications_digest`). A digest that a save
   has hidden is put behind the queue (`deferred_queue_nonempty`) by the next
   decision. `build_digest` (`engagement.rs:1811-1814`) promises to "restore that same
   bounded digest at the new empty-queue revision before considering any new source
   rows", and looks for rows in that state, as does `has_redeferred_digest`. But the
   removal that ends the queue is a change of the library too, and `allocate_revision`
   (`library.rs:1034-1046`) sets every open row to `deferred_unknown`, that one
   included. The matches in the digest were dismissed when it was made, so its papers
   are not offered again. The run takes the steps of the test
   `postgres_engagement.rs:1249-1395`: save, decision, removal by `library.mutate`,
   decision. The test asserts that the row is `deferred_queue_nonempty` after the
   removal (1346) and is restored by `build_digest` (1372-1395); by the code it is
   neither. Theorem `HiddenDigestsAreNeverRestored`: where the queue is proved empty,
   the restoring statement finds no row, in no instance.

Met while modelling, without a run of their own:

- A timed-out upload is queued again (`library_dao.dart:709`), may be replaced by a
  newer intent (`library_dao.dart:382`), and may still take effect on the server
  after it. `docs/library-sync.md:198` says that one device serializes operations
  per paper. The model has the behaviour; the phone converges to the server's
  outcome, which is then the older intent.
- An account without a profile row: `load_profile` answers revision 0
  (`research_profiles.rs:425`), the fences read none, so every such request is
  refused, unless the read of the profile fails.
- A request with an old library revision finds the batch of the present one
  (`record_blocked_by_queue` looks it up under the authority's revision), and
  `serve_ready` (`recommendations.rs:486`) supersedes it although it is current.
  Later requests of that key are told it is stale until a revision or the day
  changes. `docs/reading-feed.md:261` speaks of superseding old batches.
- A batch is found without its page of candidates (`recommendations.rs:1575`). When
  the page has changed under the same revisions - a paper dismissed between the
  snapshot and `Prepare`, a new paper - what is found fails the request's validation
  (`crates/reading_feed/src/service.rs`), and a pending job with another page
  violates `recommendation_generation_jobs_exact_identity_idx`.
- A search that is saved, removed and saved again has the digest it had; a worker
  cannot tell. A worker that repeats an attempt after a batch was superseded hits
  the unique index and its job fails for good.
- The feedback revision is called monotonic, but a reset of all data deletes it
  (`research_profiles.rs:987`). Batches are safe because the profile's revision
  grows at the same time; the proof of `BuiltAsLabelled` needs exactly that.

- A digest of the matches of a subscription outlives the rows of the matches by up to
  its own retention, and is not withdrawn when the subscription goes after that:
  `WithdrawnIsHidden` speaks of matches whose row is kept.
- Matches are published without a look at `expires_at` (`engagement.rs:1660`), while
  a digest and the scheduler leave expired ones out. A paper that is stored after an
  evaluation but dated before it is behind the watermark and never matched.

## 6. Proofs

All theorems hold for any finite or infinite set of workers, devices or requests and
any value of the bounds (the papers of the notifications are finitely many); they assume only the named assumptions of the modules
(`QueueConstants`, `NoJobIsNotAJob`, `PipelineConstants`, `LibraryConstants`,
`SyncConstants`, `DeletionConstants`, `FeedConstants`, `NotificationConstants`), which say what the constants
are and which TLC evaluates on every run. Each inductive invariant was first
checked by TLC.

`JobQueueProofs`:

- `QueueInvariant`: `QTypeOK /\ LeaseDiscipline` is inductive. Neither half is
  inductive alone: that the owner's execution is the counted attempt follows from
  `claim` counting and remembering in one statement, and from every other statement
  leaving a running row alone or taking it out of the running state. The proof
  splits `LeaseDiscipline` into a part per row and a part per worker; three lemmas
  (`RowsLeaveRunning`, `WorkerMovesOn`, `RowIsSettled`) cover the shapes of steps.
- `QueueTypes`, `QueueLeaseDiscipline`, `QueueSettledByHolder` follow from it.
- `QueueImplementsLogicalJobs`: every step of the queue maps to a step of
  `LogicalJob` or to a stutter. `Start`, `Succeed` and `GiveUp` need the current
  generation and the budget, which `LeaseDiscipline` supplies.

`PaperPipelineProofs`:

- `PipelineInvariant`: `PInv` adds to the queue's invariant that the worker's
  program agrees with the queue's view of it (`Linked`), that a worker on a job of
  the current generation stands on published ground (`Grounded`), and that the rows
  do (`Founded`): an artifact job of the current generation exists only behind the
  introduction, and one that succeeded has published. `CapabilityOrder` needs
  `Grounded`, since `publish_capability` does not look at the introduction;
  `Grounded` needs `Founded` at the claim, and `Founded` needs `Grounded` when a
  job is enqueued or settled: hence one invariant.
- `PipelineTypes`, `PipelineCapabilityOrder`, `PipelineSucceededIsPublished` follow.
- `PipelineUsesQueue`: every step of the pipeline is a step of `JobQueue` or leaves
  its variables alone, so that `PipelineJobs` carries the queue's theorems over.
- `PipelineCapabilitiesOnlyGrow`, `PipelineStaleWorkIsInert`: action properties, by
  cases over the actions under the invariant.

`PaperPipelineWorkProofs`, on top of `PInv`:

- `RemainingWorkInvariant`, `PipelineRemainingWorkIsKept`: `RemainingWorkIsKept` is
  not inductive, since it says nothing of what a worker between two inserts has done
  so far. `KInv` adds that the job of a worker has a row and that the follow-ups it
  has passed have one (`WorkerKeeps`), that a prepare job that succeeded leaves both
  behind and only superseded rows are cancelled (`RowKeeps`), and that the
  introduction was published by a job with a row (`IntroductionKeeps`). The steps are
  seen through what they do to a row (`Requested`, `FollowsUp`, and what settles or
  revives it), so that the proof has one case per way a row can change.
- `PipelineChatHasCorpus`, `PipelineOneExecution`: under `LeasesMayLapse = FALSE`, the
  assumption that heartbeats keep the lease of every live execution. `CInv` says that
  whoever executes or settles a job of the current generation holds its lease, hence
  one worker per job (`HoldsLease`); that an execution on its way to store the
  document finds none, and behind that step finds one (`DocumentSteps`); that as long
  as the document may still be parsed, no artifact job exists that could index it
  and no retry can bring one in (`Unparsed`), not even in the step between the record
  of the last failure and its publication (`OneReport`); and that a published index
  and an unrequested paper say which rows exist. Crashes are still allowed: a lease that
  a dead worker leaves behind does lapse. Without the assumption both are false
  (`pipeline_corpus`).
- `PipelineImplementsPreparation`: for any leases. Every step publishes one
  capability, finishes one, reports, supersedes or stutters. That a finished job has
  published and that artifacts come after the introduction is `PInv`; that no step
  finishes two jobs is `FinishedMoves`.

`LibrarySyncProofs`:

- `ServerImplementsLog`: each transaction of the server maps to one application of
  an operation, or to nothing when the ledger knows it; a purge maps to nothing,
  because a tombstone is of a paper that is not saved.
- `CheckpointsAreHonest`: the invariant adds what the pages that a cycle holds are
  worth: a page of changes is complete up to its last revision, because revisions
  are handed out in the order of commits and a tombstone is purged only below the
  floor, where `changes` refuses; a list is complete for its snapshot up to the
  last row read.
- `WhatIsShownIsExplained`: from an invariant about the outbox of a paper: which of
  its entries can be pending beside each other, and in which order they were made.
- `LibraryTypeCorrect`.

`LibraryImportProofs`: an import moves the checkpoint past changes the phone has not
fetched, so `CheckpointHonest` is lost (section 5). What is left: `ImportTypeCorrect`;
`ImportImplementsLog`, the server's promise, for operations of imports too;
`ImportCheckpointInReach`, so that no phone is ever refused as being ahead of the
server (`library.rs:660`); and `ImportFullRefreshRepairs`: the listing of a full
refresh is complete for its snapshot whatever is done to rows and checkpoint
meanwhile, so applying it makes the checkpoint honest again. The invariant
(`ImportInv`) is the part of that of `LibrarySyncProofs` that does not speak of the
checkpoint's honesty: responses carry revisions that were given (`Responses`), and
what a phone holds of its reads is within them (`Reads`).

`AccountDeletionProofs`: the invariant has a part that every image of the database
has in itself, live or in a backup (`Images`), so that a restore preserves it; a
part that ties a live, reconciled database to the provider and the ledger
(`IdentityIsRecorded`, `TombstoneIsKnown`, `BackupsAfterCompletion`); a part about
what a worker with the lease has done (`WorkersInStep`); and a part that makes the
purge a point of no return (`PurgeFromClean`, `PurgeIsClosed`). `CompletionIsTrue`,
`AcceptedIsNeverActive`, `PurgeIsFinal`, `ErasureIsOrdered` and
`DeletionTypeCorrect` follow.

`RecommendationFeedProofs`: a worker's reads are outside every lock, so the
invariant says what they are worth when the fence is checked: each lies between the
revision in the key and the present one (`ReadsAreOrdered`), and where the fence
finds the two equal, the read is what the key says. The feedback revision starts
again after a reset; it is compared only under keys of the present profile, between
which there is no reset. From it `BatchesAreAsLabelled`, `ReadyBatchesAreCurrent`,
`CompletedJobsHaveBatches`, `ServedPagesAreCurrent`, `SettledBatchesStay` and
`FeedTypeCorrect` follow.

`DiscoveryNotificationsProofs`: most steps can only make rows quieter - less open, with
the same date and contents - and every property survives such a step
(`QuietRow`, `Quieter`); what is left are the evaluation, the two statements that
publish, and retention. `IInv` adds to the properties that the rows are finitely
many, that an undated digest does not exist (`DigestsAreDated`) and that a match
belongs to a subscription at a revision it has had (`MatchesHaveSubscriptions`).
`HeldBackByQueue`, that a row behind the queue is behind the queue of now, is a part of
`IInv` too: it holds because every change of the library overwrites that state, which is
the very reason why `HiddenDigestsComeBack` fails, and nothing the code sets out to do.
`ShownIsAuthorized` rests on the comparison with the account's revision in the
transaction that publishes.
`WithdrawnStaysHidden` rests on new matches carrying the revision that a later
withdrawal looks for; `DeliveriesAreWithinBudget` on `DatedRowsFit`: a statement that
dates no more rows than there is room for leaves every day within its budget,
whichever rows it takes them from. `NotificationTypes`, `PapersAreShownOnce` and
`HiddenDigestsAreNeverRestored` follow from the same invariant.

## 7. Only model-checked

Liveness (`EventuallySettled`, `RequestedBecomesReady`, `PhonesConverge`,
`AcceptedIsErased`) needs fairness and ENABLED,
which are out of the prover's reach. Every other property of a passing run is stated
by a theorem.

## 8. Not modelled

- The arXiv gate, the enrichment chain, rate limits, comments and moderation,
  mobile sessions and prefetch: section 2. The v2 shelves and tags of the library.
- Reminders, version alerts and briefs of the engagement service.
- Accounts, research memory, the assistant, imports: mostly single
  statements over many tables; ranking, scoring and validation are data.
- Parsing, retrieval, model providers: data transformations and upstream calls,
  whose outcomes are the nondeterministic results of the pipeline's steps.
- API routing, configuration, observability, migrations, deployment, sites: no
  state of their own.

Hazards without a property: a follow-up of a superseded generation that stays queued
(`crates/jobs/src/lib.rs:327`, harmless in the model); lock orders inside transactions
(`papers.rs:768`, a transaction is one step); the stray upload of section 5
(`library_dao.dart:709`); the changed page of candidates of section 5
(`reading_feed.rs:62`, the page is fixed in the model).
