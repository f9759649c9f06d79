# Verification of noshiro-db-backend

TLA+ models of the backend's synchronization core, of the knowledge graph and the
airing board it feeds, of the agent runtime and of the community, checked with TLC
on small instances; the safety properties of the runs are also proved with TLAPS, for
every value of the constants that their stated premises allow. Paths are
relative to `src/src/apps/` unless they start with `src/` or `docs/`.

## 1. Inventory

The backend is a Django application with Celery workers. A PostgreSQL database
is its only shared state (Redis is broker and cache). Everything that is hard in
it follows from that: a unit of work is a Celery message that can be delivered
twice (`CELERY_TASK_ACKS_LATE`), killed by a time limit or lost with its worker; it
reads rows, calls a provider or a model for seconds, and writes rows that other
workers, management commands and API requests may have changed meanwhile.

| Component | State | Operations | Hard behaviour | What makes it correct |
|---|---|---|---|---|
| Synchronization campaign (`sync/services/campaign_service.py`, `campaign_state.py`, `tasks/campaign.py`) | `SyncCampaign` row (status, parameters document, lease, counters), `SyncWorkItem` rows, AI timestamps | claim, resume, discover, fetch, AI phases, reconcile, review, fail, release; pause, resume, cancel, create; the self-scheduling task; `--watch` | duplicate delivery, expired leases, crash between any two writes, pause or cancel in the middle of a batch, whole-document writes of `parameters` | one run at a time; complete only when done; finished work kept; no AI call paid twice or left out; no id skipped at the end of a delta window; it comes to rest |
| Incremental sync (`sync/services/incremental_sync_service.py`, `tasks/maintenance.py`, two commands) | `SyncState` row (cursor, status, `updated_at`), `SyncError` ledger | open a window, fetch ids, frontier, give up, finish, fail; stale scan, manual unlock; retry, prune | no owner on the lock; dead workers; two runs on a window; failures half-way | the cursor covers only attempted ids; windows do not overlap or stay locked; it catches up |
| Daily airing sync (`sync/services/airing_daily_sync_service.py`) | one `SyncState` shard per day, indexes into the board's targets | batch, fail, finish | failing batch, killed worker, targets recomputed between batches | every target attempted, no shard locked for good |
| Import jobs (`sync/services/sync_job_service.py`, `tasks/*.py`) | `SyncJob` row: status, lease, attempt, counters | create, bind, claim, advance, succeed, fail, stale scan | redelivery with the same owner, scan against a late success | a final status is final and true; each job settles |
| Full sync (`sync/tasks/base.py`, `progress.py`, `scheduler.py`) | `SyncState` shards | fan-out, resume, flush | progress and errors flushed apart | no id of a shard skipped |
| Rate limiter (`sync/providers/rate_limiter.py`) | cache lock and next slot | acquire | lock expiry under a sleeping holder | spacing of requests |
| Provider records and importers (`sync/services/provider_record_service.py`, `*_service.py`) | `ProviderRecord` with its latest revision and content hash | record, provide a stub, upsert, import a batch | two imports of one record, a stub against a full import, batches that nest the same records | what is recorded last is what is shown |
| Knowledge ingestion, facts (`index/services/ingestion.py`, `fact_resolution.py`) | current observation, representation, assertions, resolution decisions | select, project, resolve the entity, rebuild the decision | two transactions on one record, failure half-way, a late older payload | one entity per record, the fact shown is the one observed, no record without entity |
| Entity resolution (`index/services/resolution.py`) | candidates, redirects, merge events, decisions | decide, merge, split, resolve | concurrent merges over alias chains, split of an old merge, an import that reclassifies an entity, a batch that acts on proposals it read earlier | acyclic redirects (section 5), a merge keeps the stricter entity canonical, accepted means merged |
| Airing board (`index/services/airing_board*.py`, season, calendar and MAL pipelines) | board, calendar events, season snapshots | refresh, archive, rebuild, season switch | a rebuild that writes the board it read, failing sources, tasks that nothing keeps apart | the calendar is never emptied, the board comes back in order |
| Agent runtime (`ai/runtime/*`, `sync/services/mal_link_recall_service.py`) | run, transcript, steps, budget | start, recover, prompt, ask, call tools, charge, finish | a driver that dies anywhere, budget kept in memory | recovered transcripts are acceptable requests, the last step is the result |
| Community (`community/services/*`) | posts, comments, reactions, follows, blocks, counters | create, reply, delete, hide, lock, react, follow, block | locks taken in two orders, checks without a lock | counters equal what they count, nothing is replied under what is hidden |
| Accounts (`users/services/auth/*`) | verification codes, tokens | send, verify, rotate | tasks and retries | not modelled |
| Provider clients, reports, selectors, prompts, user library | data | translate, read, edit one's own rows | none of their own | modelled by their outcome where another component calls them |

Interaction: operator requests and Celery beat dispatch tasks; a campaign task
schedules its own successor; campaign and incremental runs call importers, which
write provider records and project them into the graph; matchers decide candidates,
which merges entities; the calendar sync, the season pipeline and the rollover check
write the board that the daily airing sync follows; the maintenance tasks reopen
what dead workers left behind. `PROJECT.json` lists
every component with its status, and the hazards at their lines.

## 2. Modules

| Module | Role |
|---|---|
| `SyncCampaign` | one campaign: its row, work items, messages, runners, clock and operator |
| `SyncCampaignProofs` | theorems about it, its refinement of `LeasedWork` among them |
| `MCSyncCampaign` | instances for TLC |
| `IncrementalSync` | one incremental task: its row, ledger, runners, scans, operator and provider |
| `IncrementalSyncProofs` | theorems about it |
| `MCIncrementalSync` | instances for TLC |
| `AiringDaily` | one shard of the daily airing sync: its row, its runs and the board it follows |
| `MCAiringDaily` | instances for TLC |
| `AiringProofs` | theorems about `AiringDaily` and `AiringBoard` |
| `LeasedWork` | the abstract promise: a piece of work is held, settled once, truthfully, and for good |
| `ImportJob` | one `SyncJob` row with its request, message, runs and scan; refines `LeasedWork` |
| `JobProofs` | theorems about `ImportJob`, the safety of its refinement among them, and about `AgentRun` |
| `RateLimiter` | the limiter's lock and slot in the cache, with its clock |
| `FullSync` | the shards of one phase, composed with `RateLimiter` (EXTENDS: a shard asks the limiter before each id) |
| `KnowledgeImport` | imports of provider records and their projection into the graph |
| `EntityResolution` | candidates, merges, splits and redirects |
| `AiringBoard` | the board, the calendar and the three tasks that write them |
| `AgentRun` | one agent run, its drivers and the recall that creates it |
| `Community` | one post, its comments and reactions, follows and blocks |
| `FullSyncProofs`, `KnowledgeImportProofs`, `EntityResolutionProofs`, `CommunityProofs` | theorems about these four |
| `MCImportJob`, `MCFullSync`, `MCKnowledgeImport`, `MCEntityResolution`, `MCAiringBoard`, `MCAgentRun`, `MCCommunity` | instances for TLC |

### SyncCampaign

*State.* `status`, `params`, `lease`, `counts` are the campaign row; `lease` is
`NoOne` once it is released or has run out, which the code does not distinguish
(`campaign_service.py:186-195`). `items` is the table of work items, indexed by
`<<shard, external id>>` as its unique constraint is. `params` keeps what
decisions depend on of the JSON document: the cursor, the page count, truncation,
the watermarks and the status a pause interrupted. `active` stands for the
provider records that are ACTIVE, `tasks` for the messages at the broker. A runner
keeps the copy of the row that the code keeps (`seen` for `campaign.status`, `local`
for `campaign.parameters`), refreshed where the code calls `refresh_from_db`.
`aiCalls` and `used` are history.

*Atomicity.* An action is one SQL statement, one `transaction.atomic` block, or a
provider call; two reads or writes that are separate statements are separate
actions, so a pause, a crash or another runner falls between any two of them. For
example a page of discovery is `DiscoverPage` (the call and the bulk insert), then
`SavePage` (the parameters document), then `Truncate` or `SaveCrawl`; the import of
a work item is `ClaimItem`, one of `ImportOk`, `ImportGone`, `ImportRetry` and
`ImportError` (the write of the item), then `Count`. Adjacent updates of one row by
its only reader are merged.

*Runners.* `Workers` are Celery slots: their run is killed at 360 s, before the
600 s lease is over, so `LeaseExpires` waits for them. `Watchers` are
`sync_campaign --watch` processes, which nothing stops at the end of their lease.

*Environment.* `Crash` ends a runner anywhere; the message comes back, or not, as
`Redelivery` allows. `Abort` raises an exception where the code can meet one, and
the code's error path follows. `Pause`, `ResumePaused`, `Cancel` and
`CreateAgain` are the operator's requests.

*Facts worth knowing.* `docs/development.md:166-167` says that a watermark is committed only
after the campaign finishes; each window moves it in the middle of the listing
(`campaign_service.py:527-540`), which is why `WatermarkCovered` is stated for every state.

*Dates* are FuzzyDateInts, numbered in their order: even numbers are full dates, two apart
from one day to the next, odd ones lie between them and are dates without a month or a day,
or dates that no calendar has. `PageWatermark` steps back a day from a full date;
`_previous_day` (`anilist.py:498-510`) returns any other as it is, so a window that ends at a
partial date which ids on unread pages share skips those ids (`campaign_partial_date.cfg`,
section 5). `Promised` is what a listing does promise: every id in a full campaign, and in a
delta crawl every id but those that share a partial date. `WatermarkCovered` and
`CompletedMeansDone` are about promised ids. `Reconciles` is the `reconcile_missing` parameter with its
default, the provider's `discovery_complete`.

*Left out.* The preview mode of `_fetch`, `dry_run`, heartbeats, the quality
report's numbers, the generation of match candidates, what the AI answers.

### IncrementalSync

*State.* `cursor`, `state` and `stale` are the `SyncState` row (`current_id`,
`status`, and whether `updated_at` is older than the scan's cutoff); the row's
`end_id` is written and never read by a decision. `errors` is the `SyncError`
ledger. `next`, `end`, `last`, `skips`, `fails` are the local variables of
`sync_task`. `synced`, `skipped`, `pruned` and `used` are history; `published` is
how far the provider has got.

*Actions.* `StartWindow` is the transaction under the row lock. Each id is
`SyncOne` (fetch, ledger, streaks), then one of `ReachFrontier`, `GiveUp` or `GoOn`;
`FinishWindow` and `FailWindow` end the window. No write of a run compares anything
with the row: none of these actions has a guard on it. `ScanSelect` and
`ScanUnlock` are the two statements of the scan. `RetryError`, `DeleteError` and
`PruneError` are `retry_sync_errors`. `Crash`, `Abort` and a provider outage
inside `SyncOne` are the trouble a run meets.

*Left out.* The order in which `sync_all` takes its seven tasks: the first one
that raises keeps the later ones from running that day. The `SyncJob` calls: no
caller passes a `job_id`.

### AiringDaily

*State.* `index` and `state` are the shard's row (`current_id`, `status`, or no row:
`absent`). `board` is what `board_targets` would return: a set of members,
numbered in sort order, so that position `k` of the list is `Target(board, k)`; it
is `{}` once another season's board is active, whose shard is another row. `targets`,
`next`, `end` and `fails` are the local variables of `sync_day`; `targets` is the
list as it was when the run began. `attempted` and `used` are history.

*Actions.* A run is `ReadBoard`, `LookDone` (the unlocked look at the row),
`StartWindow` (the transaction under the row lock), one `RefreshTarget` per target
with its entry in the ledger, then `FinishWindow`, or `FailWindow` from the
`except` clause. `ReplaceBoard` is a calendar or season sync; `SwitchSeason` and
`CancelStale` are the two steps of a rollover. `Crash`, `Abort` and an outage inside
`RefreshTarget` are the trouble a run meets.

*Left out.* Other shards: a new day starts a new row, as `Init` does. The `SyncJob`
calls, which belong to the import jobs; an exception of theirs after
`FinishWindow`. A `--batch-size` that differs between two runs.

### ImportJob and LeasedWork

*State.* `status`, `owner`, `lease`, `processed`, `attempt` are the `SyncJob` row;
`request` is how far `ImportJobView.post`, or the command, has got; `messages` are the
copies of the job's message at the broker; `pc` is where each Celery slot is. `imported` and
`spared` are history: what a run has done of its work, and that the command of the daily
airing sync found nothing it had to refresh, because the board has no targets, the day is
complete or another run has the batch (`airing_daily_sync_service.py:186-230`). It calls
each of these a success, without an import; `Performed` is what a success stands for. A job
of the API succeeds only after an import.

*Actions.* `CreateJob` to `MarkFailed` are the row's half of each call of
`SyncJobService`, with its guard in the `UPDATE ... WHERE` or under the row lock;
`Create`, `Dispatch`, `Bind`, `FailDispatch` are the request, `StartTask` to `Fail` the
task, `ScanSelect` and `ScanMark` the two statements of `scan_stale_sync_jobs`. Every
delivery of the message carries the same Celery id, hence the same lease owner: the
lease does not keep a second delivery out, and the model lets it in.

*Refinement.* `Phase` maps the row to `LeasedWork`: absent and queued are `open`,
running is `held`, a final status is itself, and `Lost` is a QUEUED job without message
or request, or a RUNNING one without lease or process, which the scan cannot see.
`JobKeepsPromise` is `LeasedWork!Spec` under this mapping, liveness included. A campaign refines
the safety half too, with the listing of the catalogue as its work (`CampaignRefinesWork`): there
COMPLETED is a success, CANCELLED a failure, and FAILED and PAUSED are open, as they can be resumed.

### FullSync and RateLimiter

*State.* `status` and `current` are the `SyncState` rows of the shards, `ledger` the
`SyncError` rows, `queue` the shards the thread pool has not started, `buffer` what
`ProgressBuffer` has in memory. The limiter is `ttl` (the lock), `slot` (`next_at`),
`gate` and `left` (a client inside `acquire()`); time is relative and counted in ticks.
`handled`, `lost`, `since`, `burst`, `outlived` are history.

*Actions.* `StartPhase` is `run_all` choosing this phase and fanning out, `StartShard`
to `FailShard` are `base.py`'s loop with the two flushes of `progress.py` in their order,
`Ask` composes the loop with `TryLock` ... `DeleteLock`. The lock is deleted
unconditionally, so a holder that outlives its lock deletes the next one's. A client can
also take a slot and die before it writes `next_at` (`rate_limiter.py:50-60`): its lock then
expires, and if that comes before its slot is over, the next client sees the old time. `NoBurst`
says that these two, which `outlived` records, are the only ways two requests come closer
than the interval. The first version of the model knew only the first of them; its instance
had an interval of one tick, for which the second cannot happen, and the proof attempt
found it. With the intervals of the providers (0.3 to 2 s) under a lock of ten
seconds neither happens unless a client stalls for seconds, which `NeverBurst` (section 4) proves.

*Left out.* The status re-read every fifty steps, the three tries of one id, the early
flush of a long error buffer, the choice of the phase `run_all` starts with.

### KnowledgeImport

*State.* `revision` is the provider record's `latest_revision`, `current` its current
observation, `entity` the entities with an active representation of it, `decision` the
value its active resolution decision selects. `own` is what a transaction has written and
not committed: `Commit` publishes it as one step, `RollBack` drops it.

*Actions.* `Upsert`, `Record`, `Provide` are the record service (`Provide` for a record
that is only mentioned), `TakeProjection`, `TakeBatch`, `TakeNested` take the row that
serializes the writers of a record (the unique `CurrentObservation` row of a Bangumi
subject, the `ProviderRecord` row of a VNDB, MAL or AniList batch) and keep it until the
commit; `Resolve` and `Facts` are the entity and the facts. `Victim` is the transaction
that PostgreSQL rolls back when two batches nest the same records in another order.

*Left out.* Several sources of one entity, so the ranking between them; a merge of the
entity while its facts are rebuilt (the unique active decision makes the second fail);
a fact that a later payload drops is not rebuilt, as `docs/architecture.md:76-79` says.
`import_saved_*`, which projects a saved payload, is the case of an older version that is
written later.

### EntityResolution

*State.* `redirect`, `merged`, `rank`, `library`, `status`, `event` are committed rows; `rank` is
the classification that `_safety_rank` reads. `unlocked` is history: the sources whose redirect was
written to a target that its transaction had not locked. `run[w]` is a transaction with
what it has read and written. A row lock is not a
variable: `ForUpdate` and `KeyShare` say which rows a transaction holds at its place.

*Actions.* One statement each, at READ COMMITTED: a decision locks its candidate,
reads the pair, locks the source and the target, follows their redirects to roots it did
not lock, checks the library, writes the redirect, rebuilds facts and commits. `Label` is
what the callers write after it; `TooLate` the batch that meets a candidate decided
meanwhile; `Split` takes a merge back (no production code calls it); `Reimport` writes the audience of an
entity again, of a merged one too (`ingestion.py:565-577`). Where a decision is part of a caller's
longer transaction (`identity.py`, `mal_identity.py:33`), `Commit` is the caller's commit and
`Abort` its rollback, and the locks are kept until then; a transaction that decides several
candidates counts as several with one each, so what its later decisions wait for while it
holds the locks of the earlier ones, and their common rollback, are left out.

`Resolve` follows a chain to its root; it is defined by the least set closed under
`redirect`, not by recursion, so that the proofs can use it. `MAX_REDIRECT_DEPTH` (32) is
left out: with fewer entities no chain is as long. `AliasAssumption` says of the redirects
that exist at first that they have no circle.

*What holds of the redirects.* `Rebuild` refuses the circle its transaction can see; two
transactions do not see each other's redirect. Both must write to a root they have not
locked, because the row they locked was redirected after they had read the pair
(`resolution.py:105-106`); neither then waits for the other. That is what `CirclesTakeTwo`
says and `CirclesNeedTwo` proves: every circle has two sources in `unlocked`. It is all that holds:
`entity_circle.cfg` (section 5) shows that six entities and three transactions make one. Two hold
<4, 3> and <6, 5>, the third redirects 4 and 5 to 1 and 3 and 6 to 2, and the two then
write 1 -> 2 and 2 -> 1. The run has the same six entities and three transactions, so that
its circles are among the states `CirclesTakeTwo` is checked on.

*What holds of the classification.* `_canonical_pair` orders two roots that it has not
locked; `merge` compares them again (`resolution.py:111-114`). `CommittedInOrder` says that a merge
of the two rows it has locked commits with the stricter one as target, also when an import
rewrote one of them in between. It says nothing of a merge that followed a redirect to a
root it had not locked: that root may be reclassified before the commit. And it says nothing of later
states: an import may reclassify a merged entity, and nobody compares it with its canonical one
again (`entity_reclassified.cfg`, section 5).

A batch's `TooLate` writes ABSTAINED over the label an admin just set; no property forbids it.

### AiringBoard

*State.* `activeBoard` is the active board (season, calendar observation, entries), `events`
the calendar's weekday events, `snapshot` what MAL listed, `linked` the titles merged into
their subject. `todo[t]` holds the legs a task has still to run, `held[t]` what it read.

*Actions.* `StartCalendar`, `StartPipeline`, `StartRollover` are the three beat tasks;
`Prepare`, `Replace` the calendar's two halves; `FetchSeason`, `EnsureBoard` (the unlocked read
of the board), `CreateBoard` or `SwitchBoard` (the refresh after it), `Candidates`, `Write` the
rebuild; `Kill` ends a leg, which the pipeline survives and the
rollover does not; `NextQuarter` and `GraceEnds` are the date.

*Facts worth knowing.* A board that a calendar refresh creates has no entries until the
next rebuild. A MAL title whose entity was merged drops out of `_mal_work_index`
(`airing_board_projection.py:361-379`) and is shown through its subject only.
`BoardRecovers` therefore promises `[]<>Healthy`, and only when rebuilds stop crossing
the calendar's refresh (`Overtaken`).

### AgentRun

*State.* `runStatus` and `charged` are the run row, `transcript` its messages, `steps` its
steps; `stage`, `budget`, `calls` live in the driver's memory and die with it (`Die`).

*Actions.* `Start`, `RecoverSteps`, `RecoverTranscript`, `Seed`, `Prompt` are the way
into the loop; `BeginTurn`, `Ask`, `Charge`, `Call`, `Execute`, `RunTool`, `AnswerCall`
one turn; `Finish` and `FailRun` the ends. `Recall` is `mal_link_recall_service.py`
creating the run, `Resume` another call of `run()`.

*Facts worth knowing.* Nothing in `src/` calls `run()` again for a run whose driver died
(`mal_link_recall_service.py:103` returns it as it is), so `Resume` has no fairness. A
QUEUED step and the inference row of a dead driver stay as they are; the loop never sets
an idempotency key; a completion without usage data fails the run; a crash after
`SUCCEEDED` and before the candidate is proposed leaves it unproposed.

### Community

*State.* One post, `comment[c]` with the feed policy of its activity, `reactors`,
`follows`, `blocks`. `call[w]` is a request's transaction, `held[w]` the rows it has
locked: row 0 is the post, row `c` the comment `c`. `late` and `raced` are history.

*Actions.* A call reads, then locks row by row, then writes and commits. A reply locks its
parent and then the post (`TakeParent`, `Insert`), a deletion the post and then the
parent (`TakePost`, `Remove`): they can wait for each other, and `Victim` is the one
the database rolls back. `Follow` checks for blocks and inserts later; `Block` selects
the follows it deletes when it inserts. `HidePost` and the other moderator calls are one
step each. In the code `resolve_report` (`report_service.py:59-83`) keeps the report while it
waits for the post or comment, and `hide_post` the post while it waits for activities, and
the cascade of `delete_post` may wait for either: whoever the database rolls back then is
a `RollBack` of the deletion, or a moderation that did not happen, which the model has anyway.

*Left out.* Comments on reviews, collections and activities (they keep no counter),
visibility, mutes, bookmarks, reports, notifications.

## 3. Runs

| Run | Instance | States | What it shows |
|---|---|---|---|
| `campaign_rest` | two workers, two ids (retry, 404 and permanent errors), one crash, one operator request, messages redelivered | 835,124 | `CompletedMeansDone`, `CountersNeverOverstate`, `FinishedWorkKept`, `ComesToRest` |
| `campaign_overlap` | a worker and a `--watch` process whose lease can run out, three ids, truncated discovery, AI, one operator request | 986,587 | `WorkersExclusive`, `AiAtMostOnce`, `StoppedForGood`, `MissingOnlyIfUnlisted` |
| `campaign_delta` | incremental campaign, four ids of which two share a full date and two a partial one, windows of one page, AI with a sample, one crash, one exception, one operator request | 136,445 | `AiNotSkipped`, `WatermarkCovered` |
| `incremental_windows` | two workers, one scan, windows of three over four ids (one gap, one flaky), one crash, abort, outage or manual unlock | 408,328 | `CursorCovered`, `WindowExclusive`, `CursorForward`, `CatchesUp` |
| `airing_day` | two runs, four members in batches of three, one of them flaky, the board replaced once, one crash, abort, outage or rollover | 328,859 | `OneBatchAtATime`, `PrefixAttempted`, `DayFinishes` |
| `import_job` | one job of the API or the command, two slots, one duplicate, two crashes, exceptions or failed publications, messages that come back or not | 4,122 | `SucceededIsCounted`, `JobKeepsPromise` |
| `full_sync` | two threads, three shards with four ids, two of them bad, an interval of two ticks under a lock of three, two stalls of a client, one crash or exception | 909,444 | `NothingForgotten`, `NoBurst`, `PhaseEnds` |
| `knowledge_import` | two workers, three works and two characters nested in opposite orders, two records that change, three imports, one failure | 133,604 | `OneEntity`, `ShownAsObserved`, `NestedInGraph`, `SoloImportShows` |
| `entity_merge` | three workers, six entities, six candidates and one that the AI, an admin and a batch look at, one library entry, one import that reclassifies, one split; what else than merges can happen with two workers on the first four entities | 651,473 | `CirclesTakeTwo`, `CommittedInOrder`, `AcceptedIsMerged` |
| `board_seasons` | two tasks at once, two subjects, one MAL title that is one of them, two quarters, one failing leg | 544,005 | `CalendarNeverEmptied`, `BoardRecovers` |
| `agent_run` | two turns with up to two tool calls each, two runs, two deaths of a driver | 220,361 | `RequestsWellFormed`, `ResultIsLastStep`, `DriverReturns` |
| `community` | two requests at once, two users, three comments, four calls on the post and two on follows and blocks | 587,183 | `RepliesCounted`, `HiddenOutOfFeed`, `NoReplyUnderHidden`, `BlockStopsFollow`, `CallsReturn` |

`CompletedMeansDone`, `FinishedWorkKept`, `CountersNeverOverstate` and `AiNotSkipped`
hold without watchers and fail with them, for the reason `campaign_watch_overlap.cfg`
shows (section 5); that is why their runs have workers only. `WatermarkCovered` fails with
them when `max_pages` is set (`campaign_watermark_overlap.cfg`) and holds otherwise
(`UnlimitedWatermark`).

`AiAtMostOnce` counts the AI calls of an item and phase that came to their end, as one. An
exception inside them hands the item back (`campaign_service.py:668-674`), and what the item had
asked the model before it is asked again.

*Bounds.* Two runners are enough for every pair of steps to interleave, and the
code treats runners alike. Two or three ids are enough for a batch that is
interrupted between two items, a page boundary and a shared date; four ids in
windows of three give a full window, a partial one, a gap inside and a frontier;
four members in batches of three give a full batch, a partial one, and boards that grow and
shrink across the index. Six entities and three transactions are enough for a
circle; `Bound` gives them the merges alone, and two transactions over four entities, with two merges of
two clusters that meet, everything else; two characters nested in two orders give the deadlock of two batches;
three comments give a reply, its parent and a second reply that crosses it.
The limits of the code keep their order and are scaled down: 20 errors, 50 skips
and 20 ids between progress writes become 2, 2 and 2; `MaxAttempts`, `PageSize`,
`BatchSize` become 1 or 2; the limiter's lock of ten seconds (`lock_ttl`) and its
shorter interval become three ticks and two, near enough for a lock to be outlived. `MaxCrashes`, `MaxAborts`, `MaxControls`, `MaxTrouble`, `MaxFailures`, `MaxFailing`,
`MaxDeaths`, `MaxStalls`, `MaxChanges`, `MaxCopies` bound how often the environment
intervenes, at any point of every behaviour; `MaxRuns`, `MaxCalls`, `MaxSocial`,
`MaxImports`, `MaxSplits`, `MaxAdded` how much is asked of the system. `MaxShards` and
`MaxResumes` are above what the other bounds let a behaviour use. `CHECK_DEADLOCK` is off
where the system rightly stops: a finished campaign, a task that has caught up, a season
that is over, a settled job, no request left. The board never stops, and its run
checks for deadlock.

*Symmetry.* `campaign_delta` and `entity_merge` permute their workers; they check
invariants only.

*Fairness.* Weak fairness of what goes on by itself: a run that has started
continues (`Run`, `Step`, `Drive`, `Shard`), a worker takes a waiting message (`Start`),
beat dispatches the incremental task (`StartWindow`, every day), the airing task
(`ReadBoard`, every 15 minutes) and the scans (`Scan`, every 300 s), the database ends a
deadlock (`Victim`), and time passes (`LeaseExpires`, `ItemLeaseExpires`, `RetryDue`,
`GoesStale`, `Wait`). Strong fairness is used twice. The daily starts of the calendar
sync and of the season pipeline: `MaxRuns` is the model's bound, not the code's, so a task
that beat starts again and again must not be kept out for ever by others that hold both
places. The rollover check needs no fairness. `Ask` of the limiter:
a client that polls for the lock finds it free now and then, and the code retries until it
gets it; no queue orders the clients. Nothing is assumed of crashes, aborts, outages,
retries of the ledger, calls of `run()` for a dead agent run, requests of users or the
operator. `ComesToRest` needs messages that come back after a crash
(`Redelivery = {TRUE}`); `campaign_killed_task.cfg` shows what happens otherwise.
`CatchesUp` holds for gaps and failing stretches shorter than the limits: `MaxErrors` ids
in a row that fail for ever hold the cursor back by design. It is stated for behaviours
without a manual unlock: two runs that share a window can each free the row for the
next, for ever. `DayFinishes` says that a shard is past its board again and again, not
that it stays there: a run that looked at the row before another one finished it
refreshes the last target once more, and a board that grows reopens the day.
It excludes crashes, which `airing_lost_worker.cfg` is about, and the end of the
season. `PrefixAttempted` is about days on which the board stays and no batch fails:
`EveryMember` is what fails otherwise, and a failed batch skips its rest by design.
`JobKeepsPromise` lets a job be `lost` when its message or its process is, and lets
nothing else be.

## 4. Proofs

Assumed are only the named assumptions on constants, in the module they belong to:

- `ConstantsAssumption`, `RunnersAssumption` (`SyncCampaign`): limits are positive, dates are
  in the order of ids, nobody is called `NoOne`, a runner is a worker or a watcher.
- `WindowAssumption` (`IncrementalSync`), `AiringAssumption` (`AiringDaily`), `JobAssumption`
  (`ImportJob`): limits are positive numbers, runners are finitely many.
- `BoardAssumption` (`AiringBoard`): a title is no subject, a calendar that was fetched lists
  something, there is a quarter.
- `AgentAssumption` (`AgentRun`): the budget is positive.
- `LimiterAssumption`, `FullSyncAssumption`: the lock lives longer than the interval, as
  `lock_ttl` does; a shard is a pair of numbers, and shards may overlap.
- `ImportAssumption` (`KnowledgeImport`): what a work nests is no work, and a record whose
  revision is committed on its own nests nothing, as with Bangumi subjects.
- `ResolutionAssumption`, `AliasAssumption` (`EntityResolution`): a candidate has two entities;
  the first redirects have no circle.
- `CommunityAssumption`: the author is a user, users are finitely many.

A theorem with a further hypothesis names it: no watchers, no `max_pages`, `InTime`,
`LongLock`, a catalogue that promises something.

| Theorem | Statement | Argument |
|---|---|---|
| `SyncCampaignProofs!TypeCorrect` | `Safety => []TypeOK` | inductive with `Located`: the program counter says what a runner has in hand |
| `ExclusiveRuns` | `Safety => []WorkersExclusive` | only `Claim` enters a run and it takes the lease; the lease of a worker that is inside does not run out |
| `StoppedStaysStopped` | `Safety => StoppedForGood` | the transition table has no pair that leaves COMPLETED or CANCELLED, and `Advance` compares with the row; every other writer of `status` has its own guard |
| `FinishedWork` | without watchers, `Safety => FinishedWorkKept` | with `ExclusiveRuns`, the importing run is the only writer of items; its item is RUNNING, or was put back by a cancel (`InHand`) |
| `AiCallsOnce` | `Safety => []AiAtMostOnce` | `Paid`: an item's timestamp is set for every finished call (`Stamped`) and the one in flight (`InFlight`), which no other run makes (`Apart`); the claim of an item is a compare-and-set on the timestamp |
| `CompletedCampaigns` | without watchers, `Safety => []CompletedMeansDone` | `OrderInv`: how far the row stands (`Standing`) says what is done (`Done`), and so do the phase a run works on (`AtWork`) and the one it is about to enter (`Advancing`); `CoverInv`: the row's parameters and every copy of them in a runner's memory claim no promised id that was not listed |
| `MissingAreUnlisted` | `Safety => MissingOnlyIfUnlisted` | `StartedInv`: past DISCOVERING, discovery has started in every copy of the document; with `CoverInv` for a full campaign, whoever may mark records knows the whole catalogue; no lease is needed, so it holds with watchers |
| `WatermarkIsCovered` | without watchers, `Safety => []WatermarkCovered` | `CoverInv` again, whose clause on the cursor counts pages from the watermark; a promotion moves the watermark only when the cursor is at the end, which `OrderInv` knows of the phase that promotes |
| `UnlimitedWatermark` | without `max_pages`, `Safety => []WatermarkCovered` | `UnlimitedInv`: no document is truncated, and nobody works past discovery, nor remembers a status past it, before every promised id was listed (`PastInv`); so a promotion at the review, from whatever cursor, promises only listed ids. No lease is needed, so it holds with watchers |
| `ListedBeforeFetched` | without `max_pages`, past DISCOVERING every promised id has its work item (every id, in a full campaign) | `PastInv` again |
| `CampaignRefinesWork` | without `max_pages`, for a catalogue that promises something, `Safety => LeasedWork!Promise` under `CampaignPhase` | only `Advance` and `Cancel` settle a campaign (`SettlingSteps`); whoever is about to advance has seen the listing to its end (`PastInv`), and listed ids stay listed |
| `AiCallsComplete` | without watchers, `Safety => []AiNotSkipped` | `Called`: without a crash, an item's timestamp means a call made or on its way; `Done` says that no eligible item was left when the phase ended, `Paid` that a call comes once |
| `CountersAreBacked` | without watchers, `Safety => []CountersNeverOverstate` | `Counting`: a run that has yet to count its item leaves room for it below the number of items, by cardinality; no item leaves SUCCEEDED or SKIPPED (`FinishedWork`) |
| `IncrementalSyncProofs!TypeCorrect` | `Safety => []TypeOK` | inductive |
| `Covered` | `Safety => []CursorCovered` | `CursorCovered` says nothing of the value a run will write; `Seen` adds that what a runner holds in memory is attempted, `Settled` that an id leaves the ledger with an outcome, and attempts are never forgotten |
| `Exclusive` | under `InTime`, `Safety => []WindowExclusive` | `Alone`: the run inside owns a fresh RUNNING row, and a row the scan has selected is stale |
| `Forward` | under `InTime`, `Safety => CursorForward` | `Alone` again: the cursor stays behind `last`, which stays inside the window |
| `AiringProofs!TypeCorrect`, `InsideList` | `Safety => []TypeOK`, `Safety => []BatchInList` | one invariant: a batch lies inside the list its run has read, so the position in hand is a position of the list, and counting members gives every position a target (`TargetExists`, from the library's facts on injections) |
| `OneBatch` | `Safety => []OneBatchAtATime` | `Alone`: until a rollover the run inside owns a RUNNING row; `CancelStale`, the writer that does not look, has no board to act for |
| `Prefix` | `Safety => []PrefixAttempted` | `Gapless`: on a calm day every run holds the board's list, and behind the position it has in hand, as behind the index, everything was attempted |
| `BoardInvariant`, `BoardTypeCorrect` | `BoardSpec => []BoardInv` | `BoardInv`: the plan of a task is whole legs, of which only the one in hand has begun (`PlanOK`), so what a step finds at the head of a plan is what the steps before it prepared |
| `CalendarStaysFilled` | `BoardSpec => CalendarNeverEmptied` | `Ready`: a task about to replace the events has prepared rows, and they are of the observation it will record |
| `CalendarObserved` | `BoardSpec => []CalendarIsObserved`: the calendar's events are subjects of the observation recorded with them | `Ready` again; the events and their observation are replaced together |
| `SeasonsHaveBegun` | `BoardSpec => []NothingAhead`: neither the board nor what a task has read of it is of a season that has not begun | quarters only pass, and a season is read off the date or off the board |
| `JobProofs!CountedOnce` | `Safety => []SucceededIsCounted` | `Counted`: what is counted, and the claimed runs that have not counted yet (`Busy`, by cardinality), together never exceed the attempts; `Done`: the place of a run says that its import is committed, and that its count is in the row unless the row is final |
| `JobRefinesWork` | `Safety => LeasedWork!Promise` under `Phase` | every step is one of five moves of the status (`StatusMove`), or commits the import and moves nothing (`ImportMove`); a lost job has no step left (`LostStays`), because a job that nobody has claimed has no lease that could expire (`Unclaimed`) |
| `RequestsAreWellFormed` | `RunSpec => []RequestsWellFormed` | `TranscriptInv`: the transcript at each place of the driver: what recovery finds is empty, whole or cut off after an assistant's message; in a turn, the calls that wait are those not answered yet (`CallsInv`) |
| `ResultIsInTheLastStep` | `RunSpec => []ResultIsLastStep` | `StepsInv`: which steps are running at each place; recovery and `Finish` leave none |
| `BudgetHolds` | `RunSpec => []TurnsBounded`: turns asked for are at most the budget and the deaths, turns charged at most the budget | `BudgetInv`: the budget in memory is the row's, and only a death between `Ask` and `Charge` leaves a turn uncharged |
| `DriverWorksItselfOut` | every step of a driver lowers `Left`, a natural number | the core of `DriverReturns`: `Left` counts the turns not yet charged and what the place in a turn still has to do |
| `FullSyncProofs!Spaced` | `Safety => []NoBurst` | `Timely`: while no lock was outlived, at most one client is inside the lock, and whoever claimed the last slot has written it or holds what is left of it in memory; so a slot is taken only when the last one is over |
| `NeverBurst` | under `LongLock`, `Safety => [](~burst)` | `PatientAt`: what a client still has to sleep, and the stalls still allowed, fit in what is left of its lock |
| `Remembered` | `Safety => []NothingForgotten` | `Behind`, `Walked`: of the ids before a shard's written progress, and of those a thread has walked since, each is handled, in the ledger, in a thread's buffer or lost in a crash; the two flushes pass an id on in this order |
| `KnowledgeImportProofs!OneEach` | `Spec => []OneEntity` | the row that serializes the writers of a record is held from `Take...` to the commit, so what a transaction read of the record is still so when it creates the entity |
| `Observed`, `NestedTogether` | `Spec => []ShownAsObserved`, `Spec => []NestedInGraph` | the same invariant, `ImportInv`: what a transaction has written and not committed fits what it read, and together with the committed rows it is what the property asks for |
| `SoloShows` | `Spec => SoloImportShows` | a transaction that nobody overtook has fetched the latest version, and its commit publishes it |
| `EntityResolutionProofs!MergedInOrder` | `Spec => []CommittedInOrder` | `RankRead`: what a transaction has read of the classification of a row that it has locked is still so, because an import waits for that lock; `CheckPair` compares what was read |
| `AcceptedMerged` | `Spec => []AcceptedIsMerged` | a BIND's redirect, once committed, keeps its two entities in one cluster whatever is merged later; who is about to label holds the candidate's row |
| `CirclesNeedTwo` | `Spec => []CirclesTakeTwo` | `CircleInv`: beside `Circled`, the property for what is committed, `NoWayBack`: where the redirect that a transaction is about to commit would close a circle, another source in `unlocked` lies on the way back; and a target that is locked is still a root (`TargetIsRoot`), from which there is no way back |
| `CommunityProofs!Counted` | `Safety => []RepliesCounted` | `LocksApart` and what a call knows of the rows it has locked; counting by cardinality, one reply in or out at a time |
| `OutOfFeed`, `RepliesUnderShown` | `Safety => []HiddenOutOfFeed`, `Safety => NoReplyUnderHidden` | a parent stays as it is while its row is held; what a writer read of the post without a lock is covered by `late` |
| `BlockedUnfollowed` | `Safety => []BlockStopsFollow` | `CutOrRaced`: every follow of a pair that is being blocked is among those the block deletes, or its call overlapped |

`LongLock` is `LockTtl >= 2 * Interval + MaxStalls`: ten seconds against twice at most two
leave six for a client between two calls of the cache.

The invariants of the campaign were checked by TLC before they were proved: `OrderInv`,
`CoverInv`, `StartedInv`, `Called` and `Counting` with the constants of the three campaign
runs, `UnlimitedInv` on the first 15 million states of an instance of `campaign_delta` with a
worker and a watcher. `WorkersInv` is what they rest on together. Five theorems are about a campaign without
watchers: `sync_campaign --watch` is a command a person starts, so the premise is about how
the code is run. `CompletedCampaigns`, `FinishedWork`, `CountersAreBacked` and
`AiCallsComplete` need it because a watcher that outlived its lease writes its item back
(section 5). `WatermarkIsCovered` needs it only where `max_pages` is set: the attempt to
prove it without the premise led to `campaign_watermark_overlap.cfg`, in which such a watcher
writes its old document over a truncated one, and the review promotes a watermark whose
cursor still counts from the old one. Without `max_pages` that document belongs to a
listing that came to its end, and `UnlimitedWatermark` proves the property with watchers.

`InTime` says that every run is a Celery run (3900 s at most, under the cutoff of
5400 s) and that one process scans. Both are needed: a shell has no time limit, and
a second scan can reopen a row that was stale when it looked.

`BoardInv` and `AgentInv` (the conjunction of the invariants of `AgentRun` in the table) were
checked on the instances of `board_seasons` and `agent_run` first. `NothingAhead`,
`CalendarIsObserved` and `TurnsBounded` are not in a run: they were found as parts of these
invariants. `TurnsBounded` also shows that the guard of
`Ask` on `turns`, a bound of the model, never holds a request back.

Only model-checked: the liveness properties, the liveness half of `JobKeepsPromise` among
them, since fairness and ENABLED are out of the prover's reach; of `DriverReturns` the measure
is proved (`DriverWorksItselfOut`). `SoloImportShows`, an action property, and every invariant
that a run checks are theorems, under the premises named above.

## 5. Where the code and its words part

Each line is a configuration beside the runs, kept as a counterexample: TLC finds its one
property violated, and the modelled code does what the trace does. The property states the
sentence that is quoted.

| Configuration | Property | The sentence | What the code does |
|---|---|---|---|
| `campaign_pause.cfg` | `PausedUntilResumed` | PAUSED is among `TERMINAL_STATUSES` (`campaign_service.py:117-123`), and `tasks/campaign.py:18-23` ends the chain of steps at it | the end of a batch moves a campaign that was paused meanwhile on to MAPPING (`campaign_service.py:615`): the runner has just re-read PAUSED, and PAUSED -> MAPPING is a legal transition (`campaign_state.py:36-45`) |
| `campaign_watch_overlap.cfg` | `NothingLeftWhenCompleted` | "a campaign is not considered complete while discovery pages or queued work items remain" (`docs/architecture.md:103-105`) | a `--watch` run whose lease ran out writes the answer for its item by primary key (`campaign_service.py:600`, `958-980`) and queues it again after another run has completed the campaign |
| `campaign_watermark_overlap.cfg` | `WatermarkCovered` | "a truncated discovery never advances the watermark" (`docs/development.md:166-168`) | a `--watch` run that listed a page writes its document, saved whole (`campaign_service.py:458-466`), over the truncated one; the review promotes its pending watermark and keeps its cursor (`campaign_service.py:916-929`), and a campaign that fails at that point resumes its listing at that page under the new watermark |
| `campaign_partial_date.cfg` | `BoundaryRelisted` | "Step back a day so titles sharing the boundary date are re-listed in the next window instead of being skipped" (`providers/anilist.py:480-482`) | `_previous_day` (`anilist.py:498-510`) returns a date without a month or a day, or one that no calendar has, as it is: a window promoted at such a date goes on behind it, and titles of that date on unread pages are not listed |
| `campaign_window_items.cfg` | `OneItemPerId` | "duplicate work items are ignored on insert" (`providers/anilist.py:480-482`) | the unique constraint includes the shard (`sync/models.py:241-247`), which each page increments (`campaign_service.py:437`): an id on the boundary of two windows becomes two items |
| `campaign_killed_task.cfg` | `ComesToRest` | "duplicate Celery delivery and worker interruption recoverable" (`docs/architecture.md:103-104`), "auto-schedule until they reach a terminal state" (`docs/development.md:148-150`) | the next step exists only as the message a step sends last (`tasks/campaign.py:34`): a step killed at its hard limit is acknowledged, and no scan looks for active campaigns |
| `incremental_two_scans.cfg` | `WindowExclusive` | "a RUNNING row older than the threshold is stale and safe to unlock" (`tasks/maintenance.py:49-56`) | a scan reopens by name what it selected before (`maintenance.py:60-69`): when another scan has reopened the row meanwhile and a run has claimed it, the first one reopens it under that run |
| `incremental_frontier.cfg` | `NewIdsFound` | "new IDs are found by periodic frontier scans" (`providers/bangumi.py:271`) | a window that ends in missing ids is finished at its last id (`incremental_sync_service.py:260`): what is published later behind the cursor is never asked for |
| `airing_lost_worker.cfg` | `WorkerRestartsResume` | "so worker restarts resume instead of restarting the day's queue" (`docs/development.md:72-75`) | a worker that dies inside a batch leaves the shard RUNNING, every later call returns early (`airing_daily_sync_service.py:374`), and the scan of stale states only looks at the incremental tasks (`tasks/maintenance.py:57-67`) |
| `airing_shifted_board.cfg` | `EveryMember` | "refreshes subject metadata and episode air dates for every board member" (`airing_daily_sync_service.py:4-5`) | the shard keeps an index into a list that is recomputed at each batch (`airing_daily_sync_service.py:166`): a member that sorts before the index when it joins is not refreshed that day |
| `board_grace.cfg` | `GraceRespected` | "keeps the previous board visible until the configured grace period passes" (`season_rollover_service.py:3-6`), "without switching the active board" (`:65`) | the prefetch runs the calendar sync, which refreshes the board under the season of today (`calendar_service.py:355`) |
| `entity_circle.cfg` | `RedirectForest` | "`Entity` is the stable UUID, visibility, lifecycle, and redirect anchor" (`docs/architecture.md:55`); a merge is guarded by "Cannot merge an entity into itself." (`resolution.py:107-109`) and a reader by "Entity redirect cycle detected." (`:60`) | a merge locks the rows it was asked for and then follows redirects to roots it has not locked (`resolution.py:105-106`): two merges commit 1 -> 2 and 2 -> 1, and every later read of the cluster raises |
| `entity_reclassified.cfg` | `StrictestIsCanonical` | "Canonical entity must preserve the strictest safety classification." (`resolution.py:111-114`) | every import of a record writes the audience of its entity again, merged or not (`ingestion.py:565-577`): a merged entity can become stricter than its canonical one, and nothing compares them after the merge |
| `agent_torn.cfg` | `AlwaysWellFormed` | "Make an interrupted agent run safely resumable" (`agent_loop.py:165`) | a driver that dies between the two prompts (`:86-96`), or between the answers of two tool calls of one turn, leaves a transcript that recovery accepts: it looks only at the message after the assistant's (`:180-186`) |
| `community_late.cfg` | `AllHiddenOutOfFeed` | hiding a post hides its activities (`post_service.py:108-115`) | the target of a comment is read without a lock (`comment_service.py:85`): a comment inserted after its post was hidden writes an activity that stays in the feed |
| `community_raced.cfg` | `NoFollowAcrossBlock` | a block deletes the follows both ways (`relationship_service.py:34-35`), and a follow across a block is refused (`follow_service.py:26`) | neither locks what the other reads: a follow that checked before the block committed, and commits after the block deleted, stands beside it |

## 6. Not modelled

- *Accounts* (`users/services/auth`): verification codes, tokens and social login are a
  security protocol; its properties are outside this project.
- *User library, profiles*: a user edits rows of their own, in one transaction that locks
  the row it changes. What a merge of entities asks of the library is in
  `EntityResolution`.
- *Popularity*: one formula over the rows of a work, recomputed as a whole each night.
- *Index API, selectors, serializers, admin*: reads; no step of another part depends on
  what they return.
- *Agent skills, prompts, tools*: what a model or a page answers is the nondeterministic
  answer of a turn, a tool call or an AI phase.
- *Provider clients and the translation of documents*: a payload is a version, a fact a
  value; the fields are data.
- *Reports and one-off backfills*: read-only, or idempotent and run by hand.
- *Migrations, settings, URLs, wiring*: no behaviour at run time beyond the limits quoted
  above.
- *Full sync, the phase to start with*: `run_all` takes a phase for done when its existing
  rows are FINISHED, though shards that were never started have none
  (`sync/tasks/scheduler.py:38-47`); `FullSync` has one phase, from its first start.

These parts, with the translation of documents, are most of the implementation's lines.
The lines a definition stands for are in `PROJECT.json`; what a modelled component leaves
out is listed under its module in section 2.

## 7. Plan

Done: all modules of section 2, and the theorems of section 4. Next, in this order:

1. An incremental window as a further refinement of `LeasedWork`.
2. Merges of an entity while its facts are rebuilt: `EntityResolution` composed with
   `KnowledgeImport` on one entity.
3. The measures of the other liveness properties, as `Left` is of `DriverReturns`.
