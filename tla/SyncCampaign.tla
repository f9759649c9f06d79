---------------------------- MODULE SyncCampaign ----------------------------
(***************************************************************************)
(* One provider-wide synchronization campaign: SyncCampaignService, its    *)
(* state machine, the Celery task that steps it and the admin controls     *)
(* (apps/sync/services/campaign_service.py, campaign_state.py,             *)
(* tasks/campaign.py, api/views/campaigns.py).                             *)
(*                                                                         *)
(* The database row of the campaign and its work items are shared; every   *)
(* runner (a Celery task or a `sync_campaign --watch' process) keeps the   *)
(* in-memory copy of the row that the code keeps, and every action is one  *)
(* statement or one transaction on the database, so a pause, a crash or    *)
(* another runner can fall between any two of them.                        *)
(***************************************************************************)
EXTENDS Integers, FiniteSets

CONSTANTS
  Workers,       \* Celery worker slots; a run there is killed before its lease ends
  Watchers,      \* `--watch' processes; no time limit, a run can outlive its lease
  NumIds,        \* the provider's catalogue lists the external ids 1 .. NumIds
  DateOf,        \* air date of each id, nondecreasing: the order delta pages use
  Known,         \* ids whose ProviderRecord is ACTIVE before the campaign starts
  Outcomes,      \* Outcomes[i]: what importing i may answer
  Incremental,   \* campaign_type = "incremental" on AniList's delta feed, else "full"
  Reconciles,    \* parameters.reconcile_missing, by default the provider's discovery_complete
  PageSize, PagesPerStep, WindowPages, BatchSize, MaxAttempts,
  MaxPages,      \* parameters.max_pages, 0 when it is not set
  AiOn,          \* ai_mode # "off"
  AiSample,      \* AiSample[f]: sample size of AI phase f, 0 for every item
  Redelivery,    \* may a dead worker's message come back, be lost, or both
  MaxShards, MaxCrashes, MaxAborts, MaxControls, MaxResumes  \* bounds

Runners == Workers \union Watchers
Ids     == 1 .. NumIds
Keys    == (1 .. MaxShards) \X Ids   \* <<shard, external id>> of a work item
NoOne   == "nobody"
NoItem  == <<0, 0>>

ASSUME ConstantsAssumption ==
  /\ NumIds \in Nat /\ MaxShards \in Nat /\ Known \subseteq Nat
  /\ DateOf \in [Ids -> Nat \ {0}]
  /\ \A i, j \in Ids : i < j => DateOf[i] <= DateOf[j]
  /\ Outcomes \in [Ids -> SUBSET {"ok", "gone", "retry", "error"}]
  /\ {Incremental, Reconciles, AiOn} \subseteq BOOLEAN /\ Redelivery \subseteq BOOLEAN
  /\ {PageSize, PagesPerStep, WindowPages, BatchSize, MaxAttempts} \subseteq Nat \ {0}
  /\ MaxPages \in Nat
  /\ AiSample \in [{"normalizing", "enriching"} -> Nat]
  /\ {MaxCrashes, MaxAborts, MaxControls, MaxResumes} \subseteq Nat
ASSUME RunnersAssumption ==
  /\ NoOne \notin Runners
  /\ Workers \intersect Watchers = {}

(***************************************************************************)
(* Campaign statuses and the transition table of campaign_state.py.        *)
(***************************************************************************)
Active == {"queued", "discovering", "fetching", "mapping", "normalizing",
           "reconciling", "enriching", "reviewing"}
Terminal == {"completed", "cancelled", "paused"}
Statuses == Active \union Terminal \union {"failed"}

NextPhase == [discovering |-> "fetching", fetching |-> "mapping",
              mapping |-> "normalizing", normalizing |-> "reconciling",
              reconciling |-> "enriching", enriching |-> "reviewing",
              reviewing |-> "completed"]
Phases == DOMAIN NextPhase

Transitions ==
  {<<"queued", "discovering">>}
    \union {<<p, NextPhase[p]>> : p \in Phases}
    \union Phases \X {"failed", "cancelled", "paused"}
    \union {"paused"} \X Phases

\* Position of a status in the chain of `if's of run(); 0 when none matches.
Rank == [s \in Statuses |->
  CASE s = "discovering" -> 1 [] s = "fetching"    -> 2 [] s = "mapping"   -> 3
    [] s = "normalizing" -> 4 [] s = "reconciling" -> 5 [] s = "enriching" -> 6
    [] s = "reviewing"   -> 7 [] OTHER -> 0]

ItemStatuses == {"absent", "queued", "running", "succeeded", "failed", "skipped"}
AiPhases == {"normalizing", "enriching"}

Items ==
  [status  : ItemStatuses,
   attempt : Nat,
   leased  : BOOLEAN,               \* RUNNING under an item lease that has not expired
   due     : BOOLEAN,               \* next_retry_at is null or has passed
   ai      : [AiPhases -> BOOLEAN]] \* ai_processed_at, ai_enriched_at are set
NewItem == [status |-> "queued", attempt |-> 0, leased |-> FALSE, due |-> TRUE,
            ai |-> [f \in AiPhases |-> FALSE]]
AbsentItem == [NewItem EXCEPT !.status = "absent"]

\* The JSON document SyncCampaign.parameters, read and written as a whole.
Params ==
  [started    : BOOLEAN,            \* "discovery" in parameters
   next       : Nat,                \* discovery.next_cursor, 0 for null
   pages      : Nat,
   truncated  : BOOLEAN,
   watermark  : Nat,
   pending    : Nat,                \* pending_watermark, 0 when absent
   pausedFrom : Active \union {"none"}]
FreshParams == [started |-> FALSE, next |-> 0, pages |-> 0, truncated |-> FALSE,
                watermark |-> 0, pending |-> 0, pausedFrom |-> "none"]

(***************************************************************************)
(* State.                                                                  *)
(***************************************************************************)
VARIABLES
  status, params, lease,   \* the campaign row; lease is NoOne once free or expired
  counts,                  \* its processed / synced / skipped / failed counters
  items,                   \* its work items
  active,                  \* external ids whose ProviderRecord is ACTIVE
  tasks,                   \* run_sync_campaign_task messages waiting at the broker
  aiCalls,                 \* history: finished AI calls per item and phase
  used,                    \* history: how much of each bound has been used
  pc,                      \* where each runner is in run()
  seen, local,             \* its in-memory campaign.status and campaign.parameters
  goal,                    \* the status it is about to move the campaign to
  step,                    \* pages discovered in this step
  batch, item, attempt     \* work items left in its batch; the one in hand

row  == <<status, params, lease, counts>>
mine == <<seen, local, goal, step, batch, item, attempt>>
vars == <<row, items, active, tasks, aiCalls, used, pc, mine>>

Labels == {"idle", "claim", "load", "resume", "begin", "phase", "page", "savePage",
           "truncate", "saveCrawl", "fetch", "import", "synced", "skipped", "failed",
           "ai", "aiWork", "advance", "refresh", "fail", "failing", "release", "finish"}
\* Inside the body of run() that the campaign lease protects.
InRun(r) == pc[r] \notin {"idle", "claim", "finish"}

WithStatus(s) == {k \in Keys : items[k].status = s}
Min2(a, b) == IF a < b THEN a ELSE b
Max2(a, b) == IF a > b THEN a ELSE b

Init ==
  /\ status = "queued" /\ params = FreshParams /\ lease = NoOne
  /\ counts = [processed |-> 0, synced |-> 0, skipped |-> 0, failed |-> 0]
  /\ items = [k \in Keys |-> AbsentItem]
  /\ active = Known
  /\ tasks = IF Workers = {} THEN 0 ELSE 1   \* POST /operations/sync/ dispatched one
  /\ aiCalls = [k \in Keys |-> [f \in AiPhases |-> 0]]
  /\ used = [crash |-> 0, abort |-> 0, control |-> 0, resume |-> 0]
  /\ pc = [r \in Runners |-> "idle"]
  /\ seen = [r \in Runners |-> "queued"]
  /\ local = [r \in Runners |-> FreshParams]
  /\ goal = [r \in Runners |-> "queued"]
  /\ step = [r \in Runners |-> 0]
  /\ batch = [r \in Runners |-> {}]
  /\ item = [r \in Runners |-> NoItem]
  /\ attempt = [r \in Runners |-> 0]

Goto(r, l) == pc' = [pc EXCEPT ![r] = l]
\* What a finished or dead run held in memory is gone.
Forget(r) ==
  /\ seen' = [seen EXCEPT ![r] = "queued"] /\ local' = [local EXCEPT ![r] = FreshParams]
  /\ goal' = [goal EXCEPT ![r] = "queued"] /\ step' = [step EXCEPT ![r] = 0]
  /\ batch' = [batch EXCEPT ![r] = {}] /\ item' = [item EXCEPT ![r] = NoItem]
  /\ attempt' = [attempt EXCEPT ![r] = 0]
UseUp(b) == used' = [used EXCEPT ![b] = @ + 1]

-----------------------------------------------------------------------------
(***************************************************************************)
(* run(): the claim of the campaign lease and what precedes the phases.    *)
(***************************************************************************)
StartTask(r) ==
  /\ pc[r] = "idle" /\ r \in Workers /\ tasks > 0
  /\ tasks' = tasks - 1 /\ Goto(r, "claim")
  /\ UNCHANGED <<row, items, active, aiCalls, used, mine>>

\* Faulty: resume() puts every work item back, not only the FAILED ones.
RequeuedEverything ==
  [k \in Keys |-> IF items[k].status # "absent"
                  THEN [items[k] EXCEPT !.status = "queued", !.leased = FALSE, !.due = TRUE]
                  ELSE items[k]]
RequeuedFailures ==
  [k \in Keys |-> IF items[k].status = "failed"
                  THEN [items[k] EXCEPT !.status = "queued", !.leased = FALSE, !.due = TRUE]
                  ELSE items[k]]
\* resume(), under the row lock: nothing unless the campaign is FAILED.
ResumeFailed ==
  IF status = "failed"
  THEN /\ used.resume < MaxResumes /\ UseUp("resume")
       /\ items' = RequeuedFailures
       /\ status' = IF ~params.started \/ params.next # 0 THEN "discovering" ELSE "fetching"
  ELSE UNCHANGED <<status, items, used>>

\* One turn of watch(): it resumes a FAILED campaign without holding the lease.
StartWatch(r) ==
  /\ pc[r] = "idle" /\ r \in Watchers /\ status \notin Terminal
  /\ ResumeFailed /\ Goto(r, "claim")
  /\ UNCHANGED <<params, lease, counts, active, tasks, aiCalls, mine>>

\* Faulty: the claim does not ask whether another run holds the lease.
ClaimAnyLease(r) ==
  /\ pc[r] = "claim"
  /\ \/ /\ status \notin Terminal
        /\ lease' = r /\ Goto(r, "load")
     \/ /\ status \in Terminal
        /\ Goto(r, "finish") /\ UNCHANGED lease
  /\ UNCHANGED <<status, params, counts, items, active, tasks, aiCalls, used, mine>>

Claim(r) ==
  /\ pc[r] = "claim"
  /\ \/ /\ lease = NoOne /\ status \notin Terminal
        /\ lease' = r /\ Goto(r, "load")
     \/ /\ lease # NoOne \/ status \in Terminal
        /\ Goto(r, "finish") /\ UNCHANGED lease
  /\ UNCHANGED <<status, params, counts, items, active, tasks, aiCalls, used, mine>>

\* campaign.refresh_from_db()
Reread(r) ==
  /\ seen' = [seen EXCEPT ![r] = status]
  /\ local' = [local EXCEPT ![r] = params]

Load(r) ==
  /\ pc[r] = "load"
  /\ Reread(r) /\ Goto(r, IF status = "failed" THEN "resume" ELSE "begin")
  /\ UNCHANGED <<row, items, active, tasks, aiCalls, used, goal, step, batch, item, attempt>>

Resume(r) ==
  /\ pc[r] = "resume"
  /\ ResumeFailed /\ Goto(r, "begin")
  /\ seen' = [seen EXCEPT ![r] = status']
  /\ local' = [local EXCEPT ![r] = params]
  /\ UNCHANGED <<params, lease, counts, active, tasks, aiCalls, goal, step, batch, item, attempt>>

\* QUEUED -> DISCOVERING by compare-and-set; losing the race ends the run.
Begin(r) ==
  /\ pc[r] = "begin"
  /\ \/ /\ seen[r] # "queued"
        /\ Goto(r, "phase") /\ UNCHANGED <<status, seen>>
     \/ /\ seen[r] = "queued" /\ status = "queued"
        /\ status' = "discovering" /\ seen' = [seen EXCEPT ![r] = "discovering"]
        /\ Goto(r, "phase")
     \/ /\ seen[r] = "queued" /\ status # "queued"
        /\ Goto(r, "release") /\ UNCHANGED <<status, seen>>
  /\ UNCHANGED <<params, lease, counts, items, active, tasks, aiCalls, used,
                 local, goal, step, batch, item, attempt>>

\* A refreshed status no phase of the chain matches: run() falls through.
NoPhase(r) ==
  /\ pc[r] = "phase" /\ seen[r] \notin Phases
  /\ Goto(r, "release")
  /\ UNCHANGED <<row, items, active, tasks, aiCalls, used, mine>>

\* The current phase is done: _transition_required to the next one follows.
AdvanceTo(r, s) == goal' = [goal EXCEPT ![r] = s] /\ Goto(r, "advance")

\* Faulty: the transition is saved without comparing the status in the row.
AdvanceBlindly(r) ==
  /\ pc[r] = "advance"
  /\ status' = goal[r] /\ seen' = [seen EXCEPT ![r] = goal[r]] /\ Goto(r, "refresh")
  /\ UNCHANGED <<params, lease, counts, items, active, tasks, aiCalls, used,
                 local, goal, step, batch, item, attempt>>

\* SyncCampaignStateMachine.advance, from the status the runner has in memory.
Advance(r) ==
  /\ pc[r] = "advance"
  /\ IF <<seen[r], goal[r]>> \in Transitions /\ status = seen[r]
     THEN /\ status' = goal[r] /\ seen' = [seen EXCEPT ![r] = goal[r]]
          /\ Goto(r, "refresh")
     ELSE Goto(r, "fail") /\ UNCHANGED <<status, seen>>
  /\ UNCHANGED <<params, lease, counts, items, active, tasks, aiCalls, used,
                 local, goal, step, batch, item, attempt>>

\* The refresh after a transition; the chain of phases only moves forward.
Refresh(r) ==
  /\ pc[r] = "refresh"
  /\ Reread(r)
  /\ Goto(r, IF Rank[status] > 0 /\ Rank[status] >= Rank[goal[r]] THEN "phase" ELSE "release")
  /\ UNCHANGED <<row, items, active, tasks, aiCalls, used, goal, step, batch, item, attempt>>

-----------------------------------------------------------------------------
(***************************************************************************)
(* _discover: pages of external ids become work items, then the cursor is  *)
(* saved.  The provider lists the whole catalogue, or (delta feed) the ids *)
(* dated after the watermark, PageSize at a time.                          *)
(***************************************************************************)
ListedBefore(w) == IF Incremental THEN Cardinality({i \in Ids : DateOf[i] <= w}) ELSE 0
PageIds(w, n) == {i \in Ids : /\ i > ListedBefore(w) + (n - 1) * PageSize
                              /\ i <= ListedBefore(w) + n * PageSize}
NextCursor(w, n) == IF ListedBefore(w) + n * PageSize < NumIds THEN n + 1 ELSE 0
LastId(w, n) == Min2(NumIds, ListedBefore(w) + n * PageSize)

\* Dates are FuzzyDateInts, numbered in their order: full dates are even, two apart from
\* one day to the next; odd is what lies between them, dates without a month or a day
\* and dates no calendar has (30 February).
Partial(d) == d % 2 = 1
\* _previous_day: what is not a full date is returned as it is.
PreviousDay(d) == IF Partial(d) THEN d ELSE d - 2
\* Faulty: the latest date itself, so ids that share it are skipped by the next window.
PageWatermarkNoStepBack(w, n) ==
  IF PageIds(w, n) = {} THEN w ELSE Max2(w, DateOf[LastId(w, n)])
\* The day before the latest date on the page (dates ascend), never before w.
PageWatermark(w, n) ==
  IF PageIds(w, n) = {} THEN w ELSE Max2(w, PreviousDay(DateOf[LastId(w, n)]))

\* discovery, pending_watermark and watermark after page n of watermark p.watermark.
PageParams(p, n) ==
  LET next    == NextCursor(p.watermark, n)
      pages   == p.pages + 1
      pending == IF Incremental THEN Max2(p.pending, PageWatermark(p.watermark, n)) ELSE 0
      promote == Incremental /\ next # 0 /\ pending > p.watermark /\ pages % WindowPages = 0
      q       == [p EXCEPT !.started = TRUE, !.pages = pages]
  IN  IF promote THEN [q EXCEPT !.next = 1, !.watermark = pending, !.pending = 0]
                 ELSE [q EXCEPT !.next = next, !.pending = pending]

\* Discovery that starts over keeps counting shards, so ignore_conflicts only
\* drops an id that the same page number already created.
DiscoverPage(r) ==
  /\ \/ pc[r] = "phase" /\ seen[r] = "discovering"
     \/ pc[r] = "page"
  /\ LET p     == local[r]
         n     == IF p.next = 0 THEN 1 ELSE p.next
         shard == p.pages + 1
     IN  /\ shard <= MaxShards
         /\ items' = [k \in Keys |->
              IF k[1] = shard /\ k[2] \in PageIds(p.watermark, n) /\ items[k].status = "absent"
              THEN NewItem ELSE items[k]]
         /\ local' = [local EXCEPT ![r] = PageParams(p, n)]
  /\ step' = [step EXCEPT ![r] = @ + 1]
  /\ Goto(r, "savePage")
  /\ UNCHANGED <<row, active, tasks, aiCalls, used, seen, goal, batch, item, attempt>>

\* campaign.save(update_fields=["parameters", ...]) writes the whole document back.
SavePage(r) ==
  /\ pc[r] = "savePage"
  /\ params' = local[r]
  /\ Goto(r, CASE MaxPages > 0 /\ local[r].pages >= MaxPages      -> "truncate"
               [] local[r].next # 0 /\ step[r] < PagesPerStep     -> "page"
               [] OTHER                                           -> "saveCrawl")
  /\ UNCHANGED <<status, lease, counts, items, active, tasks, aiCalls, used, mine>>

Truncate(r) ==
  /\ pc[r] = "truncate"
  /\ local' = [local EXCEPT ![r].truncated = (local[r].next # 0), ![r].next = 0,
                            ![r].pending = 0]
  /\ params' = local'[r]
  /\ AdvanceTo(r, "fetching")
  /\ UNCHANGED <<status, lease, counts, items, active, tasks, aiCalls, used,
                 seen, step, batch, item, attempt>>

\* Faulty: one page of discovery is taken for the whole.
SaveCrawlEarly(r) ==
  /\ pc[r] = "saveCrawl"
  /\ params' = local[r]
  /\ AdvanceTo(r, "fetching")
  /\ UNCHANGED <<status, lease, counts, items, active, tasks, aiCalls, used,
                 seen, local, step, batch, item, attempt>>

\* The setdefault of pending_watermark here finds one: a page of the delta feed always
\* leaves a date (0 here is the feed's first, DELTA_START_WATERMARK).
SaveCrawl(r) ==
  /\ pc[r] = "saveCrawl"
  /\ params' = local[r]
  /\ IF local[r].next = 0 THEN AdvanceTo(r, "fetching") ELSE Goto(r, "release") /\ UNCHANGED goal
  /\ UNCHANGED <<status, lease, counts, items, active, tasks, aiCalls, used,
                 seen, local, step, batch, item, attempt>>

-----------------------------------------------------------------------------
(***************************************************************************)
(* _fetch: one bounded batch of work items.                                *)
(***************************************************************************)
\* The first n of S by shard; ids are random UUIDs, so any order within a shard.
FirstOf(S, n) ==
  {B \in SUBSET S : /\ Cardinality(B) = Min2(n, Cardinality(S))
                    /\ \A x \in B, y \in S \ B : x[1] <= y[1]}
FirstIn(S) == {x \in S : \A y \in S : x[1] <= y[1]}

FetchBegin(r) ==
  /\ pc[r] = "phase" /\ seen[r] = "fetching"
  /\ items' = [k \in Keys |-> IF items[k].status = "running" /\ ~items[k].leased
                              THEN [items[k] EXCEPT !.status = "queued"] ELSE items[k]]
  /\ \E B \in FirstOf({k \in Keys : items'[k].status = "queued" /\ items'[k].due}, BatchSize) :
       batch' = [batch EXCEPT ![r] = B]
  /\ Goto(r, "fetch")
  /\ UNCHANGED <<row, active, tasks, aiCalls, used, seen, local, goal, step, item, attempt>>

ClaimItem(r) ==
  /\ pc[r] = "fetch"
  /\ \E k \in FirstIn(batch[r]) :
       /\ batch' = [batch EXCEPT ![r] = @ \ {k}]
       /\ IF items[k].status = "queued"
          THEN /\ items' = [items EXCEPT ![k].status = "running", ![k].attempt = @ + 1,
                                         ![k].leased = TRUE]
               /\ item' = [item EXCEPT ![r] = k]
               /\ attempt' = [attempt EXCEPT ![r] = items'[k].attempt]
               /\ Goto(r, "import")
          ELSE UNCHANGED <<items, item, attempt, pc>>
  /\ UNCHANGED <<row, active, tasks, aiCalls, used, seen, local, goal, step>>

\* The outcome of an import is written by primary key: no lease, no status check.
SetItem(r, s, isDue) ==
  items' = [items EXCEPT ![item[r]].status = s, ![item[r]].leased = FALSE,
                         ![item[r]].due = isDue]
MayAnswer(r, o) == pc[r] = "import" /\ o \in Outcomes[item[r][2]]

ImportOk(r) ==
  /\ MayAnswer(r, "ok")
  /\ SetItem(r, "succeeded", TRUE) /\ active' = active \union {item[r][2]}
  /\ Goto(r, "synced")
  /\ UNCHANGED <<row, tasks, aiCalls, used, mine>>

\* 404: _skip_item
ImportGone(r) ==
  /\ MayAnswer(r, "gone")
  /\ SetItem(r, "skipped", TRUE) /\ Goto(r, "skipped")
  /\ UNCHANGED <<row, active, tasks, aiCalls, used, mine>>

\* _fail_item, retryable and attempts left: back to the queue with a delay.
ImportRetry(r) ==
  /\ MayAnswer(r, "retry") /\ attempt[r] < MaxAttempts
  /\ SetItem(r, "queued", FALSE) /\ Goto(r, "fetch")
  /\ item' = [item EXCEPT ![r] = NoItem] /\ attempt' = [attempt EXCEPT ![r] = 0]
  /\ UNCHANGED <<row, active, tasks, aiCalls, used, seen, local, goal, step, batch>>

\* _fail_item otherwise: permanent errors and exhausted retries.
ImportError(r) ==
  /\ MayAnswer(r, "error") \/ (MayAnswer(r, "retry") /\ attempt[r] >= MaxAttempts)
  /\ SetItem(r, "failed", TRUE) /\ Goto(r, "failed")
  /\ UNCHANGED <<row, active, tasks, aiCalls, used, mine>>

\* The counters of the row are a second statement after the item's.
Count(r) ==
  /\ pc[r] \in {"synced", "skipped", "failed"}
  /\ counts' = [counts EXCEPT !.processed = @ + 1, ![pc[r]] = @ + 1]
  /\ Goto(r, "fetch")
  /\ item' = [item EXCEPT ![r] = NoItem] /\ attempt' = [attempt EXCEPT ![r] = 0]
  /\ UNCHANGED <<status, params, lease, items, active, tasks, aiCalls, used,
                 seen, local, goal, step, batch>>

\* The end of a batch re-reads the row and asks what is left.
FetchEnd(r) ==
  /\ pc[r] = "fetch" /\ batch[r] = {}
  /\ Reread(r)
  /\ counts' = [counts EXCEPT !.failed = Cardinality(WithStatus("failed"))]
  /\ CASE WithStatus("queued") \union WithStatus("running") # {} ->
            Goto(r, "release") /\ UNCHANGED goal
       [] OTHER ->
            IF counts'.failed > 0 THEN Goto(r, "fail") /\ UNCHANGED goal
                                  ELSE AdvanceTo(r, "mapping")
  /\ UNCHANGED <<status, params, lease, items, active, tasks, aiCalls, used,
                 step, batch, item, attempt>>

-----------------------------------------------------------------------------
(***************************************************************************)
(* MAPPING (no work), NORMALIZING and ENRICHING (one AI call per item,     *)
(* claimed by a compare-and-set on its timestamp), RECONCILING, REVIEWING. *)
(***************************************************************************)
Mapping(r) ==
  /\ pc[r] = "phase" /\ seen[r] = "mapping"
  /\ AdvanceTo(r, "normalizing")
  /\ UNCHANGED <<row, items, active, tasks, aiCalls, used, seen, local, step, batch, item, attempt>>

Processed(f) == {k \in Keys : items[k].ai[f]}
\* Faulty: items the phase has already processed are chosen again.
EligibleAgain(f) == {k \in WithStatus("succeeded") : TRUE}
Eligible(f)  == {k \in WithStatus("succeeded") : ~items[k].ai[f]}
SampleUsedUp(f) == AiSample[f] > 0 /\ Cardinality(Processed(f)) >= AiSample[f]
AiBatchSize(f) ==
  IF AiSample[f] > 0 THEN Min2(BatchSize, AiSample[f] - Cardinality(Processed(f))) ELSE BatchSize

AiBegin(r) ==
  /\ pc[r] = "phase" /\ seen[r] \in AiPhases
  /\ IF ~AiOn \/ SampleUsedUp(seen[r])
     THEN AdvanceTo(r, NextPhase[seen[r]]) /\ UNCHANGED batch
     ELSE /\ \E B \in FirstOf(Eligible(seen[r]), AiBatchSize(seen[r])) :
               batch' = [batch EXCEPT ![r] = B]
          /\ Goto(r, "ai") /\ UNCHANGED goal
  /\ UNCHANGED <<row, items, active, tasks, aiCalls, used, seen, local, step, item, attempt>>

AiClaim(r) ==
  /\ pc[r] = "ai"
  /\ \E k \in FirstIn(batch[r]) :
       /\ batch' = [batch EXCEPT ![r] = @ \ {k}]
       /\ IF k \in Eligible(seen[r])
          THEN /\ items' = [items EXCEPT ![k].ai[seen[r]] = TRUE]
               /\ item' = [item EXCEPT ![r] = k] /\ Goto(r, "aiWork")
          ELSE UNCHANGED <<items, item, pc>>
  /\ UNCHANGED <<row, active, tasks, aiCalls, used, seen, local, goal, step, attempt>>

\* _enrich saves its statistics, and with them its copy of the parameters.
AiOk(r) ==
  /\ pc[r] = "aiWork"
  /\ aiCalls' = [aiCalls EXCEPT ![item[r]][seen[r]] = @ + 1]
  /\ params' = IF seen[r] = "enriching" THEN local[r] ELSE params
  /\ item' = [item EXCEPT ![r] = NoItem] /\ Goto(r, "ai")
  /\ UNCHANGED <<status, lease, counts, items, active, tasks, used,
                 seen, local, goal, step, batch, attempt>>

\* Faulty: the timestamp of the failed call stays.
AiErrorKeepsTimestamp(r) ==
  /\ pc[r] = "aiWork" /\ used.abort < MaxAborts /\ UseUp("abort")
  /\ item' = [item EXCEPT ![r] = NoItem] /\ Goto(r, "fail")
  /\ UNCHANGED <<row, items, active, tasks, aiCalls, seen, local, goal, step, batch, attempt>>

\* The timestamp is taken back and the exception fails the campaign.
AiError(r) ==
  /\ pc[r] = "aiWork" /\ used.abort < MaxAborts /\ UseUp("abort")
  /\ items' = [items EXCEPT ![item[r]].ai[seen[r]] = FALSE]
  /\ item' = [item EXCEPT ![r] = NoItem] /\ Goto(r, "fail")
  /\ UNCHANGED <<row, active, tasks, aiCalls, seen, local, goal, step, batch, attempt>>

AiEnd(r) ==
  /\ pc[r] = "ai" /\ batch[r] = {}
  /\ IF Eligible(seen[r]) = {} \/ (seen[r] = "enriching" /\ SampleUsedUp("enriching"))
     THEN AdvanceTo(r, NextPhase[seen[r]])
     ELSE Goto(r, "release") /\ UNCHANGED goal
  /\ UNCHANGED <<row, items, active, tasks, aiCalls, used, seen, local, step, batch, item, attempt>>

\* Faulty: a truncated discovery counts as the whole catalogue.
CanMarkMissingTruncated(p) == Reconciles /\ ~Incremental /\ p.next = 0
CanMarkMissing(p) == Reconciles /\ ~Incremental /\ p.next = 0 /\ ~p.truncated
SeenIds == {k[2] : k \in {k \in Keys : items[k].status # "absent"}}
Reconcile(r) ==
  /\ pc[r] = "phase" /\ seen[r] = "reconciling"
  /\ active' = IF CanMarkMissing(local[r]) THEN active \intersect SeenIds ELSE active
  /\ AdvanceTo(r, "enriching")
  /\ UNCHANGED <<row, items, tasks, aiCalls, used, seen, local, step, batch, item, attempt>>

\* _write_quality_report (reporting only), _promote_watermark.
PromotesWatermark(p) == Incremental /\ ~p.truncated /\ p.pending # 0
Review(r) ==
  /\ pc[r] = "phase" /\ seen[r] = "reviewing"
  /\ IF PromotesWatermark(local[r])
     THEN /\ local' = [local EXCEPT ![r].watermark = local[r].pending, ![r].pending = 0]
          /\ params' = local'[r]
     ELSE UNCHANGED <<local, params>>
  /\ AdvanceTo(r, "completed")
  /\ UNCHANGED <<status, lease, counts, items, active, tasks, aiCalls, used,
                 seen, step, batch, item, attempt>>

-----------------------------------------------------------------------------
(***************************************************************************)
(* How a run ends.                                                         *)
(***************************************************************************)
\* A provider or database error, or the soft time limit, at any point of the
\* try block; after ClaimItem it leaves the item RUNNING under its lease.
CanAbort == {"phase", "page", "savePage", "truncate", "saveCrawl", "fetch", "import",
             "synced", "skipped", "failed", "ai", "advance", "refresh"}
Abort(r) ==
  /\ pc[r] \in CanAbort /\ used.abort < MaxAborts /\ UseUp("abort")
  /\ Goto(r, "fail")
  /\ UNCHANGED <<row, items, active, tasks, aiCalls, mine>>

FailLoad(r) ==
  /\ pc[r] = "fail"
  /\ Reread(r)
  /\ Goto(r, IF status \in Terminal \union {"failed"} THEN "release" ELSE "failing")
  /\ UNCHANGED <<row, items, active, tasks, aiCalls, used, goal, step, batch, item, attempt>>

FailWrite(r) ==
  /\ pc[r] = "failing"
  /\ status' = IF <<seen[r], "failed">> \in Transitions /\ status = seen[r]
               THEN "failed" ELSE status
  /\ Goto(r, "release")
  /\ UNCHANGED <<params, lease, counts, items, active, tasks, aiCalls, used, mine>>

\* Only the owner's own lease is given back.
Release(r) ==
  /\ pc[r] = "release"
  /\ lease' = IF lease = r THEN NoOne ELSE lease
  /\ Goto(r, "finish")
  /\ UNCHANGED <<status, params, counts, items, active, tasks, aiCalls, used, mine>>

\* Faulty: no next step is scheduled.
FinishForGood(r) ==
  /\ pc[r] = "finish"
  /\ Forget(r) /\ Goto(r, "idle")
  /\ UNCHANGED <<row, items, active, tasks, aiCalls, used>>

\* The task schedules the next step unless the campaign has stopped.
Finish(r) ==
  /\ pc[r] = "finish"
  /\ tasks' = IF r \in Workers /\ status \notin Terminal \union {"failed"}
              THEN tasks + 1 ELSE tasks
  /\ Forget(r) /\ Goto(r, "idle")
  /\ UNCHANGED <<row, items, active, aiCalls, used>>

\* A worker dies, or the hard time limit kills its task: the message comes back
\* from the broker, or (acknowledged on timeout or on a lost child) it does not.
Crash(r) ==
  /\ pc[r] # "idle" /\ used.crash < MaxCrashes /\ UseUp("crash")
  /\ \E back \in Redelivery :
       tasks' = IF r \in Workers /\ back THEN tasks + 1 ELSE tasks
  /\ Forget(r) /\ Goto(r, "idle")
  /\ UNCHANGED <<row, items, active, aiCalls>>

Run(r) ==
  \/ Claim(r) \/ Load(r) \/ Resume(r) \/ Begin(r) \/ NoPhase(r) \/ Advance(r) \/ Refresh(r)
  \/ DiscoverPage(r) \/ SavePage(r) \/ Truncate(r) \/ SaveCrawl(r)
  \/ FetchBegin(r) \/ ClaimItem(r) \/ ImportOk(r) \/ ImportGone(r) \/ ImportRetry(r)
  \/ ImportError(r) \/ Count(r) \/ FetchEnd(r)
  \/ Mapping(r) \/ AiBegin(r) \/ AiClaim(r) \/ AiOk(r) \/ AiEnd(r) \/ Reconcile(r) \/ Review(r)
  \/ FailLoad(r) \/ FailWrite(r) \/ Release(r) \/ Finish(r)
Start(r) == StartTask(r) \/ StartWatch(r)

-----------------------------------------------------------------------------
(***************************************************************************)
(* Time, and the operator.                                                 *)
(***************************************************************************)
\* 600 s after the claim: never while a Celery run (360 s at most) is still on.
LeaseExpires ==
  /\ lease # NoOne
  /\ lease \in Watchers \/ ~InRun(lease)
  /\ lease' = NoOne
  /\ UNCHANGED <<status, params, counts, items, active, tasks, aiCalls, used, pc, mine>>

ItemLeaseExpires(k) ==
  /\ items[k].status = "running" /\ items[k].leased
  /\ items' = [items EXCEPT ![k].leased = FALSE]
  /\ UNCHANGED <<row, active, tasks, aiCalls, used, pc, mine>>

RetryDue(k) ==
  /\ ~items[k].due
  /\ items' = [items EXCEPT ![k].due = TRUE]
  /\ UNCHANGED <<row, active, tasks, aiCalls, used, pc, mine>>

Control == used.control < MaxControls /\ UseUp("control")

Pause ==
  /\ Control /\ status \in Active
  /\ params' = [params EXCEPT !.pausedFrom = status] /\ status' = "paused"
  /\ UNCHANGED <<lease, counts, items, active, tasks, aiCalls, pc, mine>>

\* The resume endpoint: it also dispatches a task for a campaign that is running.
ResumePaused ==
  /\ Control /\ status # "cancelled"
  /\ IF status = "paused"
     THEN /\ status' = IF params.pausedFrom = "none" THEN "discovering" ELSE params.pausedFrom
          /\ params' = [params EXCEPT !.pausedFrom = "none"]
     ELSE UNCHANGED <<status, params>>
  /\ tasks' = tasks + 1
  /\ UNCHANGED <<lease, counts, items, active, aiCalls, pc, mine>>

Cancel ==
  /\ Control /\ status \notin {"completed", "cancelled"}
  /\ status' = "cancelled"
  /\ items' = [k \in Keys |-> IF items[k].status = "running"
                              THEN [items[k] EXCEPT !.status = "queued", !.leased = FALSE]
                              ELSE items[k]]
  /\ UNCHANGED <<params, lease, counts, active, tasks, aiCalls, pc, mine>>

\* The same POST again (same idempotency key) returns the campaign and, when it
\* is QUEUED or FAILED, dispatches a task for it.
CreateAgain ==
  /\ Control /\ status \in {"queued", "failed"}
  /\ tasks' = tasks + 1
  /\ UNCHANGED <<row, items, active, aiCalls, pc, mine>>

Clock == LeaseExpires \/ \E k \in Keys : ItemLeaseExpires(k) \/ RetryDue(k)
Operator == Pause \/ ResumePaused \/ Cancel \/ CreateAgain
Next ==
  \/ \E r \in Runners : Start(r) \/ Run(r) \/ AiError(r) \/ Abort(r) \/ Crash(r)
  \/ Clock \/ Operator

\* Workers take messages and go on with what they do; leases and delays run out.
Fairness ==
  /\ \A r \in Runners : WF_vars(Run(r)) /\ WF_vars(Start(r))
  /\ WF_vars(LeaseExpires)
  /\ \A k \in Keys : WF_vars(ItemLeaseExpires(k)) /\ WF_vars(RetryDue(k))

Safety == Init /\ [][Next]_vars
Spec == Safety /\ Fairness

-----------------------------------------------------------------------------
(***************************************************************************)
(* Properties.                                                             *)
(***************************************************************************)
\* Every variable holds a value of the kind the tables and the code allow.
TypeOK ==
  /\ status \in Statuses /\ params \in Params /\ lease \in Runners \union {NoOne}
  /\ counts \in [processed : Nat, synced : Nat, skipped : Nat, failed : Nat]
  /\ items \in [Keys -> Items]
  /\ active \subseteq Nat /\ tasks \in Nat
  /\ aiCalls \in [Keys -> [AiPhases -> Nat]]
  /\ used \in [crash : Nat, abort : Nat, control : Nat, resume : Nat]
  /\ pc \in [Runners -> Labels]
  /\ seen \in [Runners -> Statuses] /\ goal \in [Runners -> Statuses]
  /\ local \in [Runners -> Params] /\ step \in [Runners -> Nat]
  /\ batch \in [Runners -> SUBSET Keys]
  /\ item \in [Runners -> Keys \union {NoItem}] /\ attempt \in [Runners -> Nat]

\* A Celery run holds the campaign lease from its claim to its release, so no two
\* of them ever step the campaign at once, whatever tasks were delivered twice.
WorkersExclusive == \A r \in Workers : InRun(r) => lease = r

\* Nothing is left to do, running or failed.
NothingLeft == \A k \in Keys : items[k].status \in {"absent", "succeeded", "skipped"}

\* The ids a listing promises to reach: all of them, but for those that share a partial
\* date in a delta crawl.  The crawl cannot step back from such a date, and a window
\* promoted in the middle of it goes on behind it.
Promised == {i \in Ids : Incremental /\ Partial(DateOf[i]) =>
                            \A j \in Ids : DateOf[j] = DateOf[i] => j = i}

\* A campaign is COMPLETED only when no work item is left, failed or running, and
\* (unless discovery was truncated) every id the catalogue promises was fetched or
\* answered 404: "a campaign is not considered complete while discovery pages or
\* queued work items remain".
CompletedMeansDone ==
  status = "completed" =>
    /\ NothingLeft
    /\ ~params.truncated =>
         /\ params.next = 0
         /\ \A i \in Promised : \E k \in Keys : k[2] = i /\ items[k].status # "absent"

\* What was fetched (or retired after a 404) is never put back or overwritten, not
\* by a retry of the campaign, a lease that ran out or a run that lost its lease.
FinishedWorkKept ==
  [][\A k \in Keys : items[k].status \in {"succeeded", "skipped"}
                       => items'[k].status = items[k].status]_vars

\* Only records the catalogue does not list are ever marked MISSING.
MissingOnlyIfUnlisted == [][(active \ active') \intersect Ids = {}]_vars

\* A crash between the item's write and the counter's can lose a count, but
\* synced_items and skipped_items never promise more than the items show.
CountersNeverOverstate ==
  /\ counts.synced <= Cardinality(WithStatus("succeeded"))
  /\ counts.skipped <= Cardinality(WithStatus("skipped"))

\* Runs that overlap, stop and start over never pay for the AI call of a work
\* item and phase twice ...
AiAtMostOnce == \A k \in Keys, f \in AiPhases : aiCalls[k][f] <= 1

\* ... and none is left out of a COMPLETED campaign, unless the sample was used up
\* or a crash fell between the claim of the item and the end of its call.
AiNotSkipped ==
  status = "completed" /\ AiOn /\ used.crash = 0 =>
    \A f \in AiPhases : SampleUsedUp(f) \/ \A k \in WithStatus("succeeded") : aiCalls[k][f] = 1

\* Whatever date the watermark has reached, every id dated up to it was listed, through
\* window promotions, truncation and crashes, also ids that share the date at the end of
\* a window, unless that date is partial.  With watchers and max_pages it fails: truncated
\* parameters can then be overwritten by a stale document.
WatermarkCovered ==
  Incremental => \A i \in Promised : DateOf[i] <= params.watermark => i \in SeenIds

\* Does not hold (campaign_partial_date.cfg), the same of every id: "titles sharing the
\* boundary date are re-listed in the next window instead of being skipped".
BoundaryRelisted ==
  Incremental => \A i \in Ids : DateOf[i] <= params.watermark => i \in SeenIds

\* A campaign cancelled or completed stays so.
StoppedForGood ==
  [][(status \in {"completed", "cancelled"}) => status' = status]_vars

\* Left alone with its workers, a campaign always comes to rest.
ComesToRest == <>[](status \in Terminal \union {"failed"})

\* The first half of CompletedMeansDone alone.
NothingLeftWhenCompleted == status = "completed" => NothingLeft

\* One work item per external id of a campaign.
OneItemPerId ==
  \A k, l \in Keys : k # l /\ k[2] = l[2] =>
    items[k].status = "absent" \/ items[l].status = "absent"

\* Only resume and cancel take a campaign out of PAUSED.
PausedUntilResumed ==
  [][status = "paused" /\ status' # "paused" => used'.control = used.control + 1]_vars
=============================================================================
