-------------------------- MODULE IncrementalSync --------------------------
(***************************************************************************)
(* One incremental task (incremental_subject, incremental_episode, ...):   *)
(* a window of BatchSize external ids is claimed on its sync_state row,    *)
(* the ids are fetched one by one and the row's cursor moves over them     *)
(* (apps/sync/services/incremental_sync_service.py), while a periodic scan *)
(* (tasks/maintenance.py) and the operator reopen windows left RUNNING and *)
(* retry_sync_errors works through the ledger of failures.                 *)
(*                                                                         *)
(* The row is the only lock: no owner is written to it, and no write of a  *)
(* runner asks whether the window is still its own.                        *)
(***************************************************************************)
EXTENDS Integers, FiniteSets

CONSTANTS
  Workers,      \* Celery workers: a run there ends within 3900 s
  Shells,       \* `incremental_sync' commands: no time limit
  Scanners,     \* workers that run scan_stale_sync_states
  MaxId,        \* ids above MaxId are never published (bound)
  Gaps,         \* ids the provider never has
  Flaky,        \* ids whose fetch may fail at any time
  BatchSize,
  MaxSkips,     \* SYNC_INCREMENTAL_MAX_CONSECUTIVE_SKIPS
  MaxErrors,    \* SYNC_INCREMENTAL_MAX_CONSECUTIVE_ERRORS
  Every,        \* ids between two writes of the progress (20 in the code)
  MaxTrouble    \* bound: crashes, aborts, outages and manual unlocks, together

Runners == Workers \union Shells
Ids == 1 .. MaxId

ASSUME WindowAssumption ==
  /\ {BatchSize, MaxSkips, MaxErrors, Every} \subseteq Nat \ {0}
  /\ MaxId \in Nat /\ Gaps \subseteq Nat /\ Flaky \subseteq Nat
  /\ MaxTrouble \in Nat

VARIABLES
  cursor, state, stale,  \* the row: current_id, status, "updated_at < cutoff"
  errors,                \* ids in the SyncError ledger of the task
  published,             \* the provider has assigned the ids 1 .. published
  synced, skipped,       \* history: ids ever fetched, ids ever found missing
  pruned,                \* history: ledger entries the operator gave up
  used,                  \* history: how often each kind of trouble has struck
  pc,                    \* where each runner is in sync_task()
  next, end,             \* the id in hand and the last id of its window
  last, skips, fails,    \* last_synced_id and the two streaks
  scan,                  \* scanners that have selected the row as stale
  fixed                  \* the ledger entry retry_sync_errors is about to delete, or 0

row   == <<cursor, state, stale>>
local == <<next, end, last, skips, fails>>
vars  == <<row, errors, published, synced, skipped, pruned, used, pc, local, scan, fixed>>

States == {"idle", "running", "finished", "failed"}
Inside(r) == pc[r] # "idle"
Listed == (1 .. published) \ Gaps
Strikes(b) ==
  /\ used.crash + used.abort + used.outage + used.unlock < MaxTrouble
  /\ used' = [used EXCEPT ![b] = @ + 1]

Init ==
  /\ cursor = 0 /\ state = "idle" /\ stale = FALSE
  /\ errors = {} /\ published = 0 /\ synced = {} /\ skipped = {} /\ pruned = {}
  /\ used = [crash |-> 0, abort |-> 0, outage |-> 0, unlock |-> 0]
  /\ pc = [r \in Runners |-> "idle"]
  /\ next = [r \in Runners |-> 0] /\ end = [r \in Runners |-> 0]
  /\ last = [r \in Runners |-> 0]
  /\ skips = [r \in Runners |-> 0] /\ fails = [r \in Runners |-> 0]
  /\ scan = {} /\ fixed = 0

Goto(r, l) == pc' = [pc EXCEPT ![r] = l]
\* The run is over: what it held in memory is gone.
Leave(r) ==
  /\ Goto(r, "idle")
  /\ next' = [next EXCEPT ![r] = 0] /\ end' = [end EXCEPT ![r] = 0]
  /\ last' = [last EXCEPT ![r] = 0]
  /\ skips' = [skips EXCEPT ![r] = 0] /\ fails' = [fails EXCEPT ![r] = 0]

-----------------------------------------------------------------------------
(***************************************************************************)
(* sync_task.                                                              *)
(***************************************************************************)
\* Faulty: the window opens whatever the status of the row.
StartWindowAnyway(r) ==
  /\ pc[r] = "idle" /\ cursor < MaxId
  /\ state' = "running" /\ stale' = FALSE
  /\ next' = [next EXCEPT ![r] = cursor + 1]
  /\ end' = [end EXCEPT ![r] = cursor + BatchSize]
  /\ last' = [last EXCEPT ![r] = cursor]
  /\ Goto(r, "sync")
  /\ UNCHANGED <<cursor, errors, published, synced, skipped, pruned, used, skips, fails, scan, fixed>>

\* Under the row lock; a RUNNING row raises SyncTaskAlreadyRunning.  No window is
\* opened once the cursor has passed every id there will ever be (bound).
StartWindow(r) ==
  /\ pc[r] = "idle" /\ state # "running" /\ cursor < MaxId
  /\ state' = "running" /\ stale' = FALSE
  /\ next' = [next EXCEPT ![r] = cursor + 1]
  /\ end' = [end EXCEPT ![r] = cursor + BatchSize]
  /\ last' = [last EXCEPT ![r] = cursor]
  /\ Goto(r, "sync")
  /\ UNCHANGED <<cursor, errors, published, synced, skipped, pruned, used, skips, fails, scan, fixed>>

\* What fetching id i answers: a 404 unless the provider lists it.
Answers(i) ==
  IF i \notin Listed THEN {"skipped"}
  ELSE IF i \in Flaky THEN {"synced", "failed"} ELSE {"synced"}
\* Faulty: a failed id is not entered in the ledger.
RecordNothing(i, outcome) ==
  /\ synced' = IF outcome = "synced" THEN synced \union {i} ELSE synced
  /\ skipped' = IF outcome = "skipped" THEN skipped \union {i} ELSE skipped
  /\ errors' = errors
\* What one fetch leaves in the database.
Record(i, outcome) ==
  /\ synced' = IF outcome = "synced" THEN synced \union {i} ELSE synced
  /\ skipped' = IF outcome = "skipped" THEN skipped \union {i} ELSE skipped
  /\ errors' = IF outcome = "failed" THEN errors \union {i} ELSE errors

\* _sync_one, and the streaks that follow from its outcome.  Any fetch may fail
\* when the provider is down or the soft time limit strikes inside it.
SyncOne(r) ==
  /\ pc[r] = "sync" /\ next[r] <= end[r]
  /\ \E outcome \in Answers(next[r]) \union {"failed"} :
       /\ \/ outcome \in Answers(next[r]) /\ UNCHANGED used
          \/ outcome \notin Answers(next[r]) /\ Strikes("outage")
       /\ Record(next[r], outcome)
       /\ fails' = [fails EXCEPT ![r] = IF outcome = "failed" THEN @ + 1 ELSE 0]
       /\ last' = [last EXCEPT ![r] = IF outcome = "synced" THEN next[r] ELSE @]
       /\ skips' = [skips EXCEPT ![r] = CASE outcome = "synced" -> 0
                                          [] outcome = "skipped" -> @ + 1
                                          [] OTHER -> @]
  /\ Goto(r, "check")
  /\ UNCHANGED <<row, published, pruned, next, end, scan, fixed>>

\* Faulty: one missing id too few.
AtFrontierEarly(r) == skips[r] + 1 >= MaxSkips
\* Too many ids in a row do not exist: the provider's frontier.
AtFrontier(r) == skips[r] >= MaxSkips
TooManyErrors(r) == fails[r] >= MaxErrors
ReachFrontier(r) ==
  /\ pc[r] = "check" /\ AtFrontier(r)
  /\ cursor' = last[r] /\ state' = "finished" /\ stale' = FALSE
  /\ Leave(r)
  /\ UNCHANGED <<errors, published, synced, skipped, pruned, used, scan, fixed>>

GiveUp(r) ==
  /\ pc[r] = "check" /\ ~AtFrontier(r) /\ TooManyErrors(r)
  /\ Goto(r, "fail")
  /\ UNCHANGED <<row, errors, published, synced, skipped, pruned, used, local, scan, fixed>>

\* processed_count of the run.
Processed(r) == next[r] - (end[r] - BatchSize)
\* Every so many ids the progress is written to the row.
GoOn(r) ==
  /\ pc[r] = "check" /\ ~AtFrontier(r) /\ ~TooManyErrors(r)
  /\ IF Processed(r) % Every = 0 THEN cursor' = last[r] /\ stale' = FALSE
                                 ELSE UNCHANGED <<cursor, stale>>
  /\ next' = [next EXCEPT ![r] = @ + 1] /\ Goto(r, "sync")
  /\ UNCHANGED <<state, errors, published, synced, skipped, pruned, used,
                 end, last, skips, fails, scan, fixed>>

FinishWindow(r) ==
  /\ pc[r] = "sync" /\ next[r] > end[r]
  /\ cursor' = end[r] /\ state' = "finished" /\ stale' = FALSE
  /\ Leave(r)
  /\ UNCHANGED <<errors, published, synced, skipped, pruned, used, scan, fixed>>

\* Faulty: the last fetched id is to be fetched again.
FailWindowBeforeLast(r) ==
  /\ pc[r] = "fail"
  /\ cursor' = last[r] - 1 /\ state' = "failed" /\ stale' = FALSE
  /\ Leave(r)
  /\ UNCHANGED <<errors, published, synced, skipped, pruned, used, scan, fixed>>

\* The except clause: what was fetched without interruption stays behind the cursor.
FailWindow(r) ==
  /\ pc[r] = "fail"
  /\ cursor' = last[r] /\ state' = "failed" /\ stale' = FALSE
  /\ Leave(r)
  /\ UNCHANGED <<errors, published, synced, skipped, pruned, used, scan, fixed>>

\* A database error or the soft time limit outside a fetch.
Abort(r) ==
  /\ pc[r] \in {"sync", "check"} /\ Strikes("abort")
  /\ Goto(r, "fail")
  /\ UNCHANGED <<row, errors, published, synced, skipped, pruned, local, scan, fixed>>

\* The process dies: the row stays RUNNING.
Crash(r) ==
  /\ Inside(r) /\ Strikes("crash")
  /\ Leave(r)
  /\ UNCHANGED <<row, errors, published, synced, skipped, pruned, scan, fixed>>

-----------------------------------------------------------------------------
(***************************************************************************)
(* Time, the scan, the operator, retry_sync_errors and the provider.       *)
(***************************************************************************)
\* 5400 s without a write: never while a Celery run (3900 s at most) is on.
GoesStale ==
  /\ state = "running" /\ ~stale
  /\ \A r \in Workers : ~Inside(r)
  /\ stale' = TRUE
  /\ UNCHANGED <<cursor, state, errors, published, synced, skipped, pruned, used, pc, local, scan, fixed>>

\* scan_stale_sync_states first selects the stale rows ...
ScanSelect(s) ==
  /\ s \notin scan /\ state = "running" /\ stale
  /\ scan' = scan \union {s}
  /\ UNCHANGED <<row, errors, published, synced, skipped, pruned, used, pc, local, fixed>>

\* unlock_running: RUNNING becomes FAILED, whatever the age of the row by now.
UnlockRunning == state' = IF state = "running" THEN "failed" ELSE state

\* ... and then unlocks each of them.
ScanUnlock(s) ==
  /\ s \in scan
  /\ UnlockRunning /\ scan' = scan \ {s}
  /\ UNCHANGED <<cursor, stale, errors, published, synced, skipped, pruned, used, pc, local, fixed>>

\* incremental_sync --unlock-running
OperatorUnlock ==
  /\ state = "running" /\ Strikes("unlock")
  /\ UnlockRunning
  /\ UNCHANGED <<cursor, stale, errors, published, synced, skipped, pruned, pc, local, scan, fixed>>

\* retry_sync_errors fetches an id of the ledger; a failure stays there ...
RetryError(i) ==
  /\ fixed = 0 /\ i \in errors
  /\ \E outcome \in Answers(i) :
       /\ Record(i, outcome)
       /\ fixed' = IF outcome = "failed" THEN 0 ELSE i
  /\ UNCHANGED <<row, published, pruned, used, pc, local, scan>>

\* ... anything else deletes the entry, by primary key.
DeleteError ==
  /\ fixed # 0
  /\ errors' = errors \ {fixed} /\ fixed' = 0
  /\ UNCHANGED <<row, published, synced, skipped, pruned, used, pc, local, scan>>

\* retry_sync_errors --stale-before: an entry old enough is deleted instead.
PruneError(i) ==
  /\ fixed = 0 /\ i \in errors
  /\ errors' = errors \ {i} /\ pruned' = pruned \union {i}
  /\ UNCHANGED <<row, published, synced, skipped, used, pc, local, scan, fixed>>

\* The provider assigns its next id.
Publish ==
  /\ published < MaxId /\ published' = published + 1
  /\ UNCHANGED <<row, errors, synced, skipped, pruned, used, pc, local, scan, fixed>>

Run(r) ==
  \/ SyncOne(r) \/ ReachFrontier(r) \/ GiveUp(r) \/ GoOn(r) \/ FinishWindow(r) \/ FailWindow(r)
Scan(s) == ScanSelect(s) \/ ScanUnlock(s)
Ledger == DeleteError \/ \E i \in errors : RetryError(i) \/ PruneError(i)
Next ==
  \/ \E r \in Runners : StartWindow(r) \/ Run(r) \/ Abort(r) \/ Crash(r)
  \/ \E s \in Scanners : Scan(s)
  \/ GoesStale \/ OperatorUnlock \/ Ledger \/ Publish

\* Beat dispatches the task and the scan again and again; a run that has started
\* goes on; time passes; the provider keeps publishing.
Fairness ==
  /\ \A r \in Workers : WF_vars(StartWindow(r))
  /\ \A r \in Runners : WF_vars(Run(r))
  /\ \A s \in Scanners : WF_vars(Scan(s))
  /\ WF_vars(GoesStale) /\ WF_vars(Publish)

Safety == Init /\ [][Next]_vars
Spec == Safety /\ Fairness

-----------------------------------------------------------------------------
(***************************************************************************)
(* Properties.                                                             *)
(***************************************************************************)
\* Every variable holds a value of the kind the tables and the code allow.
TypeOK ==
  /\ cursor \in Nat /\ state \in States /\ stale \in BOOLEAN
  /\ errors \subseteq Nat /\ published \in 0 .. MaxId
  /\ synced \subseteq Nat /\ skipped \subseteq Nat /\ pruned \subseteq Nat
  /\ used \in [crash : Nat, abort : Nat, outage : Nat, unlock : Nat]
  /\ pc \in [Runners -> {"idle", "sync", "check", "fail"}]
  /\ next \in [Runners -> Nat] /\ end \in [Runners -> Nat] /\ last \in [Runners -> Nat]
  /\ skips \in [Runners -> Nat] /\ fails \in [Runners -> Nat]
  /\ scan \subseteq Scanners /\ fixed \in Nat

Attempted(i) == i \in synced \union skipped \union errors \union pruned

\* The cursor never passes an id that nobody fetched, found missing or entered in
\* the ledger (where it stays until it is fetched, found missing or pruned): not by a failed or crashed window, nor by two runs that share one
\* and write the cursor over each other.
CursorCovered == \A i \in 1 .. cursor : Attempted(i)

\* Unless the operator reopens a window by hand, two Celery runs never work on the
\* same task at once: one scan reopens dead windows only.  Two scans at once may reopen
\* a live one (incremental_two_scans.cfg).
WindowExclusive ==
  used.unlock = 0 => \A r, q \in Workers : Inside(r) /\ Inside(q) => r = q

\* Under the same condition the cursor never goes back over what it has passed.
CursorForward == [][used.unlock = 0 => cursor' >= cursor]_vars

\* Gaps shorter than MaxSkips and outages that end never hold the cursor back for
\* good: it gets past every id the provider will ever publish.  (After a manual
\* unlock of a live window two runs can free the row for each other for ever.)
CatchesUp == <>[](used.unlock > 0 \/ cursor >= MaxId)

\* "new IDs are found by periodic frontier scans": an id the provider lists and the
\* cursor has passed was fetched, or is in the ledger for another attempt.
NewIdsFound == \A i \in Listed : i <= cursor => i \in synced \union errors \union pruned
=============================================================================
