---------------------------- MODULE AiringDaily ----------------------------
(***************************************************************************)
(* The daily refresh of the airing board: one shard (day and season) of    *)
(* sync_state holds an index into the sorted targets of the board, and     *)
(* every run refreshes one batch from there                                *)
(* (apps/sync/services/airing_daily_sync_service.py, tasks/airing.py,      *)
(* season_rollover_service.py).                                            *)
(*                                                                         *)
(* A run reads the board when it starts and keeps that list; the row keeps *)
(* only the index, and calendar and season syncs replace the board between *)
(* two batches.                                                            *)
(***************************************************************************)
EXTENDS Integers, FiniteSets

CONSTANTS
  Workers,      \* runs of run_airing_daily_task and of sync_airing_daily
  NumMembers,   \* provider records that may be on the board, in sort order
  Flaky,        \* members whose refresh may fail at any time
  BatchSize,    \* AIRING_DAILY_BATCH_SIZE
  MaxErrors,    \* SYNC_INCREMENTAL_MAX_CONSECUTIVE_ERRORS
  MaxTrouble,   \* bound: crashes, aborts, outages and rollovers, together
  MaxChanges    \* bound: how often the board is replaced

Members == 1 .. NumMembers

ASSUME AiringAssumption ==
  /\ NumMembers \in Nat \ {0} /\ Flaky \subseteq Members
  /\ {BatchSize, MaxErrors} \subseteq Nat \ {0}
  /\ {MaxTrouble, MaxChanges} \subseteq Nat

VARIABLES
  index, state,    \* the shard: current_id and status
  board,           \* members of the active board; {} once another season is on
  attempted,       \* history: members refreshed, found missing or in the ledger
  used,            \* history: how often each kind of trouble has struck, and
                   \* whether a batch has ever failed
  pc,              \* where each run is in sync_day()
  targets,         \* the list it has read, as the set of its members
  next, end,       \* the position in hand and the last one of its batch
  fails            \* consecutive_errors

row   == <<index, state>>
local == <<targets, next, end, fails>>
vars  == <<row, board, attempted, used, pc, local>>

States == {"absent", "idle", "running", "finished", "failed"}
Kinds == {"crash", "abort", "outage", "rollover", "change", "failure"}
Inside(w) == pc[w] \in {"refresh", "fail"}

\* targets[k] of the code: the member in position k, counted from 0.
Target(list, k) == CHOOSE m \in list : Cardinality({l \in list : l < m}) = k
Last(start, n) == IF start + BatchSize < n THEN start + BatchSize - 1 ELSE n - 1

Note(k) == used' = [used EXCEPT ![k] = @ + 1]
Strikes(k) ==
  /\ used.crash + used.abort + used.outage + used.rollover < MaxTrouble
  /\ Note(k)

Init ==
  /\ index = 0 /\ state = "absent"
  /\ board \in (SUBSET Members) \ {{}}
  /\ attempted = {} /\ used = [k \in Kinds |-> 0]
  /\ pc = [w \in Workers |-> "idle"]
  /\ targets = [w \in Workers |-> {}]
  /\ next = [w \in Workers |-> 0] /\ end = [w \in Workers |-> 0]
  /\ fails = [w \in Workers |-> 0]

Goto(w, l) == pc' = [pc EXCEPT ![w] = l]
Leave(w) ==
  /\ Goto(w, "idle")
  /\ targets' = [targets EXCEPT ![w] = {}]
  /\ next' = [next EXCEPT ![w] = 0] /\ end' = [end EXCEPT ![w] = 0]
  /\ fails' = [fails EXCEPT ![w] = 0]

-----------------------------------------------------------------------------
(***************************************************************************)
(* sync_day.                                                               *)
(***************************************************************************)

\* board_targets(), and with it the shard of the season the board has.
ReadBoard(w) ==
  /\ pc[w] = "idle" /\ board # {}
  /\ targets' = [targets EXCEPT ![w] = board] /\ Goto(w, "look")
  /\ UNCHANGED <<row, board, attempted, used, next, end, fails>>

\* A FINISHED shard that is past every target ends the run.
LookDone(w) ==
  /\ pc[w] = "look"
  /\ IF state = "finished" /\ index >= Cardinality(targets[w])
     THEN Leave(w)
     ELSE Goto(w, "start") /\ UNCHANGED local
  /\ UNCHANGED <<row, board, attempted, used>>

\* Faulty: a RUNNING shard does not keep a second run out.
StartWindowAnyway(w) ==
  /\ pc[w] = "start"
  /\ LET n     == Cardinality(targets[w])
         start == IF index < n THEN index ELSE n - 1
     IN  /\ next' = [next EXCEPT ![w] = start]
         /\ end' = [end EXCEPT ![w] = Last(start, n)]
  /\ state' = "running" /\ Goto(w, "refresh")
  /\ UNCHANGED <<index, board, attempted, used, targets, fails>>

\* _start_window, under the row lock; a RUNNING shard returns None.
StartWindow(w) ==
  /\ pc[w] = "start"
  /\ \/ state = "running" /\ Leave(w) /\ UNCHANGED state
     \/ /\ state # "running"
        /\ LET n     == Cardinality(targets[w])
               start == IF index < n THEN index ELSE n - 1
           IN  /\ next' = [next EXCEPT ![w] = start]
               /\ end' = [end EXCEPT ![w] = Last(start, n)]
        /\ state' = "running" /\ Goto(w, "refresh")
        /\ UNCHANGED <<targets, fails>>
  /\ UNCHANGED <<index, board, attempted, used>>

\* One target: refreshed or missing, or failed and entered in the ledger.  Too
\* many failures in a row raise, and the batch fails.
RefreshTarget(w) ==
  /\ pc[w] = "refresh" /\ next[w] <= end[w]
  /\ LET target == Target(targets[w], next[w])
     IN  /\ attempted' = attempted \union {target}
         /\ \/ /\ fails' = [fails EXCEPT ![w] = 0] /\ UNCHANGED used
            \/ /\ fails' = [fails EXCEPT ![w] = @ + 1]
               /\ IF target \in Flaky THEN UNCHANGED used ELSE Strikes("outage")
  /\ IF fails'[w] >= MaxErrors
     THEN Goto(w, "fail") /\ UNCHANGED next
     ELSE next' = [next EXCEPT ![w] = @ + 1] /\ UNCHANGED pc
  /\ UNCHANGED <<row, board, targets, end>>

\* Faulty: the row keeps its index, and the batch is refreshed again.
FinishWindowInPlace(w) ==
  /\ pc[w] = "refresh" /\ next[w] > end[w]
  /\ state' = IF end[w] + 1 >= Cardinality(targets[w]) THEN "finished" ELSE "idle"
  /\ Leave(w)
  /\ UNCHANGED <<index, board, attempted, used>>
\* Faulty: the index skips the first target of the next batch.
FinishWindowOneMore(w) ==
  /\ pc[w] = "refresh" /\ next[w] > end[w]
  /\ index' = end[w] + 2
  /\ state' = IF end[w] + 1 >= Cardinality(targets[w]) THEN "finished" ELSE "idle"
  /\ Leave(w)
  /\ UNCHANGED <<board, attempted, used>>

FinishWindow(w) ==
  /\ pc[w] = "refresh" /\ next[w] > end[w]
  /\ index' = end[w] + 1
  /\ state' = IF end[w] + 1 >= Cardinality(targets[w]) THEN "finished" ELSE "idle"
  /\ Leave(w)
  /\ UNCHANGED <<board, attempted, used>>

\* The except clause moves the index past the whole batch.
FailWindow(w) ==
  /\ pc[w] = "fail"
  /\ index' = end[w] + 1 /\ state' = "failed"
  /\ Leave(w)
  /\ used' = [used EXCEPT !.failure = 1]
  /\ UNCHANGED <<board, attempted>>

\* A database error or the soft time limit outside a refresh.
Abort(w) ==
  /\ pc[w] = "refresh" /\ Strikes("abort")
  /\ Goto(w, "fail")
  /\ UNCHANGED <<row, board, attempted, local>>

\* The process dies; a shard it was working on stays RUNNING.
Crash(w) ==
  /\ pc[w] # "idle" /\ Strikes("crash")
  /\ Leave(w)
  /\ UNCHANGED <<row, board, attempted>>

-----------------------------------------------------------------------------
(***************************************************************************)
(* The board.                                                              *)
(***************************************************************************)
\* A calendar or season sync replaces the board of the season in place.
ReplaceBoard ==
  /\ board # {} /\ used.change < MaxChanges /\ Note("change")
  /\ \E b \in (SUBSET Members) \ {{}, board} : board' = b
  /\ UNCHANGED <<row, attempted, pc, local>>

\* Season rollover: the board of the next season is activated ...
SwitchSeason ==
  /\ board # {} /\ Strikes("rollover")
  /\ board' = {}
  /\ UNCHANGED <<row, attempted, pc, local>>

\* ... and cancel_stale_seasons finishes the shards of the others, RUNNING or not.
CancelStale ==
  /\ board = {} /\ state \notin {"absent", "finished"}
  /\ state' = "finished"
  /\ UNCHANGED <<index, board, attempted, used, pc, local>>

Run(w) ==
  LookDone(w) \/ StartWindow(w) \/ RefreshTarget(w) \/ FinishWindow(w) \/ FailWindow(w)
Next ==
  \/ \E w \in Workers : ReadBoard(w) \/ Run(w) \/ Abort(w) \/ Crash(w)
  \/ ReplaceBoard \/ SwitchSeason \/ CancelStale

\* Beat dispatches the task every 15 minutes; a run that has started goes on.
Fairness == \A w \in Workers : WF_vars(ReadBoard(w)) /\ WF_vars(Run(w))

Safety == Init /\ [][Next]_vars
Spec == Safety /\ Fairness

-----------------------------------------------------------------------------
(***************************************************************************)
(* Properties.                                                             *)
(***************************************************************************)
\* Every variable holds a value of the kind the tables and the code allow.
TypeOK ==
  /\ index \in Nat /\ state \in States
  /\ board \subseteq Members /\ attempted \subseteq Members
  /\ used \in [Kinds -> Nat]
  /\ pc \in [Workers -> {"idle", "look", "start", "refresh", "fail"}]
  /\ targets \in [Workers -> SUBSET Members]
  /\ next \in [Workers -> Nat] /\ end \in [Workers -> Nat] /\ fails \in [Workers -> Nat]

\* Until the season ends, no two runs refresh batches of the shard at once.
OneBatchAtATime ==
  used.rollover = 0 => \A v, w \in Workers : Inside(v) /\ Inside(w) => v = w

\* Every position of a batch is one of the list the run has read, however the
\* board had grown or shrunk since the index was written.
BatchInList ==
  \A w \in Workers : Inside(w) => next[w] <= end[w] + 1 /\ end[w] < Cardinality(targets[w])

\* While the board stays the same and no batch has failed, everything before the
\* index was attempted: batches leave no gap, and a FINISHED shard left nothing.
Calm == used.change = 0 /\ used.rollover = 0 /\ used.failure = 0
PrefixAttempted ==
  Calm => \A k \in 0 .. index - 1 : k < Cardinality(board) => Target(board, k) \in attempted

\* Short of a crash the day's shard gets past everything on its board, members
\* that joined after it had been FINISHED included; failing batches do not hold it back.
DayFinishes ==
  []<>(used.crash > 0 \/ used.rollover > 0 \/ (state = "finished" /\ index >= Cardinality(board)))

\* "a per-day SyncState shard so worker restarts resume instead of restarting the
\* day's queue": the same without the exception for crashes.
WorkerRestartsResume ==
  []<>(used.rollover > 0 \/ (state = "finished" /\ index >= Cardinality(board)))

\* "refreshes subject metadata and episode air dates for every board member": a
\* FINISHED shard that is past its board has attempted all of it.
EveryMember ==
  state = "finished" /\ index >= Cardinality(board) => board \subseteq attempted
=============================================================================
