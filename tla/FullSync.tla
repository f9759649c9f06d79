------------------------------ MODULE FullSync ------------------------------
(***************************************************************************)
(* One phase of the full sync (apps/sync/tasks/scheduler.py, base.py,      *)
(* progress.py): a pool of threads works the shards of an id range off,    *)
(* each id through the provider's rate limiter; a shard's progress and the *)
(* ids that failed are written every now and then, in that order.  The     *)
(* command is started again after a crash and resumes.                     *)
(***************************************************************************)
EXTENDS RateLimiter, FiniteSets

CONSTANTS
  Shards,        \* first and last id of each shard, by its number
  Bad,           \* ids that fail after all retries
  MaxFailures    \* bound: failures of the process and exceptions outside a handler

Numbers == DOMAIN Shards
IdsOf(s) == Shards[s][1] .. Shards[s][2]
Ids == UNION {IdsOf(s) : s \in Numbers}

ASSUME FullSyncAssumption ==
  /\ MaxFailures \in Nat /\ Bad \subseteq Ids
  /\ Numbers \subseteq Nat /\ \A s \in Numbers : Shards[s] \in Nat \X Nat

VARIABLES
  status, current,       \* the SyncState row of each shard; "absent" before its first run
  ledger,                \* the SyncError rows
  phase,                 \* of the command: "off", "on" or "done"
  queue,                 \* shards the pool has not started
  pc, shard, at,         \* of each thread: its step, its shard, the id it is at
  buffer,                \* the failed ids it has in memory
  handled,               \* history: ids whose handler succeeded
  lost,                  \* history: failed ids that a crash took between two writes
  failures               \* history: what MaxFailures counts

rows    == <<status, current, ledger>>
work    == <<phase, queue, pc, shard, at, buffer, handled, lost, failures>>
vars    == <<rows, work, limiter>>

Init ==
  /\ status = [s \in Numbers |-> "absent"] /\ current = [s \in Numbers |-> 0] /\ ledger = {}
  /\ phase = "off" /\ queue = {}
  /\ pc = [t \in Workers |-> "idle"] /\ shard = [t \in Workers |-> 0] /\ at = [t \in Workers |-> 0]
  /\ buffer = [t \in Workers |-> {}]
  /\ handled = {} /\ lost = {} /\ failures = 0 /\ LimiterInit

Goto(t, l) == pc' = [pc EXCEPT ![t] = l]

-----------------------------------------------------------------------------
(***************************************************************************)
(* The command.                                                            *)
(***************************************************************************)
\* run_all: a phase whose rows are all FINISHED is skipped; a shard that was never
\* started has no row.
Skipped ==
  LET existing == {s \in Numbers : status[s] # "absent"} IN
  existing # {} /\ \A s \in existing : status[s] = "finished"
StartPhase ==
  /\ phase = "off"
  /\ IF Skipped THEN phase' = "done" /\ UNCHANGED queue ELSE phase' = "on" /\ queue' = Numbers
  /\ UNCHANGED <<rows, pc, shard, at, buffer, handled, lost, failures, limiter>>
\* The pool is waited for, then the first exception of a shard ends the command.
EndPhase ==
  /\ phase = "on" /\ queue = {} /\ \A t \in Workers : pc[t] = "idle"
  /\ phase' = IF \E s \in Numbers : status[s] = "failed" THEN "off" ELSE "done"
  /\ UNCHANGED <<rows, queue, pc, shard, at, buffer, handled, lost, failures, limiter>>

\* What a thread has counted behind its shard's progress and not yet in the ledger.
Unwritten(t) == IF pc[t] \in {"errors", "last errors"} THEN buffer[t] ELSE {}
\* The process dies, with everything its threads have in memory.
Crash ==
  /\ phase = "on" /\ failures < MaxFailures /\ failures' = failures + 1
  /\ phase' = "off" /\ queue' = {}
  /\ pc' = [t \in Workers |-> "idle"] /\ shard' = [t \in Workers |-> 0] /\ at' = [t \in Workers |-> 0]
  /\ lost' = lost \union UNION {Unwritten(t) : t \in Workers}
  /\ buffer' = [t \in Workers |-> {}]
  /\ gate' = [t \in Workers |-> "out"] /\ left' = [t \in Workers |-> 0]
  /\ UNCHANGED <<rows, handled, ttl, slot, since, burst, outlived, stalls>>

-----------------------------------------------------------------------------
(***************************************************************************)
(* _run_shard.                                                             *)
(***************************************************************************)
\* The shards are taken in order; the row is created or resumed.
StartShard(t) ==
  /\ phase = "on" /\ pc[t] = "idle"
  /\ \E s \in queue :
       /\ \A n \in queue : s <= n
       /\ queue' = queue \ {s} /\ status' = [status EXCEPT ![s] = "running"]
       /\ LET from == IF status[s] = "absent" THEN Shards[s][1] - 1 ELSE current[s] IN
          /\ current' = [current EXCEPT ![s] = from]
          /\ at' = [at EXCEPT ![t] = from + 1] /\ shard' = [shard EXCEPT ![t] = s]
  /\ Goto(t, "loop") /\ UNCHANGED <<ledger, phase, buffer, handled, lost, failures, limiter>>

\* The next id asks for a slot; after the last one comes the forced flush.
Loop(t) ==
  /\ pc[t] = "loop"
  /\ IF at[t] \in IdsOf(shard[t])
     THEN Goto(t, "handle") /\ gate' = [gate EXCEPT ![t] = "asking"]
     ELSE Goto(t, "last flush") /\ UNCHANGED gate
  /\ UNCHANGED <<rows, phase, queue, shard, at, buffer, handled, lost, failures,
                 ttl, slot, left, since, burst, outlived, stalls>>

Ask(t) ==
  /\ pc[t] = "handle" /\ Acquire(t) /\ UNCHANGED <<rows, work>>

\* _safe_handle: retried three times; a missing id counts as handled.
Handle(t) ==
  /\ pc[t] = "handle" /\ gate[t] = "granted" /\ gate' = [gate EXCEPT ![t] = "out"]
  /\ IF at[t] \in Bad THEN buffer' = [buffer EXCEPT ![t] = @ \union {at[t]}] /\ UNCHANGED handled
     ELSE handled' = handled \union {at[t]} /\ UNCHANGED buffer
  /\ Goto(t, "flush")
  /\ UNCHANGED <<rows, phase, queue, shard, at, lost, failures, ttl, slot, left, since, burst, outlived, stalls>>

\* flush(): every two seconds the row, then the ledger.
Flush(t) ==
  /\ pc[t] = "flush"
  /\ \/ current' = [current EXCEPT ![shard[t]] = at[t]] /\ Goto(t, "errors") /\ UNCHANGED at
     \/ Goto(t, "loop") /\ at' = [at EXCEPT ![t] = @ + 1] /\ UNCHANGED current
  /\ UNCHANGED <<status, ledger, phase, queue, shard, buffer, handled, lost, failures, limiter>>
FlushErrors(t) ==
  /\ pc[t] = "errors" /\ ledger' = ledger \union buffer[t] /\ buffer' = [buffer EXCEPT ![t] = {}]
  /\ Goto(t, "loop") /\ at' = [at EXCEPT ![t] = @ + 1]
  /\ UNCHANGED <<status, current, phase, queue, shard, handled, lost, failures, limiter>>

\* finish(): forced; then the row is FINISHED.
LastFlush(t) ==
  /\ pc[t] = "last flush" /\ current' = [current EXCEPT ![shard[t]] = Shards[shard[t]][2]]
  /\ Goto(t, "last errors")
  /\ UNCHANGED <<status, ledger, phase, queue, shard, at, buffer, handled, lost, failures, limiter>>
\* Faulty: nothing is due yet, so nothing is written.
FinishUnforced(t) ==
  /\ pc[t] = "last errors" /\ buffer' = [buffer EXCEPT ![t] = {}]
  /\ Goto(t, "finish")
  /\ UNCHANGED <<rows, phase, queue, shard, at, handled, lost, failures, limiter>>
LastErrors(t) ==
  /\ pc[t] = "last errors" /\ ledger' = ledger \union buffer[t] /\ buffer' = [buffer EXCEPT ![t] = {}]
  /\ Goto(t, "finish")
  /\ UNCHANGED <<status, current, phase, queue, shard, at, handled, lost, failures, limiter>>
FinishShard(t) ==
  /\ pc[t] = "finish" /\ status' = [status EXCEPT ![shard[t]] = "finished"] /\ Goto(t, "idle")
  /\ UNCHANGED <<current, ledger, phase, queue, shard, at, buffer, handled, lost, failures, limiter>>

\* An exception outside the handler: the row is FAILED, and what the thread had in memory
\* is gone; the pool goes on with the other shards.
FailShard(t) ==
  /\ pc[t] \in {"flush", "errors", "last flush", "last errors", "finish"}
  /\ failures < MaxFailures /\ failures' = failures + 1
  /\ status' = [status EXCEPT ![shard[t]] = "failed"] /\ Goto(t, "idle")
  /\ lost' = lost \union Unwritten(t) /\ buffer' = [buffer EXCEPT ![t] = {}]
  /\ UNCHANGED <<current, ledger, phase, queue, shard, at, handled, limiter>>

Shard(t) == StartShard(t) \/ Loop(t) \/ Handle(t) \/ Flush(t) \/ FlushErrors(t) \/ LastFlush(t)
            \/ LastErrors(t) \/ FinishShard(t)
Wait == Tick /\ UNCHANGED <<rows, work>>
Next ==
  \/ StartPhase \/ EndPhase \/ Crash \/ Wait
  \/ \E t \in Workers : Shard(t) \/ Ask(t) \/ FailShard(t)

\* The command is started again, threads go on, a client that finds the lock taken again
\* and again finds it free in the end, and time passes.
Fairness ==
  /\ WF_vars(StartPhase) /\ WF_vars(EndPhase) /\ WF_vars(Wait)
  /\ \A t \in Workers : WF_vars(Shard(t)) /\ SF_vars(Ask(t))
Safety == Init /\ [][Next]_vars
Spec == Safety /\ Fairness

-----------------------------------------------------------------------------
(***************************************************************************)
(* Properties.                                                             *)
(***************************************************************************)

\* Every id behind a shard's progress was handled, or is in the ledger, or in the memory
\* of a thread that is about to write it, or was taken by a crash between the two writes.
NothingForgotten ==
  \A s \in Numbers : status[s] # "absent" =>
    \A id \in IdsOf(s) : id <= current[s] =>
      \/ id \in handled \union ledger \union lost
      \/ \E t \in Workers : id \in Unwritten(t)

\* The phase ends, whatever crashed and whoever had the lock of the limiter then.
PhaseEnds == <>(phase = "done")
=============================================================================
