----------------------------- MODULE ImportJob -----------------------------
(***************************************************************************)
(* The life of one sync_job row (apps/sync/services/sync_job_service.py):  *)
(* the request that creates and dispatches it (api/views/import_jobs.py),  *)
(* the Celery tasks that claim and run it (tasks/vndb.py, anilist.py,      *)
(* mal.py), the command that runs it in its own process                    *)
(* (commands/sync_airing_daily.py) and the scan that fails stale ones      *)
(* (tasks/maintenance.py).                                                 *)
(*                                                                         *)
(* Every delivery of the job's message has the same Celery id, so the same *)
(* lease owner: the lease keeps no second delivery out.                    *)
(***************************************************************************)
EXTENDS Integers, FiniteSets

CONSTANTS
  Runners,      \* Celery slots, and the process of the command
  Task,         \* the owner every delivery of the message runs under
  NoOwner,
  Redelivery,   \* subset of BOOLEAN: may a dead run's message come back
  MaxCopies,    \* bound: messages delivered again while a run has them
  MaxTrouble    \* bound: crashes, exceptions and failed publications

ASSUME JobAssumption ==
  /\ Task # NoOwner /\ IsFiniteSet(Runners)
  /\ Redelivery \in (SUBSET BOOLEAN) \ {{}}
  /\ MaxCopies \in Nat /\ MaxTrouble \in Nat

VARIABLES
  kind,                      \* who asked: the "api" or the "command"
  request,                   \* how far the request or command has got
  status, owner, lease,      \* the row; lease is "none", "live" or "expired"
  processed, attempt,        \* its counters
  messages,                  \* copies of the message waiting at the broker
  pc,                        \* where each run is
  scan,                      \* whether the scan has selected the job
  imported,                  \* history: the import has been committed
  spared,                    \* history: the command found nothing it had to refresh
  copies, trouble            \* history: what the bounds count

row  == <<status, owner, lease, processed, attempt>>
work == <<imported, spared>>
vars == <<kind, request, row, messages, pc, scan, work, copies, trouble>>

Final == {"succeeded", "failed"}
Unfinished == status \in {"queued", "running"}
Inside(r) == pc[r] # "idle"

Init ==
  /\ kind \in {"api", "command"} /\ request = "new"
  /\ status = "absent" /\ owner = NoOwner /\ lease = "none"
  /\ processed = 0 /\ attempt = 0 /\ messages = 0
  /\ pc = [r \in Runners |-> "idle"]
  /\ scan = FALSE /\ imported = FALSE /\ spared = FALSE /\ copies = 0 /\ trouble = 0

Goto(r, l) == pc' = [pc EXCEPT ![r] = l]
Strike == trouble < MaxTrouble /\ trouble' = trouble + 1

-----------------------------------------------------------------------------
(***************************************************************************)
(* SyncJobService.                                                         *)
(***************************************************************************)
CreateJob == status = "absent" /\ status' = "queued" /\ UNCHANGED <<owner, lease, processed, attempt>>

\* claim() for the owner Task.
Claimable == Unfinished /\ (owner = Task \/ lease # "live")
\* Faulty: a new attempt starts its counters from nothing.
ClaimJobAfresh ==
  /\ status' = "running" /\ owner' = Task /\ lease' = "live" /\ attempt' = attempt + 1
  /\ processed' = 0
ClaimJob ==
  /\ status' = "running" /\ owner' = Task /\ lease' = "live" /\ attempt' = attempt + 1
  /\ UNCHANGED processed

\* mark_running() without an owner, as the command calls it: no lease.
MarkRunning ==
  /\ status' = IF Unfinished THEN "running" ELSE status
  /\ UNCHANGED <<owner, lease, processed, attempt>>

\* advance(): counts only while the job is RUNNING.
AdvanceJob ==
  /\ processed' = IF status = "running" THEN processed + 1 ELSE processed
  /\ UNCHANGED <<status, owner, lease, attempt>>

MarkSucceeded ==
  /\ status' = IF Unfinished THEN "succeeded" ELSE status
  /\ UNCHANGED <<owner, lease, processed, attempt>>

\* Faulty: no status is excluded.
MarkFailedAnyway == status' = "failed" /\ UNCHANGED <<owner, lease, processed, attempt>>
\* mark_failed(): every job but one that has SUCCEEDED.
MarkFailed ==
  /\ status' = IF status # "succeeded" THEN "failed" ELSE status
  /\ UNCHANGED <<owner, lease, processed, attempt>>

-----------------------------------------------------------------------------
(***************************************************************************)
(* The request: create, dispatch, bind; an exception fails the job.        *)
(***************************************************************************)
Create ==
  /\ request = "new" /\ CreateJob
  /\ request' = IF kind = "api" THEN "created" ELSE "started"
  /\ UNCHANGED <<kind, messages, pc, scan, work, copies, trouble>>

\* .delay(): the message is published, or not, or published and not confirmed.
Dispatch ==
  /\ request = "created"
  /\ \/ messages' = messages + 1 /\ request' = "sent" /\ UNCHANGED trouble
     \/ Strike /\ request' = "failing" /\ messages' \in {messages, messages + 1}
  /\ UNCHANGED <<kind, row, pc, scan, work, copies>>

\* bind_celery_task(); the answer to the client follows.
Bind ==
  /\ request = "sent"
  /\ \/ request' = "answered" /\ UNCHANGED trouble
     \/ Strike /\ request' = "failing"
  /\ UNCHANGED <<kind, row, messages, pc, scan, work, copies>>

\* The except clause fails the job, whoever has claimed it by then.
FailDispatch ==
  /\ request = "failing" /\ MarkFailed /\ request' = "answered"
  /\ UNCHANGED <<kind, messages, pc, scan, work, copies, trouble>>

\* The process dies; so does a command before its job is RUNNING.
RequestCrash ==
  /\ request \in {"created", "sent", "failing", "started"} /\ Strike /\ request' = "gone"
  /\ UNCHANGED <<kind, row, messages, pc, scan, work, copies>>

-----------------------------------------------------------------------------
(***************************************************************************)
(* A run of the job.                                                       *)
(***************************************************************************)
\* The task takes the message and claims the job, or skips it.  The mark_running
\* that follows a claim changes nothing but the label.
StartTask(r) ==
  /\ pc[r] = "idle" /\ messages > 0 /\ messages' = messages - 1
  /\ \/ Claimable /\ ClaimJob /\ Goto(r, "import")
     \/ ~ Claimable /\ UNCHANGED <<row, pc>>
  /\ UNCHANGED <<kind, request, scan, work, copies, trouble>>

\* The command runs sync_day in its own process, without a lease.
StartCommand(r) ==
  /\ kind = "command" /\ request = "started" /\ request' = "answered"
  /\ pc[r] = "idle" /\ MarkRunning /\ Goto(r, "import")
  /\ UNCHANGED <<kind, messages, scan, work, copies, trouble>>

\* The import commits, or raises.  sync_day imports a batch of targets the same way,
\* unless the board has none, the day is completed or another run has the batch.
Import(r) ==
  /\ pc[r] = "import"
  /\ \/ imported' = TRUE /\ Goto(r, "advance") /\ UNCHANGED <<spared, trouble>>
     \/ kind = "command" /\ spared' = TRUE /\ Goto(r, "skip") /\ UNCHANGED <<imported, trouble>>
     \/ Strike /\ Goto(r, "fail") /\ UNCHANGED work
  /\ UNCHANGED <<kind, request, row, messages, scan, copies>>

Advance(r) ==
  /\ pc[r] = "advance" /\ AdvanceJob /\ Goto(r, "succeed")
  /\ UNCHANGED <<kind, request, messages, scan, work, copies, trouble>>

Succeed(r) ==
  /\ pc[r] \in {"succeed", "skip"} /\ MarkSucceeded /\ Goto(r, "idle")
  /\ UNCHANGED <<kind, request, messages, scan, work, copies, trouble>>

Fail(r) ==
  /\ pc[r] = "fail" /\ MarkFailed /\ Goto(r, "idle")
  /\ UNCHANGED <<kind, request, messages, scan, work, copies, trouble>>

\* A database error or the soft time limit, outside the import.
Abort(r) ==
  /\ pc[r] \in {"advance", "succeed"} /\ Strike /\ Goto(r, "fail")
  /\ UNCHANGED <<kind, request, row, messages, scan, work, copies>>

\* The process is killed; its message comes back, or not.
Crash(r) ==
  /\ Inside(r) /\ Strike /\ Goto(r, "idle")
  /\ \E again \in Redelivery :
       messages' = IF again /\ kind = "api" THEN messages + 1 ELSE messages
  /\ UNCHANGED <<kind, request, row, scan, work, copies>>

\* The broker delivers a message that a run still has (visibility_timeout).
Duplicate ==
  /\ \E r \in Runners : Inside(r)
  /\ kind = "api" /\ copies < MaxCopies
  /\ copies' = copies + 1 /\ messages' = messages + 1
  /\ UNCHANGED <<kind, request, row, pc, scan, work, trouble>>

-----------------------------------------------------------------------------
(***************************************************************************)
(* The clock and scan_stale_sync_jobs.                                     *)
(***************************************************************************)
\* Tasks are killed after the seconds their lease lasts, so no run is left.
LeaseExpires ==
  /\ lease = "live" /\ \A r \in Runners : ~ Inside(r)
  /\ lease' = "expired"
  /\ UNCHANGED <<kind, request, status, owner, processed, attempt, messages, pc, scan,
                 work, copies, trouble>>

ScanSelect ==
  /\ status = "running" /\ lease = "expired" /\ ~ scan /\ scan' = TRUE
  /\ UNCHANGED <<kind, request, row, messages, pc, work, copies, trouble>>

\* mark_failed by primary key, whatever has happened to the job since.
ScanMark ==
  /\ scan /\ scan' = FALSE /\ MarkFailed
  /\ UNCHANGED <<kind, request, messages, pc, work, copies, trouble>>

Run(r) == StartTask(r) \/ StartCommand(r) \/ Import(r) \/ Advance(r) \/ Succeed(r) \/ Fail(r)
Request == Create \/ Dispatch \/ Bind \/ FailDispatch
Scan == ScanSelect \/ ScanMark
Next ==
  \/ Request \/ RequestCrash \/ Duplicate \/ LeaseExpires \/ Scan
  \/ \E r \in Runners : Run(r) \/ Abort(r) \/ Crash(r)

\* A process that runs goes on, workers take what waits, time passes and beat scans.
Fairness ==
  /\ WF_vars(Request) /\ WF_vars(LeaseExpires) /\ WF_vars(Scan)
  /\ \A r \in Runners : WF_vars(Run(r))
Safety == Init /\ [][Next]_vars
Spec == Safety /\ Fairness

-----------------------------------------------------------------------------
(***************************************************************************)
(* Properties.                                                             *)
(***************************************************************************)
\* Every variable holds a value of the kind the table and the code allow.
TypeOK ==
  /\ kind \in {"api", "command"}
  /\ request \in {"new", "created", "sent", "failing", "started", "answered", "gone"}
  /\ status \in {"absent", "queued", "running"} \union Final
  /\ owner \in {Task, NoOwner} /\ lease \in {"none", "live", "expired"}
  /\ processed \in Nat /\ attempt \in Nat /\ messages \in Nat /\ copies \in Nat /\ trouble \in Nat
  /\ pc \in [Runners -> {"idle", "import", "advance", "succeed", "skip", "fail"}]
  /\ scan \in BOOLEAN /\ imported \in BOOLEAN /\ spared \in BOOLEAN

\* What a success stands for: an import, or a command's word that there was none to do.
Performed == imported \/ spared

\* A job of the API that SUCCEEDED was imported and counted, however deliveries
\* overlapped, exceptions struck between the counter and the status, or the scan cut
\* in; no claimed run counts twice; and a command that SUCCEEDED without an import
\* had found nothing it had to refresh.
SucceededIsCounted ==
  /\ status = "succeeded" => Performed
  /\ kind = "api" =>
       /\ processed <= attempt
       /\ status = "succeeded" => imported /\ processed >= 1

\* The job is lost when nothing is left that could run it or find it: a QUEUED job
\* without a message or a request, a RUNNING one that has no lease and no process.
Lost ==
  /\ status # "absent" /\ Unfinished /\ request \in {"answered", "gone"} /\ messages = 0
  /\ ~ scan /\ \A r \in Runners : ~ Inside(r)
  /\ status = "queued" \/ lease = "none"

Phase ==
  IF Lost THEN "lost"
  ELSE IF status \in Final THEN status
  ELSE IF status = "running" THEN "held" ELSE "open"
Work == INSTANCE LeasedWork WITH phase <- Phase, performed <- Performed

\* The row keeps the promise of a leased piece of work: it settles once, for good,
\* as a success only after its import (a command's also when it was spared one), and
\* it does settle, unless its message or its process was lost.
JobKeepsPromise == Work!Spec
=============================================================================
