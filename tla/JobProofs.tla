----------------------------- MODULE JobProofs ------------------------------
(***************************************************************************)
(* Theorems about the two kinds of work that one row of the database stands *)
(* for: ImportJob, for any number of Celery slots, deliveries, crashes and *)
(* exceptions, and AgentRun, for any budget, number of tool calls and deaths *)
(* of its drivers.                                                         *)
(*                                                                         *)
(* A job that SUCCEEDED was imported and counted, no claim counts twice, and *)
(* the row refines LeasedWork.  A run of the agent sends the model         *)
(* well-formed transcripts, answers with its last step, stays within its   *)
(* budget, and its driver comes to an end.                                 *)
(***************************************************************************)
EXTENDS ImportJob, AgentRun, SequenceTheorems, FiniteSetTheorems, WellFoundedInduction, TLAPS

-----------------------------------------------------------------------------
(***************************************************************************)
(* The runs that a claim has not been counted for.                         *)
(***************************************************************************)
Busy == {r \in Runners : pc[r] \in {"import", "advance"}}

\* A run that leaves Busy takes one away, one that enters it adds one.
LEMMA BusyMoves ==
  ASSUME NEW S \in SUBSET Runners, NEW r \in Runners
  PROVE  /\ IsFiniteSet(S) /\ Cardinality(S) \in Nat
         /\ r \in S => Cardinality(S \ {r}) = Cardinality(S) - 1
         /\ r \notin S => Cardinality(S \union {r}) = Cardinality(S) + 1
<1>1. IsFiniteSet(S)
  BY JobAssumption, FS_Subset
<1>2. QED
  BY <1>1, FS_CardinalityType, FS_AddElement, FS_RemoveElement

\* What the run at a place in the code has already done.
Done ==
  \A r \in Runners :
    /\ pc[r] \in {"advance", "succeed"} => imported
    /\ pc[r] = "skip" => kind = "command" /\ spared
    /\ kind = "api" /\ pc[r] # "idle" => status \in {"running"} \union Final
    /\ kind = "api" /\ pc[r] = "succeed" => processed >= 1 \/ status \in Final
Counted == kind = "api" => processed + Cardinality(Busy) <= attempt

JobInv == TypeOK /\ Done /\ Counted /\ SucceededIsCounted

LEMMA JobInit == Init => JobInv
<1> SUFFICES ASSUME Init PROVE JobInv
  OBVIOUS
<1>1. Busy = {}
  BY DEF Init, Busy
<1>2. Cardinality(Busy) = 0
  BY <1>1, FS_EmptySet
<1>3. TypeOK
  BY DEF Init, TypeOK, Final
<1>4. Done /\ SucceededIsCounted
  BY DEF Init, Done, SucceededIsCounted, Performed
<1>5. QED
  BY <1>2, <1>3, <1>4 DEF Init, JobInv, Counted

\* Steps that move no run and count nothing: the rest of the invariant looks at the row.
LEMMA RowStep ==
  ASSUME JobInv, UNCHANGED <<kind, pc, work, processed, attempt>>, TypeOK',
         \/ status' = status
         \/ status = "absent" /\ status' = "queued"
         \/ status # "succeeded" /\ status' = "failed"
  PROVE  JobInv'
<1>1. Busy' = Busy
  BY DEF Busy
<1>2. Counted'
  BY <1>1 DEF JobInv, Counted
<1>3. Done' /\ SucceededIsCounted'
  BY DEF JobInv, TypeOK, Done, SucceededIsCounted, Performed, work, Final
<1>4. QED
  BY <1>2, <1>3 DEF JobInv

\* Steps of a run that leave the row alone and give a claim up or keep it.
LEMMA RunStep ==
  ASSUME JobInv, NEW r \in Runners, NEW l \in {"idle", "advance", "skip", "fail"}, Goto(r, l),
         UNCHANGED <<kind, row>>, imported => imported', spared => spared', TypeOK',
         l = "advance" => imported' /\ pc[r] = "import",
         l # "idle" => pc[r] # "idle",
         l = "skip" => kind = "command" /\ spared'
  PROVE  JobInv'
<1>1. Busy' \in SUBSET Runners /\ (Busy' = Busy \/ (r \in Busy /\ Busy' = Busy \ {r}))
  BY DEF Busy, Goto, JobInv, TypeOK
<1>2. Cardinality(Busy) \in Nat /\ Cardinality(Busy') \in Nat /\ Cardinality(Busy') <= Cardinality(Busy)
  <2>1. Busy \in SUBSET Runners
    BY DEF Busy
  <2>2. Cardinality(Busy) \in Nat
    BY <2>1, BusyMoves
  <2>3. Cardinality(Busy') \in Nat
    BY <1>1, BusyMoves
  <2>4. CASE r \in Busy /\ Busy' = Busy \ {r}
    <3>1. Cardinality(Busy \ {r}) = Cardinality(Busy) - 1
      BY <2>1, <2>4, BusyMoves
    <3>2. QED
      BY <2>2, <2>3, <2>4, <3>1
  <2>5. QED
    BY <1>1, <2>2, <2>4
<1>3. Counted'
  BY <1>2 DEF JobInv, Counted, TypeOK, row
<1>4. Done'
  BY DEF JobInv, TypeOK, Done, Goto, row
<1>5. SucceededIsCounted'
  BY DEF JobInv, SucceededIsCounted, Performed, row
<1>6. QED
  BY <1>3, <1>4, <1>5 DEF JobInv

LEMMA TypeStep == TypeOK /\ [Next]_vars => TypeOK'
<1> SUFFICES ASSUME TypeOK, [Next]_vars PROVE TypeOK'
  OBVIOUS
<1>1. CASE Request \/ RequestCrash
  BY <1>1, JobAssumption DEF TypeOK, Request, RequestCrash, Create, CreateJob, Dispatch, Bind, FailDispatch, MarkFailed,
     Strike, Final, row, work
<1>2. CASE Duplicate \/ LeaseExpires \/ Scan
  <2>1. ASSUME Duplicate PROVE TypeOK'
    BY <2>1 DEF TypeOK, Duplicate, Final, row, work
  <2>2. ASSUME LeaseExpires PROVE TypeOK'
    BY <2>2 DEF TypeOK, LeaseExpires, Final, work
  <2>3. ASSUME Scan PROVE TypeOK'
    BY <2>3 DEF TypeOK, Scan, ScanSelect, ScanMark, MarkFailed, Final, row, work
  <2>4. QED
    BY <1>2, <2>1, <2>2, <2>3
<1>3. ASSUME NEW r \in Runners, StartTask(r) \/ StartCommand(r) PROVE TypeOK'
  BY <1>3 DEF TypeOK, StartTask, StartCommand, Claimable, ClaimJob, MarkRunning, Goto, Final, row, work
<1>4. ASSUME NEW r \in Runners, Import(r) \/ Advance(r) \/ Succeed(r) \/ Fail(r) PROVE TypeOK'
  <2>1. ASSUME Import(r) PROVE TypeOK'
    <3>1. pc' \in [Runners -> {"idle", "import", "advance", "succeed", "skip", "fail"}]
      BY <2>1 DEF TypeOK, Import, Goto
    <3>2. trouble' \in Nat
      BY <2>1 DEF TypeOK, Import, Strike
    <3>3. imported' \in {TRUE, imported} /\ spared' \in {TRUE, spared}
      BY <2>1 DEF Import, work
    <3>4. imported' \in BOOLEAN /\ spared' \in BOOLEAN
      BY <3>3 DEF TypeOK
    <3>5. QED
      BY <2>1, <3>1, <3>2, <3>4 DEF TypeOK, Import, Final, row
  <2>2. ASSUME Advance(r) PROVE TypeOK'
    BY <2>2 DEF TypeOK, Advance, AdvanceJob, Goto, Final, work
  <2>3. ASSUME Succeed(r) PROVE TypeOK'
    BY <2>3 DEF TypeOK, Succeed, MarkSucceeded, Goto, Final, work
  <2>4. ASSUME Fail(r) PROVE TypeOK'
    BY <2>4 DEF TypeOK, Fail, MarkFailed, Goto, Final, work
  <2>5. QED
    BY <1>4, <2>1, <2>2, <2>3, <2>4
<1>5. ASSUME NEW r \in Runners, Abort(r) \/ Crash(r) PROVE TypeOK'
  BY <1>5, JobAssumption DEF TypeOK, Abort, Crash, Goto, Strike, row, work
<1>6. CASE UNCHANGED vars
  BY <1>6 DEF TypeOK, vars, row, work
<1>7. QED
  BY <1>1, <1>2, <1>3, <1>4, <1>5, <1>6 DEF Next, Run

LEMMA JobStep == JobInv /\ [Next]_vars => JobInv'
<1> SUFFICES ASSUME JobInv, [Next]_vars PROVE JobInv'
  OBVIOUS
<1>t. TypeOK'
  BY TypeStep DEF JobInv
<1>1. CASE Request \/ RequestCrash
  BY <1>1, <1>t, RowStep DEF Request, RequestCrash, Create, CreateJob, Dispatch, Bind, FailDispatch, MarkFailed, row
<1>2. CASE Duplicate \/ LeaseExpires \/ Scan
  BY <1>2, <1>t, RowStep DEF Duplicate, LeaseExpires, Scan, ScanSelect, ScanMark, MarkFailed, row
<1>3. ASSUME NEW r \in Runners, StartTask(r) PROVE JobInv'
  <2>1. CASE ~ Claimable
    BY <1>3, <2>1, <1>t, RowStep DEF StartTask, row
  <2>2. CASE Claimable
    <3>1. Busy \in SUBSET Runners /\ r \notin Busy /\ Busy' = Busy \union {r}
      BY <1>3, <2>2 DEF StartTask, ClaimJob, Goto, Busy, JobInv, TypeOK
    <3>2. Cardinality(Busy) \in Nat /\ Cardinality(Busy') = Cardinality(Busy) + 1
      BY <3>1, BusyMoves
    <3>3. UNCHANGED <<kind, processed, work>> /\ attempt' = attempt + 1 /\ status' = "running" /\ Goto(r, "import")
      BY <1>3, <2>2 DEF StartTask, ClaimJob
    <3>4. Counted'
      BY <3>2, <3>3 DEF JobInv, Counted, TypeOK
    <3>5. Done' /\ SucceededIsCounted'
      BY <2>2, <3>3 DEF JobInv, Done, SucceededIsCounted, TypeOK, Goto, Claimable, Unfinished, Final, Performed, work
    <3>6. QED
      BY <3>4, <3>5, <1>t DEF JobInv
  <2>3. QED
    BY <2>1, <2>2
<1>4. ASSUME NEW r \in Runners, StartCommand(r) PROVE JobInv'
  BY <1>4, <1>t DEF StartCommand, MarkRunning, Goto, JobInv, TypeOK, Done, Counted, SucceededIsCounted, Unfinished,
     Performed, work
<1>5. ASSUME NEW r \in Runners, Import(r) PROVE JobInv'
  <2>1. CASE imported' = TRUE /\ Goto(r, "advance") /\ UNCHANGED spared
    BY <1>5, <2>1, <1>t, RunStep DEF Import
  <2>2. CASE kind = "command" /\ spared' = TRUE /\ Goto(r, "skip") /\ UNCHANGED imported
    BY <1>5, <2>2, <1>t, RunStep DEF Import
  <2>3. CASE Goto(r, "fail") /\ UNCHANGED work
    BY <1>5, <2>3, <1>t, RunStep DEF Import, work
  <2>4. QED
    BY <1>5, <2>1, <2>2, <2>3 DEF Import
<1>6. ASSUME NEW r \in Runners, Advance(r) PROVE JobInv'
  <2>1. Busy \in SUBSET Runners /\ r \in Busy /\ Busy' = Busy \ {r}
    BY <1>6 DEF Advance, Goto, Busy, JobInv, TypeOK
  <2>2. Cardinality(Busy) \in Nat /\ Cardinality(Busy') = Cardinality(Busy) - 1
    BY <2>1, BusyMoves
  <2>3. /\ UNCHANGED <<kind, status, attempt, work>> /\ Goto(r, "succeed")
        /\ processed' = IF status = "running" THEN processed + 1 ELSE processed
    BY <1>6 DEF Advance, AdvanceJob
  <2>4. Counted'
    BY <2>2, <2>3 DEF JobInv, Counted, TypeOK
  <2>5. pc[r] = "advance"
    BY <1>6 DEF Advance
  <2>6. Done'
    BY <2>3, <2>5 DEF JobInv, Done, TypeOK, Goto, work
  <2>7. Counted' => SucceededIsCounted'
    <3>1. Cardinality(Busy') \in Nat
      BY BusyMoves, <2>1
    <3>2. QED
      BY <2>3, <3>1, <1>t DEF JobInv, Counted, SucceededIsCounted, TypeOK, Performed, work
  <2>8. QED
    BY <2>4, <2>6, <2>7, <1>t DEF JobInv
<1>7. ASSUME NEW r \in Runners, Succeed(r) PROVE JobInv'
  <2>1. /\ UNCHANGED <<kind, processed, attempt, work>> /\ Goto(r, "idle") /\ pc[r] \in {"succeed", "skip"}
        /\ status' = IF Unfinished THEN "succeeded" ELSE status
    BY <1>7 DEF Succeed, MarkSucceeded
  <2>2. Busy' = Busy
    BY <2>1 DEF Busy, Goto, JobInv, TypeOK
  <2>3. Counted'
    BY <2>1, <2>2 DEF JobInv, Counted
  <2>4. Done' /\ SucceededIsCounted'
    BY <2>1 DEF JobInv, Done, SucceededIsCounted, TypeOK, Goto, Unfinished, Final, Performed, work
  <2>5. QED
    BY <2>3, <2>4, <1>t DEF JobInv
<1>8. ASSUME NEW r \in Runners, Fail(r) PROVE JobInv'
  <2>1. /\ UNCHANGED <<kind, processed, attempt, work>> /\ Goto(r, "idle") /\ pc[r] = "fail"
        /\ status' = IF status # "succeeded" THEN "failed" ELSE status
    BY <1>8 DEF Fail, MarkFailed
  <2>2. Busy' = Busy
    BY <2>1 DEF Busy, Goto, JobInv, TypeOK
  <2>3. Counted'
    BY <2>1, <2>2 DEF JobInv, Counted
  <2>4. Done' /\ SucceededIsCounted'
    BY <2>1 DEF JobInv, Done, SucceededIsCounted, TypeOK, Goto, Final, Performed, work
  <2>5. QED
    BY <2>3, <2>4, <1>t DEF JobInv
<1>9. ASSUME NEW r \in Runners, Abort(r) PROVE JobInv'
  BY <1>9, <1>t, RunStep DEF Abort, work
<1>10. ASSUME NEW r \in Runners, Crash(r) PROVE JobInv'
  BY <1>10, <1>t, RunStep DEF Crash, work
<1>11. CASE UNCHANGED vars
  BY <1>11, <1>t, RowStep DEF vars, row
<1>12. QED
  BY <1>1, <1>2, <1>3, <1>4, <1>5, <1>6, <1>7, <1>8, <1>9, <1>10, <1>11 DEF Next, Run

LEMMA AlwaysJobInv == Safety => []JobInv
BY JobInit, JobStep, PTL DEF Safety

\* A job of the API that SUCCEEDED was imported and counted, no claim counts twice, and
\* a command that SUCCEEDED imported or was spared it: for any number of deliveries,
\* crashes, exceptions and scans (claim, advance, mark_succeeded and mark_failed of
\* SyncJobService).
THEOREM CountedOnce == Safety => []SucceededIsCounted
BY AlwaysJobInv, PTL DEF JobInv

-----------------------------------------------------------------------------
(***************************************************************************)
(* The refinement.  What each step does to the row, to the history of the  *)
(* import and to a lost job, is all that LeasedWork sees.                  *)
(***************************************************************************)
\* A job nobody has claimed has no lease, so a lost one is out of the scan's sight.
Unclaimed == status \in {"absent", "queued"} => lease = "none"

StatusMove ==
  \/ status' = status
  \/ status = "absent" /\ status' = "queued"
  \/ Unfinished /\ status' = "running"
  \/ status # "succeeded" /\ status' = "failed"
  \/ Unfinished /\ Performed /\ status' = "succeeded"
WorkMove ==
  \/ Performed' = Performed
  \/ Performed' = TRUE /\ status' = status /\ ~ Lost /\ ~ Lost'

LEMMA UnclaimedInit == Init => Unclaimed
BY DEF Init, Unclaimed

LEMMA UnclaimedStep == JobInv /\ Unclaimed /\ [Next]_vars => Unclaimed'
<1> SUFFICES ASSUME JobInv, Unclaimed, [Next]_vars PROVE Unclaimed'
  OBVIOUS
<1>1. CASE Request \/ RequestCrash
  BY <1>1 DEF Unclaimed, Request, RequestCrash, Create, CreateJob, Dispatch, Bind, FailDispatch, MarkFailed, row
<1>2. CASE Duplicate \/ LeaseExpires \/ Scan
  BY <1>2 DEF Unclaimed, Duplicate, LeaseExpires, Scan, ScanSelect, ScanMark, MarkFailed, row
<1>3. ASSUME NEW r \in Runners, StartTask(r) \/ StartCommand(r) PROVE Unclaimed'
  BY <1>3 DEF Unclaimed, StartTask, StartCommand, ClaimJob, MarkRunning, Unfinished, row
<1>4. ASSUME NEW r \in Runners, Import(r) \/ Advance(r) \/ Succeed(r) \/ Fail(r) \/ Abort(r) \/ Crash(r)
      PROVE  Unclaimed'
  BY <1>4 DEF Unclaimed, Import, Advance, AdvanceJob, Succeed, MarkSucceeded, Fail, MarkFailed, Abort, Crash,
     Unfinished, row
<1>5. CASE UNCHANGED vars
  BY <1>5 DEF Unclaimed, vars, row
<1>6. QED
  BY <1>1, <1>2, <1>3, <1>4, <1>5 DEF Next, Run

LEMMA RowMoves == JobInv /\ [Next]_vars => StatusMove /\ WorkMove
<1> SUFFICES ASSUME JobInv, [Next]_vars PROVE StatusMove /\ WorkMove
  OBVIOUS
<1>1. CASE Request \/ RequestCrash
  BY <1>1 DEF StatusMove, WorkMove, Request, RequestCrash, Create, CreateJob, Dispatch, Bind, FailDispatch,
     MarkFailed, row, work, Performed
<1>2. CASE Duplicate \/ LeaseExpires \/ Scan
  BY <1>2 DEF StatusMove, WorkMove, Duplicate, LeaseExpires, Scan, ScanSelect, ScanMark, MarkFailed, row, work,
     Performed
<1>3. ASSUME NEW r \in Runners, StartTask(r) \/ StartCommand(r) PROVE StatusMove /\ WorkMove
  BY <1>3 DEF StatusMove, WorkMove, StartTask, StartCommand, ClaimJob, Claimable, MarkRunning, row, work, Performed
<1>4. ASSUME NEW r \in Runners, Import(r) PROVE StatusMove /\ WorkMove
  <2>1. status' = status /\ Inside(r) /\ Inside(r)'
    BY <1>4 DEF Import, Goto, Inside, JobInv, TypeOK, row
  <2>2. ~ Lost /\ ~ Lost'
    BY <2>1 DEF Lost
  <2>3. Performed' = Performed \/ Performed' = TRUE
    <3>1. (imported' = imported /\ spared' = spared) \/ imported' = TRUE \/ spared' = TRUE
      BY <1>4 DEF Import, work
    <3>2. QED
      BY <3>1 DEF Performed
  <2>4. QED
    BY <2>1, <2>2, <2>3 DEF StatusMove, WorkMove
<1>5. ASSUME NEW r \in Runners, Succeed(r) PROVE StatusMove /\ WorkMove
  BY <1>5 DEF StatusMove, WorkMove, Succeed, MarkSucceeded, JobInv, Done, work, Performed
<1>6. ASSUME NEW r \in Runners, Advance(r) \/ Fail(r) \/ Abort(r) \/ Crash(r) PROVE StatusMove /\ WorkMove
  BY <1>6 DEF StatusMove, WorkMove, Advance, AdvanceJob, Fail, MarkFailed, Abort, Crash, row, work, Performed
<1>7. CASE UNCHANGED vars
  BY <1>7 DEF StatusMove, WorkMove, vars, row, work, Performed
<1>8. QED
  BY <1>1, <1>2, <1>3, <1>4, <1>5, <1>6, <1>7 DEF Next, Run

\* A lost job has nothing left that could take a step.
LEMMA LostStays == JobInv /\ Unclaimed /\ Lost /\ [Next]_vars => Lost' /\ status' = status
<1> SUFFICES ASSUME JobInv, Unclaimed, Lost, [Next]_vars PROVE Lost' /\ status' = status
  OBVIOUS
<1>1. CASE Request \/ RequestCrash \/ Duplicate
  BY <1>1 DEF Lost, Request, RequestCrash, Create, CreateJob, Dispatch, Bind, FailDispatch, Duplicate
<1>2. CASE LeaseExpires \/ Scan
  BY <1>2 DEF Lost, Unclaimed, LeaseExpires, Scan, ScanSelect, ScanMark
<1>3. ASSUME NEW r \in Runners, Run(r) \/ Abort(r) \/ Crash(r) PROVE FALSE
  BY <1>3 DEF Lost, Inside, JobInv, TypeOK, Run, StartTask, StartCommand, Import, Advance, Succeed, Fail, Abort, Crash
<1>4. CASE UNCHANGED vars
  BY <1>4 DEF Lost, Unfinished, Inside, vars, row
<1>5. QED
  BY <1>1, <1>2, <1>3, <1>4 DEF Next

LEMMA WorkInit == Init => Work!Init
BY DEF Init, Work!Init, Phase, Lost, Final, Performed

LEMMA WorkStep == JobInv /\ Unclaimed /\ [Next]_vars => [Work!Next]_<<Phase, Performed>>
<1> SUFFICES ASSUME JobInv, Unclaimed, [Next]_vars PROVE [Work!Next]_<<Phase, Performed>>
  OBVIOUS
<1>1. StatusMove /\ WorkMove
  BY RowMoves
<1>2. CASE Performed' = TRUE /\ status' = status /\ ~ Lost /\ ~ Lost'
  BY <1>2 DEF Work!Next, Work!Perform, Phase
<1>3. CASE Performed' = Performed /\ Lost
  BY <1>3, LostStays DEF Phase
<1>4. CASE Performed' = Performed /\ ~ Lost
  <2>1. CASE status \in Final
    <3>1. status' = status
      BY <1>1, <2>1 DEF StatusMove, Unfinished, Final
    <3>2. ~ Lost'
      BY <2>1, <3>1 DEF Lost, Unfinished, Final
    <3>3. QED
      BY <1>4, <3>1, <3>2 DEF Phase
  <2>2. CASE status \notin Final
    <3>1. Phase \in {"open", "held"} /\ Phase \notin Work!Settled
      BY <1>4, <2>2 DEF Phase, Work!Settled
    <3>2. CASE Lost'
      BY <1>4, <3>1, <3>2 DEF Phase, Work!Next, Work!Lose
    <3>3. CASE ~ Lost'
      BY <1>1, <1>4, <2>2, <3>1, <3>3 DEF StatusMove, Unfinished, Final, Phase, JobInv, TypeOK,
         Work!Next, Work!Hold, Work!Succeed, Work!Fail
    <3>4. QED
      BY <3>2, <3>3
  <2>3. QED
    BY <2>1, <2>2
<1>5. QED
  BY <1>1, <1>2, <1>3, <1>4 DEF WorkMove

\* The row of a job, seen through Phase, is a leased piece of work: whatever is
\* delivered, killed, scanned or failed to publish, it settles at most once, is lost
\* for good, and is called a success only after the import has been committed or, for
\* the command, after sync_day found nothing it had to refresh.
THEOREM JobRefinesWork == Safety => Work!Promise
<1>1. Init => JobInv /\ Unclaimed
  BY JobInit, UnclaimedInit
<1>2. JobInv /\ Unclaimed /\ [Next]_vars => (JobInv /\ Unclaimed)'
  BY JobStep, UnclaimedStep
<1>3. QED
  BY <1>1, <1>2, WorkInit, WorkStep, PTL DEF Safety, Work!Promise

-----------------------------------------------------------------------------
(***************************************************************************)
(* AgentRun: what a state of the run is, and the parts of its invariant.   *)
(***************************************************************************)

Roles      == {"system", "user", "assistant", "tool"}
Messages   == [role : Roles, calls : Nat]
StepStates == {"queued", "running", "succeeded", "failed"}
AgentSteps == [kind : {"model", "tool"}, status : StepStates]
Stages ==
  {"off", "start", "recover_steps", "recover_transcript", "seed", "prompt", "loop", "begin", "ask",
   "charge", "call", "execute", "answer", "check", "finish"}
\* The rows that grow, and everything else.
IsTranscript(t) == t \in Seq(Messages)
RowsTypeOK == IsTranscript(transcript) /\ steps \in Seq(AgentSteps)
FlatTypeOK ==
  /\ runStatus \in {"none", "queued", "running", "succeeded", "failed"} /\ stage \in Stages
  /\ charged \in Nat /\ budget \in Nat /\ calls \in Nat /\ turns \in Nat /\ runs \in Nat /\ deaths \in Nat
TornTypeOK == torn \in BOOLEAN
RunTypeOK == RowsTypeOK /\ FlatTypeOK /\ TornTypeOK

\* Exactly the calls of message i are answered, right after it.
Answered(t, i) ==
  /\ i + t[i].calls <= Len(t) /\ \A k \in 1 .. t[i].calls : t[i + k].role = "tool"
  /\ i + t[i].calls < Len(t) => t[i + t[i].calls + 1].role # "tool"
Headed(t) == Len(t) >= 2 /\ t[1].role = "system" /\ t[2].role = "user"
AnsweredBefore(t, p) == \A i \in 1 .. p - 1 : t[i].role = "assistant" => Answered(t, i)
Accepted(t) == Headed(t) /\ AnsweredBefore(t, Len(t) + 1)
\* Message p is the last completion, and n of its calls wait for their answers.
OpenAt(t, p, n) ==
  /\ p \in DOMAIN t /\ t[p].role = "assistant" /\ n <= t[p].calls /\ Len(t) = p + t[p].calls - n
  /\ \A i \in p + 1 .. Len(t) : t[i].role = "tool"
  /\ AnsweredBefore(t, p)
Waiting(t, n) == Headed(t) /\ \E p \in DOMAIN t : OpenAt(t, p, n)
\* What a driver that died left, when it was not torn.
CutOff(t) ==
  /\ Headed(t) /\ t[Len(t)].role = "assistant" /\ t[Len(t)].calls > 0
  /\ AnsweredBefore(t, Len(t))

InTurn == {"charge", "call", "execute", "answer", "check"}
\* Unless torn, the transcript at each place of the driver.
TranscriptInv ==
  ~ torn =>
    /\ stage \in {"off", "start", "recover_steps", "recover_transcript"} =>
         transcript = <<>> \/ Accepted(transcript) \/ CutOff(transcript)
    /\ stage = "seed" => transcript = <<>> \/ Accepted(transcript)
    /\ stage = "prompt" => Len(transcript) = 1 /\ transcript[1].role = "system"
    /\ stage \in {"loop", "begin", "ask", "finish"} => Accepted(transcript)
    /\ stage \in InTurn => Waiting(transcript, calls)
    /\ stage = "charge" => transcript[Len(transcript)].role = "assistant"
\* Tool calls are left where one is executed or answered, none at the end of a turn.
CallsInv ==
    /\ stage \in {"execute", "answer"} => calls > 0
    /\ stage = "check" => calls = 0

\* The steps that run, and the model step that only tool steps follow.
RunningSteps == {i \in DOMAIN steps : steps[i].status = "running"}
ModelAt(p) ==
  /\ p \in DOMAIN steps /\ steps[p].kind = "model"
  /\ \A i \in DOMAIN steps : i > p => steps[i].kind = "tool"
LastIsModel == Len(steps) \in DOMAIN steps /\ steps[Len(steps)].kind = "model"
\* The row's status and the steps at each place of the driver.
StepsInv ==
  /\ stage \in Stages \ {"off", "start"} => runStatus = "running"
  /\ stage = "start" => runStatus \in {"queued", "running"}
  /\ runStatus = "none" => steps = <<>>
  /\ stage \in {"recover_transcript", "seed", "prompt", "loop"} => RunningSteps = {}
  /\ stage = "begin" => RunningSteps = {} /\ LastIsModel
  /\ stage \in {"ask", "charge", "check"} => RunningSteps = {Len(steps)} /\ LastIsModel
  /\ stage \in {"call", "answer"} => \E p \in DOMAIN steps : ModelAt(p) /\ RunningSteps = {p}
  /\ stage = "execute" =>
       /\ \E p \in DOMAIN steps : ModelAt(p) /\ p \in RunningSteps /\ RunningSteps \subseteq {p, Len(steps)}
       /\ steps[Len(steps)].kind = "tool" /\ steps[Len(steps)].status \in {"queued", "running"}
  /\ stage = "finish" \/ runStatus = "succeeded" =>
       RunningSteps = {} /\ LastIsModel /\ steps[Len(steps)].status = "succeeded"

\* The driver's copy of the budget agrees with the row once it is read.
BudgetInv ==
  /\ charged <= MaxSteps
  /\ stage \in Stages \ {"off", "start", "recover_steps", "recover_transcript", "seed"} => budget = charged
  /\ stage \in {"begin", "ask", "charge"} => budget < MaxSteps
  /\ runStatus # "failed" => turns <= charged + deaths + (IF stage = "charge" THEN 1 ELSE 0)
  /\ turns <= MaxSteps + deaths
\* What the model was asked for, and what was charged.
TurnsBounded == turns <= MaxSteps + deaths /\ charged <= MaxSteps
CallsBound == calls <= MaxCalls

\* Bound on the steps of one turn; what a place in a turn still has to do.
PerTurn == 4 * MaxCalls + 6
WeightOf(l, n, s) ==
  CASE l = "start" -> 5 [] l = "recover_steps" -> 4 [] l = "recover_transcript" -> 3
    [] l = "seed" -> 2 [] l = "prompt" -> 1 [] l = "loop" -> 0
    [] l = "begin" -> -1 [] l = "ask" -> -2 [] l = "charge" -> -3
    [] l = "call" -> 4 * n + 1
    [] l = "execute" -> IF s = "queued" THEN 4 * n ELSE 4 * n - 1
    [] l = "answer" -> 4 * n - 2
    [] l = "check" -> 2 [] l = "finish" -> 1
    [] OTHER -> 0
Weight == WeightOf(stage, calls, Last(steps).status)
\* What is left of run(): the turns that the budget still pays for, and this one.
Left == IF stage = "off" THEN 0 ELSE 1 + (MaxSteps - charged) * PerTurn + Weight
LeftType == Left \in Nat
\* A step of the driver lowers that.
Works == [][Drive => Left' < Left]_runVars

-----------------------------------------------------------------------------
(***************************************************************************)
(* Sequences of steps and messages.                                        *)
(***************************************************************************)
\* A model step that only tool steps follow is the step of the turn.
LEMMA TurnStepIs ==
  ASSUME steps \in Seq(AgentSteps), NEW p, ModelAt(p)
  PROVE  TurnStep = p /\ p \in 1 .. Len(steps)
<1> DEFINE I == {i \in 1 .. Len(steps) : steps[i].kind = "model"}
<1>1. p \in I /\ \A i \in I : i <= p
  BY DEF ModelAt
<1>2. \A x \in I : (\A y \in I : x >= y) => x = p
  BY <1>1
<1>3. Max(I) = p
  BY <1>1, <1>2 DEF Max
<1>4. QED
  BY <1>1, <1>3 DEF TurnStep, SelectLastInSeq

\* What is appended comes last, what was there stays.
LEMMA Appended ==
  ASSUME NEW S, NEW s \in Seq(S), NEW e \in S
  PROVE  /\ Append(s, e) \in Seq(S) /\ Len(Append(s, e)) = Len(s) + 1
         /\ \A i \in 1 .. Len(s) : Append(s, e)[i] = s[i]
         /\ Append(s, e)[Len(s) + 1] = e
         /\ Len(s) \in Nat /\ DOMAIN s = 1 .. Len(s) /\ DOMAIN Append(s, e) = 1 .. Len(s) + 1
  BY AppendProperties, LenProperties

\* Settling a step changes its status only.
LEMMA SettledStep ==
  ASSUME steps \in Seq(AgentSteps), NEW p \in 1 .. Len(steps), NEW s \in StepStates, Settle(p, s)
  PROVE  /\ steps' \in Seq(AgentSteps) /\ Len(steps') = Len(steps) /\ DOMAIN steps' = DOMAIN steps
         /\ \A i \in DOMAIN steps :
              /\ steps'[i].kind = steps[i].kind
              /\ steps'[i].status = IF i = p THEN s ELSE steps[i].status
<1>1. DOMAIN steps = 1 .. Len(steps) /\ steps[p] \in AgentSteps
  BY ElementOfSeq, LenProperties
<1>2. [steps[p] EXCEPT !.status = s] \in AgentSteps
  BY <1>1 DEF AgentSteps
<1>3. steps' = [steps EXCEPT ![p] = [steps[p] EXCEPT !.status = s]]
  BY DEF Settle
<1>4. steps' \in Seq(AgentSteps) /\ Len(steps') = Len(steps)
  BY <1>2, <1>3, ExceptSeq
<1>5. \A i \in DOMAIN steps : steps'[i] = IF i = p THEN [steps[p] EXCEPT !.status = s] ELSE steps[i]
  BY <1>3, <1>1
<1>6. QED
  BY <1>1, <1>3, <1>4, <1>5 DEF AgentSteps

-----------------------------------------------------------------------------
(***************************************************************************)
(* Types, and where a driver is.                                           *)
(***************************************************************************)
LEMMA RunTypeInit == RunInit => RunTypeOK
<1> SUFFICES ASSUME RunInit PROVE RunTypeOK
  OBVIOUS
<1>1. RowsTypeOK
  BY EmptySeq DEF RunInit, RowsTypeOK, IsTranscript
<1>2. FlatTypeOK
  BY DEF RunInit, FlatTypeOK, Stages
<1>3. QED
  BY <1>1, <1>2 DEF RunInit, RunTypeOK, TornTypeOK

LEMMA Spoken ==
  ASSUME RunTypeOK, NEW role \in Roles, NEW n \in Nat, Say(role, n)
  PROVE  transcript' \in Seq(Messages)
<1>1. Message(role, n) \in Messages
  BY DEF Message, Messages
<1>2. QED
  BY <1>1, Appended DEF Say, RunTypeOK, RowsTypeOK, IsTranscript

LEMMA StepAdded ==
  ASSUME RunTypeOK, NEW what \in {"model", "tool"}, steps' = Append(steps, Step(what, "queued"))
  PROVE  /\ steps' \in Seq(AgentSteps) /\ Len(steps') = Len(steps) + 1 /\ Len(steps) \in Nat
         /\ DOMAIN steps = 1 .. Len(steps) /\ DOMAIN steps' = 1 .. Len(steps) + 1
         /\ \A i \in 1 .. Len(steps) : steps'[i] = steps[i]
         /\ steps'[Len(steps) + 1] = Step(what, "queued")
<1>1. Step(what, "queued") \in AgentSteps
  BY DEF Step, AgentSteps, StepStates
<1>2. QED
  BY <1>1, Appended DEF RunTypeOK, RowsTypeOK

\* The last step is there once the driver is in a turn.
LEMMA TurnPlace ==
  ASSUME RunTypeOK, StepsInv,
         stage \in {"begin", "ask", "charge", "call", "execute", "answer", "check", "finish"}
  PROVE  /\ \E p \in 1 .. Len(steps) : ModelAt(p) /\ TurnStep = p
         /\ Len(steps) \in 1 .. Len(steps) /\ Last(steps) = steps[Len(steps)]
         /\ DOMAIN steps = 1 .. Len(steps) /\ Len(steps) \in Nat
<1>1. steps \in Seq(AgentSteps) /\ DOMAIN steps = 1 .. Len(steps) /\ Len(steps) \in Nat
  BY LenProperties DEF RunTypeOK, RowsTypeOK
<1>2. \E p \in DOMAIN steps : ModelAt(p)
  <2>1. LastIsModel => ModelAt(Len(steps)) /\ Len(steps) \in DOMAIN steps
    BY <1>1 DEF LastIsModel, ModelAt
  <2>2. QED
    BY <2>1 DEF StepsInv
<1>3. QED
  BY <1>1, <1>2, TurnStepIs DEF Last

Below == {ss \in Nat \X Nat : ss[1] < ss[2]}
LEMMA BelowWellFounded == IsWellFoundedOn(Below, Nat)
<1>1. OpToRel(<, Nat) = Below
  BY DEF OpToRel, Below
<1>2. QED
  BY <1>1, NatLessThanWellFounded

\* A set of naturals that is not empty has a least element.
LEMMA Least ==
  ASSUME NEW S \in SUBSET Nat, S # {}
  PROVE  /\ (CHOOSE i \in S : \A j \in S : i <= j) \in S
         /\ \A j \in S : (CHOOSE i \in S : \A k \in S : i <= k) <= j
<1>1. PICK n \in S : \A m \in S : ~ (<<m, n>> \in Below)
  BY BelowWellFounded, WFMin
<1>2. \A m \in S : <<m, n>> \in Below <=> m < n
  BY DEF Below
<1>3. n \in Nat /\ \A m \in S : m \in Nat
  OBVIOUS
<1>4. \A m \in S : ~ (m < n)
  BY <1>1, <1>2
<1>5. \A m \in S : n <= m
  BY <1>3, <1>4
<1>6. QED
  BY <1>5

\* What recovery keeps is a prefix of the transcript.
LEMMA Recovered ==
  ASSUME RunTypeOK, RecoverTranscript
  PROVE  /\ transcript' \in Seq(Messages) /\ Len(transcript') <= Len(transcript)
         /\ \A i \in 1 .. Len(transcript') : transcript'[i] = transcript[i]
<1> DEFINE bad == {i \in DOMAIN transcript : Unanswered(i)}
           first == CHOOSE i \in bad : \A j \in bad : i <= j
<1>1. /\ Len(transcript) \in Nat /\ \A i \in 1 .. Len(transcript) : transcript[i] \in Messages
      /\ transcript \in Seq(Messages) /\ DOMAIN transcript = 1 .. Len(transcript)
  BY LenProperties, ElementOfSeq DEF RunTypeOK, RowsTypeOK, IsTranscript
<1>2. CASE bad = {}
  <2>1. transcript' = transcript
    BY <1>2 DEF RecoverTranscript
  <2>2. QED
    BY <1>1, <2>1
<1>3. CASE bad # {}
  <2>1. bad \in SUBSET Nat
    BY <1>1
  <2>2. first \in bad
    <3> HIDE DEF bad
    <3>1. QED
      BY <1>3, <2>1, Least
  <2>3. first \in 1 .. Len(transcript) /\ first - 1 \in Nat /\ first - 1 <= Len(transcript)
    BY <2>2, <1>1
  <2>4. transcript' = SubSeq(transcript, 1, first - 1)
    BY <1>3 DEF RecoverTranscript
  <2> HIDE DEF first
  <2>5. \A i \in 1 .. first - 1 : transcript[i] \in Messages
    BY <1>1, <2>3
  <2>6. /\ transcript' \in Seq(Messages) /\ Len(transcript') = first - 1
        /\ \A i \in 1 .. first - 1 : transcript'[i] = transcript[i]
    BY <2>3, <2>4, <2>5, SubSeqProperties
  <2>7. QED
    BY <2>3, <2>6
<1>4. QED
  BY <1>2, <1>3

LEMMA RowsTypeStep == RunTypeOK /\ StepsInv /\ [RunNext]_runVars => RowsTypeOK'
<1> SUFFICES ASSUME RunTypeOK, StepsInv, [RunNext]_runVars PROVE RowsTypeOK'
  OBVIOUS
<1> USE DEF runRow, driver
<1> USE DEF IsTranscript
<1>0. /\ transcript \in Seq(Messages) /\ steps \in Seq(AgentSteps)
      /\ calls \in Nat /\ {MaxSteps, MaxCalls, MaxRuns, MaxDeaths} \subseteq Nat
  BY AgentAssumption DEF RunTypeOK, RowsTypeOK, FlatTypeOK
<1>1. CASE Recall
  BY <1>1, EmptySeq DEF Recall, RowsTypeOK
<1>2. CASE Resume \/ Die \/ Start \/ Charge \/ UNCHANGED runVars
  <2>1. UNCHANGED <<transcript, steps>>
    BY <1>2 DEF Resume, Die, Start, Charge, runVars
  <2>2. QED
    BY <1>0, <2>1 DEF RowsTypeOK
<1>3. CASE RecoverSteps
  <2>1. \A i \in 1 .. Len(steps) : steps[i] \in AgentSteps
    BY <1>0, ElementOfSeq
  <2>2. \A i \in 1 .. Len(steps) : [steps[i] EXCEPT !.status = "failed"] \in AgentSteps
    BY <2>1 DEF AgentSteps, StepStates
  <2>3. DOMAIN steps = 1 .. Len(steps) /\ Len(steps) \in Nat
    BY <1>0, LenProperties
  <2> DEFINE New(i) == IF steps[i].status = "running" THEN [steps[i] EXCEPT !.status = "failed"] ELSE steps[i]
  <2>4. steps' = [i \in 1 .. Len(steps) |-> New(i)] /\ UNCHANGED transcript
    BY <1>3, <2>3 DEF RecoverSteps
  <2>5. \A i \in 1 .. Len(steps) : New(i) \in AgentSteps
    BY <2>1, <2>2
  <2> HIDE DEF New
  <2>6. steps' \in Seq(AgentSteps)
    BY <2>3, <2>4, <2>5
  <2>7. QED
    BY <1>0, <2>4, <2>6 DEF RowsTypeOK
<1>4. CASE RecoverTranscript
  <2>1. transcript' \in Seq(Messages)
    BY <1>4, Recovered
  <2>2. UNCHANGED steps
    BY <1>4 DEF RecoverTranscript
  <2>3. QED
    BY <1>0, <2>1, <2>2 DEF RowsTypeOK
<1>5. CASE Seed \/ Prompt
  <2>1. transcript' \in Seq(Messages)
    BY <1>5, <1>0, Spoken DEF Seed, Prompt, Roles
  <2>2. UNCHANGED steps
    BY <1>5 DEF Seed, Prompt
  <2>3. QED
    BY <1>0, <2>1, <2>2 DEF RowsTypeOK
<1>6. CASE Loop
  <2>1. steps' \in Seq(AgentSteps)
    BY <1>6, <1>0, StepAdded DEF Loop
  <2>2. UNCHANGED transcript
    BY <1>6 DEF Loop
  <2>3. QED
    BY <1>0, <2>1, <2>2 DEF RowsTypeOK
<1>7. CASE Ask
  <2>1. transcript' \in Seq(Messages)
    BY <1>7, <1>0, Spoken DEF Ask, Roles
  <2>2. UNCHANGED steps
    BY <1>7 DEF Ask
  <2>3. QED
    BY <1>0, <2>1, <2>2 DEF RowsTypeOK
<1>8. CASE Call
  <2>1. transcript' \in Seq(Messages)
    BY <1>8, <1>0, Spoken DEF Call, Roles
  <2>2. steps' \in Seq(AgentSteps)
    BY <1>8, <1>0, TurnPlace, SettledStep, StepAdded DEF Call, StepStates
  <2>3. QED
    BY <2>1, <2>2 DEF RowsTypeOK
<1>9. CASE BeginTurn \/ Execute \/ RunTool \/ Finish
  <2>1. steps' \in Seq(AgentSteps)
    BY <1>9, <1>0, TurnPlace, SettledStep DEF BeginTurn, Execute, RunTool, Finish, StepStates
  <2>2. UNCHANGED transcript
    BY <1>9 DEF BeginTurn, Execute, RunTool, Finish
  <2>3. QED
    BY <1>0, <2>1, <2>2 DEF RowsTypeOK
<1>10. CASE AnswerCall
  <2>1. transcript' \in Seq(Messages)
    BY <1>10, Spoken DEF AnswerCall, Roles
  <2>2. UNCHANGED steps
    BY <1>10 DEF AnswerCall
  <2>3. QED
    BY <1>0, <2>1, <2>2 DEF RowsTypeOK
<1>11. QED
  BY <1>1, <1>2, <1>3, <1>4, <1>5, <1>6, <1>7, <1>8, <1>9, <1>10 DEF RunNext, Drive

LEMMA TornTypeStep == RunTypeOK /\ [RunNext]_runVars => TornTypeOK'
<1> SUFFICES ASSUME RunTypeOK, [RunNext]_runVars PROVE TornTypeOK'
  OBVIOUS
<1>1. CASE Recall
  BY <1>1 DEF Recall, TornTypeOK
<1>2. CASE Die
  <2>1. torn' = (torn \/ Between)
    BY <1>2 DEF Die
  <2>2. QED
    BY <2>1 DEF TornTypeOK
<1>3. CASE UNCHANGED torn
  BY <1>3 DEF RunTypeOK, TornTypeOK
<1>4. QED
  BY <1>1, <1>2, <1>3 DEF RunNext, Drive, Resume, Start, RecoverSteps, RecoverTranscript, Seed, Prompt,
     Loop, BeginTurn, Ask, Charge, Call, Execute, RunTool, AnswerCall, Finish, runVars

LEMMA FlatTypeStep == RunTypeOK /\ CallsInv /\ [RunNext]_runVars => FlatTypeOK'
<1> SUFFICES ASSUME FlatTypeOK, CallsInv, [RunNext]_runVars PROVE FlatTypeOK'
  BY DEF RunTypeOK
<1> USE DEF runRow, driver, Enter
<1>0. {MaxSteps, MaxCalls, MaxRuns, MaxDeaths} \subseteq Nat
  BY AgentAssumption
<1>1. CASE Recall \/ Resume
  BY <1>1 DEF Recall, Resume, FlatTypeOK, Stages
<1>2. CASE Die
  <2>1. /\ stage' = "off" /\ budget' = 0 /\ calls' = 0 /\ deaths' = deaths + 1
        /\ UNCHANGED <<runStatus, charged, turns, runs>>
    BY <1>2, Zenon DEF Die
  <2>2. QED
    BY <2>1 DEF FlatTypeOK, Stages
<1>3. CASE Start \/ RecoverSteps \/ RecoverTranscript \/ Seed \/ Prompt \/ BeginTurn
  BY <1>3 DEF Start, RecoverSteps, RecoverTranscript, Seed, Prompt, BeginTurn, FlatTypeOK, Stages
<1>4. CASE Loop \/ Finish
  <2>1. /\ runStatus' \in {runStatus, "failed", "succeeded"} /\ stage' \in {"off", "begin", "finish"}
        /\ budget' \in {budget, 0} /\ calls' \in {calls, 0} /\ UNCHANGED <<charged, turns, runs, deaths>>
    BY <1>4, Zenon DEF Loop, Finish, FailRun
  <2>2. QED
    BY <2>1 DEF FlatTypeOK, Stages
<1>5. CASE Ask
  <2>1. /\ runStatus' \in {runStatus, "failed"} /\ stage' \in {"off", "charge"} /\ turns' \in {turns, turns + 1}
        /\ budget' \in {budget, 0} /\ calls' \in 0 .. MaxCalls \cup {0} /\ UNCHANGED <<charged, runs, deaths>>
    BY <1>5, Zenon DEF Ask, FailRun
  <2>2. QED
    BY <1>0, <2>1 DEF FlatTypeOK, Stages
<1>6. CASE Charge
  <2>1. /\ runStatus' \in {runStatus, "failed"} /\ stage' \in {"off", "check", "call"}
        /\ budget' \in {budget + 1, 0} /\ charged' \in {charged, budget + 1} /\ calls' \in {calls, 0}
        /\ UNCHANGED <<turns, runs, deaths>>
    BY <1>6, Zenon DEF Charge, FailRun
  <2>2. QED
    BY <2>1 DEF FlatTypeOK, Stages
<1>7. CASE Call
  <2>1. /\ stage' \in {stage, "execute", "loop"} /\ ((calls > 0 /\ calls' = calls - 1) \/ calls' = calls)
        /\ UNCHANGED <<runStatus, charged, budget, turns, runs, deaths>>
    BY <1>7, Zenon DEF Call
  <2>2. QED
    BY <2>1 DEF FlatTypeOK, Stages
<1>8. CASE Execute \/ RunTool \/ AnswerCall
  <2>1. /\ stage' \in {stage, "answer", "call"} /\ ((calls > 0 /\ calls' = calls - 1) \/ calls' = calls)
        /\ UNCHANGED <<runStatus, charged, budget, turns, runs, deaths>>
    BY <1>8, Zenon DEF Execute, RunTool, AnswerCall, CallsInv
  <2>2. QED
    BY <2>1 DEF FlatTypeOK, Stages
<1>9. CASE UNCHANGED runVars
  BY <1>9 DEF runVars, FlatTypeOK
<1>10. QED
  BY <1>1, <1>2, <1>3, <1>4, <1>5, <1>6, <1>7, <1>8, <1>9 DEF RunNext, Drive

LEMMA RunTypeStep == RunTypeOK /\ StepsInv /\ CallsInv /\ [RunNext]_runVars => RunTypeOK'
  BY RowsTypeStep, FlatTypeStep, TornTypeStep DEF RunTypeOK
-----------------------------------------------------------------------------
(***************************************************************************)
(* Transcripts.                                                            *)
(***************************************************************************)
LEMMA MessageAt ==
  ASSUME NEW t, IsTranscript(t)
  PROVE  /\ Len(t) \in Nat /\ DOMAIN t = 1 .. Len(t)
         /\ \A i \in 1 .. Len(t) : t[i] \in Messages /\ t[i].calls \in Nat
<1>1. t \in Seq(Messages)
  BY DEF IsTranscript
<1>2. \A i \in 1 .. Len(t) : t[i] \in Messages
  BY <1>1, ElementOfSeq
<1>3. QED
  BY <1>1, <1>2, LenProperties DEF Messages

LEMMA AtMost ==
  ASSUME NEW a \in Int, NEW b \in Int, a <= b
  PROVE  a < b \/ a = b
  OBVIOUS

LEMMA Above ==
  ASSUME NEW a \in Int, NEW b \in Int, a < b
  PROVE  b \in a + 1 .. b
  OBVIOUS

LEMMA AddLess ==
  ASSUME NEW r \in Nat, NEW a \in Int, NEW b \in Int, a < b
  PROVE  1 + r + a < 1 + r + b
  OBVIOUS

LEMMA OneLess ==
  ASSUME NEW c \in Nat, NEW n \in Nat \ {0}, NEW p \in Nat, n <= c
  PROVE  n - 1 <= c /\ p + c - n + 1 = p + c - (n - 1)
  OBVIOUS

LEMMA MessageAdded ==
  ASSUME NEW t, IsTranscript(t), NEW m \in Messages
  PROVE  /\ IsTranscript(Append(t, m)) /\ Len(Append(t, m)) = Len(t) + 1
         /\ \A i \in 1 .. Len(t) : Append(t, m)[i] = t[i]
         /\ Append(t, m)[Len(t) + 1] = m
  BY Appended DEF IsTranscript

\* A message that is answered within the part two transcripts share, and not answered
\* further behind it, is answered in both.
LEMMA AnsweredAlike ==
  ASSUME NEW t, IsTranscript(t), NEW u, IsTranscript(u),
         NEW m \in Nat, m <= Len(t), m <= Len(u), \A j \in 1 .. m : u[j] = t[j],
         NEW i \in 1 .. m, Answered(t, i), i + t[i].calls <= m,
         i + t[i].calls < m \/ Len(u) = m \/ u[m + 1].role # "tool"
  PROVE  Answered(u, i)
<1>1. Len(t) \in Nat /\ Len(u) \in Nat /\ i \in 1 .. Len(t)
  BY MessageAt
<1>2. t[i].calls \in Nat /\ u[i] = t[i]
  BY <1>1, MessageAt
<1>3. ASSUME NEW k \in 1 .. t[i].calls PROVE u[i + k].role = "tool"
  <2>1. i + k \in 1 .. m
    BY <1>1, <1>2
  <2>2. u[i + k] = t[i + k] /\ t[i + k].role = "tool"
    BY <2>1 DEF Answered
  <2>3. QED
    BY <2>2
<1>4. ASSUME i + t[i].calls < Len(u) PROVE u[i + t[i].calls + 1].role # "tool"
  <2>1. CASE i + t[i].calls < m
    <3>1. i + t[i].calls + 1 \in 1 .. m /\ i + t[i].calls < Len(t)
      BY <1>1, <1>2, <2>1
    <3>2. u[i + t[i].calls + 1] = t[i + t[i].calls + 1] /\ t[i + t[i].calls + 1].role # "tool"
      BY <3>1 DEF Answered
    <3>3. QED
      BY <3>2
  <2>2. CASE i + t[i].calls = m
    <3>1. u[m + 1].role # "tool"
      BY <1>4, <2>2
    <3>2. QED
      BY <3>1, <2>2, Zenon
  <2>3. i + t[i].calls < m \/ i + t[i].calls = m
    <3>1. i + t[i].calls \in Int /\ m \in Int
      BY <1>2
    <3>2. QED
      BY <3>1, AtMost, Zenon
  <2>4. QED
    BY <2>1, <2>2, <2>3, Zenon
<1>5. QED
  BY <1>1, <1>2, <1>3, <1>4 DEF Answered

\* An answered message that an assistant message follows is answered before that one.
LEMMA AnsweredInFront ==
  ASSUME NEW t, IsTranscript(t), NEW i \in 1 .. Len(t), NEW p \in 1 .. Len(t), i < p,
         t[p].role = "assistant", Answered(t, i)
  PROVE  i + t[i].calls < p /\ t[i].calls \in Nat
<1>1. Len(t) \in Nat /\ t[i].calls \in Nat
  BY MessageAt
<1>2. CASE i + t[i].calls >= p
  <2>1. p - i \in 1 .. t[i].calls /\ i + (p - i) = p
    BY <1>1, <1>2
  <2>2. t[i + (p - i)].role = "tool"
    BY <2>1 DEF Answered
  <2>3. QED
    BY <2>1, <2>2
<1>3. QED
  BY <1>1, <1>2

\* What is answered before an assistant message stays so when something is appended.
LEMMA StaysAnswered ==
  ASSUME NEW t, IsTranscript(t), NEW m \in Messages, NEW p \in 1 .. Len(t) + 1,
         AnsweredBefore(t, p), IF p = Len(t) + 1 THEN m.role # "tool" ELSE t[p].role = "assistant"
  PROVE  AnsweredBefore(Append(t, m), p)
<1> DEFINE u == Append(t, m)
<1>1. /\ IsTranscript(u) /\ Len(u) = Len(t) + 1 /\ \A i \in 1 .. Len(t) : u[i] = t[i]
      /\ u[Len(t) + 1] = m /\ Len(t) \in Nat
  BY MessageAdded, MessageAt
<1> HIDE DEF u
<1> SUFFICES ASSUME NEW i \in 1 .. p - 1, u[i].role = "assistant" PROVE Answered(u, i)
  BY DEF AnsweredBefore, u
<1>2. i \in 1 .. Len(t) /\ i < p /\ t[i].role = "assistant"
  BY <1>1
<1>3. Answered(t, i)
  BY <1>2 DEF AnsweredBefore
<1>4. t[i].calls \in Nat /\ i + t[i].calls <= Len(t)
  BY <1>2, <1>3, MessageAt DEF Answered
<1>5. i + t[i].calls < Len(t) \/ u[Len(t) + 1].role # "tool"
  <2>1. CASE p = Len(t) + 1
    BY <1>1, <2>1
  <2>2. CASE p # Len(t) + 1
    <3>1. p \in 1 .. Len(t) /\ t[p].role = "assistant"
      BY <1>1, <2>2
    <3>2. i + t[i].calls < p
      BY <1>2, <1>3, <3>1, AnsweredInFront
    <3>3. QED
      BY <1>1, <1>4, <3>1, <3>2
  <2>3. QED
    BY <2>1, <2>2
<1>6. Len(t) <= Len(u) /\ Len(t) <= Len(t)
  BY <1>1
<1>7. QED
  BY <1>1, <1>2, <1>3, <1>4, <1>5, <1>6, AnsweredAlike

LEMMA Asked ==
  ASSUME NEW t, IsTranscript(t), Accepted(t), NEW n \in Nat
  PROVE  Waiting(Append(t, Message("assistant", n)), n)
<1> DEFINE m == Message("assistant", n)
           u == Append(t, m)
           p == Len(t) + 1
<1>1. m \in Messages /\ m.role = "assistant" /\ m.calls = n
  BY DEF Message, Messages, Roles
<1> HIDE DEF m
<1>2. /\ IsTranscript(u) /\ Len(u) = Len(t) + 1 /\ \A i \in 1 .. Len(t) : u[i] = t[i]
      /\ u[Len(t) + 1] = m /\ Len(t) \in Nat
  BY <1>1, MessageAdded, MessageAt
<1>3. AnsweredBefore(u, p)
  BY <1>1, <1>2, StaysAnswered DEF Accepted
<1> HIDE DEF u
<1>4. DOMAIN u = 1 .. Len(u)
  BY <1>2, MessageAt
<1>5. p \in Nat /\ p \in DOMAIN u /\ Len(u) = p /\ u[p] = m /\ Len(u) = p + n - n
  BY <1>2, <1>4
<1>6. Headed(u)
  BY <1>2 DEF Accepted, Headed
<1> HIDE DEF p
<1>7. \A i \in p + 1 .. Len(u) : u[i].role = "tool"
  BY <1>5
<1>8. OpenAt(u, p, n)
  BY <1>1, <1>3, <1>5, <1>7 DEF OpenAt
<1>9. QED
  BY <1>5, <1>6, <1>8 DEF Waiting, u, m

LEMMA AnswerGiven ==
  ASSUME NEW t, IsTranscript(t), NEW n \in Nat \ {0}, Waiting(t, n)
  PROVE  Waiting(Append(t, Message("tool", 0)), n - 1)
<1> DEFINE m == Message("tool", 0)
           u == Append(t, m)
<1>1. m \in Messages /\ m.role = "tool"
  BY DEF Message, Messages, Roles
<1> HIDE DEF m
<1>2. /\ IsTranscript(u) /\ Len(u) = Len(t) + 1 /\ \A i \in 1 .. Len(t) : u[i] = t[i]
      /\ u[Len(t) + 1] = m /\ Len(t) \in Nat /\ DOMAIN t = 1 .. Len(t)
  BY <1>1, MessageAdded, MessageAt
<1>3. PICK p \in 1 .. Len(t) : OpenAt(t, p, n)
  BY <1>2 DEF Waiting
<1>4. t[p].calls \in Nat /\ t[p].role = "assistant" /\ AnsweredBefore(t, p) /\ p # Len(t) + 1
  BY <1>2, <1>3, MessageAt DEF OpenAt
<1>5. AnsweredBefore(u, p)
  BY <1>1, <1>2, <1>4, StaysAnswered
<1> HIDE DEF u
<1>6. DOMAIN u = 1 .. Len(u)
  BY <1>2, MessageAt
<1>7. Headed(u)
  BY <1>2 DEF Waiting, Headed
<1>8. \A i \in p + 1 .. Len(u) : u[i].role = "tool"
  <2>1. \A i \in p + 1 .. Len(t) : t[i].role = "tool"
    BY <1>3 DEF OpenAt
  <2>2. \A i \in p + 1 .. Len(u) : (i \in p + 1 .. Len(t) /\ i \in 1 .. Len(t)) \/ i = Len(t) + 1
    BY <1>2
  <2>3. QED
    BY <1>1, <1>2, <2>1, <2>2
<1>9. p \in DOMAIN u /\ u[p] = t[p] /\ n - 1 <= t[p].calls /\ Len(u) = p + t[p].calls - (n - 1)
  <2>1. n <= t[p].calls /\ Len(t) = p + t[p].calls - n
    BY <1>3 DEF OpenAt
  <2>2. p \in 1 .. Len(u) /\ u[p] = t[p]
    BY <1>2
  <2>3. Len(u) = p + t[p].calls - n + 1
    BY <1>2, <2>1
  <2>4. n - 1 <= t[p].calls /\ p + t[p].calls - n + 1 = p + t[p].calls - (n - 1)
    <3>1. p \in Nat
      BY <1>2
    <3>2. QED
      BY <1>4, <2>1, <3>1, OneLess
  <2>5. QED
    BY <1>6, <2>2, <2>3, <2>4
<1>10. OpenAt(u, p, n - 1)
  BY <1>4, <1>5, <1>8, <1>9 DEF OpenAt
<1>11. QED
  BY <1>7, <1>9, <1>10 DEF Waiting, u, m

LEMMA AllAnswered ==
  ASSUME NEW t, IsTranscript(t), Waiting(t, 0)
  PROVE  Accepted(t)
<1>1. Len(t) \in Nat /\ DOMAIN t = 1 .. Len(t)
  BY MessageAt
<1>2. PICK p \in 1 .. Len(t) : OpenAt(t, p, 0)
  BY <1>1 DEF Waiting
<1>3. t[p].calls \in Nat /\ p + t[p].calls = Len(t)
  BY <1>1, <1>2, MessageAt DEF OpenAt
<1>4. \A i \in p + 1 .. Len(t) : t[i].role = "tool"
  BY <1>2 DEF OpenAt
<1>5. Answered(t, p)
  <2>1. \A k \in 1 .. t[p].calls : p + k \in p + 1 .. Len(t)
    BY <1>1, <1>3
  <2>2. QED
    BY <1>1, <1>3, <1>4, <2>1 DEF Answered
<1>6. \A i \in 1 .. Len(t) : t[i].role = "assistant" => Answered(t, i)
  <2> SUFFICES ASSUME NEW i \in 1 .. Len(t), t[i].role = "assistant" PROVE Answered(t, i)
    OBVIOUS
  <2>1. CASE i < p
    BY <1>2, <2>1 DEF OpenAt, AnsweredBefore
  <2>2. CASE i > p
    <3>1. i \in p + 1 .. Len(t)
      BY <1>1, <2>2
    <3>2. QED
      BY <1>4, <3>1
  <2>3. QED
    BY <1>1, <1>5, <2>1, <2>2
<1>7. QED
  BY <1>1, <1>6 DEF Accepted, AnsweredBefore, Waiting

LEMMA LeftOpen ==
  ASSUME NEW t, IsTranscript(t), NEW n \in Nat \ {0}, Waiting(t, n), t[Len(t)].role # "tool"
  PROVE  CutOff(t)
<1>1. Len(t) \in Nat /\ DOMAIN t = 1 .. Len(t)
  BY MessageAt
<1>2. PICK p \in 1 .. Len(t) : OpenAt(t, p, n)
  BY <1>1 DEF Waiting
<1>0. p \in Int /\ Len(t) \in Int /\ p <= Len(t)
  BY <1>1
<1>3. t[p].calls \in Nat /\ t[p].role = "assistant" /\ AnsweredBefore(t, p)
  BY <1>2, MessageAt DEF OpenAt
<1>4. \A i \in p + 1 .. Len(t) : t[i].role = "tool"
  BY <1>2 DEF OpenAt
<1>5. p = Len(t)
  <2>1. CASE p < Len(t)
    <3>1. Len(t) \in p + 1 .. Len(t)
      BY <1>0, <2>1, Above
    <3>2. QED
      BY <1>4, <3>1
  <2>2. p < Len(t) \/ p = Len(t)
    BY <1>0, AtMost
  <2>3. QED
    BY <2>1, <2>2
<1>6. t[p].calls > 0
  BY <1>1, <1>2, <1>3, <1>5 DEF OpenAt
<1>7. QED
  BY <1>3, <1>5, <1>6 DEF CutOff, Waiting

\* Recovery takes the completion in hand away: what is left is accepted.
LEMMA CutShort ==
  ASSUME NEW t, IsTranscript(t), CutOff(t), NEW u, IsTranscript(u), Len(u) = Len(t) - 1,
         \A j \in 1 .. Len(u) : u[j] = t[j]
  PROVE  Accepted(u)
<1>0. Len(t) \in Nat /\ Len(u) \in Nat
  BY MessageAt
<1>1. Len(t) >= 3 /\ t[Len(t)].role = "assistant" /\ Headed(t)
  BY <1>0 DEF CutOff, Headed
<1>2. Headed(u)
  BY <1>0, <1>1 DEF Headed
<1>3. ASSUME NEW i \in 1 .. Len(u), u[i].role = "assistant" PROVE Answered(u, i)
  <2>1. i \in 1 .. Len(t) - 1 /\ i \in 1 .. Len(t) /\ i < Len(t) /\ Len(t) \in 1 .. Len(t)
    BY <1>0, <1>1
  <2>2. Answered(t, i)
    BY <1>3, <2>1 DEF CutOff, AnsweredBefore
  <2>3. i + t[i].calls < Len(t) /\ t[i].calls \in Nat
    BY <1>1, <2>1, <2>2, AnsweredInFront
  <2>4. i + t[i].calls <= Len(u) /\ Len(u) <= Len(t) /\ Len(u) <= Len(u)
    BY <1>0, <2>1, <2>3
  <2>5. QED
    BY <1>0, <2>2, <2>4, AnsweredAlike
<1>4. QED
  BY <1>0, <1>2, <1>3 DEF Accepted, AnsweredBefore

\* Recovery finds nothing to delete behind an answered completion.
LEMMA NothingToDelete ==
  ASSUME RunTypeOK, NEW i \in 1 .. Len(transcript), Answered(transcript, i)
  PROVE  ~ Unanswered(i)
<1> SUFFICES ASSUME Unanswered(i) PROVE FALSE
  OBVIOUS
<1>0. IsTranscript(transcript)
  BY DEF RunTypeOK, RowsTypeOK
<1>1. transcript[i].calls \in Nat /\ Len(transcript) \in Nat
  BY <1>0, MessageAt
<1>2. transcript[i].calls > 0 /\ 1 \in 1 .. transcript[i].calls
  BY <1>1 DEF Unanswered
<1>3. i + transcript[i].calls <= Len(transcript) /\ transcript[i + 1].role = "tool"
  BY <1>2 DEF Answered
<1>4. i < Len(transcript)
  BY <1>1, <1>2, <1>3
<1>5. QED
  BY <1>3, <1>4 DEF Unanswered

\* What recovery makes of a transcript that no death has torn.
LEMMA RecoveredWhole ==
  ASSUME RunTypeOK, RecoverTranscript,
         transcript = <<>> \/ Accepted(transcript) \/ CutOff(transcript)
  PROVE  transcript' = <<>> \/ Accepted(transcript')
<1> DEFINE bad == {i \in DOMAIN transcript : Unanswered(i)}
           N == Len(transcript)
<1>0. IsTranscript(transcript) /\ IsTranscript(transcript')
  BY Recovered DEF RunTypeOK, RowsTypeOK, IsTranscript
<1>1. N \in Nat
  BY <1>0, MessageAt
<1>a. DOMAIN transcript = 1 .. N /\ \A i \in 1 .. N : transcript[i] \in Messages
  BY <1>0, MessageAt
<1>2. transcript' = IF bad = {} THEN transcript
                    ELSE SubSeq(transcript, 1, (CHOOSE i \in bad : \A j \in bad : i <= j) - 1)
  BY DEF RecoverTranscript
<1>3. CASE transcript = <<>>
  <2>1. bad = {}
    BY <1>3
  <2>2. QED
    BY <1>2, <1>3, <2>1
<1>4. CASE Accepted(transcript)
  <2>1. \A i \in 1 .. N : transcript[i].role = "assistant" => Answered(transcript, i)
    BY <1>1, <1>4 DEF Accepted, AnsweredBefore
  <2>2. \A i \in 1 .. N : ~ Unanswered(i)
    BY <2>1, NothingToDelete DEF Unanswered
  <2>3. bad = {}
    BY <1>a, <2>2
  <2>4. QED
    BY <1>2, <1>4, <2>3
<1>5. CASE CutOff(transcript)
  <2>1. N >= 3 /\ transcript[N].role = "assistant" /\ transcript[N].calls > 0
    BY <1>1, <1>5 DEF CutOff, Headed
  <2>2. \A i \in 1 .. N - 1 : transcript[i].role = "assistant" => Answered(transcript, i)
    BY <1>5 DEF CutOff, AnsweredBefore
  <2>3. \A i \in 1 .. N : i # N => ~ Unanswered(i)
    <3> SUFFICES ASSUME NEW i \in 1 .. N, i # N, Unanswered(i) PROVE FALSE
      OBVIOUS
    <3>1. i \in 1 .. N - 1
      <4>1. i \in 1 .. N /\ i # N
        OBVIOUS
      <4> HIDE DEF N
      <4>2. QED
        BY <1>1, <4>1
    <3>2. Answered(transcript, i)
      BY <2>2, <3>1 DEF Unanswered
    <3>3. QED
      BY <3>2, NothingToDelete
  <2>4. Unanswered(N)
    BY <1>1, <2>1 DEF Unanswered
  <2>5. bad = {N} /\ N - 1 \in Nat
    <3> HIDE DEF N
    <3>1. N \in 1 .. N /\ N - 1 \in Nat
      BY <1>1, <2>1
    <3>2. QED
      BY <1>a, <2>3, <2>4, <3>1
  <2>6. (CHOOSE i \in bad : \A j \in bad : i <= j) = N
    <3> HIDE DEF N, bad
    <3>1. QED
      BY <1>1, <2>5
  <2>7. transcript' = SubSeq(transcript, 1, N - 1)
    <3> HIDE DEF N, bad
    <3>1. QED
      BY <1>2, <2>5, <2>6
  <2>8. Len(transcript') = N - 1 /\ \A i \in 1 .. N - 1 : transcript'[i] = transcript[i]
    <3>1. \A i \in 1 .. N - 1 : transcript[i] \in Messages
      BY <1>1, <1>a
    <3> HIDE DEF N
    <3>2. QED
      BY <1>1, <2>5, <2>7, <3>1, SubSeqProperties
  <2>9. QED
    BY <1>0, <1>5, <2>8, CutShort
<1>6. QED
  BY <1>3, <1>4, <1>5

LEMMA AcceptedIsWellFormed ==
  ASSUME RunTypeOK, Accepted(transcript)
  PROVE  WellFormed
<1> DEFINE t == transcript
<1>0. IsTranscript(t)
  BY DEF RunTypeOK, RowsTypeOK
<1>1. /\ Len(t) \in Nat /\ DOMAIN t = 1 .. Len(t)
      /\ \A i \in 1 .. Len(t) : t[i].calls \in Nat
  BY <1>0, MessageAt
<1>2. ASSUME NEW i \in 1 .. Len(t), t[i].role = "assistant"
      PROVE  AnswersAfter(i) = t[i].calls
  <2> DEFINE P(n) == /\ \A k \in 1 .. n : t[i + k].role = "tool"
                     /\ i + n < Len(t) => t[i + n + 1].role # "tool"
             c == t[i].calls
  <2>1. Answered(t, i)
    BY <1>1, <1>2 DEF Accepted, AnsweredBefore
  <2>2. c \in 0 .. Len(t) - i /\ P(c)
    BY <1>1, <2>1 DEF Answered
  <2>3. ASSUME NEW n \in 0 .. Len(t) - i, NEW k \in 0 .. Len(t) - i, n < k, P(n), P(k) PROVE FALSE
    <3> HIDE DEF t
    <3>1. n + 1 \in 1 .. k /\ i + n < Len(t) /\ i + n + 1 = i + (n + 1)
      BY <1>1, <2>3
    <3>2. t[i + (n + 1)].role = "tool" /\ t[i + n + 1].role # "tool"
      BY <2>3, <3>1
    <3>3. QED
      BY <3>1, <3>2
  <2>4. AnswersAfter(i) = CHOOSE n \in 0 .. Len(t) - i : P(n)
    BY DEF AnswersAfter
  <2> HIDE DEF P, c
  <2>5. \A n \in 0 .. Len(t) - i : P(n) => n = c
    BY <1>1, <2>2, <2>3
  <2>6. (CHOOSE n \in 0 .. Len(t) - i : P(n)) = c
    BY <2>2, <2>5, Zenon
  <2>7. QED
    BY <2>4, <2>6 DEF c
<1>3. QED
  BY <1>1, <1>2 DEF WellFormed, Accepted, Headed
-----------------------------------------------------------------------------
(***************************************************************************)
(* The transcript at each place of the driver.                             *)
(***************************************************************************)
LEMMA TranscriptInit == RunInit => TranscriptInv /\ CallsInv
  BY DEF RunInit, TranscriptInv, CallsInv, InTurn

LEMMA CallsStep == RunTypeOK /\ CallsInv /\ [RunNext]_runVars => CallsInv'
<1> SUFFICES ASSUME RunTypeOK, CallsInv, [RunNext]_runVars PROVE CallsInv'
  OBVIOUS
<1> USE DEF CallsInv, Enter, runRow, driver
<1>0. calls \in Nat
  BY DEF RunTypeOK, FlatTypeOK
<1>1. CASE Recall \/ Resume \/ Die
  BY <1>1 DEF Recall, Resume, Die
<1>2. CASE Start \/ RecoverSteps \/ RecoverTranscript \/ Seed \/ Prompt
  BY <1>2 DEF Start, RecoverSteps, RecoverTranscript, Seed, Prompt
<1>3. CASE Loop \/ BeginTurn \/ Ask
  BY <1>3 DEF Loop, BeginTurn, Ask, FailRun
<1>4. CASE Charge
  BY <1>4, <1>0 DEF Charge, FailRun
<1>5. CASE Call
  BY <1>5, <1>0 DEF Call
<1>6. CASE Execute \/ RunTool \/ AnswerCall \/ Finish
  BY <1>6 DEF Execute, RunTool, AnswerCall, Finish, FailRun
<1>7. CASE UNCHANGED runVars
  BY <1>7 DEF runVars
<1>8. QED
  BY <1>1, <1>2, <1>3, <1>4, <1>5, <1>6, <1>7 DEF RunNext, Drive

LEMMA TranscriptStep == RunTypeOK /\ CallsInv /\ TranscriptInv /\ [RunNext]_runVars => TranscriptInv'
<1> SUFFICES ASSUME RunTypeOK, CallsInv, TranscriptInv, [RunNext]_runVars PROVE TranscriptInv'
  OBVIOUS
<1> USE DEF Enter, runRow, driver
<1>0. IsTranscript(transcript) /\ calls \in Nat /\ MaxCalls \in Nat
  BY AgentAssumption DEF RunTypeOK, RowsTypeOK, FlatTypeOK
<1> SUFFICES ASSUME ~ torn' PROVE TranscriptInv'
  BY DEF TranscriptInv
<1>1. CASE Recall
  <2>1. transcript' = <<>> /\ stage' = "start"
    BY <1>1 DEF Recall
  <2>2. QED
    BY <2>1 DEF TranscriptInv, InTurn
<1>2. CASE Resume \/ Start \/ RecoverSteps
  <2>1. transcript' = transcript /\ torn' = torn
    BY <1>2, Zenon DEF Resume, Start, RecoverSteps
  <2>2. /\ stage \in {"off", "start", "recover_steps"}
        /\ stage' \in {"start", "recover_steps", "recover_transcript"}
    BY <1>2 DEF Resume, Start, RecoverSteps
  <2>3. transcript = <<>> \/ Accepted(transcript) \/ CutOff(transcript)
    BY <2>1, <2>2 DEF TranscriptInv
  <2>4. QED
    BY <2>1, <2>2, <2>3 DEF TranscriptInv, InTurn
<1>3. CASE Die
  <2>1. transcript' = transcript /\ ~ torn /\ ~ Between /\ stage' = "off" /\ stage # "off"
    BY <1>3, Zenon DEF Die
  <2>2. transcript = <<>> \/ Accepted(transcript) \/ CutOff(transcript)
    <3>1. CASE stage \in InTurn /\ calls = 0
      <4>1. Waiting(transcript, 0)
        BY <2>1, <3>1 DEF TranscriptInv
      <4>2. QED
        BY <1>0, <4>1, AllAnswered
    <3>2. CASE stage \in InTurn /\ calls # 0
      <4>1. Waiting(transcript, calls)
        BY <2>1, <3>2 DEF TranscriptInv
      <4>2. transcript[Len(transcript)].role # "tool"
        <5>1. CASE stage = "charge"
          BY <2>1, <5>1 DEF TranscriptInv
        <5>2. CASE stage \in {"call", "execute", "answer"}
          BY <1>0, <2>1, <3>2, <5>2 DEF Between, Last
        <5>3. QED
          BY <3>2, <5>1, <5>2 DEF InTurn, CallsInv
      <4>3. calls \in Nat \ {0}
        BY <1>0, <3>2
      <4>4. QED
        BY <1>0, <4>1, <4>2, <4>3, LeftOpen
    <3>3. CASE stage \notin InTurn
      BY <2>1, <3>3 DEF TranscriptInv, InTurn, Between, RunTypeOK, FlatTypeOK, Stages
    <3>4. QED
      BY <3>1, <3>2, <3>3
  <2>3. QED
    BY <2>1, <2>2 DEF TranscriptInv, InTurn
<1>4. CASE RecoverTranscript
  <2>1. transcript' = <<>> \/ Accepted(transcript')
    BY <1>4, RecoveredWhole DEF TranscriptInv, RecoverTranscript
  <2>2. stage' = "seed"
    BY <1>4 DEF RecoverTranscript
  <2>3. QED
    BY <2>1, <2>2 DEF TranscriptInv, InTurn
<1>5. CASE Seed
  <2>1. CASE transcript = <<>>
    <3>1. transcript' = Append(<<>>, Message("system", 0)) /\ stage' = "prompt"
      BY <1>5, <2>1 DEF Seed, Say
    <3>2. IsTranscript(<<>>) /\ Len(<<>>) = 0 /\ Message("system", 0) \in Messages
      BY <1>0, <2>1 DEF Message, Messages, Roles
    <3>3. Len(transcript') = 1 /\ transcript'[1] = Message("system", 0)
      BY <3>1, <3>2, MessageAdded
    <3>4. QED
      BY <3>1, <3>3 DEF TranscriptInv, InTurn, Message
  <2>2. CASE transcript # <<>>
    <3>1. transcript' = transcript /\ stage' = "loop" /\ torn' = torn
      BY <1>5, <2>2 DEF Seed
    <3>2. Accepted(transcript)
      BY <1>5, <2>2, <3>1 DEF Seed, TranscriptInv
    <3>3. QED
      BY <3>1, <3>2 DEF TranscriptInv, InTurn
  <2>3. QED
    BY <2>1, <2>2
<1>6. CASE Prompt
  <2>1. Len(transcript) = 1 /\ transcript[1].role = "system" /\ torn' = torn
    BY <1>6 DEF Prompt, TranscriptInv
  <2>2. transcript' = Append(transcript, Message("user", 0)) /\ stage' = "loop"
    BY <1>6 DEF Prompt, Say
  <2>3. Message("user", 0) \in Messages /\ Message("user", 0).role = "user"
    BY DEF Message, Messages, Roles
  <2>4. /\ Len(transcript') = 2 /\ transcript'[1] = transcript[1]
        /\ transcript'[2] = Message("user", 0)
    <3>1. /\ Len(transcript') = Len(transcript) + 1 /\ transcript'[Len(transcript) + 1] = Message("user", 0)
          /\ \A i \in 1 .. Len(transcript) : transcript'[i] = transcript[i]
      BY <1>0, <2>2, <2>3, MessageAdded
    <3>2. Len(transcript) = 1 /\ Len(transcript) + 1 = 2 /\ 1 \in 1 .. Len(transcript)
      BY <2>1
    <3>3. QED
      BY <3>1, <3>2
  <2>5. Accepted(transcript')
    <3>1. \A i \in 1 .. 2 : transcript'[i].role # "assistant"
      <4>1. \A i \in 1 .. 2 : i = 1 \/ i = 2
        OBVIOUS
      <4>2. QED
        BY <2>1, <2>3, <2>4, <4>1
    <3>2. QED
      BY <2>1, <2>3, <2>4, <3>1 DEF Accepted, Headed, AnsweredBefore
  <2>6. QED
    BY <2>2, <2>5 DEF TranscriptInv, InTurn
<1>7. CASE Loop \/ BeginTurn
  <2>1. Accepted(transcript) /\ transcript' = transcript
    BY <1>7 DEF Loop, BeginTurn, TranscriptInv
  <2>2. stage' \in {"off", "begin", "ask"}
    BY <1>7 DEF Loop, BeginTurn, FailRun
  <2>3. QED
    BY <2>1, <2>2 DEF TranscriptInv, InTurn
<1>8. CASE Ask
  <2>1. Accepted(transcript)
    BY <1>8 DEF Ask, TranscriptInv
  <2>2. CASE stage' = "charge"
    <3>1. PICK n \in 0 .. MaxCalls : transcript' = Append(transcript, Message("assistant", n)) /\ calls' = n
      BY <1>8, <2>2 DEF Ask, Say, FailRun
    <3>2. n \in Nat
      BY <1>0, <3>1
    <3>3. Message("assistant", n) \in Messages /\ Message("assistant", n).role = "assistant"
      BY <3>2 DEF Message, Messages, Roles
    <3>4. Waiting(transcript', calls')
      BY <1>0, <2>1, <3>1, <3>2, Asked
    <3>5. transcript'[Len(transcript')].role = "assistant"
      BY <1>0, <3>1, <3>3, MessageAdded
    <3>6. QED
      BY <2>2, <3>4, <3>5 DEF TranscriptInv, InTurn
  <2>3. CASE stage' # "charge"
    <3>1. transcript' = transcript /\ stage' = "off"
      BY <1>8, <2>3, Zenon DEF Ask, FailRun
    <3>2. QED
      BY <2>1, <3>1 DEF TranscriptInv, InTurn
  <2>4. QED
    BY <2>2, <2>3
<1>9. CASE Charge
  <2>1. /\ Waiting(transcript, calls) /\ transcript' = transcript
        /\ transcript[Len(transcript)].role = "assistant"
    BY <1>9 DEF Charge, TranscriptInv, InTurn
  <2>2. CASE stage' = "off"
    <3>1. CASE calls = 0
      <4>1. Accepted(transcript)
        BY <1>0, <2>1, <3>1, AllAnswered
      <4>2. QED
        BY <2>1, <2>2, <4>1 DEF TranscriptInv, InTurn
    <3>2. CASE calls # 0
      <4>1. calls \in Nat \ {0} /\ transcript[Len(transcript)].role # "tool"
        BY <1>0, <2>1, <3>2
      <4>2. CutOff(transcript)
        BY <1>0, <2>1, <4>1, LeftOpen
      <4>3. QED
        BY <2>1, <2>2, <4>2 DEF TranscriptInv, InTurn
    <3>3. QED
      BY <3>1, <3>2
  <2>3. CASE stage' # "off"
    <3>1. calls' = calls /\ stage' \in {"check", "call"}
      BY <1>9, <2>3, Zenon DEF Charge, FailRun
    <3>2. QED
      BY <2>1, <3>1 DEF TranscriptInv, InTurn
  <2>4. QED
    BY <2>2, <2>3
<1>10. CASE Call
  <2>1. Waiting(transcript, calls)
    BY <1>10 DEF Call, TranscriptInv, InTurn
  <2>2. CASE transcript' = Append(transcript, Message("tool", 0)) /\ calls > 0 /\ calls' = calls - 1 /\ stage' = stage
    <3>1. Waiting(transcript', calls') /\ stage' = "call"
      BY <1>0, <1>10, <2>1, <2>2, AnswerGiven DEF Call
    <3>2. QED
      BY <3>1 DEF TranscriptInv, InTurn
  <2>3. CASE transcript' = transcript /\ calls' = calls /\ stage' = "execute"
    BY <2>1, <2>3 DEF TranscriptInv, InTurn
  <2>4. CASE transcript' = transcript /\ calls = 0 /\ stage' = "loop"
    <3>1. Accepted(transcript)
      BY <1>0, <2>1, <2>4, AllAnswered
    <3>2. QED
      BY <2>4, <3>1 DEF TranscriptInv, InTurn
  <2>5. QED
    BY <1>10, <2>2, <2>3, <2>4 DEF Call, Say
<1>11. CASE Execute \/ RunTool
  <2>1. /\ Waiting(transcript, calls) /\ transcript' = transcript /\ calls' = calls
        /\ stage' \in {"execute", "answer"}
    BY <1>11 DEF Execute, RunTool, TranscriptInv, InTurn
  <2>2. QED
    BY <2>1 DEF TranscriptInv, InTurn
<1>12. CASE AnswerCall
  <2>1. Waiting(transcript, calls) /\ calls > 0 /\ stage' = "call"
    BY <1>12 DEF AnswerCall, TranscriptInv, InTurn, CallsInv
  <2>2. transcript' = Append(transcript, Message("tool", 0)) /\ calls' = calls - 1
    BY <1>12 DEF AnswerCall, Say
  <2>3. Waiting(transcript', calls')
    BY <1>0, <2>1, <2>2, AnswerGiven
  <2>4. QED
    BY <2>1, <2>3 DEF TranscriptInv, InTurn
<1>13. CASE Finish
  <2>1. Accepted(transcript) /\ transcript' = transcript
    <3>1. CASE stage = "check"
      <4>1. Waiting(transcript, 0)
        BY <1>13, <3>1 DEF Finish, TranscriptInv, InTurn, CallsInv
      <4>2. QED
        BY <1>0, <1>13, <4>1, AllAnswered DEF Finish
    <3>2. QED
      BY <1>13, <3>1 DEF Finish, TranscriptInv
  <2>2. stage' \in {"off", "finish"}
    BY <1>13 DEF Finish, FailRun
  <2>3. QED
    BY <2>1, <2>2 DEF TranscriptInv, InTurn
<1>14. CASE UNCHANGED runVars
  BY <1>14 DEF runVars, TranscriptInv, InTurn
<1>15. QED
  BY <1>1, <1>2, <1>3, <1>4, <1>5, <1>6, <1>7, <1>8, <1>9, <1>10, <1>11, <1>12, <1>13, <1>14 DEF RunNext, Drive
-----------------------------------------------------------------------------
(***************************************************************************)
(* The steps at each place of the driver.                                  *)
(***************************************************************************)
LEMMA StepsFacts ==
  ASSUME RunTypeOK
  PROVE  /\ steps \in Seq(AgentSteps) /\ Len(steps) \in Nat /\ DOMAIN steps = 1 .. Len(steps)
         /\ RunningSteps = {i \in 1 .. Len(steps) : steps[i].status = "running"}
         /\ LastIsModel => ModelAt(Len(steps)) /\ Len(steps) \in 1 .. Len(steps)
<1>1. steps \in Seq(AgentSteps) /\ Len(steps) \in Nat /\ DOMAIN steps = 1 .. Len(steps)
  BY LenProperties DEF RunTypeOK, RowsTypeOK
<1>2. LastIsModel => ModelAt(Len(steps)) /\ Len(steps) \in 1 .. Len(steps)
  BY <1>1 DEF LastIsModel, ModelAt
<1>3. QED
  BY <1>1, <1>2 DEF RunningSteps

LEMMA AfterSettle ==
  ASSUME RunTypeOK, NEW p \in 1 .. Len(steps), NEW s \in StepStates, Settle(p, s)
  PROVE  /\ Len(steps') = Len(steps) /\ steps'[p].kind = steps[p].kind /\ steps'[p].status = s
         /\ RunningSteps' = IF s = "running" THEN RunningSteps \cup {p} ELSE RunningSteps \ {p}
         /\ \A q \in 1 .. Len(steps) : ModelAt(q) => ModelAt(q)'
         /\ LastIsModel => LastIsModel'
<1>1. /\ Len(steps') = Len(steps) /\ DOMAIN steps' = 1 .. Len(steps) /\ DOMAIN steps = 1 .. Len(steps)
      /\ \A i \in 1 .. Len(steps) :
           /\ steps'[i].kind = steps[i].kind
           /\ steps'[i].status = IF i = p THEN s ELSE steps[i].status
  BY StepsFacts, SettledStep
<1>2. RunningSteps' = {i \in 1 .. Len(steps) : (IF i = p THEN s ELSE steps[i].status) = "running"}
  BY <1>1 DEF RunningSteps
<1>3. RunningSteps = {i \in 1 .. Len(steps) : steps[i].status = "running"}
  BY <1>1 DEF RunningSteps
<1>4. RunningSteps' = IF s = "running" THEN RunningSteps \cup {p} ELSE RunningSteps \ {p}
  BY <1>2, <1>3
<1>5. ASSUME NEW q \in 1 .. Len(steps), ModelAt(q) PROVE ModelAt(q)'
  BY <1>1, <1>5 DEF ModelAt
<1>6. LastIsModel => LastIsModel'
  BY <1>1 DEF LastIsModel
<1>7. QED
  BY <1>1, <1>4, <1>5, <1>6

LEMMA AfterAdd ==
  ASSUME RunTypeOK, NEW what \in {"model", "tool"}, steps' = Append(steps, Step(what, "queued"))
  PROVE  /\ Len(steps') = Len(steps) + 1 /\ RunningSteps' = RunningSteps /\ Len(steps) \in Nat
         /\ what = "model" => LastIsModel'
         /\ what = "tool" => \A q \in 1 .. Len(steps) : ModelAt(q) => ModelAt(q)'
         /\ steps'[Len(steps) + 1] = Step(what, "queued")
<1>1. /\ Len(steps') = Len(steps) + 1 /\ Len(steps) \in Nat
      /\ DOMAIN steps = 1 .. Len(steps) /\ DOMAIN steps' = 1 .. Len(steps) + 1
      /\ \A i \in 1 .. Len(steps) : steps'[i] = steps[i]
      /\ steps'[Len(steps) + 1] = Step(what, "queued")
  BY StepAdded
<1>2. Step(what, "queued").kind = what /\ Step(what, "queued").status = "queued"
  BY DEF Step
<1>3. \A i \in 1 .. Len(steps) + 1 : i \in 1 .. Len(steps) \/ i = Len(steps) + 1
  BY <1>1
<1>4. RunningSteps' = {i \in 1 .. Len(steps) + 1 : steps'[i].status = "running"}
  BY <1>1 DEF RunningSteps
<1>5. RunningSteps = {i \in 1 .. Len(steps) : steps[i].status = "running"}
  BY <1>1 DEF RunningSteps
<1>6. 1 .. Len(steps) \subseteq 1 .. Len(steps) + 1
  BY <1>1
<1>7. RunningSteps' = RunningSteps
  <2>1. \A i : i \in RunningSteps' => i \in RunningSteps
    BY <1>1, <1>2, <1>3, <1>4, <1>5
  <2>2. \A i : i \in RunningSteps => i \in RunningSteps'
    BY <1>1, <1>4, <1>5, <1>6
  <2>3. QED
    BY <2>1, <2>2
<1>8. ASSUME what = "model" PROVE LastIsModel'
  <2>1. Len(steps) + 1 \in 1 .. Len(steps) + 1
    BY <1>1
  <2>2. QED
    BY <1>1, <1>2, <1>8, <2>1 DEF LastIsModel
<1>9. ASSUME what = "tool", NEW q \in 1 .. Len(steps), ModelAt(q) PROVE ModelAt(q)'
  <2>1. q \in DOMAIN steps' /\ steps'[q].kind = "model"
    BY <1>1, <1>6, <1>9 DEF ModelAt
  <2>2. ASSUME NEW i \in DOMAIN steps', i > q PROVE steps'[i].kind = "tool"
    <3>1. CASE i \in 1 .. Len(steps)
      BY <1>1, <1>9, <2>2, <3>1 DEF ModelAt
    <3>2. CASE i = Len(steps) + 1
      BY <1>1, <1>2, <1>9, <3>2
    <3>3. QED
      BY <1>1, <1>3, <3>1, <3>2
  <2>3. QED
    BY <2>1, <2>2 DEF ModelAt
<1>10. QED
  BY <1>1, <1>7, <1>8, <1>9

LEMMA StepsInit == RunInit => StepsInv
  BY DEF RunInit, StepsInv, Stages

\* The step of the turn is the one that is the last model step.
LEMMA TurnStepAt ==
  ASSUME RunTypeOK, NEW p, ModelAt(p)
  PROVE  TurnStep = p /\ p \in 1 .. Len(steps)
  BY TurnStepIs, StepsFacts

LEMMA StepsStep == RunTypeOK /\ CallsInv /\ StepsInv /\ [RunNext]_runVars => StepsInv'
<1> SUFFICES ASSUME RunTypeOK, CallsInv, StepsInv, [RunNext]_runVars PROVE StepsInv'
  OBVIOUS
<1> USE DEF Enter, runRow, driver
<1>0. /\ Len(steps) \in Nat /\ DOMAIN steps = 1 .. Len(steps)
      /\ RunningSteps = {i \in 1 .. Len(steps) : steps[i].status = "running"}
  BY StepsFacts
<1>1. CASE Recall
  <2>1. steps' = <<>> /\ stage' = "start" /\ runStatus' = "queued"
    BY <1>1 DEF Recall
  <2>2. QED
    BY <2>1 DEF StepsInv, Stages
<1>2. ASSUME steps' = steps
      PROVE  RunningSteps' = RunningSteps /\ LastIsModel' = LastIsModel /\ \A q : ModelAt(q)' <=> ModelAt(q)
  BY <1>2 DEF RunningSteps, ModelAt, LastIsModel
<1>3. CASE Resume \/ Die \/ Start \/ UNCHANGED runVars
  <2>1. CASE Resume \/ Start
    <3>1. steps' = steps /\ stage' \in {"start", "recover_steps"} /\ runStatus' \in {"queued", "running"}
      BY <2>1 DEF Resume, Start
    <3>2. stage' = "recover_steps" => runStatus' = "running"
      BY <2>1 DEF Resume, Start
    <3>3. QED
      BY <3>1, <3>2 DEF StepsInv, Stages
  <2>2. CASE Die
    <3>1. steps' = steps /\ stage' = "off" /\ runStatus' = runStatus
      BY <2>2, Zenon DEF Die
    <3>2. QED
      BY <1>2, <3>1 DEF StepsInv, Stages
  <2>3. CASE UNCHANGED runVars
    <3>1. steps' = steps /\ stage' = stage /\ runStatus' = runStatus
      BY <2>3, Zenon DEF runVars
    <3>2. RunningSteps' = RunningSteps /\ LastIsModel' = LastIsModel /\ \A q : ModelAt(q)' <=> ModelAt(q)
      BY <1>2, <3>1
    <3>3. QED
      BY <3>1, <3>2 DEF StepsInv
  <2>4. QED
    BY <1>3, <2>1, <2>2, <2>3
<1>4. CASE RecoverSteps
  <2>1. /\ stage' = "recover_transcript" /\ runStatus' = "running"
        /\ steps' = [i \in 1 .. Len(steps) |->
             IF steps[i].status = "running" THEN [steps[i] EXCEPT !.status = "failed"] ELSE steps[i]]
    BY <1>0, <1>4 DEF RecoverSteps, StepsInv, Stages
  <2>2. \A i \in 1 .. Len(steps) : steps[i] \in AgentSteps
    BY StepsFacts, ElementOfSeq
  <2>3. \A i \in 1 .. Len(steps) : steps'[i].status # "running"
    BY <2>1, <2>2 DEF AgentSteps
  <2>4. RunningSteps' = {}
    BY <2>1, <2>3 DEF RunningSteps
  <2>5. QED
    BY <2>1, <2>4 DEF StepsInv, Stages
<1>5. CASE RecoverTranscript \/ Seed \/ Prompt
  <2>1. /\ steps' = steps /\ runStatus' = runStatus /\ stage' \in {"seed", "prompt", "loop"}
        /\ stage \in {"recover_transcript", "seed", "prompt"}
    BY <1>5, Zenon DEF RecoverTranscript, Seed, Prompt
  <2>2. RunningSteps' = {} /\ runStatus' = "running"
    BY <1>2, <2>1 DEF StepsInv, Stages
  <2>3. QED
    BY <2>1, <2>2 DEF StepsInv, Stages
<1>6. CASE Loop
  <2>1. stage = "loop" /\ runStatus = "running" /\ RunningSteps = {}
    BY <1>6 DEF Loop, StepsInv, Stages
  <2>2. CASE stage' = "off"
    <3>1. steps' = steps /\ runStatus' = "failed"
      BY <1>6, <2>2 DEF Loop, FailRun
    <3>2. QED
      BY <2>2, <3>1 DEF StepsInv, Stages
  <2>3. CASE stage' = "begin"
    <3>1. steps' = Append(steps, Step("model", "queued")) /\ runStatus' = runStatus
      BY <1>6, <2>3 DEF Loop, FailRun
    <3>2. RunningSteps' = {} /\ LastIsModel'
      BY <2>1, <3>1, AfterAdd
    <3>3. QED
      BY <2>1, <2>3, <3>1, <3>2 DEF StepsInv, Stages
  <2>4. QED
    BY <1>6, <2>2, <2>3 DEF Loop, FailRun
<1>7. CASE BeginTurn
  <2>1. stage = "begin" /\ runStatus = "running" /\ RunningSteps = {} /\ LastIsModel
    BY <1>7 DEF BeginTurn, StepsInv, Stages
  <2>2. TurnStep = Len(steps) /\ Len(steps) \in 1 .. Len(steps)
    BY <2>1, StepsFacts, TurnStepAt
  <2>3. Settle(Len(steps), "running") /\ stage' = "ask" /\ runStatus' = runStatus
    BY <1>7, <2>2 DEF BeginTurn
  <2>4. RunningSteps' = {Len(steps')} /\ LastIsModel'
    BY <2>1, <2>2, <2>3, AfterSettle DEF StepStates
  <2>5. QED
    BY <2>1, <2>3, <2>4 DEF StepsInv, Stages
<1>8. CASE Ask \/ Charge
  <2>1. /\ RunningSteps = {Len(steps)} /\ LastIsModel /\ runStatus = "running" /\ steps' = steps
        /\ \/ stage' \in {"charge", "check", "call"} /\ runStatus' = runStatus
           \/ stage' = "off" /\ runStatus' = "failed"
    BY <1>8 DEF Ask, Charge, FailRun, StepsInv, Stages
  <2>2. RunningSteps' = {Len(steps')} /\ LastIsModel'
    BY <1>2, <2>1
  <2>3. ModelAt(Len(steps)) /\ Len(steps) \in DOMAIN steps
    BY <1>0, <2>1, StepsFacts
  <2>4. \E p \in DOMAIN steps' : ModelAt(p)' /\ RunningSteps' = {p}
    BY <1>2, <2>1, <2>3
  <2>5. QED
    BY <2>1, <2>2, <2>4 DEF StepsInv, Stages
<1>9. CASE Call
  <2>1. PICK p \in 1 .. Len(steps) : ModelAt(p) /\ RunningSteps = {p}
    BY <1>0, <1>9 DEF Call, StepsInv
  <2>2. runStatus = "running" /\ runStatus' = runStatus /\ TurnStep = p
    BY <1>9, <2>1, TurnStepAt DEF Call, StepsInv, Stages
  <2>3. CASE steps' = steps /\ stage' = "call"
    BY <1>0, <1>2, <2>1, <2>2, <2>3 DEF StepsInv, Stages
  <2>4. CASE steps' = Append(steps, Step("tool", "queued")) /\ stage' = "execute"
    <3>1. /\ RunningSteps' = {p} /\ ModelAt(p)' /\ Len(steps') = Len(steps) + 1
          /\ steps'[Len(steps')] = Step("tool", "queued")
      BY <2>1, <2>4, AfterAdd
    <3>2. p \in DOMAIN steps'
      BY <3>1 DEF ModelAt
    <3>3. QED
      BY <2>2, <2>4, <3>1, <3>2 DEF StepsInv, Stages, Step
  <2>5. CASE Settle(p, "succeeded") /\ stage' = "loop"
    <3>1. RunningSteps' = {}
      BY <2>1, <2>5, AfterSettle DEF StepStates
    <3>2. QED
      BY <2>2, <2>5, <3>1 DEF StepsInv, Stages
  <2>6. QED
    BY <1>9, <2>2, <2>3, <2>4, <2>5 DEF Call
<1>10. CASE Execute \/ RunTool
  <2>1. PICK p \in 1 .. Len(steps) : ModelAt(p) /\ p \in RunningSteps /\ RunningSteps \subseteq {p, Len(steps)}
    BY <1>0, <1>10 DEF Execute, RunTool, StepsInv
  <2>2. /\ runStatus = "running" /\ runStatus' = runStatus /\ steps[Len(steps)].kind = "tool"
        /\ p # Len(steps) /\ Len(steps) \in 1 .. Len(steps)
    BY <1>0, <1>10, <2>1 DEF Execute, RunTool, StepsInv, Stages, ModelAt
  <2>3. CASE Execute
    <3>1. Settle(Len(steps), "running") /\ stage' = "execute"
      BY <2>3 DEF Execute
    <3>2. /\ RunningSteps' = RunningSteps \cup {Len(steps)} /\ ModelAt(p)' /\ Len(steps') = Len(steps)
          /\ steps'[Len(steps')].kind = "tool" /\ steps'[Len(steps')].status = "running"
      BY <2>1, <2>2, <3>1, AfterSettle DEF StepStates
    <3>3. p \in DOMAIN steps' /\ p \in RunningSteps' /\ RunningSteps' \subseteq {p, Len(steps')}
      BY <2>1, <3>2 DEF ModelAt
    <3>4. QED
      BY <2>2, <3>1, <3>2, <3>3 DEF StepsInv, Stages
  <2>4. CASE RunTool
    <3>1. PICK s \in {"succeeded", "failed"} : Settle(Len(steps), s)
      BY <2>4 DEF RunTool
    <3>2. stage' = "answer"
      BY <2>4 DEF RunTool
    <3>3. RunningSteps' = RunningSteps \ {Len(steps)} /\ ModelAt(p)'
      BY <2>1, <2>2, <3>1, AfterSettle DEF StepStates
    <3>4. RunningSteps' = {p} /\ p \in DOMAIN steps'
      BY <2>1, <2>2, <3>3 DEF ModelAt
    <3>5. QED
      BY <2>2, <3>2, <3>3, <3>4 DEF StepsInv, Stages
  <2>5. QED
    BY <1>10, <2>3, <2>4
<1>11. CASE AnswerCall
  <2>1. /\ steps' = steps /\ stage' = "call" /\ runStatus' = runStatus /\ runStatus = "running"
        /\ \E p \in DOMAIN steps : ModelAt(p) /\ RunningSteps = {p}
    BY <1>11 DEF AnswerCall, StepsInv, Stages
  <2>2. QED
    BY <1>2, <2>1 DEF StepsInv, Stages
<1>12. CASE Finish
  <2>1. CASE stage' = "off" /\ runStatus' = "failed"
    BY <2>1 DEF StepsInv, Stages
  <2>2. CASE stage = "check" /\ Settle(TurnStep, "succeeded") /\ stage' = "finish" /\ runStatus' = runStatus
    <3>1. runStatus = "running" /\ RunningSteps = {Len(steps)} /\ LastIsModel
      BY <2>2 DEF StepsInv, Stages
    <3>2. Settle(Len(steps), "succeeded") /\ Len(steps) \in 1 .. Len(steps)
      BY <2>2, <3>1, StepsFacts, TurnStepAt
    <3>3. /\ RunningSteps' = {} /\ LastIsModel' /\ steps'[Len(steps')].status = "succeeded"
      BY <3>1, <3>2, AfterSettle DEF StepStates
    <3>4. QED
      BY <2>2, <3>1, <3>3 DEF StepsInv, Stages
  <2>3. CASE stage = "finish" /\ runStatus' = "succeeded" /\ stage' = "off" /\ steps' = steps
    <3>1. RunningSteps = {} /\ LastIsModel /\ steps[Len(steps)].status = "succeeded"
      BY <2>3 DEF StepsInv
    <3>2. RunningSteps' = {} /\ LastIsModel' /\ steps'[Len(steps')].status = "succeeded"
      BY <1>2, <2>3, <3>1
    <3>3. QED
      BY <2>3, <3>2 DEF StepsInv, Stages
  <2>4. QED
    BY <1>12, <2>1, <2>2, <2>3 DEF Finish, FailRun
<1>13. QED
  BY <1>1, <1>3, <1>4, <1>5, <1>6, <1>7, <1>8, <1>9, <1>10, <1>11, <1>12 DEF RunNext, Drive
-----------------------------------------------------------------------------
(***************************************************************************)
(* The budget.                                                             *)
(***************************************************************************)
LEMMA BudgetInit == RunInit => BudgetInv /\ CallsBound
  BY AgentAssumption DEF RunInit, BudgetInv, CallsBound, Stages

LEMMA CallsBoundStep == RunTypeOK /\ CallsBound /\ [RunNext]_runVars => CallsBound'
<1> SUFFICES ASSUME RunTypeOK, CallsBound, [RunNext]_runVars PROVE CallsBound'
  OBVIOUS
<1> USE DEF Enter, runRow, driver
<1>1. calls \in Nat /\ MaxCalls \in Nat
  BY AgentAssumption DEF RunTypeOK, FlatTypeOK
<1>2. calls' = calls \/ calls' = 0 \/ calls' = calls - 1 \/ calls' \in 0 .. MaxCalls
  <2>1. CASE Recall \/ Resume \/ Die \/ UNCHANGED runVars
    BY <2>1, Zenon DEF Recall, Resume, Die, runVars
  <2>2. CASE Start \/ RecoverSteps \/ RecoverTranscript \/ Seed \/ Prompt
    BY <2>2, Zenon DEF Start, RecoverSteps, RecoverTranscript, Seed, Prompt
  <2>3. CASE Loop \/ BeginTurn \/ Ask \/ Charge
    BY <2>3, Zenon DEF Loop, BeginTurn, Ask, Charge, FailRun
  <2>4. CASE Call \/ Execute \/ RunTool \/ AnswerCall \/ Finish
    BY <2>4, Zenon DEF Call, Execute, RunTool, AnswerCall, Finish, FailRun
  <2>5. QED
    BY <2>1, <2>2, <2>3, <2>4 DEF RunNext, Drive
<1>3. QED
  BY <1>1, <1>2 DEF CallsBound

LEMMA BudgetStep == RunTypeOK /\ StepsInv /\ BudgetInv /\ [RunNext]_runVars => BudgetInv'
<1> SUFFICES ASSUME FlatTypeOK, StepsInv, BudgetInv, [RunNext]_runVars PROVE BudgetInv'
  BY DEF RunTypeOK
<1> USE DEF Enter, runRow, driver, BudgetInv, Stages
<1>0. charged \in Nat /\ budget \in Nat /\ turns \in Nat /\ deaths \in Nat /\ MaxSteps \in Nat /\ MaxSteps > 0
  BY AgentAssumption DEF FlatTypeOK
<1>1. CASE Recall
  <2>1. charged' = 0 /\ turns' = 0 /\ stage' = "start" /\ deaths' = deaths
    BY <1>1 DEF Recall
  <2>2. QED
    BY <1>0, <2>1
<1>2. CASE Resume \/ Start \/ RecoverSteps \/ RecoverTranscript
  <2>1. /\ charged' = charged /\ turns' = turns /\ deaths' = deaths
        /\ stage' \in {"start", "recover_steps", "recover_transcript", "seed"}
        /\ runStatus' \in {runStatus, "running"} /\ runStatus # "failed" /\ stage # "charge"
    BY <1>2 DEF Resume, Start, RecoverSteps, RecoverTranscript, StepsInv
  <2>2. QED
    BY <1>0, <2>1
<1>3. CASE Die
  <2>1. /\ charged' = charged /\ turns' = turns /\ deaths' = deaths + 1 /\ stage' = "off"
        /\ runStatus' = runStatus
    BY <1>3, Zenon DEF Die
  <2>2. QED
    BY <1>0, <2>1
<1>4. CASE Seed
  <2>1. /\ charged' = charged /\ turns' = turns /\ deaths' = deaths /\ stage' \in {"prompt", "loop"}
        /\ stage = "seed" /\ runStatus' = runStatus /\ budget' = charged
    BY <1>4, Zenon DEF Seed
  <2>2. QED
    BY <1>0, <2>1
<1>5. CASE Prompt \/ BeginTurn \/ Call \/ Execute \/ RunTool \/ AnswerCall
  <2>1. /\ charged' = charged /\ turns' = turns /\ deaths' = deaths /\ budget' = budget /\ runStatus' = runStatus
        /\ \/ stage = "begin" /\ stage' = "ask"
           \/ /\ stage \in {"prompt", "call", "execute", "answer"}
              /\ stage' \in {"call", "execute", "answer", "loop"}
    BY <1>5 DEF Prompt, BeginTurn, Call, Execute, RunTool, AnswerCall
  <2>2. QED
    BY <1>0, <2>1
<1>6. CASE Loop
  <2>1. /\ charged' = charged /\ turns' = turns /\ deaths' = deaths /\ stage = "loop"
        /\ \/ stage' = "begin" /\ budget' = budget /\ runStatus' = runStatus /\ ~ (budget >= MaxSteps)
           \/ stage' = "off" /\ runStatus' = "failed"
    BY <1>6, Zenon DEF Loop, FailRun
  <2>2. QED
    BY <1>0, <2>1
<1>7. CASE Ask
  <2>1. /\ charged' = charged /\ deaths' = deaths /\ stage = "ask" /\ runStatus = "running"
        /\ \/ stage' = "charge" /\ budget' = budget /\ runStatus' = runStatus /\ turns' = turns + 1
           \/ stage' = "off" /\ runStatus' = "failed" /\ turns' = turns
    BY <1>7 DEF Ask, FailRun, StepsInv
  <2>2. QED
    BY <1>0, <2>1
<1>8. CASE Charge
  <2>1. /\ turns' = turns /\ deaths' = deaths /\ stage = "charge" /\ runStatus = "running"
        /\ \/ stage' \in {"check", "call"} /\ budget' = budget + 1 /\ charged' = budget + 1 /\ runStatus' = runStatus
           \/ stage' = "off" /\ runStatus' = "failed" /\ charged' = charged
    BY <1>8 DEF Charge, FailRun, StepsInv
  <2>2. QED
    BY <1>0, <2>1
<1>9. CASE Finish
  <2>1. /\ charged' = charged /\ turns' = turns /\ deaths' = deaths /\ stage \in {"check", "finish"}
        /\ \/ stage' = "finish" /\ budget' = budget
           \/ stage' = "off"
        /\ runStatus # "failed"
    BY <1>9 DEF Finish, FailRun, StepsInv
  <2>2. QED
    BY <1>0, <2>1
<1>10. CASE UNCHANGED runVars
  <2>1. /\ charged' = charged /\ turns' = turns /\ deaths' = deaths /\ stage' = stage
        /\ runStatus' = runStatus /\ budget' = budget
    BY <1>10, Zenon DEF runVars
  <2>2. QED
    BY <1>0, <2>1
<1>11. QED
  BY <1>1, <1>2, <1>3, <1>4, <1>5, <1>6, <1>7, <1>8, <1>9, <1>10 DEF RunNext, Drive

-----------------------------------------------------------------------------
(***************************************************************************)
(* What is left to do.                                                     *)
(***************************************************************************)
\* The steps that a completion may still cost pay for the turn it takes.
LEMMA TurnPaid ==
  ASSUME NEW c \in Nat, c < MaxSteps, NEW n \in 0 .. MaxCalls
  PROVE  /\ PerTurn \in Nat /\ (MaxSteps - c) * PerTurn \in Nat
         /\ (MaxSteps - c) * PerTurn = (MaxSteps - (c + 1)) * PerTurn + PerTurn
         /\ 4 * n + 1 < PerTurn - 3 /\ (MaxSteps - c) * PerTurn >= PerTurn
<1>1. MaxSteps \in Nat /\ MaxCalls \in Nat
  BY AgentAssumption
<1>2. PerTurn \in Nat /\ 4 * n + 1 < PerTurn - 3
  BY <1>1 DEF PerTurn
<1> DEFINE d == MaxSteps - (c + 1)
<1>3. d \in Nat /\ MaxSteps - c = d + 1
  BY <1>1
<1> HIDE DEF d
<1>4. (d + 1) * PerTurn = d * PerTurn + PerTurn /\ d * PerTurn \in Nat
  BY <1>2, <1>3
<1>5. QED
  BY <1>2, <1>3, <1>4 DEF d

LEMMA Weights ==
  ASSUME NEW n \in Nat, NEW s
  PROVE  /\ WeightOf("start", n, s) = 5 /\ WeightOf("recover_steps", n, s) = 4
         /\ WeightOf("recover_transcript", n, s) = 3 /\ WeightOf("seed", n, s) = 2
         /\ WeightOf("prompt", n, s) = 1 /\ WeightOf("loop", n, s) = 0
         /\ WeightOf("begin", n, s) = -1 /\ WeightOf("ask", n, s) = -2
         /\ WeightOf("charge", n, s) = -3 /\ WeightOf("call", n, s) = 4 * n + 1
         /\ WeightOf("execute", n, "queued") = 4 * n
         /\ s # "queued" => WeightOf("execute", n, s) = 4 * n - 1
         /\ WeightOf("answer", n, s) = 4 * n - 2 /\ WeightOf("check", n, s) = 2
         /\ WeightOf("finish", n, s) = 1 /\ WeightOf("off", n, s) = 0
  BY DEF WeightOf

LEMMA LeftIsNatural ==
  ASSUME RunTypeOK, CallsInv, BudgetInv, CallsBound
  PROVE  /\ Left \in Nat /\ Weight \in Int /\ (MaxSteps - charged) * PerTurn \in Nat
         /\ stage # "off" => Left > 0
<1>0. /\ charged \in Nat /\ calls \in Nat /\ MaxSteps \in Nat /\ MaxCalls \in Nat
      /\ charged <= MaxSteps /\ calls <= MaxCalls
  BY AgentAssumption DEF RunTypeOK, FlatTypeOK, BudgetInv, CallsBound
<1>1. PerTurn \in Nat /\ PerTurn > 3
  BY <1>0 DEF PerTurn
<1>2. (MaxSteps - charged) * PerTurn \in Nat
  <2>1. MaxSteps - charged \in Nat
    BY <1>0
  <2>2. QED
    BY <1>1, <2>1
<1>3. Weight \in Int /\ (Weight >= 0 \/ (stage \in {"begin", "ask", "charge"} /\ Weight >= -3))
  <2> DEFINE s == Last(steps).status
  <2> HIDE DEF s
  <2>1. Weight = WeightOf(stage, calls, s) /\ stage \in Stages
    BY DEF Weight, s, RunTypeOK, FlatTypeOK
  <2>2. CASE stage \in {"execute", "answer"}
    <3>1. calls > 0
      BY <2>2 DEF CallsInv
    <3>2. Weight \in {4 * calls, 4 * calls - 1, 4 * calls - 2}
      BY <1>0, <2>1, <2>2, Weights
    <3>3. QED
      BY <1>0, <3>1, <3>2
  <2>3. CASE stage \in {"begin", "ask", "charge"}
    BY <1>0, <2>1, <2>3, Weights
  <2>4. CASE stage = "call"
    BY <1>0, <2>1, <2>4, Weights
  <2>5. CASE stage \in {"off", "start", "recover_steps", "recover_transcript", "seed", "prompt", "loop", "check", "finish"}
    BY <1>0, <2>1, <2>5, Weights
  <2>6. QED
    BY <2>1, <2>2, <2>3, <2>4, <2>5 DEF Stages
<1>4. stage \in {"begin", "ask", "charge"} => (MaxSteps - charged) * PerTurn >= PerTurn
  <2>1. stage \in {"begin", "ask", "charge"} => charged < MaxSteps
    BY DEF BudgetInv, Stages
  <2>2. 0 \in 0 .. MaxCalls
    BY <1>0
  <2>3. QED
    BY <1>0, <2>1, <2>2, TurnPaid
<1> DEFINE rest == (MaxSteps - charged) * PerTurn
<1>5. Left = IF stage = "off" THEN 0 ELSE 1 + rest + Weight
  BY DEF Left
<1> HIDE DEF rest
<1>6. rest \in Nat /\ (stage \in {"begin", "ask", "charge"} => rest >= PerTurn)
  BY <1>2, <1>4 DEF rest
<1>7. Left \in Nat /\ (stage # "off" => Left > 0)
  BY <1>1, <1>3, <1>5, <1>6
<1>8. QED
  BY <1>2, <1>3, <1>7

LEMMA LeftStep ==
  ASSUME RunTypeOK, CallsInv, StepsInv, BudgetInv, CallsBound, Drive
  PROVE  Left' < Left
<1> USE DEF Enter, runRow, driver
<1> DEFINE rest == (MaxSteps - charged) * PerTurn
<1>0. /\ charged \in Nat /\ calls \in Nat /\ MaxSteps \in Nat /\ MaxCalls \in Nat
      /\ rest \in Nat /\ Weight \in Int /\ (stage # "off" => Left > 0)
  BY AgentAssumption, LeftIsNatural DEF RunTypeOK, FlatTypeOK
<1>a. Weight = WeightOf(stage, calls, Last(steps).status) /\ Weight' = WeightOf(stage', calls', Last(steps').status)
  BY DEF Weight
<1>1. stage' = "off" => Left' = 0
  BY DEF Left
<1>2. stage # "off" => Left = 1 + rest + Weight
  BY DEF Left
<1>3. charged' = charged /\ stage' # "off" => Left' = 1 + rest + Weight'
  BY DEF Left
<1>4. charged' = charged /\ stage # "off" /\ stage' # "off" /\ Weight' \in Int /\ Weight' < Weight => Left' < Left
  <2>1. rest \in Nat
    BY <1>0
  <2> HIDE DEF rest
  <2>2. ASSUME charged' = charged, stage # "off", stage' # "off", Weight' \in Int, Weight' < Weight PROVE Left' < Left
    <3>1. Left = 1 + rest + Weight /\ Left' = 1 + rest + Weight'
      BY <1>2, <1>3, <2>2
    <3>2. QED
      BY <1>0, <2>1, <2>2, <3>1, AddLess
  <2>3. QED
    BY <2>2
<1>5. stage # "off" /\ stage' = "off" => Left' < Left
  BY <1>0, <1>1
<1>6. CASE Start \/ RecoverSteps \/ RecoverTranscript \/ Seed \/ Prompt
  <2>1. /\ charged' = charged
        /\ <<stage, stage'>> \in {<<"start", "recover_steps">>, <<"recover_steps", "recover_transcript">>,
             <<"recover_transcript", "seed">>, <<"seed", "prompt">>, <<"seed", "loop">>, <<"prompt", "loop">>}
    BY <1>6, Zenon DEF Start, RecoverSteps, RecoverTranscript, Seed, Prompt
  <2>2. calls' = calls
    BY <1>6, Zenon DEF Start, RecoverSteps, RecoverTranscript, Seed, Prompt
  <2>4. Weight' \in Int /\ Weight' < Weight /\ stage # "off" /\ stage' # "off"
    BY <1>0, <1>a, <2>1, <2>2, Weights
  <2>5. QED
    BY <1>4, <2>1, <2>4
<1>7. CASE Loop \/ BeginTurn
  <2>1. /\ charged' = charged /\ stage # "off"
        /\ stage' = "off" \/ (<<stage, stage'>> \in {<<"loop", "begin">>, <<"begin", "ask">>} /\ calls' = calls)
    BY <1>7 DEF Loop, BeginTurn, FailRun
  <2>2. stage' # "off" => Weight' \in Int /\ Weight' < Weight
    BY <1>0, <1>a, <2>1, Weights
  <2>3. QED
    BY <1>4, <1>5, <2>1, <2>2
<1>8. CASE Ask
  <2>1. /\ charged' = charged /\ stage = "ask"
        /\ stage' = "off" \/ (stage' = "charge" /\ calls' \in 0 .. MaxCalls)
    BY <1>8, Zenon DEF Ask, FailRun
  <2>2. stage' # "off" => Weight' \in Int /\ Weight' < Weight
    BY <1>0, <1>a, <2>1, Weights
  <2>3. QED
    BY <1>4, <1>5, <2>1, <2>2
<1>9. CASE Charge
  <2>1. stage = "charge" /\ budget = charged /\ charged < MaxSteps
    BY <1>9 DEF Charge, BudgetInv, Stages
  <2>2. \/ stage' = "off"
        \/ /\ charged' = charged + 1 /\ calls' = calls
           /\ stage' = IF calls = 0 THEN "check" ELSE "call"
    BY <1>9, <2>1 DEF Charge, FailRun
  <2>3. CASE stage' # "off"
    <3>1. Weight = -3 /\ Weight' = IF calls = 0 THEN 2 ELSE 4 * calls + 1
      BY <1>0, <1>a, <2>1, <2>2, <2>3, Weights
    <3>2. calls \in 0 .. MaxCalls
      BY <1>0 DEF CallsBound
    <3>3. /\ PerTurn \in Nat /\ 4 * calls + 1 < PerTurn - 3 /\ PerTurn > 5
          /\ rest = (MaxSteps - (charged + 1)) * PerTurn + PerTurn
      BY <1>0, <2>1, <3>2, TurnPaid DEF PerTurn
    <3> DEFINE less == (MaxSteps - (charged + 1)) * PerTurn
    <3>4. Left' = 1 + less + Weight'
      BY <2>2, <2>3 DEF Left
    <3>5. less \in Int
      BY <1>0, <3>3
    <3> HIDE DEF rest, less
    <3>6. rest = less + PerTurn
      BY <3>3 DEF less
    <3>7. QED
      BY <1>0, <1>2, <2>1, <3>1, <3>3, <3>4, <3>5, <3>6
  <2>4. QED
    BY <1>5, <2>1, <2>3
<1>10. CASE Call
  <2>1. /\ charged' = charged /\ stage = "call"
        /\ \/ calls > 0 /\ calls' = calls - 1 /\ stage' = "call"
           \/ /\ calls > 0 /\ calls' = calls /\ stage' = "execute"
              /\ steps' = Append(steps, Step("tool", "queued"))
           \/ calls = 0 /\ stage' = "loop"
    BY <1>10, Zenon DEF Call
  <2>2. stage' = "execute" => Last(steps').status = "queued"
    <3>1. ASSUME stage' = "execute" PROVE Last(steps') = Step("tool", "queued")
      <4>1. steps' = Append(steps, Step("tool", "queued"))
        BY <2>1, <3>1
      <4>2. QED
        BY <4>1, AfterAdd DEF Last
    <3>2. QED
      BY <3>1 DEF Step
  <2>3. CASE stage' = "call"
    <3>1. calls \in Nat \ {0} /\ calls' = calls - 1 /\ calls' \in Nat
      BY <1>0, <2>1, <2>3
    <3>2. Weight = 4 * calls + 1 /\ Weight' = 4 * (calls - 1) + 1
      BY <1>a, <2>1, <2>3, <3>1, Weights
    <3>3. QED
      BY <1>4, <2>1, <2>3, <3>1, <3>2
  <2>4. CASE stage' = "execute"
    <3>1. Weight = 4 * calls + 1 /\ Weight' = 4 * calls
      BY <1>0, <1>a, <2>1, <2>2, <2>4, Weights
    <3>2. QED
      BY <1>0, <1>4, <2>1, <2>4, <3>1
  <2>5. CASE stage' = "loop"
    <3>1. calls = 0 /\ calls' = 0
      BY <1>10, <2>1, <2>5 DEF Call
    <3>2. Weight = 1 /\ Weight' = 0
      BY <1>a, <2>1, <2>5, <3>1, Weights
    <3>3. QED
      BY <1>4, <2>1, <2>5, <3>2
  <2>6. QED
    BY <2>1, <2>3, <2>4, <2>5
<1>11. CASE Execute
  <2>1. /\ charged' = charged /\ stage = "execute" /\ stage' = "execute" /\ calls' = calls
        /\ Last(steps).status = "queued" /\ Settle(Len(steps), "running")
    BY <1>11 DEF Execute
  <2>2. Last(steps').status = "running"
    <3>1. Len(steps) \in 1 .. Len(steps)
      BY <2>1, TurnPlace
    <3>2. Len(steps') = Len(steps) /\ steps'[Len(steps)].status = "running"
      BY <2>1, <3>1, AfterSettle DEF StepStates
    <3>3. QED
      BY <3>2 DEF Last
  <2>3. Weight' \in Int /\ Weight' < Weight
    <3> DEFINE old == Last(steps).status
               new == Last(steps').status
    <3>1. old = "queued" /\ new = "running" /\ Weight = WeightOf(stage, calls, old) /\ Weight' = WeightOf(stage', calls', new)
      BY <1>a, <2>1, <2>2
    <3> HIDE DEF old, new
    <3>2. Weight = 4 * calls /\ Weight' = 4 * calls - 1
      BY <1>0, <2>1, <3>1, Weights
    <3>3. QED
      BY <1>0, <3>2
  <2>4. QED
    BY <1>4, <2>1, <2>3
<1>12. CASE RunTool
  <2>1. /\ charged' = charged /\ stage = "execute" /\ stage' = "answer" /\ calls' = calls
        /\ Last(steps).status = "running"
    BY <1>12 DEF RunTool
  <2>2. Weight' \in Int /\ Weight' < Weight
    BY <1>0, <1>a, <2>1, Weights
  <2>3. QED
    BY <1>4, <2>1, <2>2
<1>13. CASE AnswerCall
  <2>1. /\ charged' = charged /\ stage = "answer" /\ stage' = "call" /\ calls' = calls - 1
        /\ calls' \in Nat
    BY <1>0, <1>13 DEF AnswerCall, CallsInv
  <2>2. Weight' \in Int /\ Weight' < Weight
    BY <1>0, <1>a, <2>1, Weights
  <2>3. QED
    BY <1>4, <2>1, <2>2
<1>14. CASE Finish
  <2>1. charged' = charged /\ stage # "off"
    BY <1>14, Zenon DEF Finish
  <2>2. stage' = "off" \/ (stage = "check" /\ stage' = "finish" /\ calls' = calls)
    BY <1>14, Zenon DEF Finish, FailRun
  <2>3. stage' # "off" => Weight' \in Int /\ Weight' < Weight
    BY <1>0, <1>a, <2>2, Weights
  <2>4. QED
    BY <1>4, <1>5, <2>1, <2>2, <2>3
<1>15. QED
  BY <1>6, <1>7, <1>8, <1>9, <1>10, <1>11, <1>12, <1>13, <1>14 DEF Drive

-----------------------------------------------------------------------------
(***************************************************************************)
(* Theorems.                                                               *)
(***************************************************************************)
\* The inductive invariant: the steps say which place a driver that takes over finds, and
\* the transcript which calls wait.
AgentInv ==
  /\ RunTypeOK /\ TranscriptInv /\ CallsInv /\ StepsInv /\ BudgetInv /\ CallsBound

\* For any budget, number of tool calls, runs and deaths of drivers: types, what the
\* transcript, the steps and the budget are at each place of the driver, inductively.
THEOREM AgentInvariant == RunSpec => []AgentInv
<1>1. RunInit => AgentInv
  BY RunTypeInit, TranscriptInit, StepsInit, BudgetInit DEF AgentInv
<1>2. AgentInv /\ [RunNext]_runVars => AgentInv'
  BY RunTypeStep, TranscriptStep, CallsStep, StepsStep, BudgetStep, CallsBoundStep DEF AgentInv
<1>3. QED
  BY <1>1, <1>2, PTL DEF RunSpec

\* Wherever drivers die and others take over, what is sent to the model is headed by the
\* system and the user message, and every tool call in it is answered exactly, unless a
\* death has torn the first two messages or the answers of a completion apart.
THEOREM RequestsAreWellFormed == RunSpec => []RequestsWellFormed
<1>1. AgentInv => RequestsWellFormed
  BY AcceptedIsWellFormed DEF AgentInv, TranscriptInv, RequestsWellFormed
<1>2. QED
  BY <1>1, AgentInvariant, PTL

\* A run that SUCCEEDED has its answer in its last step, and no step still runs.
THEOREM ResultIsInTheLastStep == RunSpec => []ResultIsLastStep
<1>1. AgentInv => ResultIsLastStep
  <2> SUFFICES ASSUME AgentInv, runStatus = "succeeded"
               PROVE  /\ Last(steps) = Step("model", "succeeded")
                      /\ \A i \in DOMAIN steps : steps[i].status # "running"
    BY DEF ResultIsLastStep
  <2>1. RunTypeOK /\ RunningSteps = {} /\ LastIsModel /\ steps[Len(steps)].status = "succeeded"
    BY DEF AgentInv, StepsInv
  <2>2. steps[Len(steps)] \in AgentSteps /\ steps[Len(steps)].kind = "model"
    BY <2>1, StepsFacts, ElementOfSeq DEF LastIsModel
  <2>3. Last(steps) = Step("model", "succeeded")
    BY <2>1, <2>2 DEF Last, Step, AgentSteps
  <2>4. QED
    BY <2>1, <2>3 DEF RunningSteps
<1>2. QED
  BY <1>1, AgentInvariant, PTL

\* However often a run is taken over, the turns that its model was asked for exceed the
\* budget by no more than one for each driver that died, and it is charged for no more
\* than the budget.
THEOREM BudgetHolds == RunSpec => []TurnsBounded
<1>1. AgentInv => TurnsBounded
  BY DEF AgentInv, BudgetInv, TurnsBounded
<1>2. QED
  BY <1>1, AgentInvariant, PTL

\* The core of run() returning: what a driver has left is a natural number that each of its
\* steps lowers, whatever the model and the tools answer.
THEOREM DriverWorksItselfOut == RunSpec => []LeftType /\ Works
<1>1. AgentInv => LeftType
  BY LeftIsNatural DEF AgentInv, LeftType
<1>2. AgentInv /\ [RunNext]_runVars => [Drive => Left' < Left]_runVars
  BY LeftStep DEF AgentInv
<1>3. QED
  BY <1>1, <1>2, AgentInvariant, PTL DEF RunSpec, Works
=============================================================================
