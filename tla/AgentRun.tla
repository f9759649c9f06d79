------------------------------ MODULE AgentRun ------------------------------
(***************************************************************************)
(* One AgentRun and the AgentLoopDriver that works it (apps/ai/runtime/    *)
(* agent_loop.py, executor.py, budget.py, state_machine.py).  The          *)
(* transcript, the steps and the budget are rows written one statement at  *)
(* a time; a driver that dies leaves what it wrote, and another call of    *)
(* run() recovers it.  The recall of MAL links creates the runs.           *)
(***************************************************************************)
EXTENDS Naturals, Sequences, SequencesExt

CONSTANTS
  MaxSteps,      \* budget.max_steps
  MaxCalls,      \* bound: tool calls in one completion
  MaxRuns,       \* bound: runs the recall creates for the work, one after another
  MaxDeaths      \* bound: drivers that die

ASSUME AgentAssumption == MaxSteps \in Nat \ {0} /\ {MaxCalls, MaxRuns, MaxDeaths} \subseteq Nat

VARIABLES
  runStatus, charged,  \* the AgentRun row: its status and budget.steps_used
  transcript,          \* its AgentMessage rows
  steps,               \* its AgentStep rows
  stage,               \* of the driver, "off" when none is alive
  budget,              \* steps_used in the driver's memory
  calls,               \* tool calls of the completion in hand not answered yet
  turns,               \* history: completions of this run
  torn,                \* history: a driver died between two messages that belong together
  runs, deaths         \* history: what MaxRuns and MaxDeaths count

runRow  == <<runStatus, charged, transcript, steps>>
driver  == <<stage, budget, calls>>
runVars == <<runRow, driver, turns, torn, runs, deaths>>

Message(role, n) == [role |-> role, calls |-> n]
Step(kind, s) == [kind |-> kind, status |-> s]

RunInit ==
  /\ runStatus = "none" /\ charged = 0 /\ transcript = <<>> /\ steps = <<>>
  /\ stage = "off" /\ budget = 0 /\ calls = 0
  /\ turns = 0 /\ torn = FALSE /\ runs = 0 /\ deaths = 0

Enter(l) == stage' = l
Say(role, n) == transcript' = Append(transcript, Message(role, n))
Settle(i, s) == steps' = [steps EXCEPT ![i].status = s]
\* The step of the turn in hand: no other driver adds steps, so it is the last model step.
TurnStep == SelectLastInSeq(steps, LAMBDA s : s.kind = "model")

-----------------------------------------------------------------------------
(***************************************************************************)
(* recall_one and the calls of run().                                      *)
(***************************************************************************)
\* A failed run gives its key away and a new one is created; a run that succeeded, or
\* that looks unfinished, is left alone.
Recall ==
  /\ stage = "off" /\ runStatus \in {"none", "failed"} /\ runs < MaxRuns /\ runs' = runs + 1
  /\ runStatus' = "queued" /\ charged' = 0 /\ transcript' = <<>> /\ steps' = <<>>
  /\ turns' = 0 /\ torn' = FALSE /\ Enter("start") /\ UNCHANGED <<budget, calls, deaths>>
\* Whoever calls run() again for a run whose driver died.
Resume ==
  /\ stage = "off" /\ runStatus \in {"queued", "running"} /\ Enter("start")
  /\ UNCHANGED <<runRow, budget, calls, turns, torn, runs, deaths>>

\* Between the two prompts, or with some calls of a completion answered and others not.
Between ==
  \/ stage = "prompt"
  \/ stage \in {"call", "execute", "answer"} /\ calls > 0 /\ Last(transcript).role = "tool"
Die ==
  /\ stage # "off" /\ deaths < MaxDeaths /\ deaths' = deaths + 1
  /\ torn' = (torn \/ Between)
  /\ Enter("off") /\ budget' = 0 /\ calls' = 0 /\ UNCHANGED <<runRow, turns, runs>>

-----------------------------------------------------------------------------
(***************************************************************************)
(* _start_or_resume and _recover_inflight.                                 *)
(***************************************************************************)
Start ==
  /\ stage = "start" /\ runStatus' = "running" /\ Enter("recover_steps")
  /\ UNCHANGED <<charged, transcript, steps, budget, calls, turns, torn, runs, deaths>>
RecoverSteps ==
  /\ stage = "recover_steps"
  /\ steps' = [i \in DOMAIN steps |->
       IF steps[i].status = "running" THEN [steps[i] EXCEPT !.status = "failed"] ELSE steps[i]]
  /\ Enter("recover_transcript")
  /\ UNCHANGED <<runStatus, charged, transcript, budget, calls, turns, torn, runs, deaths>>

\* An assistant message with tool calls that no tool message follows.
Unanswered(i) ==
  /\ transcript[i].role = "assistant" /\ transcript[i].calls > 0
  /\ i < Len(transcript) => transcript[i + 1].role # "tool"
\* Faulty: the interrupted turn is kept.
KeepTranscript ==
  /\ stage = "recover_transcript" /\ Enter("seed")
  /\ UNCHANGED <<runRow, budget, calls, turns, torn, runs, deaths>>
\* Everything from the first of them on is deleted.
RecoverTranscript ==
  /\ stage = "recover_transcript" /\ Enter("seed")
  /\ LET bad == {i \in DOMAIN transcript : Unanswered(i)} IN
     transcript' = IF bad = {} THEN transcript
                   ELSE SubSeq(transcript, 1, (CHOOSE i \in bad : \A j \in bad : i <= j) - 1)
  /\ UNCHANGED <<runStatus, charged, steps, budget, calls, turns, torn, runs, deaths>>

\* The prompts are written into an empty transcript; then the budget is loaded.
Seed ==
  /\ stage = "seed" /\ budget' = charged
  /\ IF transcript = <<>> THEN Say("system", 0) /\ Enter("prompt")
     ELSE Enter("loop") /\ UNCHANGED transcript
  /\ UNCHANGED <<runStatus, charged, steps, calls, turns, torn, runs, deaths>>
Prompt ==
  /\ stage = "prompt" /\ Say("user", 0) /\ Enter("loop")
  /\ UNCHANGED <<runStatus, charged, steps, budget, calls, turns, torn, runs, deaths>>

-----------------------------------------------------------------------------
(***************************************************************************)
(* The loop.                                                               *)
(***************************************************************************)
\* Faulty: the run is failed and the loop is not left.
FailAndStay == runStatus' = "failed" /\ calls' = 0 /\ UNCHANGED <<stage, budget>>
\* _fail: conditional on RUNNING; the steps stay as they are.
FailRun == runStatus' = "failed" /\ Enter("off") /\ budget' = 0 /\ calls' = 0

Loop ==
  /\ stage = "loop"
  /\ IF budget >= MaxSteps THEN FailRun /\ UNCHANGED steps
     ELSE steps' = Append(steps, Step("model", "queued")) /\ Enter("begin")
          /\ UNCHANGED <<runStatus, budget, calls>>
  /\ UNCHANGED <<charged, transcript, turns, torn, runs, deaths>>
BeginTurn ==
  /\ stage = "begin" /\ Settle(TurnStep, "running") /\ Enter("ask")
  /\ UNCHANGED <<runStatus, charged, transcript, budget, calls, turns, torn, runs, deaths>>

\* complete_agent is tried three times with the transcript of this moment; the answer is
\* appended.  The bound on turns is one above what the budget lets through.
Ask ==
  /\ stage = "ask" /\ turns <= MaxSteps + MaxDeaths
  /\ \/ /\ turns' = turns + 1
        /\ \E n \in 0 .. MaxCalls : Say("assistant", n) /\ calls' = n
        /\ Enter("charge") /\ UNCHANGED <<runStatus, budget>>
     \/ FailRun /\ UNCHANGED <<transcript, turns>>
  /\ UNCHANGED <<charged, steps, torn, runs, deaths>>

\* record_execution and BudgetManager.save; an answer without usage data fails the run.
Charge ==
  /\ stage = "charge"
  /\ \/ /\ budget' = budget + 1 /\ charged' = budget + 1
        /\ Enter(IF calls = 0 THEN "check" ELSE "call") /\ UNCHANGED <<runStatus, calls>>
     \/ FailRun /\ UNCHANGED charged
  /\ UNCHANGED <<transcript, steps, turns, torn, runs, deaths>>

\* _execute_tool_calls: a call that is not allowed is answered at once, the others get a
\* child step.
Call ==
  /\ stage = "call"
  /\ \/ calls > 0 /\ Say("tool", 0) /\ calls' = calls - 1 /\ UNCHANGED <<stage, steps>>
     \/ calls > 0 /\ steps' = Append(steps, Step("tool", "queued")) /\ Enter("execute") /\ UNCHANGED <<transcript, calls>>
     \/ calls = 0 /\ Settle(TurnStep, "succeeded") /\ Enter("loop") /\ UNCHANGED <<transcript, calls>>
  /\ UNCHANGED <<runStatus, charged, budget, turns, torn, runs, deaths>>
\* StepExecutor.execute: the child step is started;
Execute ==
  /\ stage = "execute" /\ Last(steps).status = "queued" /\ Settle(Len(steps), "running")
  /\ UNCHANGED <<runStatus, charged, transcript, driver, turns, torn, runs, deaths>>
\* _execute_tool, _finish_step: a missing scope, a key that is missing, in use or used up,
\* and a failure of the tool fail the step; the loop goes on with the error as the answer.
RunTool ==
  /\ stage = "execute" /\ Last(steps).status = "running" /\ Enter("answer")
  /\ \E s \in {"succeeded", "failed"} : Settle(Len(steps), s)
  /\ UNCHANGED <<runStatus, charged, transcript, budget, calls, turns, torn, runs, deaths>>
AnswerCall ==
  /\ stage = "answer" /\ Say("tool", 0) /\ calls' = calls - 1 /\ Enter("call")
  /\ UNCHANGED <<runStatus, charged, steps, budget, turns, torn, runs, deaths>>

\* Faulty: the run is finished before its step.
FinishRunFirst ==
  /\ \/ stage = "check" /\ runStatus' = "succeeded" /\ Enter("finish") /\ UNCHANGED <<steps, budget>>
     \/ stage = "finish" /\ Settle(TurnStep, "succeeded") /\ Enter("off") /\ budget' = 0 /\ UNCHANGED runStatus
  /\ UNCHANGED <<charged, transcript, calls, turns, torn, runs, deaths>>
\* _finish_turn: an answer that is empty or does not fit the schema fails the run;
\* otherwise the step succeeds, then the run.
Finish ==
  /\ \/ stage = "check" /\ FailRun /\ UNCHANGED steps
     \/ stage = "check" /\ Settle(TurnStep, "succeeded") /\ Enter("finish") /\ UNCHANGED <<runStatus, budget, calls>>
     \/ stage = "finish" /\ runStatus' = "succeeded" /\ Enter("off") /\ budget' = 0 /\ UNCHANGED <<steps, calls>>
  /\ UNCHANGED <<charged, transcript, turns, torn, runs, deaths>>

Drive ==
  \/ Start \/ RecoverSteps \/ RecoverTranscript \/ Seed \/ Prompt
  \/ Loop \/ BeginTurn \/ Ask \/ Charge \/ Call \/ Execute \/ RunTool \/ AnswerCall \/ Finish
RunNext == Recall \/ Resume \/ Die \/ Drive

\* A driver that is alive goes on; nobody has to call run() again.
RunSpec == RunInit /\ [][RunNext]_runVars /\ WF_runVars(Drive)

-----------------------------------------------------------------------------
(***************************************************************************)
(* Properties.                                                             *)
(***************************************************************************)
\* What is sent to the model: the two prompts come first, and the tool messages right
\* after an assistant message answer all of its calls.
AnswersAfter(i) ==
  CHOOSE n \in 0 .. Len(transcript) - i :
    /\ \A k \in 1 .. n : transcript[i + k].role = "tool"
    /\ i + n < Len(transcript) => transcript[i + n + 1].role # "tool"
WellFormed ==
  /\ Len(transcript) >= 2 /\ transcript[1].role = "system" /\ transcript[2].role = "user"
  /\ \A i \in DOMAIN transcript :
       transcript[i].role = "assistant" => AnswersAfter(i) = transcript[i].calls

\* Recovery leaves a transcript that a provider accepts, whatever the dead driver was at,
\* but for a death between the prompts or between the answers of one completion.
RequestsWellFormed == stage = "ask" => WellFormed \/ torn

\* The recall reads the result of a run that succeeded from its last step: that is the
\* model step that succeeded with the final answer, and no step is left running.
ResultIsLastStep ==
  runStatus = "succeeded" =>
    /\ Last(steps) = Step("model", "succeeded")
    /\ \A i \in DOMAIN steps : steps[i].status # "running"

\* A call of run() returns, however many tools the model asks for.
DriverReturns == stage # "off" ~> stage = "off"

\* "Make an interrupted agent run safely resumable" (agent_loop.py): does not hold, see torn.
AlwaysWellFormed == stage = "ask" => WellFormed
=============================================================================
