---------------------------- MODULE AiringBoard ----------------------------
(***************************************************************************)
(* The active airing board, the rows it shows and who writes them: the     *)
(* calendar sync (sync/services/calendar_service.py), the season pipeline  *)
(* (season_pipeline_service.py, mal_season_pipeline.py) that rebuilds the  *)
(* projection (index/services/airing_board_projection.py) and the check    *)
(* for the turn of the season (season_rollover_service.py), which runs     *)
(* both.  Celery beat starts each of the three over and over, and nothing  *)
(* keeps them apart.                                                       *)
(*                                                                         *)
(* A work is on the board for the sources that list it: weekdays, instants *)
(* and formats are left out.                                               *)
(***************************************************************************)
EXTENDS Integers, Sequences, FiniteSets

CONSTANTS
  Subjects,      \* works that Bangumi's calendar may list
  Payloads,      \* the weeks that Bangumi may answer with: non-empty sets of subjects
  Titles,        \* works of MyAnimeList
  SameWork,      \* of a title, the subject that is the same anime
  LastQuarter,   \* bound: quarters are 1 .. LastQuarter
  MaxRuns,       \* bound: tasks that run at the same time
  MaxFailing     \* bound: failures of a leg

ASSUME BoardAssumption ==
  /\ SameWork \in [Titles -> Subjects] /\ Subjects \intersect Titles = {}
  /\ Payloads \subseteq (SUBSET Subjects) \ {{}} /\ {MaxRuns, MaxFailing} \subseteq Nat
  /\ LastQuarter \in Nat \ {0}

VARIABLES
  quarter, graceOver,    \* the date: its quarter, and whether the grace period is over
  activeBoard,           \* the active board; season -1 without a board, 0 for ""
  events,                \* the weekday AiringEvents of the calendar, and their observation
  snapshot,              \* of each quarter, what MyAnimeList listed
  linked,                \* titles whose entity was merged into the subject's
  todo,                  \* of each task, the legs that its run still has, and their steps
  held,                  \* what a run has read
  trouble                \* history: what MaxFailing counts

boardVars == <<quarter, graceOver, activeBoard, events, snapshot, linked, todo, held, trouble>>

Tasks    == {"calendar", "pipeline", "rollover"}
Nothing  == {}       \* no observation: an observation is the payload it records
NoBoard  == [season |-> -1, obs |-> Nothing, entries |-> {}]
\* What a rebuild has read of the board: its row may be gone (archived) since, or there
\* was none.
Blank    == [season |-> 0, obs |-> Nothing, rows |-> {}, gone |-> FALSE, none |-> FALSE]

Rebuild  == <<"mal", "ensure", "switch", "candidates", "write">>
Calendar == <<"prepare", "replace">>

BoardInit ==
  /\ quarter = 1 /\ graceOver = TRUE /\ activeBoard = NoBoard
  /\ events = [obs |-> Nothing, works |-> {}]
  /\ snapshot = [q \in 0 .. LastQuarter + 1 |-> {}] /\ linked = {}
  /\ todo = [t \in Tasks |-> <<>>] /\ held = [t \in Tasks |-> Blank] /\ trouble = 0

-----------------------------------------------------------------------------
At(t, step) == todo[t] # <<>> /\ Head(Head(todo[t])) = step
LegOver(t)  == Len(Head(todo[t])) = 1
\* The run goes on with its next step, or its next leg.
Rest(t) == IF LegOver(t) THEN Tail(todo[t]) ELSE <<Tail(Head(todo[t]))>> \o Tail(todo[t])
Advance(t) == todo' = [todo EXCEPT ![t] = Rest(t)]

Rebuilding(t) == At(t, "switch") \/ At(t, "candidates") \/ At(t, "write")

\* refresh(): in place within a season, otherwise the active board is archived and a new
\* one created.  Rebuilds that hold the old one go on with it.
Refreshed(season, obs) ==
  IF activeBoard.season = season THEN [activeBoard EXCEPT !.obs = obs]
  ELSE [season |-> season, obs |-> obs, entries |-> {}]
Archived(season) ==
  [t \in Tasks |-> IF activeBoard.season # season /\ Rebuilding(t) THEN [held[t] EXCEPT !.gone = TRUE]
                   ELSE held[t]]
Forget(t) == [held EXCEPT ![t] = Blank]

-----------------------------------------------------------------------------
(***************************************************************************)
(* The tasks.                                                              *)
(***************************************************************************)
Slot(t) == todo[t] = <<>> /\ Cardinality({u \in Tasks : todo[u] # <<>>}) < MaxRuns
StartCalendar ==
  /\ Slot("calendar") /\ todo' = [todo EXCEPT !["calendar"] = <<Calendar>>]
  /\ UNCHANGED <<quarter, graceOver, activeBoard, events, snapshot, linked, held, trouble>>
StartPipeline ==
  /\ Slot("pipeline") /\ todo' = [todo EXCEPT !["pipeline"] = <<Rebuild>>]
  /\ UNCHANGED <<quarter, graceOver, activeBoard, events, snapshot, linked, held, trouble>>

\* SeasonRolloverService.run(): prefetch every source, each on its own; then the pipeline,
\* once the grace period is over.
StartRollover ==
  /\ Slot("rollover") /\ activeBoard.season # quarter
  /\ todo' = [todo EXCEPT !["rollover"] =
                IF activeBoard.season = -1 THEN <<Rebuild>>
                ELSE <<<<"mal">>, Calendar, <<"grace">>, Rebuild>>]
  /\ UNCHANGED <<quarter, graceOver, activeBoard, events, snapshot, linked, held, trouble>>
Grace ==
  /\ At("rollover", "grace")
  /\ IF graceOver THEN Advance("rollover") ELSE todo' = [todo EXCEPT !["rollover"] = <<>>]
  /\ UNCHANGED <<quarter, graceOver, activeBoard, events, snapshot, linked, held, trouble>>

\* An exception in a leg is recorded and ends the leg.
Fail(t) ==
  /\ todo[t] # <<>> /\ trouble < MaxFailing /\ trouble' = trouble + 1
  /\ todo' = [todo EXCEPT ![t] = Tail(@)] /\ held' = Forget(t)
  /\ UNCHANGED <<quarter, graceOver, activeBoard, events, snapshot, linked>>
\* The task is killed.
Kill(t) ==
  /\ todo[t] # <<>> /\ trouble < MaxFailing /\ trouble' = trouble + 1
  /\ todo' = [todo EXCEPT ![t] = <<>>] /\ held' = Forget(t)
  /\ UNCHANGED <<quarter, graceOver, activeBoard, events, snapshot, linked>>

-----------------------------------------------------------------------------
(***************************************************************************)
(* sync_calendar.                                                          *)
(***************************************************************************)
\* Faulty: a calendar none of whose subjects could be upserted goes on.
PrepareAnything(t) ==
  /\ At(t, "prepare") /\ Advance(t)
  /\ \E payload \in Payloads : \E works \in SUBSET payload :
       held' = [held EXCEPT ![t] = [Blank EXCEPT !.season = quarter, !.obs = payload, !.rows = works]]
  /\ UNCHANGED <<quarter, graceOver, activeBoard, events, snapshot, linked, trouble>>
\* Fetch the week, upsert its subjects, some of which may fail, and take the season of
\* today; with no subject left, raise.
Prepare(t) ==
  /\ At(t, "prepare") /\ Advance(t)
  /\ \E payload \in Payloads : \E works \in (SUBSET payload) \ {{}} :
       held' = [held EXCEPT ![t] = [Blank EXCEPT !.season = quarter, !.obs = payload, !.rows = works]]
  /\ UNCHANGED <<quarter, graceOver, activeBoard, events, snapshot, linked, trouble>>

\* The events of the calendar are deleted, whichever observation had them.
NewEvents(t) == [obs |-> held[t].obs, works |-> held[t].rows]
\* Faulty: the observation is recorded, the board keeps the one it had.
ReplaceUnrefreshed(t) ==
  /\ At(t, "replace") /\ Advance(t)
  /\ events' = NewEvents(t)
  /\ activeBoard' = IF activeBoard.season = -1 THEN Refreshed(held[t].season, held[t].obs) ELSE activeBoard
  /\ held' = Forget(t) /\ UNCHANGED <<quarter, graceOver, snapshot, linked, trouble>>
\* One transaction: record and observation, delete and insert the events, refresh the
\* board.  A payload seen before has its observation already.
Replace(t) ==
  /\ At(t, "replace") /\ Advance(t)
  /\ events' = NewEvents(t)
  /\ activeBoard' = Refreshed(held[t].season, held[t].obs)
  /\ held' = [Archived(held[t].season) EXCEPT ![t] = Blank]
  /\ UNCHANGED <<quarter, graceOver, snapshot, linked, trouble>>

-----------------------------------------------------------------------------
(***************************************************************************)
(* The MAL leg and the rebuild of the projection.                          *)
(***************************************************************************)
\* The listing of the season; imports and candidates may link titles to subjects.
FetchSeason(t) ==
  /\ At(t, "mal") /\ Advance(t)
  /\ snapshot' = [snapshot EXCEPT ![quarter] = Titles]
  /\ UNCHANGED <<quarter, graceOver, activeBoard, events, linked, held, trouble>>

\* _ensure_board reads the active board, without a lock.
EnsureBoard(t) ==
  /\ At(t, "ensure") /\ Advance(t)
  /\ held' = [held EXCEPT ![t] = IF activeBoard.season = -1 THEN [Blank EXCEPT !.none = TRUE]
                                ELSE [Blank EXCEPT !.season = activeBoard.season, !.obs = activeBoard.obs]]
  /\ UNCHANGED <<quarter, graceOver, activeBoard, events, snapshot, linked, trouble>>
\* refresh() for "" where there was none, whatever there is by now,
CreateBoard(t) ==
  /\ At(t, "switch") /\ held[t].none
  /\ activeBoard' = Refreshed(0, Nothing) /\ held' = [Archived(0) EXCEPT ![t] = Blank]
  /\ UNCHANGED <<quarter, graceOver, events, snapshot, linked, todo, trouble>>
\* and for this quarter once that is allowed, with the observation that was read.
SwitchBoard(t) ==
  /\ At(t, "switch") /\ ~ held[t].none /\ Advance(t)
  /\ IF held[t].season # quarter /\ graceOver
     THEN /\ activeBoard' = Refreshed(quarter, held[t].obs)
          /\ held' = [Archived(quarter) EXCEPT ![t] = [Blank EXCEPT !.season = quarter, !.obs = held[t].obs]]
     ELSE UNCHANGED <<activeBoard, held>>
  /\ UNCHANGED <<quarter, graceOver, events, snapshot, linked, trouble>>

\* One bar for each source that has the work, grouped by the canonical work.
\* active_airing_board_events: the events of the active board's observation, or without
\* one those that there are.
OfCalendar == IF activeBoard.obs = Nothing \/ events.obs = activeBoard.obs THEN events.works ELSE {}
\* _mal_work_index takes entities that are ACTIVE: a merged title is not among them.
Indexed == Titles \ linked
\* The snapshots of the board's season and of the next one; "" has none.
Wanted(season) == IF season = 0 THEN {season} ELSE {season, season + 1}
OfSeason(season) == UNION {snapshot[q] : q \in Wanted(season)} \intersect Indexed
Bars(season) == OfCalendar \union OfSeason(season)

Candidates(t) ==
  /\ At(t, "candidates") /\ Advance(t)
  /\ held' = [held EXCEPT ![t].rows = Bars(held[t].season)]
  /\ UNCHANGED <<quarter, graceOver, activeBoard, events, snapshot, linked, trouble>>

\* One transaction: the entries of the board that was read are replaced, and refresh()
\* is called with the season and the observation that were read.
Write(t) ==
  /\ At(t, "write") /\ Advance(t)
  /\ LET mine == held[t] IN
     /\ activeBoard' = IF mine.gone THEN Refreshed(mine.season, mine.obs)
                 ELSE [Refreshed(mine.season, mine.obs) EXCEPT !.entries = mine.rows]
     /\ held' = [Archived(mine.season) EXCEPT ![t] = Blank]
  /\ UNCHANGED <<quarter, graceOver, events, snapshot, linked, trouble>>

-----------------------------------------------------------------------------
\* A title's entity is merged into the subject's (EntityResolution).
Link(w) ==
  /\ w \in Titles \ linked /\ linked' = linked \union {w}
  /\ UNCHANGED <<quarter, graceOver, activeBoard, events, snapshot, todo, held, trouble>>

NextQuarter ==
  /\ graceOver /\ quarter < LastQuarter /\ quarter' = quarter + 1 /\ graceOver' = FALSE
  /\ UNCHANGED <<activeBoard, events, snapshot, linked, todo, held, trouble>>
GraceEnds ==
  /\ ~ graceOver /\ graceOver' = TRUE
  /\ UNCHANGED <<quarter, activeBoard, events, snapshot, linked, todo, held, trouble>>

Start == StartCalendar \/ StartPipeline \/ StartRollover
Step(t) ==
  \/ Prepare(t) \/ Replace(t) \/ FetchSeason(t) \/ EnsureBoard(t) \/ CreateBoard(t) \/ SwitchBoard(t)
  \/ Candidates(t) \/ Write(t)
  \/ t = "rollover" /\ Grace
BoardNext ==
  \/ Start \/ NextQuarter \/ GraceEnds \/ \E w \in Titles : Link(w)
  \/ \E t \in Tasks : Step(t) \/ Fail(t) \/ Kill(t)

\* Beat starts the calendar and the pipeline every day, runs go on, the date moves on.
BoardFairness ==
  /\ SF_boardVars(StartCalendar) /\ SF_boardVars(StartPipeline) /\ WF_boardVars(GraceEnds)
  /\ \A t \in Tasks : WF_boardVars(Step(t))
BoardSpec == BoardInit /\ [][BoardNext]_boardVars /\ BoardFairness

-----------------------------------------------------------------------------
(***************************************************************************)
(* Properties.                                                             *)
(***************************************************************************)

\* The calendar is never emptied: once it has shown something, no failure of a source,
\* of a subject or of a run takes the last row away.
CalendarNeverEmptied == [][events.works # {} => events.works' # {}]_boardVars

\* The board shows this quarter, with the rows of the latest calendar, and each anime once.
Healthy ==
  /\ activeBoard.season = quarter /\ activeBoard.obs = events.obs /\ events.works # {}
  /\ activeBoard.entries # {} /\ \A w \in Titles : ~ {w, SameWork[w]} \subseteq activeBoard.entries \/ w \notin linked

\* A rebuild that the calendar overtakes writes the old observation back.
Overtaken == (\E t \in Tasks : Rebuilding(t)) /\ (\E t \in Tasks : At(t, "replace"))
\* Whatever a rebuild wrote over the calendar's refresh, whatever season it brought back,
\* whatever failed: unless that happens day after day, the board is in order again and
\* again.
BoardRecovers == <>[] ~ Overtaken => []<>Healthy

\* The comment of the rollover check: nothing switches the board before the grace period
\* is over.
GraceRespected ==
  [][activeBoard.season \in 1 .. LastQuarter /\ activeBoard'.season # activeBoard.season => graceOver]_boardVars
=============================================================================
