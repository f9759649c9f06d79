--------------------------- MODULE MCSyncCampaign ---------------------------
(***************************************************************************)
(* Instances of SyncCampaign for TLC: three catalogue ids at most, two     *)
(* runners, and the values of the constants that are functions.            *)
(***************************************************************************)
EXTENDS SyncCampaign, TLC

\* Id 1 may need retries; the others import, answer 404 or fail for good.
Mixed == [i \in Ids |-> IF i = 1 THEN {"ok", "retry"} ELSE {"ok", "gone", "error"}]
AllOk == [i \in Ids |-> {"ok"}]
\* Ids 1 and 2 share a full date, ids from 3 on a partial one: a window boundary can fall
\* between two ids of each.
SharedDates == [i \in Ids |-> IF i <= 2 THEN 4 ELSE 7]
SharedPartialDate == [i \in Ids |-> 3]
NoSample == [f \in AiPhases |-> 0]
SampleOne == [f \in AiPhases |-> IF f = "enriching" THEN 1 ELSE 0]
WorkerSymmetry == Permutations(Workers) \* for safety runs only

\* campaign_watermark_overlap.cfg: of all behaviours of one worker and one watcher, those
\* in which the watcher holds the document of its third page until the worker's review.
Worker  == CHOOSE r \in Workers : TRUE
Watcher == CHOOSE r \in Watchers : TRUE
Ascending == [i \in Ids |-> 2 * i]
Moves(r) == \/ pc'[r] # pc[r] \/ seen'[r] # seen[r] \/ local'[r] # local[r]
            \/ batch'[r] # batch[r] \/ step'[r] # step[r]
Holds == pc[Watcher] = "savePage" /\ local[Watcher].pages = 3
LateSavePage ==
  /\ Moves(Watcher) /\ local[Watcher].pages = 3
       => Holds /\ status = "reviewing" /\ pc[Worker] = "refresh" /\ goal[Worker] = "reviewing"
  /\ Moves(Worker) => local[Watcher].pages = 3
  /\ used'.abort # used.abort => status = "reviewing" /\ params.watermark = 4
  /\ used'.control # used.control => status = "failed" /\ status' = "failed"
  /\ tasks' <= 1
=============================================================================
