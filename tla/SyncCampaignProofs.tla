------------------------- MODULE SyncCampaignProofs -------------------------
(***************************************************************************)
(* Theorems about SyncCampaign for every catalogue, page and batch size    *)
(* and number of workers, and of watchers unless a theorem says otherwise. *)
(***************************************************************************)
EXTENDS SyncCampaign, FiniteSetTheorems, TLAPS

LEMMA NaturalConstants ==
  /\ NumIds \in Nat /\ MaxShards \in Nat
  /\ PageSize \in Nat /\ WindowPages \in Nat /\ BatchSize \in Nat
  /\ MaxPages \in Nat
  /\ PageSize \in Int /\ NumIds \in Int
BY ConstantsAssumption

\* The work items of a campaign are finitely many, so counting them is a number.
LEMMA KeysFinite ==
  /\ IsFiniteSet(Keys)
  /\ \A S \in SUBSET Keys : Cardinality(S) \in Nat
<1>1. IsFiniteSet(1 .. MaxShards) /\ IsFiniteSet(Ids)
  BY FS_Interval, NaturalConstants DEF Ids
<1>2. IsFiniteSet(Keys)
  BY <1>1, FS_Product DEF Keys
<1>3. QED
  BY <1>2, FS_Subset, FS_CardinalityType

LEMMA ListedBeforeNat == \A w : ListedBefore(w) \in Nat
<1>1. IsFiniteSet(Ids)
  BY FS_Interval, NaturalConstants DEF Ids
<1>2. QED
  BY <1>1, FS_Subset, FS_CardinalityType DEF ListedBefore

\* Stepping back from a date leads to an earlier one, or nowhere from a partial date.
LEMMA PreviousDayNat ==
  ASSUME NEW d \in Nat \ {0}
  PROVE  PreviousDay(d) \in Nat /\ (PreviousDay(d) < d \/ (PreviousDay(d) = d /\ Partial(d)))
<1>1. CASE Partial(d)
  BY <1>1 DEF PreviousDay
<1>2. CASE ~Partial(d)
  <2>1. d # 1
    BY <1>2 DEF Partial
  <2>2. QED
    BY <1>2, <2>1 DEF PreviousDay
<1>3. QED
  BY <1>1, <1>2

\* The date a page reaches is a date.
LEMMA PageWatermarkNat ==
  ASSUME NEW w \in Nat, NEW n \in Nat
  PROVE  PageWatermark(w, n) \in Nat
<1>1. CASE PageIds(w, n) = {}
  BY <1>1 DEF PageWatermark
<1>2. CASE PageIds(w, n) # {}
  <2> DEFINE end == ListedBefore(w) + n * PageSize
  <2>1. end \in Nat
    BY NaturalConstants, ListedBeforeNat
  <2>2. PICK j \in Ids : j <= end
    BY <1>2 DEF PageIds
  <2>3. LastId(w, n) = IF NumIds < end THEN NumIds ELSE end
    BY DEF LastId, Min2
  <2> HIDE DEF end
  <2>4. LastId(w, n) \in Ids
    BY <2>1, <2>2, <2>3, NaturalConstants DEF Ids
  <2>5. PreviousDay(DateOf[LastId(w, n)]) \in Nat
    BY <2>4, ConstantsAssumption, PreviousDayNat
  <2>6. QED
    BY <1>2, <2>5 DEF PageWatermark, Max2
<1>3. QED
  BY <1>1, <1>2

\* The parameters a discovery page leaves behind are parameters again.
LEMMA PageParamsType ==
  ASSUME NEW p \in Params, NEW n \in Nat
  PROVE  PageParams(p, n) \in Params
<1>1. PageWatermark(p.watermark, n) \in Nat
  BY PageWatermarkNat DEF Params
<1>2. NextCursor(p.watermark, n) \in Nat
  BY DEF NextCursor
<1> DEFINE next    == NextCursor(p.watermark, n)
           pages   == p.pages + 1
           pending == IF Incremental THEN Max2(p.pending, PageWatermark(p.watermark, n)) ELSE 0
           promote == Incremental /\ next # 0 /\ pending > p.watermark /\ pages % WindowPages = 0
           q       == [p EXCEPT !.started = TRUE, !.pages = pages]
<1>3. pending \in Nat
  BY <1>1 DEF Params, Max2
<1>4. q \in Params
  <2>1. pages \in Nat
    BY DEF Params
  <2> HIDE DEF pages
  <2>2. QED
    BY <2>1 DEF Params
<1> HIDE DEF pending, q, promote
<1>5. [q EXCEPT !.next = 1, !.watermark = pending, !.pending = 0] \in Params
  BY <1>3, <1>4 DEF Params
<1>6. [q EXCEPT !.next = next, !.pending = pending] \in Params
  BY <1>2, <1>3, <1>4 DEF Params
<1>7. PageParams(p, n) = IF promote THEN [q EXCEPT !.next = 1, !.watermark = pending, !.pending = 0]
                         ELSE [q EXCEPT !.next = next, !.pending = pending]
  BY Zenon DEF PageParams, pending, q, promote
<1>8. QED
  BY <1>5, <1>6, <1>7

-----------------------------------------------------------------------------
(***************************************************************************)
(* Type correctness.                                                       *)
(***************************************************************************)
\* The updates the code makes to a work item keep it a work item.
LEMMA ItemUpdates ==
  ASSUME NEW it \in Items
  PROVE  /\ \A s \in ItemStatuses : [it EXCEPT !.status = s] \in Items
         /\ \A s \in ItemStatuses, b, c \in BOOLEAN :
              [it EXCEPT !.status = s, !.leased = b, !.due = c] \in Items
         /\ \A s \in ItemStatuses, b \in BOOLEAN : [it EXCEPT !.status = s, !.leased = b] \in Items
         /\ \A s \in ItemStatuses, n \in Nat, b \in BOOLEAN :
              [it EXCEPT !.status = s, !.attempt = n, !.leased = b] \in Items
         /\ \A b \in BOOLEAN : [it EXCEPT !.leased = b] \in Items
         /\ \A b \in BOOLEAN : [it EXCEPT !.due = b] \in Items
         /\ it.attempt + 1 \in Nat
<1>1. ASSUME NEW s \in ItemStatuses PROVE [it EXCEPT !.status = s] \in Items
  BY <1>1 DEF Items
<1>2. ASSUME NEW b \in BOOLEAN PROVE [it EXCEPT !.leased = b] \in Items
  BY <1>2 DEF Items
<1>3. ASSUME NEW b \in BOOLEAN PROVE [it EXCEPT !.due = b] \in Items
  BY <1>3 DEF Items
<1>4. ASSUME NEW s \in ItemStatuses, NEW b \in BOOLEAN, NEW c \in BOOLEAN
      PROVE  [it EXCEPT !.status = s, !.leased = b, !.due = c] \in Items
  BY <1>4 DEF Items
<1>5. ASSUME NEW s \in ItemStatuses, NEW b \in BOOLEAN
      PROVE  [it EXCEPT !.status = s, !.leased = b] \in Items
  BY <1>5 DEF Items
<1>6. it.attempt \in Nat /\ it.attempt + 1 \in Nat
  BY DEF Items
<1>7. ASSUME NEW s \in ItemStatuses, NEW n \in Nat, NEW b \in BOOLEAN
      PROVE  [it EXCEPT !.status = s, !.attempt = n, !.leased = b] \in Items
  BY <1>7 DEF Items
<1>8. QED
  BY <1>1, <1>2, <1>3, <1>4, <1>5, <1>6, <1>7

LEMMA NewItemType ==
  NewItem \in Items /\ AbsentItem \in Items
<1>1. NewItem \in Items
  BY DEF NewItem, Items, ItemStatuses
<1>2. QED
  BY <1>1, ItemUpdates DEF AbsentItem, ItemStatuses

LEMMA AiUpdate ==
  ASSUME items \in [Keys -> Items], NEW k, NEW f, NEW b \in BOOLEAN
  PROVE  [items EXCEPT ![k].ai[f] = b] \in [Keys -> Items]
<1>1. CASE k \notin Keys
  BY <1>1
<1>2. CASE k \in Keys
  <2>1. items[k] \in Items /\ items[k].ai \in [AiPhases -> BOOLEAN]
    BY <1>2 DEF Items
  <2>2. [items[k].ai EXCEPT ![f] = b] \in [AiPhases -> BOOLEAN]
    BY <2>1
  <2>3. [items[k] EXCEPT !.ai = [items[k].ai EXCEPT ![f] = b]] \in Items
    BY <2>1, <2>2 DEF Items
  <2>4. QED
    BY <1>2, <2>3
<1>3. QED
  BY <1>1, <1>2

LEMMA SetItemType ==
  ASSUME TypeOK, NEW r \in Runners, NEW s \in ItemStatuses, NEW d \in BOOLEAN, SetItem(r, s, d)
  PROVE  items' \in [Keys -> Items]
<1>1. items \in [Keys -> Items] /\ FALSE \in BOOLEAN
  BY DEF TypeOK
<1>2. items' = [items EXCEPT ![item[r]] =
                  [items[item[r]] EXCEPT !.status = s, !.leased = FALSE, !.due = d]]
  BY DEF SetItem
<1>3. CASE item[r] \in Keys
  <2>1. [items[item[r]] EXCEPT !.status = s, !.leased = FALSE, !.due = d] \in Items
    BY <1>1, <1>3, ItemUpdates
  <2>2. QED
    BY <1>1, <1>2, <2>1
<1>4. CASE item[r] \notin Keys
  BY <1>1, <1>2, <1>4
<1>5. QED
  BY <1>3, <1>4

\* resume() and what it leaves of the campaign row.
LEMMA ResumeFailedType ==
  ASSUME TypeOK, ResumeFailed
  PROVE  /\ items' \in [Keys -> Items] /\ status' \in Statuses
         /\ used' \in [crash : Nat, abort : Nat, control : Nat, resume : Nat]
<1>1. RequeuedFailures \in [Keys -> Items]
  <2>1. ASSUME NEW k \in Keys
        PROVE  [items[k] EXCEPT !.status = "queued", !.leased = FALSE, !.due = TRUE] \in Items
    BY <2>1, ItemUpdates DEF TypeOK, ItemStatuses
  <2>2. QED
    BY <2>1 DEF RequeuedFailures, TypeOK
<1>2. CASE status = "failed"
  BY <1>1, <1>2 DEF ResumeFailed, UseUp, TypeOK, Statuses, Active
<1>3. CASE status # "failed"
  BY <1>3 DEF ResumeFailed, TypeOK
<1>4. QED
  BY <1>2, <1>3

\* Where a runner is in run() says what it has in hand: an AI phase while it
\* makes AI calls, a work item while it works on one.
Located ==
  \A r \in Runners :
    /\ pc[r] \in {"ai", "aiWork"} => seen[r] \in AiPhases
    /\ pc[r] \in {"import", "synced", "skipped", "failed", "aiWork"} => item[r] \in Keys

LEMMA ControlType ==
  ASSUME TypeOK, Control
  PROVE  used' \in [crash : Nat, abort : Nat, control : Nat, resume : Nat]
  BY DEF TypeOK, Control, UseUp

LEMMA TypeInit == Init => TypeOK
<1> SUFFICES ASSUME Init PROVE TypeOK
  OBVIOUS
<1>1. FreshParams \in Params
  BY DEF FreshParams, Params
<1>2. items \in [Keys -> Items]
  BY NewItemType DEF Init
<1>3. status \in Statuses /\ tasks \in Nat /\ active \subseteq Nat
  BY ConstantsAssumption DEF Init, Statuses, Active
<1>4. aiCalls \in [Keys -> [AiPhases -> Nat]]
  BY DEF Init
<1>5. counts \in [processed : Nat, synced : Nat, skipped : Nat, failed : Nat]
      /\ used \in [crash : Nat, abort : Nat, control : Nat, resume : Nat]
  BY DEF Init
<1>6. QED
  BY <1>1, <1>2, <1>3, <1>4, <1>5 DEF Init, TypeOK, Statuses, Active, Labels

LEMMA TypeStep == TypeOK /\ Located /\ [Next]_vars => TypeOK'
<1> SUFFICES ASSUME TypeOK, Located, [Next]_vars PROVE TypeOK'
  OBVIOUS
<1> USE DEF TypeOK, row, mine, Goto, Labels
<1>1. ASSUME NEW r \in Runners, StartTask(r) PROVE TypeOK'
  BY <1>1 DEF StartTask
<1>2. ASSUME NEW r \in Runners, StartWatch(r) PROVE TypeOK'
  <2>1. QED
    BY <1>2, ResumeFailedType DEF StartWatch
<1>3. ASSUME NEW r \in Runners, Claim(r) PROVE TypeOK'
  BY <1>3 DEF Claim
<1>4. ASSUME NEW r \in Runners, Load(r) PROVE TypeOK'
  BY <1>4 DEF Load, Reread
<1>5. ASSUME NEW r \in Runners, Resume(r) PROVE TypeOK'
  <2>1. items' \in [Keys -> Items] /\ status' \in Statuses
        /\ used' \in [crash : Nat, abort : Nat, control : Nat, resume : Nat]
    BY <1>5, ResumeFailedType DEF Resume
  <2>2. QED
    BY <1>5, <2>1 DEF Resume
<1>6. ASSUME NEW r \in Runners, Begin(r) PROVE TypeOK'
  BY <1>6 DEF Begin, Statuses, Active
<1>7. ASSUME NEW r \in Runners, NoPhase(r) PROVE TypeOK'
  BY <1>7 DEF NoPhase
<1>8. ASSUME NEW r \in Runners, Advance(r) PROVE TypeOK'
  <2> DEFINE legal == <<seen[r], goal[r]>> \in Transitions /\ status = seen[r]
  <2> HIDE DEF legal
  <2>1. CASE legal
    <3>1. /\ status' = goal[r] /\ seen' = [seen EXCEPT ![r] = goal[r]]
          /\ pc' = [pc EXCEPT ![r] = "refresh"]
      BY <1>8, <2>1, Zenon DEF Advance, legal
    <3>2. QED
      BY <1>8, <3>1 DEF Advance
  <2>2. CASE ~legal
    BY <1>8, <2>2 DEF Advance, legal
  <2>3. QED
    BY <2>1, <2>2
<1>9. ASSUME NEW r \in Runners, Refresh(r) PROVE TypeOK'
  BY <1>9 DEF Refresh, Reread
<1>10. ASSUME NEW r \in Runners, DiscoverPage(r) PROVE TypeOK'
  <2>1. items' \in [Keys -> Items]
    BY <1>10, NewItemType DEF DiscoverPage
  <2>2. local' \in [Runners -> Params]
    <3>1. local[r] \in Params
      OBVIOUS
    <3>2. (IF local[r].next = 0 THEN 1 ELSE local[r].next) \in Nat
      BY <3>1 DEF Params
    <3>3. PageParams(local[r], IF local[r].next = 0 THEN 1 ELSE local[r].next) \in Params
      BY <3>1, <3>2, PageParamsType
    <3>4. QED
      BY <1>10, <3>3 DEF DiscoverPage
  <2>3. QED
    BY <1>10, <2>1, <2>2 DEF DiscoverPage
<1>11. ASSUME NEW r \in Runners, SavePage(r) PROVE TypeOK'
  BY <1>11 DEF SavePage
<1>12. ASSUME NEW r \in Runners, Truncate(r) PROVE TypeOK'
  <2>1. [local[r] EXCEPT !.truncated = (local[r].next # 0), !.next = 0, !.pending = 0] \in Params
    <3>1. (local[r].next # 0) \in BOOLEAN
      OBVIOUS
    <3>2. ASSUME NEW p \in Params, NEW b \in BOOLEAN
          PROVE  [p EXCEPT !.truncated = b, !.next = 0, !.pending = 0] \in Params
      BY <3>2 DEF Params
    <3>3. QED
      BY <3>1, <3>2
  <2>2. local' = [local EXCEPT ![r] =
          [local[r] EXCEPT !.truncated = (local[r].next # 0), !.next = 0, !.pending = 0]]
    BY <1>12 DEF Truncate
  <2>3. local' \in [Runners -> Params] /\ params' \in Params
    BY <1>12, <2>1, <2>2 DEF Truncate
  <2>4. QED
    BY <1>12, <2>3 DEF Truncate, AdvanceTo, Statuses, Active
<1>13. ASSUME NEW r \in Runners, SaveCrawl(r) PROVE TypeOK'
  BY <1>13 DEF SaveCrawl, AdvanceTo, Statuses, Active
<1>14. ASSUME NEW r \in Runners, FetchBegin(r) PROVE TypeOK'
  <2>1. items' \in [Keys -> Items]
    <3>1. ASSUME NEW k \in Keys PROVE [items[k] EXCEPT !.status = "queued"] \in Items
      BY <3>1, ItemUpdates DEF ItemStatuses
    <3>2. QED
      BY <1>14, <3>1 DEF FetchBegin
  <2>2. batch' \in [Runners -> SUBSET Keys]
    BY <1>14 DEF FetchBegin, FirstOf
  <2>3. QED
    BY <1>14, <2>1, <2>2 DEF FetchBegin
<1>15. ASSUME NEW r \in Runners, ClaimItem(r) PROVE TypeOK'
  <2>1. PICK k \in FirstIn(batch[r]) : ClaimItem(r)!2!(k)
    BY <1>15 DEF ClaimItem
  <2>2. k \in Keys
    BY <2>1 DEF FirstIn
  <2>3. batch' \in [Runners -> SUBSET Keys]
    BY <2>1
  <2>4. CASE items[k].status = "queued"
    <3>1. /\ items' = [items EXCEPT ![k].status = "running", ![k].attempt = @ + 1,
                                   ![k].leased = TRUE]
          /\ item' = [item EXCEPT ![r] = k] /\ pc' = [pc EXCEPT ![r] = "import"]
          /\ attempt' = [attempt EXCEPT ![r] = items'[k].attempt]
      BY <2>1, <2>4, Zenon DEF Goto
    <3>2. [items[k] EXCEPT !.status = "running", !.attempt = @ + 1, !.leased = TRUE] \in Items
      BY <2>2, ItemUpdates DEF ItemStatuses
    <3>3. items' \in [Keys -> Items]
      BY <2>2, <3>1, <3>2
    <3>4. items'[k].attempt \in Nat
      BY <2>2, <3>3 DEF Items
    <3>5. attempt' \in [Runners -> Nat]
      BY <3>1, <3>4
    <3>6. item' \in [Runners -> Keys \union {NoItem}] /\ pc' \in [Runners -> Labels]
      BY <2>2, <3>1
    <3>7. QED
      BY <1>15, <2>3, <3>3, <3>5, <3>6 DEF ClaimItem
  <2>5. CASE items[k].status # "queued"
    BY <1>15, <2>1, <2>3, <2>5 DEF ClaimItem
  <2>6. QED
    BY <2>4, <2>5
<1>16. ASSUME NEW r \in Runners, ImportOk(r) PROVE TypeOK'
  <2>1. items' \in [Keys -> Items]
    BY <1>16, SetItemType DEF ImportOk, ItemStatuses
  <2>2. item[r][2] \in Nat
    BY NaturalConstants DEF Keys, Ids, NoItem
  <2>3. QED
    BY <1>16, <2>1, <2>2 DEF ImportOk
<1>17. ASSUME NEW r \in Runners, ImportGone(r) PROVE TypeOK'
  <2>1. items' \in [Keys -> Items]
    BY <1>17, SetItemType DEF ImportGone, ItemStatuses
  <2>2. QED
    BY <1>17, <2>1 DEF ImportGone
<1>18. ASSUME NEW r \in Runners, ImportRetry(r) PROVE TypeOK'
  <2>1. items' \in [Keys -> Items]
    BY <1>18, SetItemType DEF ImportRetry, ItemStatuses
  <2>2. QED
    BY <1>18, <2>1 DEF ImportRetry
<1>19. ASSUME NEW r \in Runners, ImportError(r) PROVE TypeOK'
  <2>1. items' \in [Keys -> Items]
    BY <1>19, SetItemType DEF ImportError, ItemStatuses
  <2>2. QED
    BY <1>19, <2>1 DEF ImportError
<1>20. ASSUME NEW r \in Runners, Count(r) PROVE TypeOK'
  <2>1. counts' \in [processed : Nat, synced : Nat, skipped : Nat, failed : Nat]
    <3>1. /\ counts.processed + 1 \in Nat /\ counts.synced + 1 \in Nat
          /\ counts.skipped + 1 \in Nat /\ counts.failed + 1 \in Nat
      OBVIOUS
    <3>2. CASE pc[r] = "synced"
      <4>1. counts' = [counts EXCEPT !.processed = counts.processed + 1,
                                     !.synced = counts.synced + 1]
        BY <1>20, <3>2 DEF Count
      <4>2. QED
        BY <3>1, <4>1
    <3>3. CASE pc[r] = "skipped"
      <4>1. counts' = [counts EXCEPT !.processed = counts.processed + 1,
                                     !.skipped = counts.skipped + 1]
        BY <1>20, <3>3 DEF Count
      <4>2. QED
        BY <3>1, <4>1
    <3>4. CASE pc[r] = "failed"
      <4>1. counts' = [counts EXCEPT !.processed = counts.processed + 1,
                                     !.failed = counts.failed + 1]
        BY <1>20, <3>4 DEF Count
      <4>2. QED
        BY <3>1, <4>1
    <3>5. QED
      BY <1>20, <3>2, <3>3, <3>4 DEF Count
  <2>2. /\ pc' = [pc EXCEPT ![r] = "fetch"] /\ item' = [item EXCEPT ![r] = NoItem]
        /\ attempt' = [attempt EXCEPT ![r] = 0]
        /\ UNCHANGED <<status, params, lease, items, active, tasks, aiCalls, used,
                       seen, local, goal, step, batch>>
    BY <1>20 DEF Count
  <2>3. QED
    BY <2>1, <2>2
<1>21. ASSUME NEW r \in Runners, FetchEnd(r) PROVE TypeOK'
  <2>1. /\ counts' = [counts EXCEPT !.failed = Cardinality(WithStatus("failed"))]
        /\ seen' = [seen EXCEPT ![r] = status] /\ local' = [local EXCEPT ![r] = params]
        /\ goal' = goal \/ goal' = [goal EXCEPT ![r] = "mapping"]
        /\ \E l \in {"release", "fail", "advance"} : pc' = [pc EXCEPT ![r] = l]
        /\ UNCHANGED <<status, params, lease, items, active, tasks, aiCalls, used,
                       step, batch, item, attempt>>
    BY <1>21 DEF FetchEnd, Reread, AdvanceTo, Goto
  <2>2. Cardinality(WithStatus("failed")) \in Nat
    BY KeysFinite DEF WithStatus
  <2>3. QED
    BY <2>1, <2>2 DEF Statuses, Active
<1>22. ASSUME NEW r \in Runners, Mapping(r) PROVE TypeOK'
  BY <1>22 DEF Mapping, AdvanceTo, Statuses, Active
<1>23. ASSUME NEW r \in Runners, AiBegin(r) PROVE TypeOK'
  <2>1. goal' \in [Runners -> Statuses]
    <3>1. NextPhase[seen[r]] \in Statuses
      BY <1>23 DEF AiBegin, AiPhases, NextPhase, Statuses, Active
    <3>2. QED
      BY <1>23, <3>1 DEF AiBegin, AdvanceTo
  <2>2. batch' \in [Runners -> SUBSET Keys]
    <3>1. Eligible(seen[r]) \subseteq Keys
      BY DEF Eligible, WithStatus
    <3>2. QED
      BY <1>23, <3>1 DEF AiBegin, FirstOf
  <2>3. QED
    BY <1>23, <2>1, <2>2 DEF AiBegin, AdvanceTo
<1>24. ASSUME NEW r \in Runners, AiClaim(r) PROVE TypeOK'
  <2>1. PICK k \in FirstIn(batch[r]) : AiClaim(r)!2!(k)
    BY <1>24 DEF AiClaim
  <2>2. k \in Keys
    BY <2>1 DEF FirstIn
  <2>3. CASE k \in Eligible(seen[r])
    <3>1. /\ items' = [items EXCEPT ![k].ai[seen[r]] = TRUE]
          /\ item' = [item EXCEPT ![r] = k] /\ pc' = [pc EXCEPT ![r] = "aiWork"]
          /\ batch' = [batch EXCEPT ![r] = @ \ {k}]
      BY <2>1, <2>3, Zenon DEF Goto
    <3>2. items' \in [Keys -> Items]
      BY <3>1, AiUpdate
    <3>3. QED
      BY <1>24, <2>2, <3>1, <3>2 DEF AiClaim
  <2>4. CASE k \notin Eligible(seen[r])
    BY <1>24, <2>1, <2>2, <2>4 DEF AiClaim
  <2>5. QED
    BY <2>3, <2>4
<1>25. ASSUME NEW r \in Runners, AiOk(r) PROVE TypeOK'
  <2>1. item[r] \in Keys /\ seen[r] \in AiPhases
    BY <1>25 DEF AiOk, Located
  <2>2. aiCalls' \in [Keys -> [AiPhases -> Nat]]
    <3>1. aiCalls[item[r]] \in [AiPhases -> Nat]
      BY <2>1
    <3>2. aiCalls[item[r]][seen[r]] + 1 \in Nat
      BY <2>1, <3>1
    <3>3. [aiCalls[item[r]] EXCEPT ![seen[r]] = aiCalls[item[r]][seen[r]] + 1]
             \in [AiPhases -> Nat]
      BY <3>1, <3>2
    <3>4. aiCalls' = [aiCalls EXCEPT ![item[r]] =
                       [aiCalls[item[r]] EXCEPT ![seen[r]] = aiCalls[item[r]][seen[r]] + 1]]
      BY <1>25 DEF AiOk
    <3>5. QED
      BY <3>3, <3>4
  <2>3. params' \in Params
    <3>1. params' = IF seen[r] = "enriching" THEN local[r] ELSE params
      BY <1>25 DEF AiOk
    <3>2. local[r] \in Params
      OBVIOUS
    <3>3. QED
      BY <3>1, <3>2
  <2>4. QED
    BY <1>25, <2>2, <2>3 DEF AiOk
<1>26. ASSUME NEW r \in Runners, AiEnd(r) PROVE TypeOK'
  <2>1. NextPhase[seen[r]] \in Statuses
    BY <1>26 DEF AiEnd, Located, AiPhases, NextPhase, Statuses, Active
  <2>2. QED
    BY <1>26, <2>1 DEF AiEnd, AdvanceTo
<1>27. ASSUME NEW r \in Runners, Reconcile(r) PROVE TypeOK'
  BY <1>27 DEF Reconcile, AdvanceTo, SeenIds, Statuses, Active
<1>28. ASSUME NEW r \in Runners, Review(r) PROVE TypeOK'
  BY <1>28 DEF Review, AdvanceTo, Params, PromotesWatermark, Statuses, Active, Terminal
<1>29. ASSUME NEW r \in Runners, FailLoad(r) PROVE TypeOK'
  BY <1>29 DEF FailLoad, Reread
<1>30. ASSUME NEW r \in Runners, FailWrite(r) PROVE TypeOK'
  BY <1>30 DEF FailWrite, Statuses
<1>31. ASSUME NEW r \in Runners, Release(r) PROVE TypeOK'
  BY <1>31 DEF Release
<1>32. ASSUME NEW r \in Runners, Finish(r) PROVE TypeOK'
  BY <1>32 DEF Finish, Forget, FreshParams, Params, Statuses, Active
<1>33. ASSUME NEW r \in Runners, AiError(r) PROVE TypeOK'
  <2>1. items' \in [Keys -> Items]
    BY <1>33, AiUpdate DEF AiError
  <2>2. used' \in [crash : Nat, abort : Nat, control : Nat, resume : Nat]
    BY <1>33 DEF AiError, UseUp
  <2>3. item' \in [Runners -> Keys \union {NoItem}] /\ pc' \in [Runners -> Labels]
    BY <1>33 DEF AiError
  <2>4. QED
    BY <1>33, <2>1, <2>2, <2>3 DEF AiError
<1>34. ASSUME NEW r \in Runners, Abort(r) PROVE TypeOK'
  BY <1>34 DEF Abort, UseUp
<1>35. ASSUME NEW r \in Runners, Crash(r) PROVE TypeOK'
  <2>1. tasks' \in Nat
    BY <1>35 DEF Crash
  <2>2. /\ seen' \in [Runners -> Statuses] /\ goal' \in [Runners -> Statuses]
        /\ local' \in [Runners -> Params] /\ step' \in [Runners -> Nat]
        /\ batch' \in [Runners -> SUBSET Keys]
        /\ item' \in [Runners -> Keys \union {NoItem}] /\ attempt' \in [Runners -> Nat]
    BY <1>35 DEF Crash, Forget, FreshParams, Params, Statuses, Active
  <2>3. used' \in [crash : Nat, abort : Nat, control : Nat, resume : Nat]
        /\ pc' \in [Runners -> Labels]
    BY <1>35 DEF Crash, UseUp
  <2>4. QED
    BY <1>35, <2>1, <2>2, <2>3 DEF Crash
<1>36. ASSUME LeaseExpires PROVE TypeOK'
  BY <1>36 DEF LeaseExpires
<1>37. ASSUME NEW k \in Keys, ItemLeaseExpires(k) PROVE TypeOK'
  <2>1. items' \in [Keys -> Items]
    BY <1>37, ItemUpdates DEF ItemLeaseExpires
  <2>2. QED
    BY <1>37, <2>1 DEF ItemLeaseExpires
<1>38. ASSUME NEW k \in Keys, RetryDue(k) PROVE TypeOK'
  <2>1. items' \in [Keys -> Items]
    BY <1>38, ItemUpdates DEF RetryDue
  <2>2. QED
    BY <1>38, <2>1 DEF RetryDue
<1>39. ASSUME Pause PROVE TypeOK'
  <2>1. params' \in Params /\ status' \in Statuses
    BY <1>39 DEF Pause, Params, Statuses, Terminal
  <2>2. QED
    BY <1>39, <2>1, ControlType DEF Pause
<1>40. ASSUME ResumePaused PROVE TypeOK'
  <2>1. params' \in Params /\ status' \in Statuses
    <3>1. CASE status = "paused"
      <4>1. /\ status' = IF params.pausedFrom = "none" THEN "discovering" ELSE params.pausedFrom
            /\ params' = [params EXCEPT !.pausedFrom = "none"]
        BY <1>40, <3>1 DEF ResumePaused
      <4>2. params.pausedFrom \in Active \union {"none"}
        BY DEF Params
      <4>3. status' \in Statuses
        BY <4>1, <4>2 DEF Statuses, Active
      <4>4. params' \in Params
        BY <4>1 DEF Params
      <4>5. QED
        BY <4>3, <4>4
    <3>2. CASE status # "paused"
      BY <1>40, <3>2 DEF ResumePaused
    <3>3. QED
      BY <3>1, <3>2
  <2>2. QED
    BY <1>40, <2>1, ControlType DEF ResumePaused
<1>41. ASSUME Cancel PROVE TypeOK'
  <2>1. items' \in [Keys -> Items]
    <3>1. ASSUME NEW k \in Keys
          PROVE  [items[k] EXCEPT !.status = "queued", !.leased = FALSE] \in Items
      BY <3>1, ItemUpdates DEF ItemStatuses
    <3>2. items' = [k \in Keys |-> IF items[k].status = "running"
                                  THEN [items[k] EXCEPT !.status = "queued", !.leased = FALSE]
                                  ELSE items[k]]
      BY <1>41 DEF Cancel
    <3>3. QED
      BY <3>1, <3>2
  <2>2. QED
    BY <1>41, <2>1, ControlType DEF Cancel, Statuses, Terminal
<1>42. ASSUME CreateAgain PROVE TypeOK'
  BY <1>42, ControlType DEF CreateAgain
<1>43. ASSUME UNCHANGED vars PROVE TypeOK'
  BY <1>43 DEF vars
<1>44. QED
  BY <1>1, <1>2, <1>3, <1>4, <1>5, <1>6, <1>7, <1>8, <1>9, <1>10, <1>11, <1>12, <1>13,
     <1>14, <1>15, <1>16, <1>17, <1>18, <1>19, <1>20, <1>21, <1>22, <1>23, <1>24, <1>25,
     <1>26, <1>27, <1>28, <1>29, <1>30, <1>31, <1>32, <1>33, <1>34, <1>35, <1>36, <1>37,
     <1>38, <1>39, <1>40, <1>41, <1>42, <1>43, Zenon
  DEF Next, Start, Run, Clock, Operator

LEMMA LocatedStep == TypeOK /\ Located /\ [Next]_vars => Located'
<1> SUFFICES ASSUME TypeOK, Located, [Next]_vars PROVE Located'
  OBVIOUS
<1> USE DEF TypeOK, Located, row, mine, Goto
<1>1. ASSUME NEW r \in Runners, StartTask(r) PROVE Located'
  BY <1>1 DEF StartTask
<1>2. ASSUME NEW r \in Runners, StartWatch(r) PROVE Located'
  BY <1>2 DEF StartWatch
<1>3. ASSUME NEW r \in Runners, Claim(r) PROVE Located'
  BY <1>3 DEF Claim
<1>4. ASSUME NEW r \in Runners, Load(r) PROVE Located'
  BY <1>4 DEF Load, Reread
<1>5. ASSUME NEW r \in Runners, Resume(r) PROVE Located'
  BY <1>5 DEF Resume, Reread
<1>6. ASSUME NEW r \in Runners, Begin(r) PROVE Located'
  BY <1>6 DEF Begin
<1>7. ASSUME NEW r \in Runners, NoPhase(r) PROVE Located'
  BY <1>7 DEF NoPhase
<1>8. ASSUME NEW r \in Runners, Advance(r) PROVE Located'
  BY <1>8 DEF Advance
<1>9. ASSUME NEW r \in Runners, Refresh(r) PROVE Located'
  BY <1>9 DEF Refresh, Reread
<1>10. ASSUME NEW r \in Runners, DiscoverPage(r) PROVE Located'
  BY <1>10 DEF DiscoverPage
<1>11. ASSUME NEW r \in Runners, SavePage(r) PROVE Located'
  BY <1>11 DEF SavePage
<1>12. ASSUME NEW r \in Runners, Truncate(r) PROVE Located'
  BY <1>12 DEF Truncate, AdvanceTo
<1>13. ASSUME NEW r \in Runners, SaveCrawl(r) PROVE Located'
  BY <1>13 DEF SaveCrawl, AdvanceTo
<1>14. ASSUME NEW r \in Runners, FetchBegin(r) PROVE Located'
  BY <1>14 DEF FetchBegin
<1>15. ASSUME NEW r \in Runners, ClaimItem(r) PROVE Located'
  BY <1>15 DEF ClaimItem, FirstIn
<1>16. ASSUME NEW r \in Runners, ImportOk(r) PROVE Located'
  BY <1>16 DEF ImportOk, MayAnswer
<1>17. ASSUME NEW r \in Runners, ImportGone(r) PROVE Located'
  BY <1>17 DEF ImportGone, MayAnswer
<1>18. ASSUME NEW r \in Runners, ImportRetry(r) PROVE Located'
  BY <1>18 DEF ImportRetry, MayAnswer
<1>19. ASSUME NEW r \in Runners, ImportError(r) PROVE Located'
  BY <1>19 DEF ImportError, MayAnswer
<1>20. ASSUME NEW r \in Runners, Count(r) PROVE Located'
  BY <1>20 DEF Count
<1>21. ASSUME NEW r \in Runners, FetchEnd(r) PROVE Located'
  BY <1>21 DEF FetchEnd, Reread, AdvanceTo
<1>22. ASSUME NEW r \in Runners, Mapping(r) PROVE Located'
  BY <1>22 DEF Mapping, AdvanceTo
<1>23. ASSUME NEW r \in Runners, AiBegin(r) PROVE Located'
  BY <1>23 DEF AiBegin, AdvanceTo
<1>24. ASSUME NEW r \in Runners, AiClaim(r) PROVE Located'
  BY <1>24 DEF AiClaim, FirstIn
<1>25. ASSUME NEW r \in Runners, AiOk(r) PROVE Located'
  BY <1>25 DEF AiOk
<1>26. ASSUME NEW r \in Runners, AiEnd(r) PROVE Located'
  BY <1>26 DEF AiEnd, AdvanceTo
<1>27. ASSUME NEW r \in Runners, Reconcile(r) PROVE Located'
  BY <1>27 DEF Reconcile, AdvanceTo
<1>28. ASSUME NEW r \in Runners, Review(r) PROVE Located'
  BY <1>28 DEF Review, AdvanceTo
<1>29. ASSUME NEW r \in Runners, FailLoad(r) PROVE Located'
  BY <1>29 DEF FailLoad, Reread
<1>30. ASSUME NEW r \in Runners, FailWrite(r) PROVE Located'
  BY <1>30 DEF FailWrite
<1>31. ASSUME NEW r \in Runners, Release(r) PROVE Located'
  BY <1>31 DEF Release
<1>32. ASSUME NEW r \in Runners, Finish(r) PROVE Located'
  BY <1>32 DEF Finish, Forget
<1>33. ASSUME NEW r \in Runners, AiError(r) PROVE Located'
  BY <1>33 DEF AiError
<1>34. ASSUME NEW r \in Runners, Abort(r) PROVE Located'
  BY <1>34 DEF Abort
<1>35. ASSUME NEW r \in Runners, Crash(r) PROVE Located'
  BY <1>35 DEF Crash, Forget
<1>36. ASSUME LeaseExpires PROVE Located'
  BY <1>36 DEF LeaseExpires
<1>37. ASSUME NEW k \in Keys, ItemLeaseExpires(k) PROVE Located'
  BY <1>37 DEF ItemLeaseExpires
<1>38. ASSUME NEW k \in Keys, RetryDue(k) PROVE Located'
  BY <1>38 DEF RetryDue
<1>39. ASSUME Pause PROVE Located'
  BY <1>39 DEF Pause
<1>40. ASSUME ResumePaused PROVE Located'
  BY <1>40 DEF ResumePaused
<1>41. ASSUME Cancel PROVE Located'
  BY <1>41 DEF Cancel
<1>42. ASSUME CreateAgain PROVE Located'
  BY <1>42 DEF CreateAgain
<1>43. ASSUME UNCHANGED vars PROVE Located'
  BY <1>43 DEF vars
<1>44. QED
  BY <1>1, <1>2, <1>3, <1>4, <1>5, <1>6, <1>7, <1>8, <1>9, <1>10, <1>11, <1>12, <1>13,
     <1>14, <1>15, <1>16, <1>17, <1>18, <1>19, <1>20, <1>21, <1>22, <1>23, <1>24, <1>25,
     <1>26, <1>27, <1>28, <1>29, <1>30, <1>31, <1>32, <1>33, <1>34, <1>35, <1>36, <1>37,
     <1>38, <1>39, <1>40, <1>41, <1>42, <1>43, Zenon
  DEF Next, Start, Run, Clock, Operator

LEMMA InvariantInit == Init => TypeOK /\ Located
<1>1. Init => Located
  BY DEF Init, Located
<1>2. QED
  BY <1>1, TypeInit

\* Every variable keeps a value of its kind: nothing the service, the task, the
\* operator or the clock does leaves the tables in a form the code does not expect.
THEOREM TypeCorrect == Safety => []TypeOK
  BY InvariantInit, TypeStep, LocatedStep, PTL DEF Safety

-----------------------------------------------------------------------------
(***************************************************************************)
(* Exclusion: the lease of the campaign row admits one Celery run.         *)
(***************************************************************************)
LEMMA ExclusiveStep ==
  ASSUME TypeOK, WorkersExclusive, [Next]_vars
  PROVE  WorkersExclusive'
<1> USE RunnersAssumption DEF WorkersExclusive, InRun, Runners, row, mine, Goto
<1>0. /\ pc \in [Runners -> Labels] /\ lease \in Runners \union {NoOne}
  BY DEF TypeOK
<1>1. ASSUME NEW r \in Runners, StartTask(r) PROVE WorkersExclusive'
  BY <1>1, <1>0 DEF StartTask
<1>2. ASSUME NEW r \in Runners, StartWatch(r) PROVE WorkersExclusive'
  BY <1>2, <1>0 DEF StartWatch
<1>3. ASSUME NEW r \in Runners, Claim(r) PROVE WorkersExclusive'
  BY <1>3, <1>0 DEF Claim
<1>4. ASSUME NEW r \in Runners, Load(r) PROVE WorkersExclusive'
  BY <1>4, <1>0 DEF Load
<1>5. ASSUME NEW r \in Runners, Resume(r) PROVE WorkersExclusive'
  BY <1>5, <1>0 DEF Resume
<1>6. ASSUME NEW r \in Runners, Begin(r) PROVE WorkersExclusive'
  BY <1>6, <1>0 DEF Begin
<1>7. ASSUME NEW r \in Runners, NoPhase(r) PROVE WorkersExclusive'
  BY <1>7, <1>0 DEF NoPhase
<1>8. ASSUME NEW r \in Runners, Advance(r) PROVE WorkersExclusive'
  BY <1>8, <1>0 DEF Advance
<1>9. ASSUME NEW r \in Runners, Refresh(r) PROVE WorkersExclusive'
  BY <1>9, <1>0 DEF Refresh
<1>10. ASSUME NEW r \in Runners, DiscoverPage(r) PROVE WorkersExclusive'
  BY <1>10, <1>0 DEF DiscoverPage
<1>11. ASSUME NEW r \in Runners, SavePage(r) PROVE WorkersExclusive'
  BY <1>11, <1>0 DEF SavePage
<1>12. ASSUME NEW r \in Runners, Truncate(r) PROVE WorkersExclusive'
  BY <1>12, <1>0 DEF Truncate, AdvanceTo
<1>13. ASSUME NEW r \in Runners, SaveCrawl(r) PROVE WorkersExclusive'
  BY <1>13, <1>0 DEF SaveCrawl, AdvanceTo
<1>14. ASSUME NEW r \in Runners, FetchBegin(r) PROVE WorkersExclusive'
  BY <1>14, <1>0 DEF FetchBegin
<1>15. ASSUME NEW r \in Runners, ClaimItem(r) PROVE WorkersExclusive'
  BY <1>15, <1>0 DEF ClaimItem
<1>16. ASSUME NEW r \in Runners, ImportOk(r) PROVE WorkersExclusive'
  BY <1>16, <1>0 DEF ImportOk, MayAnswer
<1>17. ASSUME NEW r \in Runners, ImportGone(r) PROVE WorkersExclusive'
  BY <1>17, <1>0 DEF ImportGone, MayAnswer
<1>18. ASSUME NEW r \in Runners, ImportRetry(r) PROVE WorkersExclusive'
  BY <1>18, <1>0 DEF ImportRetry, MayAnswer
<1>19. ASSUME NEW r \in Runners, ImportError(r) PROVE WorkersExclusive'
  BY <1>19, <1>0 DEF ImportError, MayAnswer
<1>20. ASSUME NEW r \in Runners, Count(r) PROVE WorkersExclusive'
  BY <1>20, <1>0 DEF Count
<1>21. ASSUME NEW r \in Runners, FetchEnd(r) PROVE WorkersExclusive'
  BY <1>21, <1>0 DEF FetchEnd, AdvanceTo
<1>22. ASSUME NEW r \in Runners, Mapping(r) PROVE WorkersExclusive'
  BY <1>22, <1>0 DEF Mapping, AdvanceTo
<1>23. ASSUME NEW r \in Runners, AiBegin(r) PROVE WorkersExclusive'
  BY <1>23, <1>0 DEF AiBegin, AdvanceTo
<1>24. ASSUME NEW r \in Runners, AiClaim(r) PROVE WorkersExclusive'
  BY <1>24, <1>0 DEF AiClaim
<1>25. ASSUME NEW r \in Runners, AiOk(r) PROVE WorkersExclusive'
  BY <1>25, <1>0 DEF AiOk
<1>26. ASSUME NEW r \in Runners, AiEnd(r) PROVE WorkersExclusive'
  BY <1>26, <1>0 DEF AiEnd, AdvanceTo
<1>27. ASSUME NEW r \in Runners, Reconcile(r) PROVE WorkersExclusive'
  BY <1>27, <1>0 DEF Reconcile, AdvanceTo
<1>28. ASSUME NEW r \in Runners, Review(r) PROVE WorkersExclusive'
  BY <1>28, <1>0 DEF Review, AdvanceTo
<1>29. ASSUME NEW r \in Runners, FailLoad(r) PROVE WorkersExclusive'
  BY <1>29, <1>0 DEF FailLoad
<1>30. ASSUME NEW r \in Runners, FailWrite(r) PROVE WorkersExclusive'
  BY <1>30, <1>0 DEF FailWrite
<1>31. ASSUME NEW r \in Runners, Release(r) PROVE WorkersExclusive'
  BY <1>31, <1>0 DEF Release
<1>32. ASSUME NEW r \in Runners, Finish(r) PROVE WorkersExclusive'
  BY <1>32, <1>0 DEF Finish
<1>33. ASSUME NEW r \in Runners, AiError(r) PROVE WorkersExclusive'
  BY <1>33, <1>0 DEF AiError
<1>34. ASSUME NEW r \in Runners, Abort(r) PROVE WorkersExclusive'
  BY <1>34, <1>0 DEF Abort, CanAbort
<1>35. ASSUME NEW r \in Runners, Crash(r) PROVE WorkersExclusive'
  BY <1>35, <1>0 DEF Crash
<1>36. ASSUME LeaseExpires PROVE WorkersExclusive'
  BY <1>36, <1>0 DEF LeaseExpires
<1>37. ASSUME NEW k \in Keys, ItemLeaseExpires(k) PROVE WorkersExclusive'
  BY <1>37, <1>0 DEF ItemLeaseExpires
<1>38. ASSUME NEW k \in Keys, RetryDue(k) PROVE WorkersExclusive'
  BY <1>38, <1>0 DEF RetryDue
<1>39. ASSUME Pause PROVE WorkersExclusive'
  BY <1>39, <1>0 DEF Pause
<1>40. ASSUME ResumePaused PROVE WorkersExclusive'
  BY <1>40, <1>0 DEF ResumePaused
<1>41. ASSUME Cancel PROVE WorkersExclusive'
  BY <1>41, <1>0 DEF Cancel
<1>42. ASSUME CreateAgain PROVE WorkersExclusive'
  BY <1>42, <1>0 DEF CreateAgain
<1>43. ASSUME UNCHANGED vars PROVE WorkersExclusive'
  BY <1>43, <1>0 DEF vars
<1>44. QED
  BY <1>1, <1>2, <1>3, <1>4, <1>5, <1>6, <1>7, <1>8, <1>9, <1>10, <1>11, <1>12, <1>13,
     <1>14, <1>15, <1>16, <1>17, <1>18, <1>19, <1>20, <1>21, <1>22, <1>23, <1>24, <1>25,
     <1>26, <1>27, <1>28, <1>29, <1>30, <1>31, <1>32, <1>33, <1>34, <1>35, <1>36, <1>37,
     <1>38, <1>39, <1>40, <1>41, <1>42, <1>43, Zenon
  DEF Next, Start, Run, Clock, Operator

\* No two Celery runs are ever inside run() together, whatever is delivered twice,
\* killed, paused or resumed, for any number of workers and of --watch processes.
THEOREM ExclusiveRuns == Safety => []WorkersExclusive
<1>1. Init => TypeOK /\ Located /\ WorkersExclusive
  <2>1. Init => WorkersExclusive
    BY DEF Init, WorkersExclusive, InRun, Runners
  <2>2. QED
    BY <2>1, InvariantInit
<1>2. QED
  BY <1>1, TypeStep, LocatedStep, ExclusiveStep, PTL DEF Safety

-----------------------------------------------------------------------------
(***************************************************************************)
(* A campaign that was cancelled or completed.                             *)
(***************************************************************************)
\* Nothing leaves COMPLETED, CANCELLED or FAILED through the transition table.
LEMMA LastStatuses ==
  \A s, t : <<s, t>> \in Transitions => s \notin {"completed", "cancelled", "failed"}
  BY DEF Transitions, Phases, NextPhase

LEMMA StoppedStep ==
  ASSUME [Next]_vars, status \in {"completed", "cancelled"}
  PROVE  status' = status
<1> USE DEF row
<1>1. ASSUME NEW r \in Runners, StartTask(r) PROVE status' = status
  BY <1>1 DEF StartTask
<1>2. ASSUME NEW r \in Runners, StartWatch(r) PROVE status' = status
  BY <1>2 DEF StartWatch, ResumeFailed
<1>3. ASSUME NEW r \in Runners, Claim(r) PROVE status' = status
  BY <1>3 DEF Claim
<1>4. ASSUME NEW r \in Runners, Load(r) PROVE status' = status
  BY <1>4 DEF Load
<1>5. ASSUME NEW r \in Runners, Resume(r) PROVE status' = status
  BY <1>5 DEF Resume, ResumeFailed
<1>6. ASSUME NEW r \in Runners, Begin(r) PROVE status' = status
  BY <1>6 DEF Begin
<1>7. ASSUME NEW r \in Runners, NoPhase(r) PROVE status' = status
  BY <1>7 DEF NoPhase
<1>8. ASSUME NEW r \in Runners, Advance(r) PROVE status' = status
  BY <1>8, LastStatuses DEF Advance
<1>9. ASSUME NEW r \in Runners, Refresh(r) PROVE status' = status
  BY <1>9 DEF Refresh
<1>10. ASSUME NEW r \in Runners, DiscoverPage(r) PROVE status' = status
  BY <1>10 DEF DiscoverPage
<1>11. ASSUME NEW r \in Runners, SavePage(r) PROVE status' = status
  BY <1>11 DEF SavePage
<1>12. ASSUME NEW r \in Runners, Truncate(r) PROVE status' = status
  BY <1>12 DEF Truncate
<1>13. ASSUME NEW r \in Runners, SaveCrawl(r) PROVE status' = status
  BY <1>13 DEF SaveCrawl
<1>14. ASSUME NEW r \in Runners, FetchBegin(r) PROVE status' = status
  BY <1>14 DEF FetchBegin
<1>15. ASSUME NEW r \in Runners, ClaimItem(r) PROVE status' = status
  BY <1>15 DEF ClaimItem
<1>16. ASSUME NEW r \in Runners, ImportOk(r) PROVE status' = status
  BY <1>16 DEF ImportOk
<1>17. ASSUME NEW r \in Runners, ImportGone(r) PROVE status' = status
  BY <1>17 DEF ImportGone
<1>18. ASSUME NEW r \in Runners, ImportRetry(r) PROVE status' = status
  BY <1>18 DEF ImportRetry
<1>19. ASSUME NEW r \in Runners, ImportError(r) PROVE status' = status
  BY <1>19 DEF ImportError
<1>20. ASSUME NEW r \in Runners, Count(r) PROVE status' = status
  BY <1>20 DEF Count
<1>21. ASSUME NEW r \in Runners, FetchEnd(r) PROVE status' = status
  BY <1>21 DEF FetchEnd
<1>22. ASSUME NEW r \in Runners, Mapping(r) PROVE status' = status
  BY <1>22 DEF Mapping
<1>23. ASSUME NEW r \in Runners, AiBegin(r) PROVE status' = status
  BY <1>23 DEF AiBegin
<1>24. ASSUME NEW r \in Runners, AiClaim(r) PROVE status' = status
  BY <1>24 DEF AiClaim
<1>25. ASSUME NEW r \in Runners, AiOk(r) PROVE status' = status
  BY <1>25 DEF AiOk
<1>26. ASSUME NEW r \in Runners, AiEnd(r) PROVE status' = status
  BY <1>26 DEF AiEnd
<1>27. ASSUME NEW r \in Runners, Reconcile(r) PROVE status' = status
  BY <1>27 DEF Reconcile
<1>28. ASSUME NEW r \in Runners, Review(r) PROVE status' = status
  BY <1>28 DEF Review
<1>29. ASSUME NEW r \in Runners, FailLoad(r) PROVE status' = status
  BY <1>29 DEF FailLoad
<1>30. ASSUME NEW r \in Runners, FailWrite(r) PROVE status' = status
  BY <1>30, LastStatuses DEF FailWrite
<1>31. ASSUME NEW r \in Runners, Release(r) PROVE status' = status
  BY <1>31 DEF Release
<1>32. ASSUME NEW r \in Runners, Finish(r) PROVE status' = status
  BY <1>32 DEF Finish
<1>33. ASSUME NEW r \in Runners, AiError(r) PROVE status' = status
  BY <1>33 DEF AiError
<1>34. ASSUME NEW r \in Runners, Abort(r) PROVE status' = status
  BY <1>34 DEF Abort
<1>35. ASSUME NEW r \in Runners, Crash(r) PROVE status' = status
  BY <1>35 DEF Crash
<1>36. ASSUME LeaseExpires PROVE status' = status
  BY <1>36 DEF LeaseExpires
<1>37. ASSUME NEW k \in Keys, ItemLeaseExpires(k) PROVE status' = status
  BY <1>37 DEF ItemLeaseExpires
<1>38. ASSUME NEW k \in Keys, RetryDue(k) PROVE status' = status
  BY <1>38 DEF RetryDue
<1>39. ASSUME Pause PROVE status' = status
  BY <1>39 DEF Pause, Active
<1>40. ASSUME ResumePaused PROVE status' = status
  BY <1>40 DEF ResumePaused
<1>41. ASSUME Cancel PROVE status' = status
  BY <1>41 DEF Cancel
<1>42. ASSUME CreateAgain PROVE status' = status
  BY <1>42 DEF CreateAgain
<1>43. ASSUME UNCHANGED vars PROVE status' = status
  BY <1>43 DEF vars
<1>44. QED
  BY <1>1, <1>2, <1>3, <1>4, <1>5, <1>6, <1>7, <1>8, <1>9, <1>10, <1>11, <1>12, <1>13,
     <1>14, <1>15, <1>16, <1>17, <1>18, <1>19, <1>20, <1>21, <1>22, <1>23, <1>24, <1>25,
     <1>26, <1>27, <1>28, <1>29, <1>30, <1>31, <1>32, <1>33, <1>34, <1>35, <1>36, <1>37,
     <1>38, <1>39, <1>40, <1>41, <1>42, <1>43, Zenon
  DEF Next, Start, Run, Clock, Operator

\* No worker, late answer, failure, resume or pause ever brings a cancelled or a
\* completed campaign back: every writer compares the status it expects.
THEOREM StoppedStaysStopped == Safety => StoppedForGood
  BY StoppedStep, PTL DEF Safety, StoppedForGood

-----------------------------------------------------------------------------
(***************************************************************************)
(* What Celery workers alone have fetched.                                 *)
(***************************************************************************)
\* The work item a run is importing is still RUNNING, or was put back by cancel().
InHand ==
  \A r \in Runners : pc[r] = "import" => items[item[r]].status \in {"running", "queued"}

\* A step leaves a finished work item as it is.
Keeps(k) == items[k].status \in {"succeeded", "skipped"} => items'[k].status = items[k].status

LEMMA SetItemElsewhere ==
  ASSUME TypeOK, NEW r \in Runners, item[r] \in Keys, NEW s, NEW d, SetItem(r, s, d),
         NEW k \in Keys, k # item[r]
  PROVE  items'[k] = items[k]
  BY DEF SetItem, TypeOK

LEMMA KeptStep ==
  ASSUME Watchers = {}, TypeOK, Located, WorkersExclusive, InHand, [Next]_vars,
         NEW key \in Keys
  PROVE  Keeps(key)
<1> USE DEF Keeps, row, mine
<1>0. items \in [Keys -> Items] /\ pc \in [Runners -> Labels] /\ Runners = Workers
  BY DEF TypeOK, Runners
<1>1. ASSUME NEW r \in Runners, StartTask(r) PROVE Keeps(key)
  BY <1>1, <1>0 DEF StartTask
<1>2. ASSUME NEW r \in Runners, StartWatch(r) PROVE Keeps(key)
  <2>1. items' = RequeuedFailures \/ items' = items
    BY <1>2 DEF StartWatch, ResumeFailed
  <2>2. QED
    BY <2>1 DEF RequeuedFailures
<1>3. ASSUME NEW r \in Runners, Claim(r) PROVE Keeps(key)
  BY <1>3, <1>0 DEF Claim
<1>4. ASSUME NEW r \in Runners, Load(r) PROVE Keeps(key)
  BY <1>4, <1>0 DEF Load
<1>5. ASSUME NEW r \in Runners, Resume(r) PROVE Keeps(key)
  <2>1. items' = RequeuedFailures \/ items' = items
    BY <1>5 DEF Resume, ResumeFailed
  <2>2. QED
    BY <2>1 DEF RequeuedFailures
<1>6. ASSUME NEW r \in Runners, Begin(r) PROVE Keeps(key)
  BY <1>6, <1>0 DEF Begin
<1>7. ASSUME NEW r \in Runners, NoPhase(r) PROVE Keeps(key)
  BY <1>7, <1>0 DEF NoPhase
<1>8. ASSUME NEW r \in Runners, Advance(r) PROVE Keeps(key)
  BY <1>8, <1>0 DEF Advance
<1>9. ASSUME NEW r \in Runners, Refresh(r) PROVE Keeps(key)
  BY <1>9, <1>0 DEF Refresh
<1>10. ASSUME NEW r \in Runners, DiscoverPage(r) PROVE Keeps(key)
  BY <1>10, <1>0 DEF DiscoverPage
<1>11. ASSUME NEW r \in Runners, SavePage(r) PROVE Keeps(key)
  BY <1>11, <1>0 DEF SavePage
<1>12. ASSUME NEW r \in Runners, Truncate(r) PROVE Keeps(key)
  BY <1>12, <1>0 DEF Truncate
<1>13. ASSUME NEW r \in Runners, SaveCrawl(r) PROVE Keeps(key)
  BY <1>13, <1>0 DEF SaveCrawl
<1>14. ASSUME NEW r \in Runners, FetchBegin(r) PROVE Keeps(key)
  BY <1>14, <1>0 DEF FetchBegin
<1>15. ASSUME NEW r \in Runners, ClaimItem(r) PROVE Keeps(key)
  <2>1. PICK k \in FirstIn(batch[r]) : ClaimItem(r)!2!(k)
    BY <1>15 DEF ClaimItem
  <2>2. CASE items[k].status = "queued"
    <3>1. items' = [items EXCEPT ![k].status = "running", ![k].attempt = @ + 1,
                                 ![k].leased = TRUE]
      BY <2>1, <2>2, Zenon
    <3>2. key # k => items'[key] = items[key]
      BY <3>1, <1>0
    <3>3. QED
      BY <2>2, <3>2
  <2>3. CASE items[k].status # "queued"
    BY <2>1, <2>3, Zenon
  <2>4. QED
    BY <2>2, <2>3
<1>16. ASSUME NEW r \in Runners, ImportOk(r) PROVE Keeps(key)
  <2>1. pc[r] = "import" /\ item[r] \in Keys
    BY <1>16 DEF ImportOk, MayAnswer, Located
  <2>2. items[item[r]].status \in {"running", "queued"}
    BY <2>1 DEF InHand
  <2>3. key # item[r] => items'[key] = items[key]
    BY <1>16, <2>1, SetItemElsewhere DEF ImportOk
  <2>4. QED
    BY <2>2, <2>3
<1>17. ASSUME NEW r \in Runners, ImportGone(r) PROVE Keeps(key)
  <2>1. pc[r] = "import" /\ item[r] \in Keys
    BY <1>17 DEF ImportGone, MayAnswer, Located
  <2>2. items[item[r]].status \in {"running", "queued"}
    BY <2>1 DEF InHand
  <2>3. key # item[r] => items'[key] = items[key]
    BY <1>17, <2>1, SetItemElsewhere DEF ImportGone
  <2>4. QED
    BY <2>2, <2>3
<1>18. ASSUME NEW r \in Runners, ImportRetry(r) PROVE Keeps(key)
  <2>1. pc[r] = "import" /\ item[r] \in Keys
    BY <1>18 DEF ImportRetry, MayAnswer, Located
  <2>2. items[item[r]].status \in {"running", "queued"}
    BY <2>1 DEF InHand
  <2>3. key # item[r] => items'[key] = items[key]
    BY <1>18, <2>1, SetItemElsewhere DEF ImportRetry
  <2>4. QED
    BY <2>2, <2>3
<1>19. ASSUME NEW r \in Runners, ImportError(r) PROVE Keeps(key)
  <2>1. pc[r] = "import" /\ item[r] \in Keys
    BY <1>19 DEF ImportError, MayAnswer, Located
  <2>2. items[item[r]].status \in {"running", "queued"}
    BY <2>1 DEF InHand
  <2>3. key # item[r] => items'[key] = items[key]
    BY <1>19, <2>1, SetItemElsewhere DEF ImportError
  <2>4. QED
    BY <2>2, <2>3
<1>20. ASSUME NEW r \in Runners, Count(r) PROVE Keeps(key)
  BY <1>20, <1>0 DEF Count
<1>21. ASSUME NEW r \in Runners, FetchEnd(r) PROVE Keeps(key)
  BY <1>21, <1>0 DEF FetchEnd
<1>22. ASSUME NEW r \in Runners, Mapping(r) PROVE Keeps(key)
  BY <1>22, <1>0 DEF Mapping
<1>23. ASSUME NEW r \in Runners, AiBegin(r) PROVE Keeps(key)
  BY <1>23, <1>0 DEF AiBegin
<1>24. ASSUME NEW r \in Runners, AiClaim(r) PROVE Keeps(key)
  <2>1. PICK k \in FirstIn(batch[r]) : AiClaim(r)!2!(k)
    BY <1>24 DEF AiClaim
  <2>2. CASE k \in Eligible(seen[r])
    <3>1. items' = [items EXCEPT ![k].ai[seen[r]] = TRUE]
      BY <2>1, <2>2, Zenon
    <3>2. items'[key].status = items[key].status
      BY <3>1, <1>0 DEF Items
    <3>3. QED
      BY <3>2
  <2>3. CASE k \notin Eligible(seen[r])
    BY <2>1, <2>3, Zenon
  <2>4. QED
    BY <2>2, <2>3
<1>25. ASSUME NEW r \in Runners, AiOk(r) PROVE Keeps(key)
  BY <1>25, <1>0 DEF AiOk
<1>26. ASSUME NEW r \in Runners, AiEnd(r) PROVE Keeps(key)
  BY <1>26, <1>0 DEF AiEnd
<1>27. ASSUME NEW r \in Runners, Reconcile(r) PROVE Keeps(key)
  BY <1>27, <1>0 DEF Reconcile
<1>28. ASSUME NEW r \in Runners, Review(r) PROVE Keeps(key)
  BY <1>28, <1>0 DEF Review
<1>29. ASSUME NEW r \in Runners, FailLoad(r) PROVE Keeps(key)
  BY <1>29, <1>0 DEF FailLoad
<1>30. ASSUME NEW r \in Runners, FailWrite(r) PROVE Keeps(key)
  BY <1>30, <1>0 DEF FailWrite
<1>31. ASSUME NEW r \in Runners, Release(r) PROVE Keeps(key)
  BY <1>31, <1>0 DEF Release
<1>32. ASSUME NEW r \in Runners, Finish(r) PROVE Keeps(key)
  BY <1>32, <1>0 DEF Finish
<1>33. ASSUME NEW r \in Runners, AiError(r) PROVE Keeps(key)
  <2>1. items'[key].status = items[key].status
    BY <1>33, <1>0 DEF AiError, Items
  <2>2. QED
    BY <2>1
<1>34. ASSUME NEW r \in Runners, Abort(r) PROVE Keeps(key)
  BY <1>34, <1>0 DEF Abort
<1>35. ASSUME NEW r \in Runners, Crash(r) PROVE Keeps(key)
  BY <1>35, <1>0 DEF Crash
<1>36. ASSUME LeaseExpires PROVE Keeps(key)
  BY <1>36, <1>0 DEF LeaseExpires
<1>37. ASSUME NEW k \in Keys, ItemLeaseExpires(k) PROVE Keeps(key)
  <2>1. items'[key].status = items[key].status
    BY <1>37, <1>0 DEF ItemLeaseExpires, Items
  <2>2. QED
    BY <2>1
<1>38. ASSUME NEW k \in Keys, RetryDue(k) PROVE Keeps(key)
  <2>1. items'[key].status = items[key].status
    BY <1>38, <1>0 DEF RetryDue, Items
  <2>2. QED
    BY <2>1
<1>39. ASSUME Pause PROVE Keeps(key)
  BY <1>39, <1>0 DEF Pause
<1>40. ASSUME ResumePaused PROVE Keeps(key)
  BY <1>40, <1>0 DEF ResumePaused
<1>41. ASSUME Cancel PROVE Keeps(key)
  BY <1>41, <1>0 DEF Cancel
<1>42. ASSUME CreateAgain PROVE Keeps(key)
  BY <1>42, <1>0 DEF CreateAgain
<1>43. ASSUME UNCHANGED vars PROVE Keeps(key)
  BY <1>43, <1>0 DEF vars
<1>44. QED
  BY <1>1, <1>2, <1>3, <1>4, <1>5, <1>6, <1>7, <1>8, <1>9, <1>10, <1>11, <1>12, <1>13,
     <1>14, <1>15, <1>16, <1>17, <1>18, <1>19, <1>20, <1>21, <1>22, <1>23, <1>24, <1>25,
     <1>26, <1>27, <1>28, <1>29, <1>30, <1>31, <1>32, <1>33, <1>34, <1>35, <1>36, <1>37,
     <1>38, <1>39, <1>40, <1>41, <1>42, <1>43, Zenon
  DEF Next, Start, Run, Clock, Operator

LEMMA InHandStep ==
  ASSUME Watchers = {}, TypeOK, Located, WorkersExclusive, InHand, [Next]_vars
  PROVE  InHand'
<1> SUFFICES ASSUME NEW w \in Runners, pc'[w] = "import"
             PROVE  items'[item'[w]].status \in {"running", "queued"}
  BY DEF InHand
<1> USE DEF row, mine, Goto
<1>0. /\ items \in [Keys -> Items] /\ pc \in [Runners -> Labels] /\ Runners = Workers
      /\ item \in [Runners -> Keys \union {NoItem}]
  BY DEF TypeOK, Runners
\* The importing run is the only one inside run(): nobody else writes work items.
<1> DEFINE alone == \A v \in Runners : InRun(v) /\ InRun(w) => v = w
<1>a. alone
  BY <1>0 DEF WorkersExclusive
<1>b. pc[w] = "import" => item[w] \in Keys /\ items[item[w]].status \in {"running", "queued"}
  BY DEF Located, InHand
<1> HIDE DEF alone
<1>1. ASSUME NEW r \in Runners, StartTask(r) PROVE items'[item'[w]].status \in {"running", "queued"}
  BY <1>1, <1>0, <1>b DEF StartTask
<1>2. ASSUME NEW r \in Runners, StartWatch(r) PROVE items'[item'[w]].status \in {"running", "queued"}
  BY <1>2 DEF StartWatch
<1>3. ASSUME NEW r \in Runners, Claim(r) PROVE items'[item'[w]].status \in {"running", "queued"}
  BY <1>3, <1>0, <1>b DEF Claim
<1>4. ASSUME NEW r \in Runners, Load(r) PROVE items'[item'[w]].status \in {"running", "queued"}
  BY <1>4, <1>0, <1>b DEF Load, Reread
<1>5. ASSUME NEW r \in Runners, Resume(r) PROVE items'[item'[w]].status \in {"running", "queued"}
  <2>1. r # w /\ pc[w] = "import"
    BY <1>5, <1>0 DEF Resume
  <2>2. InRun(r) /\ InRun(w)
    BY <1>5, <2>1 DEF Resume, InRun
  <2>3. QED
    BY <1>a, <2>1, <2>2 DEF alone
<1>6. ASSUME NEW r \in Runners, Begin(r) PROVE items'[item'[w]].status \in {"running", "queued"}
  BY <1>6, <1>0, <1>b DEF Begin
<1>7. ASSUME NEW r \in Runners, NoPhase(r) PROVE items'[item'[w]].status \in {"running", "queued"}
  BY <1>7, <1>0, <1>b DEF NoPhase
<1>8. ASSUME NEW r \in Runners, Advance(r) PROVE items'[item'[w]].status \in {"running", "queued"}
  BY <1>8, <1>0, <1>b DEF Advance
<1>9. ASSUME NEW r \in Runners, Refresh(r) PROVE items'[item'[w]].status \in {"running", "queued"}
  BY <1>9, <1>0, <1>b DEF Refresh, Reread
<1>10. ASSUME NEW r \in Runners, DiscoverPage(r) PROVE items'[item'[w]].status \in {"running", "queued"}
  <2>1. r # w /\ pc[w] = "import"
    BY <1>10, <1>0 DEF DiscoverPage
  <2>2. InRun(r) /\ InRun(w)
    BY <1>10, <2>1 DEF DiscoverPage, InRun
  <2>3. QED
    BY <1>a, <2>1, <2>2 DEF alone
<1>11. ASSUME NEW r \in Runners, SavePage(r) PROVE items'[item'[w]].status \in {"running", "queued"}
  BY <1>11, <1>0, <1>b DEF SavePage
<1>12. ASSUME NEW r \in Runners, Truncate(r) PROVE items'[item'[w]].status \in {"running", "queued"}
  BY <1>12, <1>0, <1>b DEF Truncate, AdvanceTo
<1>13. ASSUME NEW r \in Runners, SaveCrawl(r) PROVE items'[item'[w]].status \in {"running", "queued"}
  BY <1>13, <1>0, <1>b DEF SaveCrawl, AdvanceTo
<1>14. ASSUME NEW r \in Runners, FetchBegin(r) PROVE items'[item'[w]].status \in {"running", "queued"}
  <2>1. r # w /\ pc[w] = "import"
    BY <1>14, <1>0 DEF FetchBegin
  <2>2. InRun(r) /\ InRun(w)
    BY <1>14, <2>1 DEF FetchBegin, InRun
  <2>3. QED
    BY <1>a, <2>1, <2>2 DEF alone
<1>15. ASSUME NEW r \in Runners, ClaimItem(r) PROVE items'[item'[w]].status \in {"running", "queued"}
  <2>1. PICK k \in FirstIn(batch[r]) : ClaimItem(r)!2!(k)
    BY <1>15 DEF ClaimItem
  <2>2. k \in Keys /\ InRun(r)
    BY <1>15 DEF ClaimItem, FirstIn, TypeOK, InRun
  <2>3. CASE items[k].status = "queued" /\ w = r
    <3>1. /\ items' = [items EXCEPT ![k].status = "running", ![k].attempt = @ + 1,
                                   ![k].leased = TRUE]
          /\ item' = [item EXCEPT ![r] = k]
      BY <2>1, <2>3, Zenon
    <3>2. item'[w] = k /\ items'[k].status = "running"
      BY <2>2, <2>3, <3>1, <1>0 DEF Items
    <3>3. QED
      BY <3>2
  <2>4. CASE items[k].status = "queued" /\ w # r
    <3>1. pc' = [pc EXCEPT ![r] = "import"]
      BY <2>1, <2>4, Zenon
    <3>2. InRun(w)
      BY <2>4, <3>1, <1>0 DEF InRun
    <3>3. QED
      BY <1>a, <2>2, <2>4, <3>2 DEF alone
  <2>5. CASE items[k].status # "queued"
    <3>1. items' = items /\ item' = item /\ pc' = pc
      BY <2>1, <2>5, Zenon
    <3>2. QED
      BY <3>1, <1>b
  <2>6. QED
    BY <2>3, <2>4, <2>5
<1>16. ASSUME NEW r \in Runners, ImportOk(r) PROVE items'[item'[w]].status \in {"running", "queued"}
  <2>1. r # w /\ pc[w] = "import"
    BY <1>16, <1>0 DEF ImportOk, MayAnswer
  <2>2. InRun(r) /\ InRun(w)
    BY <1>16, <2>1 DEF ImportOk, MayAnswer, InRun
  <2>3. QED
    BY <1>a, <2>1, <2>2 DEF alone
<1>17. ASSUME NEW r \in Runners, ImportGone(r) PROVE items'[item'[w]].status \in {"running", "queued"}
  <2>1. r # w /\ pc[w] = "import"
    BY <1>17, <1>0 DEF ImportGone, MayAnswer
  <2>2. InRun(r) /\ InRun(w)
    BY <1>17, <2>1 DEF ImportGone, MayAnswer, InRun
  <2>3. QED
    BY <1>a, <2>1, <2>2 DEF alone
<1>18. ASSUME NEW r \in Runners, ImportRetry(r) PROVE items'[item'[w]].status \in {"running", "queued"}
  <2>1. r # w /\ pc[w] = "import"
    BY <1>18, <1>0 DEF ImportRetry, MayAnswer
  <2>2. InRun(r) /\ InRun(w)
    BY <1>18, <2>1 DEF ImportRetry, MayAnswer, InRun
  <2>3. QED
    BY <1>a, <2>1, <2>2 DEF alone
<1>19. ASSUME NEW r \in Runners, ImportError(r) PROVE items'[item'[w]].status \in {"running", "queued"}
  <2>1. r # w /\ pc[w] = "import"
    BY <1>19, <1>0 DEF ImportError, MayAnswer
  <2>2. InRun(r) /\ InRun(w)
    BY <1>19, <2>1 DEF ImportError, MayAnswer, InRun
  <2>3. QED
    BY <1>a, <2>1, <2>2 DEF alone
<1>20. ASSUME NEW r \in Runners, Count(r) PROVE items'[item'[w]].status \in {"running", "queued"}
  BY <1>20, <1>0, <1>b DEF Count
<1>21. ASSUME NEW r \in Runners, FetchEnd(r) PROVE items'[item'[w]].status \in {"running", "queued"}
  BY <1>21, <1>0, <1>b DEF FetchEnd, Reread, AdvanceTo
<1>22. ASSUME NEW r \in Runners, Mapping(r) PROVE items'[item'[w]].status \in {"running", "queued"}
  BY <1>22, <1>0, <1>b DEF Mapping, AdvanceTo
<1>23. ASSUME NEW r \in Runners, AiBegin(r) PROVE items'[item'[w]].status \in {"running", "queued"}
  BY <1>23, <1>0, <1>b DEF AiBegin, AdvanceTo
<1>24. ASSUME NEW r \in Runners, AiClaim(r) PROVE items'[item'[w]].status \in {"running", "queued"}
  <2>1. r # w /\ pc[w] = "import"
    <3>1. PICK k \in FirstIn(batch[r]) : AiClaim(r)!2!(k)
      BY <1>24 DEF AiClaim
    <3>2. pc[r] = "ai" /\ (pc' = [pc EXCEPT ![r] = "aiWork"] \/ pc' = pc)
      BY <1>24, <3>1 DEF AiClaim
    <3>3. QED
      BY <3>2, <1>0
  <2>2. InRun(r) /\ InRun(w)
    BY <1>24, <2>1 DEF AiClaim, InRun
  <2>3. QED
    BY <1>a, <2>1, <2>2 DEF alone
<1>25. ASSUME NEW r \in Runners, AiOk(r) PROVE items'[item'[w]].status \in {"running", "queued"}
  BY <1>25, <1>0, <1>b DEF AiOk
<1>26. ASSUME NEW r \in Runners, AiEnd(r) PROVE items'[item'[w]].status \in {"running", "queued"}
  BY <1>26, <1>0, <1>b DEF AiEnd, AdvanceTo
<1>27. ASSUME NEW r \in Runners, Reconcile(r) PROVE items'[item'[w]].status \in {"running", "queued"}
  BY <1>27, <1>0, <1>b DEF Reconcile, AdvanceTo
<1>28. ASSUME NEW r \in Runners, Review(r) PROVE items'[item'[w]].status \in {"running", "queued"}
  BY <1>28, <1>0, <1>b DEF Review, AdvanceTo
<1>29. ASSUME NEW r \in Runners, FailLoad(r) PROVE items'[item'[w]].status \in {"running", "queued"}
  BY <1>29, <1>0, <1>b DEF FailLoad, Reread
<1>30. ASSUME NEW r \in Runners, FailWrite(r) PROVE items'[item'[w]].status \in {"running", "queued"}
  BY <1>30, <1>0, <1>b DEF FailWrite
<1>31. ASSUME NEW r \in Runners, Release(r) PROVE items'[item'[w]].status \in {"running", "queued"}
  BY <1>31, <1>0, <1>b DEF Release
<1>32. ASSUME NEW r \in Runners, Finish(r) PROVE items'[item'[w]].status \in {"running", "queued"}
  BY <1>32, <1>0, <1>b DEF Finish, Forget
<1>33. ASSUME NEW r \in Runners, AiError(r) PROVE items'[item'[w]].status \in {"running", "queued"}
  <2>1. r # w /\ pc[w] = "import"
    BY <1>33, <1>0 DEF AiError
  <2>2. InRun(r) /\ InRun(w)
    BY <1>33, <2>1 DEF AiError, InRun
  <2>3. QED
    BY <1>a, <2>1, <2>2 DEF alone
<1>34. ASSUME NEW r \in Runners, Abort(r) PROVE items'[item'[w]].status \in {"running", "queued"}
  BY <1>34, <1>0, <1>b DEF Abort, CanAbort
<1>35. ASSUME NEW r \in Runners, Crash(r) PROVE items'[item'[w]].status \in {"running", "queued"}
  BY <1>35, <1>0, <1>b DEF Crash, Forget
<1>36. ASSUME LeaseExpires PROVE items'[item'[w]].status \in {"running", "queued"}
  BY <1>36, <1>0, <1>b DEF LeaseExpires
<1>37. ASSUME NEW k \in Keys, ItemLeaseExpires(k) PROVE items'[item'[w]].status \in {"running", "queued"}
  <2>1. \A l \in Keys : items'[l].status = items[l].status
    BY <1>37, <1>0 DEF ItemLeaseExpires, Items
  <2>2. QED
    BY <1>37, <1>b, <2>1 DEF ItemLeaseExpires
<1>38. ASSUME NEW k \in Keys, RetryDue(k) PROVE items'[item'[w]].status \in {"running", "queued"}
  <2>1. \A l \in Keys : items'[l].status = items[l].status
    BY <1>38, <1>0 DEF RetryDue, Items
  <2>2. QED
    BY <1>38, <1>b, <2>1 DEF RetryDue
<1>39. ASSUME Pause PROVE items'[item'[w]].status \in {"running", "queued"}
  BY <1>39, <1>0, <1>b DEF Pause
<1>40. ASSUME ResumePaused PROVE items'[item'[w]].status \in {"running", "queued"}
  BY <1>40, <1>0, <1>b DEF ResumePaused
<1>41. ASSUME Cancel PROVE items'[item'[w]].status \in {"running", "queued"}
  <2>1. \A l \in Keys : items[l].status \in {"running", "queued"}
                        => items'[l].status \in {"running", "queued"}
    BY <1>41, <1>0 DEF Cancel, Items
  <2>2. QED
    BY <1>41, <1>b, <2>1 DEF Cancel
<1>42. ASSUME CreateAgain PROVE items'[item'[w]].status \in {"running", "queued"}
  BY <1>42, <1>0, <1>b DEF CreateAgain
<1>43. ASSUME UNCHANGED vars PROVE items'[item'[w]].status \in {"running", "queued"}
  BY <1>43, <1>0, <1>b DEF vars
<1>44. QED
  BY <1>1, <1>2, <1>3, <1>4, <1>5, <1>6, <1>7, <1>8, <1>9, <1>10, <1>11, <1>12, <1>13,
     <1>14, <1>15, <1>16, <1>17, <1>18, <1>19, <1>20, <1>21, <1>22, <1>23, <1>24, <1>25,
     <1>26, <1>27, <1>28, <1>29, <1>30, <1>31, <1>32, <1>33, <1>34, <1>35, <1>36, <1>37,
     <1>38, <1>39, <1>40, <1>41, <1>42, <1>43, Zenon
  DEF Next, Start, Run, Clock, Operator

\* With Celery workers alone, no work item that was fetched, or retired after a 404,
\* is ever put back or overwritten.  (A --watch run can outlive its lease.)
THEOREM FinishedWork ==
  ASSUME Watchers = {}
  PROVE  Safety => FinishedWorkKept
<1>1. Init => TypeOK /\ Located /\ WorkersExclusive /\ InHand
  <2>1. Init => WorkersExclusive /\ InHand
    BY DEF Init, WorkersExclusive, InHand, InRun, Runners
  <2>2. QED
    BY <2>1, InvariantInit
<1>2. TypeOK /\ Located /\ WorkersExclusive /\ InHand /\ [Next]_vars
        => \A k \in Keys : items[k].status \in {"succeeded", "skipped"}
                              => items'[k].status = items[k].status
  BY KeptStep DEF Keeps
<1>3. TypeOK /\ Located /\ WorkersExclusive /\ InHand /\ [Next]_vars => InHand'
  BY InHandStep
<1>4. QED
  BY <1>1, <1>2, <1>3, TypeStep, LocatedStep, ExclusiveStep, PTL DEF Safety, FinishedWorkKept

-----------------------------------------------------------------------------
(***************************************************************************)
(* AI calls are paid for once, whoever makes them.                         *)
(***************************************************************************)
\* The timestamp of an item's phase is set for every call that is finished ...
Stamped ==
  \A k \in Keys, f \in AiPhases :
    /\ items[k].ai[f] => items[k].status # "absent"
    /\ aiCalls[k][f] <= 1
    /\ aiCalls[k][f] = 1 => items[k].ai[f]
\* ... and for the one in flight, ...
InFlight ==
  \A r \in Runners : pc[r] = "aiWork" =>
    items[item[r]].ai[seen[r]] /\ aiCalls[item[r]][seen[r]] = 0
\* ... which no other run is making.
Apart ==
  \A r, s \in Runners :
    pc[r] = "aiWork" /\ pc[s] = "aiWork" /\ item[r] = item[s] /\ seen[r] = seen[s] => r = s
Paid == Stamped /\ InFlight /\ Apart

\* Most steps leave the timestamps alone and put no work item back to absent.
StampsKept ==
  \A k \in Keys : /\ items'[k].ai = items[k].ai
                  /\ items'[k].status = "absent" => items[k].status = "absent"
NoAiCall ==
  /\ aiCalls' = aiCalls
  /\ \A r \in Runners : pc'[r] = "aiWork" =>
       pc[r] = "aiWork" /\ item'[r] = item[r] /\ seen'[r] = seen[r]

LEMMA PaidKept ==
  ASSUME TypeOK, Located, Paid, StampsKept, NoAiCall
  PROVE  Paid'
<1>1. \A r \in Runners : pc[r] = "aiWork" => item[r] \in Keys /\ seen[r] \in AiPhases
  BY DEF Located
<1>2. Stamped'
  <2> SUFFICES ASSUME NEW k \in Keys, NEW f \in AiPhases
               PROVE  /\ items'[k].ai[f] => items'[k].status # "absent"
                      /\ aiCalls'[k][f] <= 1
                      /\ aiCalls'[k][f] = 1 => items'[k].ai[f]
    BY DEF Stamped
  <2>1. items'[k].ai = items[k].ai /\ (items'[k].status = "absent" => items[k].status = "absent")
    BY DEF StampsKept
  <2>4. aiCalls' = aiCalls
    BY DEF NoAiCall
  <2>2. /\ items[k].ai[f] => items[k].status # "absent"
        /\ aiCalls[k][f] <= 1
        /\ aiCalls[k][f] = 1 => items[k].ai[f]
    BY DEF Paid, Stamped
  <2>3. QED
    BY <2>1, <2>2, <2>4
<1>3. InFlight'
  <2> SUFFICES ASSUME NEW r \in Runners, pc'[r] = "aiWork"
               PROVE  items'[item'[r]].ai[seen'[r]] /\ aiCalls'[item'[r]][seen'[r]] = 0
    BY DEF InFlight
  <2>1. pc[r] = "aiWork" /\ item'[r] = item[r] /\ seen'[r] = seen[r] /\ aiCalls' = aiCalls
    BY DEF NoAiCall
  <2>2. item[r] \in Keys /\ seen[r] \in AiPhases
    BY <1>1, <2>1
  <2>3. items[item[r]].ai[seen[r]] /\ aiCalls[item[r]][seen[r]] = 0
    BY <2>1 DEF Paid, InFlight
  <2>4. items'[item[r]].ai = items[item[r]].ai
    BY <2>2 DEF StampsKept
  <2>5. QED
    BY <2>1, <2>3, <2>4
<1>4. Apart'
  BY DEF Paid, Apart, NoAiCall
<1>5. QED
  BY <1>2, <1>3, <1>4 DEF Paid

LEMMA StampsStep ==
  ASSUME TypeOK, Located, Paid, NEW r \in Runners,
         \/ StartWatch(r) \/ Resume(r) \/ DiscoverPage(r) \/ FetchBegin(r) \/ ClaimItem(r)
         \/ ImportOk(r) \/ ImportGone(r) \/ ImportRetry(r) \/ ImportError(r)
  PROVE  StampsKept
<1> USE DEF StampsKept
<1>0. items \in [Keys -> Items]
  BY DEF TypeOK
<1>1. ASSUME StartWatch(r) \/ Resume(r) PROVE StampsKept
  <2>1. items' = RequeuedFailures \/ items' = items
    BY <1>1 DEF StartWatch, Resume, ResumeFailed, mine
  <2>2. \A k \in Keys : \/ items'[k] = items[k]
                       \/ items'[k] = [items[k] EXCEPT !.status = "queued", !.leased = FALSE,
                                                       !.due = TRUE]
    BY <2>1 DEF RequeuedFailures
  <2>3. ASSUME NEW k \in Keys
        PROVE  items'[k].ai = items[k].ai /\ items'[k].status \in {items[k].status, "queued"}
    <3>1. items[k] \in Items
      BY <1>0
    <3>2. CASE items'[k] = items[k]
      BY <3>2
    <3>3. CASE items'[k] = [items[k] EXCEPT !.status = "queued", !.leased = FALSE, !.due = TRUE]
      BY <3>1, <3>3 DEF Items
    <3>4. QED
      BY <2>2, <3>2, <3>3
  <2>4. QED
    BY <2>3
<1>2. ASSUME DiscoverPage(r) PROVE StampsKept
  <2>1. \A k \in Keys : items'[k] = items[k] \/ (items[k].status = "absent" /\ items'[k] = NewItem)
    BY <1>2, Zenon DEF DiscoverPage
  <2>2. \A k \in Keys : items[k].status = "absent" => items[k].ai = NewItem.ai
    <3>1. ASSUME NEW k \in Keys, items[k].status = "absent" PROVE items[k].ai = NewItem.ai
      <4>1. items[k].ai \in [AiPhases -> BOOLEAN]
        BY <1>0, <3>1 DEF Items
      <4>2. \A f \in AiPhases : ~items[k].ai[f]
        BY <3>1 DEF Paid, Stamped
      <4>3. \A f \in AiPhases : items[k].ai[f] = FALSE
        BY <4>1, <4>2
      <4>4. NewItem.ai = [f \in AiPhases |-> FALSE]
        BY DEF NewItem
      <4>5. QED
        BY <4>1, <4>3, <4>4
    <3>2. QED
      BY <3>1
  <2>3. NewItem.status = "queued"
    BY DEF NewItem
  <2>4. QED
    BY <2>1, <2>2, <2>3
<1>3. ASSUME FetchBegin(r) PROVE StampsKept
  BY <1>3, <1>0 DEF FetchBegin, Items
<1>4. ASSUME ClaimItem(r) PROVE StampsKept
  <2>1. PICK k \in FirstIn(batch[r]) : ClaimItem(r)!2!(k)
    BY <1>4 DEF ClaimItem
  <2>2. CASE items[k].status = "queued"
    <3>1. items' = [items EXCEPT ![k].status = "running", ![k].attempt = @ + 1,
                                 ![k].leased = TRUE]
      BY <2>1, <2>2, Zenon
    <3>2. QED
      BY <3>1, <1>0 DEF Items
  <2>3. CASE items[k].status # "queued"
    <3>1. items' = items
      BY <2>1, <2>3, Zenon
    <3>2. QED
      BY <3>1
  <2>4. QED
    BY <2>2, <2>3
<1>5. ASSUME NEW s \in {"succeeded", "skipped", "queued", "failed"}, NEW d, SetItem(r, s, d)
      PROVE  StampsKept
  BY <1>5, <1>0 DEF SetItem, Items
<1>6. ASSUME ImportOk(r) \/ ImportGone(r) \/ ImportRetry(r) \/ ImportError(r) PROVE StampsKept
  BY <1>5, <1>6, Zenon DEF ImportOk, ImportGone, ImportRetry, ImportError
<1>7. QED
  BY <1>1, <1>2, <1>3, <1>4, <1>6

LEMMA PaidStep ==
  ASSUME TypeOK, Located, Paid, [Next]_vars
  PROVE  Paid'
<1> USE DEF row, mine, Goto
<1>0. /\ items \in [Keys -> Items] /\ pc \in [Runners -> Labels]
      /\ item \in [Runners -> Keys \union {NoItem}] /\ seen \in [Runners -> Statuses]
      /\ aiCalls \in [Keys -> [AiPhases -> Nat]]
  BY DEF TypeOK
<1>a. \A s \in Runners : pc[s] = "aiWork" => item[s] \in Keys /\ seen[s] \in AiPhases
  BY DEF Located
<1>1. ASSUME NEW r \in Runners, StartTask(r) PROVE Paid'
  BY <1>1, <1>0, PaidKept DEF StartTask, StampsKept, NoAiCall
<1>2. ASSUME NEW r \in Runners, StartWatch(r) PROVE Paid'
  <2>1. StampsKept
    BY <1>2, StampsStep
  <2>2. NoAiCall
    BY <1>2, <1>0 DEF NoAiCall, StartWatch
  <2>3. QED
    BY <2>1, <2>2, PaidKept
<1>3. ASSUME NEW r \in Runners, Claim(r) PROVE Paid'
  BY <1>3, <1>0, PaidKept DEF Claim, StampsKept, NoAiCall
<1>4. ASSUME NEW r \in Runners, Load(r) PROVE Paid'
  BY <1>4, <1>0, PaidKept DEF Load, Reread, StampsKept, NoAiCall
<1>5. ASSUME NEW r \in Runners, Resume(r) PROVE Paid'
  <2>1. StampsKept
    BY <1>5, StampsStep
  <2>2. NoAiCall
    BY <1>5, <1>0 DEF NoAiCall, Resume
  <2>3. QED
    BY <2>1, <2>2, PaidKept
<1>6. ASSUME NEW r \in Runners, Begin(r) PROVE Paid'
  BY <1>6, <1>0, PaidKept DEF Begin, StampsKept, NoAiCall
<1>7. ASSUME NEW r \in Runners, NoPhase(r) PROVE Paid'
  BY <1>7, <1>0, PaidKept DEF NoPhase, StampsKept, NoAiCall
<1>8. ASSUME NEW r \in Runners, Advance(r) PROVE Paid'
  BY <1>8, <1>0, PaidKept DEF Advance, StampsKept, NoAiCall
<1>9. ASSUME NEW r \in Runners, Refresh(r) PROVE Paid'
  BY <1>9, <1>0, PaidKept DEF Refresh, Reread, StampsKept, NoAiCall
<1>10. ASSUME NEW r \in Runners, DiscoverPage(r) PROVE Paid'
  <2>1. StampsKept
    BY <1>10, StampsStep
  <2>2. NoAiCall
    BY <1>10, <1>0 DEF NoAiCall, DiscoverPage
  <2>3. QED
    BY <2>1, <2>2, PaidKept
<1>11. ASSUME NEW r \in Runners, SavePage(r) PROVE Paid'
  BY <1>11, <1>0, PaidKept DEF SavePage, StampsKept, NoAiCall
<1>12. ASSUME NEW r \in Runners, Truncate(r) PROVE Paid'
  BY <1>12, <1>0, PaidKept DEF Truncate, AdvanceTo, StampsKept, NoAiCall
<1>13. ASSUME NEW r \in Runners, SaveCrawl(r) PROVE Paid'
  BY <1>13, <1>0, PaidKept DEF SaveCrawl, AdvanceTo, StampsKept, NoAiCall
<1>14. ASSUME NEW r \in Runners, FetchBegin(r) PROVE Paid'
  <2>1. StampsKept
    BY <1>14, StampsStep
  <2>2. NoAiCall
    BY <1>14, <1>0 DEF NoAiCall, FetchBegin
  <2>3. QED
    BY <2>1, <2>2, PaidKept
<1>15. ASSUME NEW r \in Runners, ClaimItem(r) PROVE Paid'
  <2>1. StampsKept
    BY <1>15, StampsStep
  <2>2. pc[r] = "fetch" /\ (pc' = [pc EXCEPT ![r] = "import"] \/ (pc' = pc /\ item' = item))
    BY <1>15, Zenon DEF ClaimItem
  <2>3. \A s \in Runners : s # r => item'[s] = item[s]
    BY <1>15, <1>0 DEF ClaimItem
  <2>4. NoAiCall
    BY <1>15, <2>2, <2>3, <1>0 DEF NoAiCall, ClaimItem
  <2>5. QED
    BY <2>1, <2>4, PaidKept
<1>16. ASSUME NEW r \in Runners, ImportOk(r) PROVE Paid'
  <2>1. StampsKept
    BY <1>16, StampsStep
  <2>2. NoAiCall
    BY <1>16, <1>0 DEF NoAiCall, ImportOk, MayAnswer
  <2>3. QED
    BY <2>1, <2>2, PaidKept
<1>17. ASSUME NEW r \in Runners, ImportGone(r) PROVE Paid'
  <2>1. StampsKept
    BY <1>17, StampsStep
  <2>2. NoAiCall
    BY <1>17, <1>0 DEF NoAiCall, ImportGone, MayAnswer
  <2>3. QED
    BY <2>1, <2>2, PaidKept
<1>18. ASSUME NEW r \in Runners, ImportRetry(r) PROVE Paid'
  <2>1. StampsKept
    BY <1>18, StampsStep
  <2>2. NoAiCall
    BY <1>18, <1>0 DEF NoAiCall, ImportRetry, MayAnswer
  <2>3. QED
    BY <2>1, <2>2, PaidKept
<1>19. ASSUME NEW r \in Runners, ImportError(r) PROVE Paid'
  <2>1. StampsKept
    BY <1>19, StampsStep
  <2>2. NoAiCall
    BY <1>19, <1>0 DEF NoAiCall, ImportError, MayAnswer
  <2>3. QED
    BY <2>1, <2>2, PaidKept
<1>20. ASSUME NEW r \in Runners, Count(r) PROVE Paid'
  BY <1>20, <1>0, PaidKept DEF Count, StampsKept, NoAiCall
<1>21. ASSUME NEW r \in Runners, FetchEnd(r) PROVE Paid'
  BY <1>21, <1>0, PaidKept DEF FetchEnd, Reread, AdvanceTo, StampsKept, NoAiCall
<1>22. ASSUME NEW r \in Runners, Mapping(r) PROVE Paid'
  BY <1>22, <1>0, PaidKept DEF Mapping, AdvanceTo, StampsKept, NoAiCall
<1>23. ASSUME NEW r \in Runners, AiBegin(r) PROVE Paid'
  BY <1>23, <1>0, PaidKept DEF AiBegin, AdvanceTo, StampsKept, NoAiCall
<1>24. ASSUME NEW r \in Runners, AiClaim(r) PROVE Paid'
  <2>1. PICK k \in FirstIn(batch[r]) : AiClaim(r)!2!(k)
    BY <1>24 DEF AiClaim
  <2>2. CASE k \notin Eligible(seen[r])
    <3>1. items' = items /\ item' = item /\ pc' = pc
      BY <2>1, <2>2, Zenon
    <3>2. QED
      BY <1>24, <3>1, PaidKept DEF AiClaim, StampsKept, NoAiCall
  <2>3. CASE k \in Eligible(seen[r])
    <3>1. /\ items' = [items EXCEPT ![k].ai[seen[r]] = TRUE]
          /\ item' = [item EXCEPT ![r] = k] /\ pc' = [pc EXCEPT ![r] = "aiWork"]
      BY <2>1, <2>3, Zenon
    <3>2. aiCalls' = aiCalls /\ seen' = seen
      BY <1>24 DEF AiClaim
    <3>3. k \in Keys /\ items[k].status = "succeeded" /\ ~items[k].ai[seen[r]]
          /\ seen[r] \in AiPhases
      BY <1>24, <2>3 DEF Eligible, WithStatus, AiClaim, Located
    <3>4. \A l \in Keys, f \in AiPhases :
            /\ items'[l].ai[f] = IF l = k /\ f = seen[r] THEN TRUE ELSE items[l].ai[f]
            /\ items'[l].status = items[l].status
      BY <3>1, <3>3, <1>0 DEF Items
    <3>5. aiCalls[k][seen[r]] = 0
      <4>1. aiCalls[k][seen[r]] \in Nat
        BY <3>3, <1>0
      <4>2. aiCalls[k][seen[r]] <= 1 /\ aiCalls[k][seen[r]] # 1
        BY <3>3 DEF Paid, Stamped
      <4>3. QED
        BY <4>1, <4>2
    <3>6. \A s \in Runners : pc[s] = "aiWork" => item[s] # k \/ seen[s] # seen[r]
      BY <3>3 DEF Paid, InFlight
    <3>7. \A s \in Runners : s # r => item'[s] = item[s] /\ pc'[s] = pc[s]
      BY <3>1, <1>0
    <3>8. item'[r] = k /\ pc'[r] = "aiWork"
      BY <3>1, <1>0
    <3> HIDE DEF Located
    <3>9. Stamped'
      <4> SUFFICES ASSUME NEW l \in Keys, NEW f \in AiPhases
                   PROVE  /\ items'[l].ai[f] => items'[l].status # "absent"
                          /\ aiCalls'[l][f] <= 1
                          /\ aiCalls'[l][f] = 1 => items'[l].ai[f]
        BY DEF Stamped
      <4>1. /\ items[l].ai[f] => items[l].status # "absent"
            /\ aiCalls[l][f] <= 1
            /\ aiCalls[l][f] = 1 => items[l].ai[f]
        BY DEF Paid, Stamped
      <4>2. /\ items'[l].ai[f] = IF l = k /\ f = seen[r] THEN TRUE ELSE items[l].ai[f]
            /\ items'[l].status = items[l].status
        BY <3>4
      <4>3. CASE l = k /\ f = seen[r]
        <5>1. items'[l].ai[f] /\ items'[l].status = "succeeded"
          BY <3>3, <4>2, <4>3
        <5>2. QED
          BY <3>2, <4>1, <5>1
      <4>4. CASE ~(l = k /\ f = seen[r])
        <5>1. items'[l].ai[f] = items[l].ai[f]
          BY <4>2, <4>4
        <5>2. QED
          BY <3>2, <4>1, <4>2, <5>1
      <4>5. QED
        BY <4>3, <4>4
    <3>10. InFlight'
      <4> SUFFICES ASSUME NEW s \in Runners, pc'[s] = "aiWork"
                   PROVE  items'[item'[s]].ai[seen'[s]] /\ aiCalls'[item'[s]][seen'[s]] = 0
        BY DEF InFlight
      <4>1. CASE s = r
        BY <3>2, <3>3, <3>4, <3>5, <3>8, <4>1
      <4>2. CASE s # r
        <5>1. pc[s] = "aiWork" /\ item'[s] = item[s]
          BY <3>7, <4>2
        <5>2. item[s] \in Keys /\ seen[s] \in AiPhases
          BY <1>a, <5>1
        <5>3. items[item[s]].ai[seen[s]] /\ aiCalls[item[s]][seen[s]] = 0
          BY <5>1 DEF Paid, InFlight
        <5>4. QED
          BY <3>2, <3>4, <5>1, <5>2, <5>3
      <4>3. QED
        BY <4>1, <4>2
    <3>11. Apart'
      BY <3>2, <3>6, <3>7, <3>8 DEF Paid, Apart
    <3>12. QED
      BY <3>9, <3>10, <3>11 DEF Paid
  <2>4. QED
    BY <2>2, <2>3
<1>25. ASSUME NEW r \in Runners, AiOk(r) PROVE Paid'
  <2>a. pc[r] = "aiWork"
    BY <1>25 DEF AiOk
  <2>1. pc[r] = "aiWork" /\ item[r] \in Keys /\ seen[r] \in AiPhases
    BY <2>a, <1>a
  <2>2. items[item[r]].ai[seen[r]] /\ aiCalls[item[r]][seen[r]] = 0
    BY <2>1 DEF Paid, InFlight
  <2>3. \A l \in Keys, f \in AiPhases :
          aiCalls'[l][f] = IF l = item[r] /\ f = seen[r] THEN 1 ELSE aiCalls[l][f]
    BY <1>25, <2>1, <2>2, <1>0 DEF AiOk
  <2>4. \A s \in Runners : s # r => item'[s] = item[s] /\ pc'[s] = pc[s]
    BY <1>25, <1>0 DEF AiOk
  <2>5. pc'[r] = "ai" /\ seen' = seen /\ items' = items
    BY <1>25, <1>0 DEF AiOk
  <2>6. Stamped'
    <3> SUFFICES ASSUME NEW l \in Keys, NEW f \in AiPhases
                 PROVE  /\ items'[l].ai[f] => items'[l].status # "absent"
                        /\ aiCalls'[l][f] <= 1
                        /\ aiCalls'[l][f] = 1 => items'[l].ai[f]
      BY DEF Stamped
    <3>1. /\ items[l].ai[f] => items[l].status # "absent"
          /\ aiCalls[l][f] <= 1
          /\ aiCalls[l][f] = 1 => items[l].ai[f]
      BY DEF Paid, Stamped
    <3>2. CASE l = item[r] /\ f = seen[r]
      BY <2>2, <2>3, <2>5, <3>1, <3>2
    <3>3. CASE ~(l = item[r] /\ f = seen[r])
      <4>1. aiCalls'[l][f] = aiCalls[l][f] /\ items'[l].status = items[l].status
            /\ (items'[l].ai[f] = items[l].ai[f])
        BY <2>3, <2>5, <3>3
      <4>2. QED
        BY <3>1, <4>1
    <3>4. QED
      BY <3>2, <3>3
  <2>7. InFlight'
    <3>1. \A s \in Runners : s # r /\ pc[s] = "aiWork" => item[s] # item[r] \/ seen[s] # seen[r]
      BY <2>1 DEF Paid, Apart
    <3>2. QED
      <4> SUFFICES ASSUME NEW s \in Runners, pc'[s] = "aiWork"
                   PROVE  items'[item'[s]].ai[seen'[s]] /\ aiCalls'[item'[s]][seen'[s]] = 0
        BY DEF InFlight
      <4>1. s # r /\ pc[s] = "aiWork" /\ item'[s] = item[s] /\ seen'[s] = seen[s]
        BY <2>4, <2>5
      <4>2. item[s] \in Keys /\ seen[s] \in AiPhases
        BY <1>a, <4>1
      <4>3. items[item[s]].ai[seen[s]] /\ aiCalls[item[s]][seen[s]] = 0
        BY <4>1 DEF Paid, InFlight
      <4>4. ~(item[s] = item[r] /\ seen[s] = seen[r])
        BY <3>1, <4>1
      <4>5. /\ items'[item[s]].ai[seen[s]] = items[item[s]].ai[seen[s]]
            /\ aiCalls'[item[s]][seen[s]] = aiCalls[item[s]][seen[s]]
        BY <2>3, <2>5, <4>2, <4>4
      <4>6. QED
        BY <4>1, <4>3, <4>5
  <2>8. Apart'
    BY <2>4, <2>5 DEF Paid, Apart
  <2>9. QED
    BY <2>6, <2>7, <2>8 DEF Paid
<1>26. ASSUME NEW r \in Runners, AiEnd(r) PROVE Paid'
  BY <1>26, <1>0, PaidKept DEF AiEnd, AdvanceTo, StampsKept, NoAiCall
<1>27. ASSUME NEW r \in Runners, Reconcile(r) PROVE Paid'
  BY <1>27, <1>0, PaidKept DEF Reconcile, AdvanceTo, StampsKept, NoAiCall
<1>28. ASSUME NEW r \in Runners, Review(r) PROVE Paid'
  BY <1>28, <1>0, PaidKept DEF Review, AdvanceTo, StampsKept, NoAiCall
<1>29. ASSUME NEW r \in Runners, FailLoad(r) PROVE Paid'
  BY <1>29, <1>0, PaidKept DEF FailLoad, Reread, StampsKept, NoAiCall
<1>30. ASSUME NEW r \in Runners, FailWrite(r) PROVE Paid'
  BY <1>30, <1>0, PaidKept DEF FailWrite, StampsKept, NoAiCall
<1>31. ASSUME NEW r \in Runners, Release(r) PROVE Paid'
  BY <1>31, <1>0, PaidKept DEF Release, StampsKept, NoAiCall
<1>32. ASSUME NEW r \in Runners, Finish(r) PROVE Paid'
  BY <1>32, <1>0, PaidKept DEF Finish, Forget, StampsKept, NoAiCall
<1>33. ASSUME NEW r \in Runners, AiError(r) PROVE Paid'
  <2>a. pc[r] = "aiWork"
    BY <1>33 DEF AiError
  <2>1. pc[r] = "aiWork" /\ item[r] \in Keys /\ seen[r] \in AiPhases
    BY <2>a, <1>a
  <2>2. aiCalls[item[r]][seen[r]] = 0
    BY <2>1 DEF Paid, InFlight
  <2>3. \A l \in Keys, f \in AiPhases :
          /\ items'[l].ai[f] = IF l = item[r] /\ f = seen[r] THEN FALSE ELSE items[l].ai[f]
          /\ items'[l].status = items[l].status
    BY <1>33, <2>1, <1>0 DEF AiError, Items
  <2>4. \A s \in Runners : s # r => item'[s] = item[s] /\ pc'[s] = pc[s]
    BY <1>33, <1>0 DEF AiError
  <2>5. pc'[r] = "fail" /\ seen' = seen /\ aiCalls' = aiCalls
    BY <1>33, <1>0 DEF AiError
  <2>6. Stamped'
    <3> SUFFICES ASSUME NEW l \in Keys, NEW f \in AiPhases
                 PROVE  /\ items'[l].ai[f] => items'[l].status # "absent"
                        /\ aiCalls'[l][f] <= 1
                        /\ aiCalls'[l][f] = 1 => items'[l].ai[f]
      BY DEF Stamped
    <3>1. /\ items[l].ai[f] => items[l].status # "absent"
          /\ aiCalls[l][f] <= 1
          /\ aiCalls[l][f] = 1 => items[l].ai[f]
      BY DEF Paid, Stamped
    <3>2. CASE l = item[r] /\ f = seen[r]
      <4>1. aiCalls'[l][f] = 0
        BY <2>2, <2>5, <3>2
      <4>2. items'[l].ai[f] = FALSE
        BY <2>3, <3>2
      <4>3. QED
        BY <4>1, <4>2
    <3>3. CASE ~(l = item[r] /\ f = seen[r])
      <4>1. aiCalls'[l][f] = aiCalls[l][f] /\ items'[l].status = items[l].status
            /\ (items'[l].ai[f] = items[l].ai[f])
        BY <2>3, <2>5, <3>3
      <4>2. QED
        BY <3>1, <4>1
    <3>4. QED
      BY <3>2, <3>3
  <2>7. InFlight'
    <3>1. \A s \in Runners : s # r /\ pc[s] = "aiWork" => item[s] # item[r] \/ seen[s] # seen[r]
      BY <2>1 DEF Paid, Apart
    <3>2. QED
      <4> SUFFICES ASSUME NEW s \in Runners, pc'[s] = "aiWork"
                   PROVE  items'[item'[s]].ai[seen'[s]] /\ aiCalls'[item'[s]][seen'[s]] = 0
        BY DEF InFlight
      <4>1. s # r /\ pc[s] = "aiWork" /\ item'[s] = item[s] /\ seen'[s] = seen[s]
        BY <2>4, <2>5
      <4>2. item[s] \in Keys /\ seen[s] \in AiPhases
        BY <1>a, <4>1
      <4>3. items[item[s]].ai[seen[s]] /\ aiCalls[item[s]][seen[s]] = 0
        BY <4>1 DEF Paid, InFlight
      <4>4. ~(item[s] = item[r] /\ seen[s] = seen[r])
        BY <3>1, <4>1
      <4>5. /\ items'[item[s]].ai[seen[s]] = items[item[s]].ai[seen[s]]
            /\ aiCalls'[item[s]][seen[s]] = aiCalls[item[s]][seen[s]]
        BY <2>3, <2>5, <4>2, <4>4
      <4>6. QED
        BY <4>1, <4>3, <4>5
  <2>8. Apart'
    BY <2>4, <2>5 DEF Paid, Apart
  <2>9. QED
    BY <2>6, <2>7, <2>8 DEF Paid
<1>34. ASSUME NEW r \in Runners, Abort(r) PROVE Paid'
  BY <1>34, <1>0, PaidKept DEF Abort, CanAbort, StampsKept, NoAiCall
<1>35. ASSUME NEW r \in Runners, Crash(r) PROVE Paid'
  BY <1>35, <1>0, PaidKept DEF Crash, Forget, StampsKept, NoAiCall
<1>36. ASSUME LeaseExpires PROVE Paid'
  BY <1>36, <1>0, PaidKept DEF LeaseExpires, StampsKept, NoAiCall
<1>37. ASSUME NEW k \in Keys, ItemLeaseExpires(k) PROVE Paid'
  <2>1. StampsKept
    BY <1>37, <1>0 DEF StampsKept, ItemLeaseExpires, Items
  <2>2. QED
    BY <1>37, <2>1, PaidKept DEF NoAiCall, ItemLeaseExpires
<1>38. ASSUME NEW k \in Keys, RetryDue(k) PROVE Paid'
  <2>1. StampsKept
    BY <1>38, <1>0 DEF StampsKept, RetryDue, Items
  <2>2. QED
    BY <1>38, <2>1, PaidKept DEF NoAiCall, RetryDue
<1>39. ASSUME Pause PROVE Paid'
  BY <1>39, <1>0, PaidKept DEF Pause, StampsKept, NoAiCall
<1>40. ASSUME ResumePaused PROVE Paid'
  BY <1>40, <1>0, PaidKept DEF ResumePaused, StampsKept, NoAiCall
<1>41. ASSUME Cancel PROVE Paid'
  <2>1. StampsKept
    BY <1>41, <1>0 DEF StampsKept, Cancel, Items
  <2>2. QED
    BY <1>41, <2>1, PaidKept DEF NoAiCall, Cancel
<1>42. ASSUME CreateAgain PROVE Paid'
  BY <1>42, <1>0, PaidKept DEF CreateAgain, StampsKept, NoAiCall
<1>43. ASSUME UNCHANGED vars PROVE Paid'
  BY <1>43, <1>0, PaidKept DEF vars, StampsKept, NoAiCall
<1>44. QED
  BY <1>1, <1>2, <1>3, <1>4, <1>5, <1>6, <1>7, <1>8, <1>9, <1>10, <1>11, <1>12, <1>13,
     <1>14, <1>15, <1>16, <1>17, <1>18, <1>19, <1>20, <1>21, <1>22, <1>23, <1>24, <1>25,
     <1>26, <1>27, <1>28, <1>29, <1>30, <1>31, <1>32, <1>33, <1>34, <1>35, <1>36, <1>37,
     <1>38, <1>39, <1>40, <1>41, <1>42, <1>43, Zenon
  DEF Next, Start, Run, Clock, Operator

\* Overlapping runs, --watch processes that outlive their lease, crashes, retries and
\* restarts never make the AI call of a work item and phase a second time.
THEOREM AiCallsOnce == Safety => []AiAtMostOnce
<1>1. Init => TypeOK /\ Located /\ Paid
  <2>1. Init => Paid
    BY DEF Init, Paid, Stamped, InFlight, Apart, AbsentItem, NewItem
  <2>2. QED
    BY <2>1, InvariantInit
<1>2. Paid => AiAtMostOnce
  BY DEF Paid, Stamped, AiAtMostOnce
<1>3. QED
  BY <1>1, <1>2, TypeStep, LocatedStep, PaidStep, PTL DEF Safety

-----------------------------------------------------------------------------
(***************************************************************************)
(* What is done when a campaign gets as far as a phase, with Celery        *)
(* workers alone.                                                          *)
(***************************************************************************)
\* How far along a status is: 1 where everything is still to be listed.
Level(s) ==
  IF s = "completed" THEN 8
  ELSE IF s \in Statuses /\ Rank[s] > 0 THEN Rank[s] ELSE 1

\* The catalogue was listed to its end, or as far as max_pages allows.
Listed(p) == p.started /\ p.next = 0

\* Where the campaign is; for one that was paused or failed, where it would go on.
Standing ==
  IF status = "paused" THEN Level(params.pausedFrom)
  ELSE IF status = "failed" THEN (IF Listed(params) THEN 2 ELSE 1)
  ELSE Level(status)

AiDone(f) == AiOn => SampleUsedUp(f) \/ Eligible(f) = {}
Done(n) ==
  /\ n >= 2 => Listed(params)
  /\ n >= 3 => NothingLeft
  /\ n >= 5 => AiDone("normalizing")
  /\ n >= 7 => AiDone("enriching")

\* The row: what its standing says is done.  A resumed campaign may keep the phase that
\* an earlier pause interrupted, never one after FETCHING.
RowInv ==
  /\ Done(Standing)
  /\ status \notin {"paused", "cancelled"} =>
       Level(params.pausedFrom) <= 2 /\ Level(params.pausedFrom) <= Standing

Listing  == {"page", "savePage", "truncate", "saveCrawl"}
Fetching == {"fetch", "import", "synced", "skipped", "failed"}
Works(r) ==
  \/ pc[r] \in Listing \union Fetching \union {"ai", "aiWork"}
  \/ pc[r] \in {"begin", "phase"} /\ seen[r] \in Phases \union {"queued"}

\* A run that works on a phase: the campaign has not gone past it, what comes before is
\* done, and the copy of the document that it may write back fits the row.
AtWork(r) ==
  /\ status # "failed"
  /\ Standing <= Level(seen[r]) /\ Done(Level(seen[r]))
  /\ Level(seen[r]) >= 2 => Listed(local[r])
  /\ Level(local[r].pausedFrom) <= 2
  /\ status # "cancelled" => Level(local[r].pausedFrom) <= Standing
\* A run that is about to move the campaign on: the phase it leaves is done.
Advancing(r) ==
  /\ goal[r] \in {NextPhase[p] : p \in Phases}
  /\ status # "failed"
  /\ Standing < Level(goal[r]) /\ Done(Level(goal[r]))
  /\ seen[r] = "paused" => goal[r] = "mapping"
RunInv(r) ==
  /\ pc[r] \in Listing => seen[r] = "discovering" /\ local[r].started
  /\ pc[r] \in Fetching => seen[r] = "fetching"
  /\ Works(r) => AtWork(r)
  /\ pc[r] = "advance" => Advancing(r)
OrderInv == RowInv /\ \A r \in Runners : RunInv(r)

LEMMA Levels ==
  /\ Level("none") = 1 /\ Level("queued") = 1 /\ Level("discovering") = 1
  /\ Level("fetching") = 2 /\ Level("mapping") = 3 /\ Level("normalizing") = 4
  /\ Level("reconciling") = 5 /\ Level("enriching") = 6 /\ Level("reviewing") = 7
  /\ Level("completed") = 8 /\ Level("cancelled") = 1
  /\ Level("paused") = 1 /\ Level("failed") = 1
<1>1. Rank["discovering"] = 1 /\ Rank["fetching"] = 2 /\ Rank["mapping"] = 3
      /\ Rank["normalizing"] = 4
  BY DEF Rank, Statuses, Active, Terminal
<1>2. Rank["reconciling"] = 5 /\ Rank["enriching"] = 6 /\ Rank["reviewing"] = 7
  BY DEF Rank, Statuses, Active, Terminal
<1>3. Rank["queued"] = 0 /\ Rank["cancelled"] = 0 /\ Rank["paused"] = 0 /\ Rank["failed"] = 0
  BY DEF Rank, Statuses, Active, Terminal
<1>4. "none" \notin Statuses
  BY DEF Statuses, Active, Terminal
<1>5. QED
  BY <1>1, <1>2, <1>3, <1>4 DEF Level, Statuses, Active, Terminal

LEMMA LevelOf ==
  ASSUME NEW s \in Statuses \union {"none"}
  PROVE  Level(s) \in 1 .. 8
  BY Levels DEF Statuses, Active, Terminal

\* The phases by name, and the one that follows each.
LEMMA PhaseNames ==
  /\ Phases = {"discovering", "fetching", "mapping", "normalizing", "reconciling", "enriching",
               "reviewing"}
  /\ NextPhase["discovering"] = "fetching" /\ NextPhase["fetching"] = "mapping"
  /\ NextPhase["mapping"] = "normalizing" /\ NextPhase["normalizing"] = "reconciling"
  /\ NextPhase["reconciling"] = "enriching" /\ NextPhase["enriching"] = "reviewing"
  /\ NextPhase["reviewing"] = "completed"
  BY DEF Phases, NextPhase

LEMMA Goals ==
  {NextPhase[p] : p \in Phases} =
    {"fetching", "mapping", "normalizing", "reconciling", "enriching", "reviewing", "completed"}
  BY PhaseNames

LEMMA StandingRange ==
  ASSUME TypeOK
  PROVE  Standing \in 1 .. 8
<1>1. status \in Statuses /\ params.pausedFrom \in Statuses \union {"none"}
  BY DEF TypeOK, Params, Statuses
<1>2. QED
  BY <1>1, LevelOf DEF Standing
LEMMA StandingRangeNext ==
  ASSUME TypeOK'
  PROVE  Standing' \in 1 .. 8
<1>1. status' \in Statuses /\ params'.pausedFrom \in Statuses \union {"none"}
  BY DEF TypeOK, Params, Statuses
<1>2. QED
  BY <1>1, LevelOf DEF Standing

\* What is done stays done while the rows that say so stay.
SameItems ==
  \A k \in Keys : items'[k].status = items[k].status /\ items'[k].ai = items[k].ai

LEMMA AiDoneKept ==
  ASSUME \A k \in Keys : items'[k].status = items[k].status, NEW f,
         \A k \in Keys : items'[k].ai[f] = items[k].ai[f]
  PROVE  AiDone(f)' = AiDone(f)
<1>1. Processed(f)' = Processed(f)
  BY DEF Processed
<1>2. Eligible(f)' = Eligible(f)
  BY DEF Eligible, WithStatus
<1>3. QED
  BY <1>1, <1>2 DEF AiDone, SampleUsedUp

LEMMA DoneKept ==
  ASSUME SameItems, Listed(params) => Listed(params'), NEW n, Done(n)
  PROVE  Done(n)'
<1>1. AiDone("normalizing")' = AiDone("normalizing") /\ AiDone("enriching")' = AiDone("enriching")
  BY AiDoneKept DEF SameItems
<1>2. NothingLeft => NothingLeft'
  BY DEF NothingLeft, SameItems
<1>3. QED
  BY <1>1, <1>2 DEF Done

LEMMA RowKept ==
  ASSUME SameItems, status' = status, params' = params
  PROVE  /\ Standing' = Standing
         /\ \A n : Done(n) => Done(n)'
         /\ RowInv => RowInv'
<1>1. Standing' = Standing
  BY DEF Standing
<1>2. \A n : Done(n) => Done(n)'
  BY DoneKept
<1>3. RowInv => RowInv'
  BY <1>1, <1>2 DEF RowInv
<1>4. QED
  BY <1>1, <1>2, <1>3

\* Runs exclude each other when there are no watchers.
LEMMA OneRun ==
  ASSUME Watchers = {}, WorkersExclusive, NEW r \in Runners, NEW s \in Runners, InRun(r), InRun(s)
  PROVE  r = s
  BY DEF WorkersExclusive, Runners

\* What the other runs keep when one of them acts.
LEMMA OthersIdle ==
  ASSUME Watchers = {}, TypeOK, WorkersExclusive, NEW r \in Runners, InRun(r), NEW l,
         pc' = [pc EXCEPT ![r] = l], NEW s \in Runners, s # r
  PROVE  RunInv(s)'
<1>1. ~InRun(s)
  BY OneRun
<1>2. pc'[s] = pc[s]
  BY DEF TypeOK
<1>3. pc'[s] \in {"idle", "claim", "finish"}
  BY <1>1, <1>2 DEF InRun
<1>4. QED
  BY <1>3 DEF RunInv, Works, Listing, Fetching

\* Steps of one run: they hold the invariant if they hold it of the row and of that run.
LEMMA OwnStep ==
  ASSUME Watchers = {}, TypeOK, WorkersExclusive, NEW r \in Runners, InRun(r), NEW l,
         Goto(r, l), RowInv', RunInv(r)'
  PROVE  OrderInv'
<1>1. \A s \in Runners : s # r => RunInv(s)'
  BY OthersIdle DEF Goto
<1>2. QED
  BY <1>1 DEF OrderInv

\* Steps that touch neither the rows nor another run, to where nothing is promised.
LEMMA RestStep ==
  ASSUME TypeOK, OrderInv, NEW r \in Runners,
         NEW l \in {"idle", "claim", "load", "refresh", "fail", "failing", "release", "finish"},
         Goto(r, l), UNCHANGED <<status, params, items>>,
         \A s \in Runners : s # r =>
           seen'[s] = seen[s] /\ local'[s] = local[s] /\ goal'[s] = goal[s]
  PROVE  OrderInv'
<1>1. Standing' = Standing /\ (\A n : Done(n) => Done(n)') /\ RowInv'
  BY RowKept DEF SameItems, OrderInv
<1>2. RunInv(r)'
  BY DEF RunInv, Works, Listing, Fetching, Goto, TypeOK
<1>3. ASSUME NEW s \in Runners, s # r
      PROVE  RunInv(s)'
  <2>1. pc'[s] = pc[s] /\ RunInv(s)
    BY <1>3 DEF Goto, TypeOK, OrderInv
  <2>2. Works(s)' = Works(s)
    BY <1>3, <2>1 DEF Works
  <2>3. AtWork(s) => AtWork(s)'
    BY <1>1, <1>3 DEF AtWork
  <2>4. Advancing(s) => Advancing(s)'
    BY <1>1, <1>3 DEF Advancing
  <2>5. QED
    BY <1>3, <2>1, <2>2, <2>3, <2>4 DEF RunInv
<1>4. QED
  BY <1>1, <1>2, <1>3 DEF OrderInv

\* A run that has just read the row in a phase works on that phase.
LEMMA FreshRun ==
  ASSUME TypeOK, TypeOK', RowInv', NEW r \in Runners, pc'[r] \in {"begin", "phase"},
         seen'[r] = status', local'[r] = params', status' # "failed"
  PROVE  RunInv(r)'
<1>1. ASSUME status' \in Phases \union {"queued"}
      PROVE  AtWork(r)'
  <2>1. Standing' = Level(status')
    BY <1>1, PhaseNames DEF Standing
  <2>2. Level(params'.pausedFrom) <= 2 /\ Level(params'.pausedFrom) <= Standing' /\ Done(Standing)'
    BY <1>1, PhaseNames DEF RowInv
  <2>3. Level(status') \in 1 .. 8
    BY LevelOf DEF TypeOK
  <2>4. Level(status') >= 2 => Listed(params')
    BY <2>1, <2>2, <2>3 DEF Done
  <2>5. QED
    BY <1>1, <2>1, <2>2, <2>3, <2>4, PhaseNames DEF AtWork
<1>2. QED
  BY <1>1 DEF RunInv, Works, Listing, Fetching

LEMMA LoadKeepsOrder ==
  ASSUME Watchers = {}, TypeOK, TypeOK', WorkersExclusive, OrderInv, NEW r \in Runners, Load(r)
  PROVE  OrderInv'
<1>1. UNCHANGED <<status, params, items>>
  BY DEF Load, row
<1>2. RowInv'
  BY <1>1, RowKept DEF SameItems, OrderInv
<1>3. /\ InRun(r) /\ pc' = [pc EXCEPT ![r] = IF status = "failed" THEN "resume" ELSE "begin"]
      /\ seen'[r] = status /\ local'[r] = params
  BY DEF Load, InRun, Goto, Reread, TypeOK
<1>4. RunInv(r)'
  <2>1. CASE status = "failed"
    BY <1>3, <2>1 DEF TypeOK, RunInv, Works, Listing, Fetching
  <2>2. CASE status # "failed"
    BY <1>1, <1>2, <1>3, <2>2, FreshRun DEF TypeOK
  <2>3. QED
    BY <2>1, <2>2
<1>5. QED
  BY <1>2, <1>3, <1>4, OwnStep DEF Goto

LEMMA RefreshKeepsOrder ==
  ASSUME Watchers = {}, TypeOK, TypeOK', WorkersExclusive, OrderInv, NEW r \in Runners, Refresh(r)
  PROVE  OrderInv'
<1> DEFINE l == IF Rank[status] > 0 /\ Rank[status] >= Rank[goal[r]] THEN "phase" ELSE "release"
<1>1. UNCHANGED <<status, params, items>>
  BY DEF Refresh, row
<1>2. RowInv'
  BY <1>1, RowKept DEF SameItems, OrderInv
<1>3. InRun(r) /\ Goto(r, l) /\ seen'[r] = status /\ local'[r] = params
  BY DEF Refresh, InRun, Reread, TypeOK
<1>4. RunInv(r)'
  <2>1. CASE l = "release"
    BY <1>3, <2>1 DEF TypeOK, RunInv, Works, Listing, Fetching, Goto
  <2>2. CASE l = "phase"
    <3>1. status # "failed"
      BY <2>2 DEF Rank, Statuses, Active, Terminal
    <3>2. QED
      BY <1>1, <1>2, <1>3, <2>2, <3>1, FreshRun DEF TypeOK, Goto
  <2>3. QED
    BY <2>1, <2>2
<1>5. QED
  BY <1>2, <1>3, <1>4, OwnStep

\* resume() of a FAILED campaign: it goes on where its standing says.
LEMMA ResumedRow ==
  ASSUME TypeOK, TypeOK', RowInv, ResumeFailed, params' = params
  PROVE  RowInv' /\ status' # "failed"
<1>1. CASE status # "failed"
  <2>1. UNCHANGED <<status, items>>
    BY <1>1 DEF ResumeFailed
  <2>2. QED
    BY <1>1, <2>1, RowKept DEF SameItems
<1>2. CASE status = "failed"
  <2>1. status' = IF ~params.started \/ params.next # 0 THEN "discovering" ELSE "fetching"
    BY <1>2 DEF ResumeFailed
  <2>2. Standing = (IF Listed(params) THEN 2 ELSE 1)
    BY <1>2 DEF Standing
  <2>3. Standing' = Standing
    BY <2>1, <2>2, Levels DEF Standing, Listed
  <2>4. Done(Standing)'
    BY <2>2, <2>3 DEF Done
  <2>5. Level(params.pausedFrom) <= 2 /\ Level(params.pausedFrom) <= Standing
    BY <1>2 DEF RowInv
  <2>6. QED
    BY <2>1, <2>3, <2>4, <2>5 DEF RowInv
<1>3. QED
  BY <1>1, <1>2

LEMMA ResumeKeepsOrder ==
  ASSUME Watchers = {}, TypeOK, TypeOK', WorkersExclusive, OrderInv, NEW r \in Runners, Resume(r)
  PROVE  OrderInv'
<1>1. /\ InRun(r) /\ Goto(r, "begin") /\ ResumeFailed /\ params' = params
      /\ seen'[r] = status' /\ local'[r] = params
  BY DEF Resume, InRun, TypeOK
<1>2. RowInv' /\ status' # "failed"
  BY <1>1, ResumedRow DEF OrderInv
<1>3. pc'[r] = "begin" /\ local'[r] = params'
  BY <1>1 DEF Goto, TypeOK
<1>4. RunInv(r)'
  BY <1>1, <1>2, <1>3, FreshRun
<1>5. QED
  BY <1>1, <1>2, <1>4, OwnStep

LEMMA BeginKeepsOrder ==
  ASSUME Watchers = {}, TypeOK, TypeOK', WorkersExclusive, OrderInv, NEW r \in Runners, Begin(r)
  PROVE  OrderInv'
<1>1. InRun(r) /\ pc[r] = "begin" /\ UNCHANGED <<params, items, local>>
  BY DEF Begin, InRun
<1>2. RunInv(r) /\ RowInv
  BY DEF OrderInv
<1>3. CASE seen[r] # "queued"
  <2>1. status' = status /\ seen' = seen /\ Goto(r, "phase")
    BY <1>3 DEF Begin
  <2>2. Standing' = Standing /\ (\A n : Done(n) => Done(n)') /\ RowInv'
    BY <1>1, <1>2, <2>1, RowKept DEF SameItems
  <2>3. pc'[r] = "phase"
    BY <2>1 DEF Goto, TypeOK
  <2>4. Works(r)' => AtWork(r)'
    BY <1>1, <1>2, <2>1, <2>2, <2>3 DEF Works, AtWork, RunInv, Listing, Fetching
  <2>5. RunInv(r)'
    BY <2>3, <2>4 DEF RunInv, Listing, Fetching
  <2>6. QED
    BY <1>1, <2>1, <2>2, <2>5, OwnStep
<1>4. CASE seen[r] = "queued" /\ status = "queued"
  <2>1. status' = "discovering" /\ seen'[r] = "discovering" /\ Goto(r, "phase")
    BY <1>4 DEF Begin, TypeOK
  <2>2. Standing = 1 /\ Standing' = 1
    BY <1>4, <2>1, Levels DEF Standing
  <2>3. Level(params.pausedFrom) <= 2 /\ Level(params.pausedFrom) <= Standing
    BY <1>2, <1>4 DEF RowInv
  <2>4. RowInv' /\ Done(1)'
    BY <1>1, <2>1, <2>2, <2>3 DEF RowInv, Done
  <2>5. AtWork(r)
    BY <1>1, <1>2, <1>4 DEF RunInv, Works
  <2>6. AtWork(r)'
    BY <1>1, <1>4, <2>1, <2>2, <2>4, <2>5, Levels DEF AtWork
  <2>7. RunInv(r)'
    BY <2>1, <2>6 DEF RunInv, Listing, Fetching, Goto, TypeOK
  <2>8. QED
    BY <1>1, <2>1, <2>4, <2>7, OwnStep
<1>5. CASE seen[r] = "queued" /\ status # "queued"
  <2>1. UNCHANGED <<status, seen>> /\ Goto(r, "release")
    BY <1>5 DEF Begin
  <2>2. QED
    BY <1>1, <2>1, RestStep DEF Begin
<1>6. QED
  BY <1>3, <1>4, <1>5

LEMMA AdvanceKeepsOrder ==
  ASSUME Watchers = {}, TypeOK, TypeOK', WorkersExclusive, OrderInv, NEW r \in Runners, Advance(r)
  PROVE  OrderInv'
<1>1. InRun(r) /\ pc[r] = "advance" /\ UNCHANGED <<params, items, local, goal>>
  BY DEF Advance, InRun
<1>2. RowInv /\ Advancing(r)
  BY <1>1 DEF OrderInv, RunInv
<1> DEFINE legal == <<seen[r], goal[r]>> \in Transitions /\ status = seen[r]
<1>3. CASE ~legal
  <2>1. UNCHANGED <<status, seen>> /\ Goto(r, "fail")
    BY <1>3 DEF Advance
  <2>2. QED
    BY <1>1, <2>1, RestStep
<1>4. CASE legal
  <2>1. status' = goal[r] /\ Goto(r, "refresh")
    BY <1>4, Zenon DEF Advance
  <2>2. goal[r] \in {"fetching", "mapping", "normalizing", "reconciling", "enriching", "reviewing",
                     "completed"}
    BY <1>2, Goals DEF Advancing
  <2>3. Standing' = Level(goal[r])
    BY <2>1, <2>2 DEF Standing
  <2>4. \A n : Done(n) => Done(n)'
    BY <1>1, DoneKept DEF SameItems
  <2>5. Level(params.pausedFrom) <= 2 /\ Level(params.pausedFrom) <= Level(goal[r])
    <3>1. CASE status = "paused"
      <4>1. goal[r] = "mapping" /\ Standing = Level(params.pausedFrom)
        BY <1>2, <1>4, <3>1 DEF Advancing, Standing
      <4>2. Standing < 3 /\ Standing \in 1 .. 8
        BY <1>2, <4>1, Levels, StandingRange DEF Advancing
      <4>3. QED
        BY <4>1, <4>2, Levels
    <3>2. CASE status # "paused"
      <4>1. status # "cancelled"
        BY <1>4, LastStatuses
      <4>2. Level(params.pausedFrom) <= 2 /\ Level(params.pausedFrom) <= Standing
        BY <1>2, <3>2, <4>1 DEF RowInv
      <4>3. Standing < Level(goal[r])
        BY <1>2 DEF Advancing
      <4>4. Level(params.pausedFrom) \in Int /\ Standing \in Int /\ Level(goal[r]) \in Int
        <5>1. params.pausedFrom \in Statuses \union {"none"} /\ goal[r] \in Statuses
          BY DEF TypeOK, Params, Statuses
        <5>2. QED
          BY <5>1, StandingRange, LevelOf
      <4>5. QED
        BY <4>2, <4>3, <4>4
    <3>3. QED
      BY <3>1, <3>2
  <2>6. RowInv'
    BY <1>1, <1>2, <2>1, <2>3, <2>4, <2>5 DEF RowInv, Advancing
  <2>7. RunInv(r)'
    BY <2>1 DEF RunInv, Works, Listing, Fetching, Goto, TypeOK
  <2>8. QED
    BY <1>1, <2>1, <2>6, <2>7, OwnStep
<1>5. QED
  BY <1>3, <1>4

LEMMA AtWorkIn ==
  ASSUME OrderInv, NEW r \in Runners, Works(r)
  PROVE  RowInv /\ RunInv(r) /\ AtWork(r)
  BY DEF OrderInv, RunInv

\* Writing the runner's copy of the document back.
LEMMA WriteBack ==
  ASSUME TypeOK, TypeOK', OrderInv, NEW r \in Runners, Works(r), status' = status, SameItems,
         seen'[r] = seen[r],
         params'.pausedFrom = local[r].pausedFrom,
         Level(seen[r]) >= 2 => Listed(params')
  PROVE  /\ RowInv'
         /\ status # "failed"
         /\ Standing' <= Level(seen[r])
         /\ Done(Level(seen[r]))'
         /\ status # "cancelled" => Level(local[r].pausedFrom) <= Standing'
<1>1. AtWork(r) /\ RowInv
  BY AtWorkIn
<1>2. Level(seen[r]) \in 1 .. 8 /\ Level(local[r].pausedFrom) \in 1 .. 8 /\ Standing \in 1 .. 8
  <2>1. local[r] \in Params /\ seen[r] \in Statuses
    BY DEF TypeOK
  <2>2. local[r].pausedFrom \in Statuses \union {"none"}
    BY <2>1 DEF Params, Statuses
  <2>3. QED
    BY <2>1, <2>2, LevelOf, StandingRange
<1>3. Level(local[r].pausedFrom) <= 2
  BY <1>1 DEF AtWork
<1>4. Standing' <= Standing /\ (status # "cancelled" => Level(local[r].pausedFrom) <= Standing')
  <2>1. CASE status = "paused"
    <3>1. Standing' = Level(local[r].pausedFrom)
      BY <2>1 DEF Standing
    <3>2. QED
      BY <1>1, <1>2, <2>1, <3>1 DEF AtWork
  <2>2. CASE status # "paused"
    <3>1. Standing' = Standing
      BY <1>1, <2>2 DEF Standing, AtWork
    <3>2. QED
      BY <1>1, <1>2, <3>1 DEF AtWork
  <2>3. QED
    BY <2>1, <2>2
<1>5. Standing' \in Int
  BY StandingRangeNext
<1>6. \A n \in 1 .. 8 : n <= Level(seen[r]) => Done(n)'
  <2> SUFFICES ASSUME NEW n \in 1 .. 8, n <= Level(seen[r])
               PROVE  Done(n)'
    OBVIOUS
  <2>1. Done(n)
    BY <1>1, <1>2 DEF AtWork, Done
  <2>2. AiDone("normalizing")' = AiDone("normalizing") /\ AiDone("enriching")' = AiDone("enriching")
    BY AiDoneKept DEF SameItems
  <2>3. NothingLeft => NothingLeft'
    BY DEF NothingLeft, SameItems
  <2>4. n >= 2 => Listed(params')
    BY <1>2
  <2>5. QED
    BY <2>1, <2>2, <2>3, <2>4 DEF Done
<1>7. Standing' \in 1 .. 8
  BY StandingRangeNext
<1>8. Standing' <= Level(seen[r])
  BY <1>1, <1>2, <1>4, <1>5 DEF AtWork
<1>9. Done(Standing)' /\ Done(Level(seen[r]))'
  BY <1>2, <1>6, <1>7, <1>8 DEF Done
<1>10. RowInv'
  BY <1>3, <1>4, <1>9 DEF RowInv
<1>11. QED
  BY <1>1, <1>4, <1>8, <1>9, <1>10 DEF AtWork

LEMMA DiscoverKeepsOrder ==
  ASSUME Watchers = {}, TypeOK, TypeOK', WorkersExclusive, OrderInv, NEW r \in Runners,
         DiscoverPage(r)
  PROVE  OrderInv'
<1> DEFINE n == IF local[r].next = 0 THEN 1 ELSE local[r].next
<1>1. /\ InRun(r) /\ Works(r) /\ UNCHANGED <<status, params, seen>> /\ Goto(r, "savePage")
      /\ local'[r] = PageParams(local[r], n)
      /\ (pc[r] = "phase" /\ seen[r] = "discovering") \/ pc[r] = "page"
  BY PhaseNames DEF DiscoverPage, row, InRun, Works, Listing, TypeOK
<1>2. RowInv /\ RunInv(r) /\ AtWork(r)
  BY <1>1, AtWorkIn
<1>3. seen[r] = "discovering"
  BY <1>1, <1>2 DEF RunInv, Listing
<1>4. Standing' = Standing /\ Standing \in 1 .. 8
  BY <1>1, StandingRange DEF Standing
<1>5. Standing = 1
  BY <1>2, <1>3, <1>4, Levels DEF AtWork
<1>6. Done(1)' /\ RowInv'
  BY <1>1, <1>2, <1>4, <1>5 DEF RowInv, Done
<1>7. local'[r].started /\ local'[r].pausedFrom = local[r].pausedFrom
  BY <1>1 DEF PageParams, TypeOK, Params
<1>8. AtWork(r)'
  BY <1>1, <1>2, <1>3, <1>4, <1>5, <1>6, <1>7, Levels DEF AtWork
<1>9. RunInv(r)'
  BY <1>1, <1>3, <1>7, <1>8 DEF RunInv, Goto, TypeOK, Listing, Fetching
<1>10. QED
  BY <1>1, <1>6, <1>9, OwnStep

LEMMA SavePageKeepsOrder ==
  ASSUME Watchers = {}, TypeOK, TypeOK', WorkersExclusive, OrderInv, NEW r \in Runners, SavePage(r)
  PROVE  OrderInv'
<1>1. /\ pc[r] = "savePage" /\ InRun(r) /\ Works(r) /\ UNCHANGED <<status, items, seen, local>>
      /\ params' = local[r] /\ Goto(r, pc'[r]) /\ pc'[r] \in {"truncate", "page", "saveCrawl"}
  BY DEF SavePage, InRun, Works, Listing, Goto, TypeOK, mine
<1>2. RunInv(r) /\ AtWork(r) /\ seen[r] = "discovering" /\ local[r].started
  BY <1>1, AtWorkIn DEF RunInv, Listing
<1>3. /\ RowInv' /\ Standing' <= Level(seen[r]) /\ Done(Level(seen[r]))'
      /\ status # "cancelled" => Level(local[r].pausedFrom) <= Standing'
  BY <1>1, <1>2, Levels, WriteBack DEF SameItems
<1>4. AtWork(r)'
  BY <1>1, <1>2, <1>3, Levels DEF AtWork
<1>5. RunInv(r)'
  BY <1>1, <1>2, <1>4 DEF RunInv, Listing, Fetching
<1>6. QED
  BY <1>1, <1>3, <1>5, OwnStep

\* The end of discovery: the document says so before the campaign moves on.
LEMMA TruncateKeepsOrder ==
  ASSUME Watchers = {}, TypeOK, TypeOK', WorkersExclusive, OrderInv, NEW r \in Runners, Truncate(r)
  PROVE  OrderInv'
<1>1. /\ pc[r] = "truncate" /\ InRun(r) /\ Works(r) /\ UNCHANGED <<status, items, seen>>
      /\ params' = local'[r] /\ Goto(r, "advance") /\ goal'[r] = "fetching"
  BY DEF Truncate, InRun, Works, Listing, TypeOK, AdvanceTo
<1>2. RunInv(r) /\ AtWork(r) /\ seen[r] = "discovering" /\ local[r].started
  BY <1>1, AtWorkIn DEF RunInv, Listing
<1>3. /\ local'[r].next = 0 /\ local'[r].started
      /\ local'[r].pausedFrom = local[r].pausedFrom
  BY <1>2 DEF Truncate, TypeOK, Params
<1>4. RowInv' /\ Standing' <= 1
  BY <1>1, <1>2, <1>3, Levels, WriteBack DEF SameItems
<1>5. Standing' < Level("fetching") /\ Done(Level("fetching"))'
  BY <1>1, <1>3, <1>4, Levels, StandingRangeNext DEF Done, Listed
<1>6. Advancing(r)'
  BY <1>1, <1>2, <1>5, Goals DEF Advancing, AtWork
<1>7. RunInv(r)'
  BY <1>1, <1>6 DEF RunInv, Works, Listing, Fetching, Goto, TypeOK
<1>8. QED
  BY <1>1, <1>4, <1>7, OwnStep

LEMMA SaveCrawlKeepsOrder ==
  ASSUME Watchers = {}, TypeOK, TypeOK', WorkersExclusive, OrderInv, NEW r \in Runners, SaveCrawl(r)
  PROVE  OrderInv'
<1>1. /\ pc[r] = "saveCrawl" /\ InRun(r) /\ Works(r) /\ UNCHANGED <<status, items, seen, local>>
      /\ params' = local[r]
      /\ \/ Goto(r, "release")
         \/ local[r].next = 0 /\ Goto(r, "advance") /\ goal'[r] = "fetching"
  BY DEF SaveCrawl, InRun, Works, Listing, TypeOK, AdvanceTo
<1>2. RunInv(r) /\ AtWork(r) /\ seen[r] = "discovering" /\ local[r].started
  BY <1>1, AtWorkIn DEF RunInv, Listing
<1>4. RowInv' /\ Standing' <= 1
  BY <1>1, <1>2, Levels, WriteBack DEF SameItems
<1>5. CASE Goto(r, "release")
  <2>1. RunInv(r)'
    BY <1>5 DEF RunInv, Works, Listing, Fetching, Goto, TypeOK
  <2>2. QED
    BY <1>1, <1>4, <1>5, <2>1, OwnStep
<1>6. CASE local[r].next = 0 /\ Goto(r, "advance") /\ goal'[r] = "fetching"
  <2>1. Standing' < Level("fetching") /\ Done(Level("fetching"))'
    BY <1>1, <1>2, <1>4, <1>6, Levels, StandingRangeNext DEF Done, Listed
  <2>2. Advancing(r)'
    BY <1>1, <1>2, <1>6, <2>1, Goals DEF Advancing, AtWork
  <2>3. RunInv(r)'
    BY <1>6, <2>2 DEF RunInv, Works, Listing, Fetching, Goto, TypeOK
  <2>4. QED
    BY <1>1, <1>4, <1>6, <2>3, OwnStep
<1>7. QED
  BY <1>1, <1>5, <1>6

\* A step of a run on a phase that keeps the row and only touches what it works on.
LEMMA WorkStep ==
  ASSUME Watchers = {}, TypeOK, WorkersExclusive, OrderInv, NEW r \in Runners, NEW l, Works(r),
         Goto(r, l), UNCHANGED <<status, params, seen, local>>, Done(Level(seen[r]))',
         l \in Fetching => seen[r] = "fetching",
         l \in Fetching \union {"ai", "aiWork"}
  PROVE  OrderInv'
<1>1. RowInv /\ AtWork(r) /\ InRun(r) /\ Standing \in 1 .. 8 /\ Level(seen[r]) \in 1 .. 8
  BY AtWorkIn, StandingRange, LevelOf DEF Works, InRun, Listing, Fetching, TypeOK
<1>2. Standing' = Standing
  BY DEF Standing
<1>3. Standing <= Level(seen[r])
  BY <1>1 DEF AtWork
<1>4. Done(Standing)'
  BY <1>1, <1>2, <1>3 DEF Done
<1>5. RowInv'
  BY <1>1, <1>2, <1>4 DEF RowInv
<1>6. AtWork(r)'
  BY <1>1, <1>2 DEF AtWork
<1>7. RunInv(r)'
  BY <1>6 DEF RunInv, Goto, TypeOK, Listing, Fetching
<1>8. QED
  BY <1>1, <1>5, <1>7, OwnStep

\* Importing work items undoes nothing that a campaign in FETCHING has behind it.
LEMMA FetchStep ==
  ASSUME Watchers = {}, TypeOK, WorkersExclusive, OrderInv, NEW r \in Runners,
         NEW l \in Fetching, Goto(r, l), UNCHANGED <<status, params, seen, local>>,
         pc[r] \in Fetching \/ (pc[r] = "phase" /\ seen[r] = "fetching")
  PROVE  OrderInv'
<1>1. Works(r)
  BY PhaseNames DEF Works
<1>2. seen[r] = "fetching"
  BY DEF OrderInv, RunInv
<1>3. Done(2)
  BY <1>1, <1>2, AtWorkIn, Levels DEF AtWork
<1>4. Done(Level(seen[r]))'
  BY <1>2, <1>3, Levels DEF Done
<1>5. QED
  BY <1>1, <1>2, <1>4, WorkStep

LEMMA ImportKeepsOrder ==
  ASSUME Watchers = {}, TypeOK, WorkersExclusive, OrderInv, NEW r \in Runners,
         \/ FetchBegin(r) \/ ClaimItem(r) \/ ImportOk(r) \/ ImportGone(r) \/ ImportRetry(r)
         \/ ImportError(r) \/ Count(r)
  PROVE  OrderInv'
<1> USE DEF row, mine, Goto, Fetching
<1>1. CASE FetchBegin(r)
  BY <1>1, FetchStep DEF FetchBegin
<1>2. CASE ClaimItem(r)
  <2>1. PICK k \in FirstIn(batch[r]) : ClaimItem(r)!2!(k)
    BY <1>2 DEF ClaimItem
  <2>2. UNCHANGED <<status, params, seen, local>> /\ pc[r] = "fetch"
    BY <1>2 DEF ClaimItem
  <2>3. CASE items[k].status = "queued"
    <3>1. Goto(r, "import")
      BY <2>1, <2>3, Zenon
    <3>2. QED
      BY <2>2, <3>1, FetchStep
  <2>4. CASE items[k].status # "queued"
    <3>1. pc' = pc
      BY <2>1, <2>4, Zenon
    <3>2. Goto(r, "fetch")
      BY <2>2, <3>1 DEF TypeOK
    <3>3. QED
      BY <2>2, <3>2, FetchStep
  <2>5. QED
    BY <2>3, <2>4
<1>3. CASE ImportOk(r)
  BY <1>3, FetchStep DEF ImportOk, MayAnswer
<1>4. CASE ImportGone(r)
  BY <1>4, FetchStep DEF ImportGone, MayAnswer
<1>5. CASE ImportRetry(r)
  BY <1>5, FetchStep DEF ImportRetry, MayAnswer
<1>6. CASE ImportError(r)
  BY <1>6, FetchStep DEF ImportError, MayAnswer
<1>7. CASE Count(r)
  BY <1>7, FetchStep DEF Count
<1>8. QED
  BY <1>1, <1>2, <1>3, <1>4, <1>5, <1>6, <1>7

\* A run that leaves its phase with what that phase is for done.
LEMMA LeaveStep ==
  ASSUME Watchers = {}, TypeOK, TypeOK', WorkersExclusive, OrderInv, NEW r \in Runners, Works(r),
         NEW p \in Phases, seen[r] = p, Goto(r, "advance"), goal'[r] = NextPhase[p],
         status' = status, RowInv', Standing' <= Level(p), Done(Level(NextPhase[p]))',
         seen'[r] = "paused" => NextPhase[p] = "mapping"
  PROVE  OrderInv'
<1>1. AtWork(r) /\ InRun(r)
  BY AtWorkIn DEF Works, InRun, Listing, Fetching
<1>2. Level(NextPhase[p]) = Level(p) + 1 /\ Level(p) \in 1 .. 7
  BY PhaseNames, Levels
<1>3. Standing' \in 1 .. 8
  BY StandingRangeNext
<1>4. Standing' < Level(goal'[r])
  BY <1>2, <1>3
<1>5. Done(Level(goal[r]))'
  BY DEF Done
<1>6. Advancing(r)'
  BY <1>1, <1>4, <1>5 DEF Advancing, AtWork
<1>7. RunInv(r)'
  BY <1>6 DEF RunInv, Works, Listing, Fetching, Goto, TypeOK
<1>8. QED
  BY <1>1, <1>7, OwnStep

LEMMA FetchEndKeepsOrder ==
  ASSUME Watchers = {}, TypeOK, TypeOK', WorkersExclusive, OrderInv, NEW r \in Runners, FetchEnd(r)
  PROVE  OrderInv'
<1> DEFINE failures == Cardinality(WithStatus("failed"))
<1>1. /\ pc[r] = "fetch" /\ Works(r) /\ InRun(r) /\ UNCHANGED <<status, params, items>>
      /\ \A s \in Runners : s # r => seen'[s] = seen[s] /\ local'[s] = local[s]
  BY DEF FetchEnd, Works, Fetching, InRun, row, Reread, TypeOK
<1>2. AtWork(r) /\ seen[r] = "fetching"
  BY <1>1, AtWorkIn DEF RunInv, Fetching
<1>3. \/ Goto(r, "release") /\ goal' = goal
      \/ Goto(r, "fail") /\ goal' = goal
      \/ /\ Goto(r, "advance") /\ goal' = [goal EXCEPT ![r] = "mapping"]
         /\ WithStatus("queued") \union WithStatus("running") = {} /\ ~(failures > 0)
  <2>1. counts' = [counts EXCEPT !.failed = failures]
    BY DEF FetchEnd
  <2>2. counts'.failed = failures
    BY <2>1 DEF TypeOK
  <2>3. QED
    BY <2>2 DEF FetchEnd, AdvanceTo
<1>4. ASSUME Goto(r, "release") \/ Goto(r, "fail"), goal' = goal
      PROVE  OrderInv'
    BY <1>1, <1>4, RestStep
<1>5. ASSUME Goto(r, "advance"), goal' = [goal EXCEPT ![r] = "mapping"],
             WithStatus("queued") \union WithStatus("running") = {}, ~(failures > 0)
      PROVE  OrderInv'
  <2>1. WithStatus("failed") = {}
    <3>1. WithStatus("failed") \in SUBSET Keys /\ failures \in Nat
      BY KeysFinite DEF WithStatus
    <3>2. failures = 0 /\ IsFiniteSet(WithStatus("failed"))
      BY <1>5, <3>1, KeysFinite, FS_Subset
    <3>3. QED
      BY <3>2, FS_EmptySet
  <2>2. NothingLeft
    BY <1>5, <2>1 DEF NothingLeft, WithStatus, TypeOK, Items, ItemStatuses
  <2>3. Standing' = Standing /\ RowInv' /\ (Done(2) => Done(2)') /\ NothingLeft'
    BY <1>1, <2>2, RowKept DEF SameItems, OrderInv, NothingLeft
  <2>4. Done(3)'
    BY <1>2, <2>3, Levels DEF Done, AtWork
  <2>5. goal'[r] = NextPhase["fetching"] /\ "fetching" \in Phases
    BY <1>5, PhaseNames DEF TypeOK
  <2>6. Done(Level(NextPhase["fetching"]))'
    BY <2>4, Levels, PhaseNames
  <2>7. Standing' <= Level("fetching")
    BY <1>2, <2>3 DEF AtWork
  <2>8. QED
    BY <1>1, <1>2, <1>5, <2>3, <2>5, <2>6, <2>7, PhaseNames, LeaveStep
<1>6. QED
  BY <1>3, <1>4, <1>5

\* Moving on from a phase whose work is done, without touching a row.
LEMMA PhaseDone ==
  ASSUME Watchers = {}, TypeOK, TypeOK', WorkersExclusive, OrderInv, NEW r \in Runners,
         NEW p \in Phases \ {"discovering", "fetching"}, seen[r] = p, Works(r),
         AdvanceTo(r, NextPhase[p]), UNCHANGED <<status, params, items, seen>>,
         p = "normalizing" => AiDone("normalizing"), p = "enriching" => AiDone("enriching")
  PROVE  OrderInv'
<1>1. AtWork(r)
  BY AtWorkIn
<1>2. Standing' = Standing /\ RowInv'
  BY RowKept DEF SameItems, OrderInv
<1>3. Done(Level(p))
  BY <1>1 DEF AtWork
<1>4. Done(Level(NextPhase[p]))
  BY <1>3, PhaseNames, Levels DEF Done
<1>5. Done(Level(NextPhase[p]))'
  BY <1>4, DoneKept DEF SameItems
<1>6. goal'[r] = NextPhase[p] /\ Goto(r, "advance")
  BY DEF AdvanceTo, TypeOK
<1>7. Standing' <= Level(p)
  BY <1>1, <1>2 DEF AtWork
<1>8. QED
  BY <1>2, <1>5, <1>6, <1>7, PhaseNames, LeaveStep

LEMMA PhaseKeepsOrder ==
  ASSUME Watchers = {}, TypeOK, TypeOK', WorkersExclusive, OrderInv, NEW r \in Runners,
         Mapping(r) \/ Reconcile(r)
  PROVE  OrderInv'
<1>1. ASSUME Mapping(r)
      PROVE  OrderInv'
  <2>1. /\ seen[r] = "mapping" /\ Works(r) /\ AdvanceTo(r, NextPhase["mapping"])
        /\ UNCHANGED <<status, params, items, seen>>
    BY <1>1, PhaseNames DEF Mapping, Works, row
  <2>2. QED
    BY <2>1, PhaseNames, PhaseDone
<1>2. ASSUME Reconcile(r)
      PROVE  OrderInv'
  <2>1. /\ seen[r] = "reconciling" /\ Works(r) /\ AdvanceTo(r, NextPhase["reconciling"])
        /\ UNCHANGED <<status, params, items, seen>>
    BY <1>2, PhaseNames DEF Reconcile, Works, row
  <2>2. QED
    BY <2>1, PhaseNames, PhaseDone
<1>3. QED
  BY <1>1, <1>2

LEMMA AiBeginKeepsOrder ==
  ASSUME Watchers = {}, TypeOK, TypeOK', WorkersExclusive, OrderInv, NEW r \in Runners, AiBegin(r)
  PROVE  OrderInv'
<1>1. PICK f \in AiPhases : seen[r] = f
  BY DEF AiBegin
<1>2. /\ Works(r) /\ UNCHANGED <<status, params, items, seen, local>>
      /\ f \in Phases \ {"discovering", "fetching"}
  BY <1>1, PhaseNames DEF AiBegin, Works, row, AiPhases
<1>3. CASE ~AiOn \/ SampleUsedUp(f)
  <2>1. AdvanceTo(r, NextPhase[f])
    BY <1>1, <1>3 DEF AiBegin
  <2>2. AiDone(f)
    BY <1>3 DEF AiDone
  <2>3. QED
    BY <1>1, <1>2, <2>1, <2>2, PhaseDone
<1>4. CASE ~(~AiOn \/ SampleUsedUp(f))
  <2>1. Goto(r, "ai")
    BY <1>1, <1>4 DEF AiBegin
  <2>2. Done(Level(f))
    BY <1>1, <1>2, AtWorkIn DEF AtWork
  <2>3. Done(Level(f))'
    BY <1>2, <2>2, DoneKept DEF SameItems
  <2>4. Done(Level(seen[r]))'
    BY <1>1, <1>2, <2>3
  <2>5. QED
    BY <1>2, <2>1, <2>4, WorkStep DEF Fetching
<1>5. QED
  BY <1>3, <1>4

\* The timestamps of one phase change: what the phases before it did is still done.
LEMMA AiTouch ==
  ASSUME NEW f \in AiPhases, params' = params, Done(Level(f)),
         \A k \in Keys : items'[k].status = items[k].status,
         \A k \in Keys, g \in AiPhases : g # f => items'[k].ai[g] = items[k].ai[g]
  PROVE  Done(Level(f))'
<1>1. NothingLeft => NothingLeft'
  BY DEF NothingLeft
<1>2. CASE f = "normalizing"
  BY <1>1, <1>2, Levels DEF Done
<1>3. CASE f = "enriching"
  <2>1. \A k \in Keys : items'[k].ai["normalizing"] = items[k].ai["normalizing"]
    BY <1>3 DEF AiPhases
  <2>2. AiDone("normalizing")' = AiDone("normalizing")
    BY <2>1, AiDoneKept
  <2>3. QED
    BY <1>1, <1>3, <2>2, Levels DEF Done
<1>4. QED
  BY <1>2, <1>3 DEF AiPhases

\* Setting or taking back one timestamp.
LEMMA OneStamp ==
  ASSUME TypeOK, NEW f \in AiPhases, NEW k, NEW b \in BOOLEAN, items' = [items EXCEPT ![k].ai[f] = b]
  PROVE  /\ \A j \in Keys : items'[j].status = items[j].status
         /\ \A j \in Keys, g \in AiPhases : g # f => items'[j].ai[g] = items[j].ai[g]
<1>1. items \in [Keys -> Items]
  BY DEF TypeOK
<1>2. ASSUME NEW j \in Keys
      PROVE  /\ items'[j].status = items[j].status
             /\ \A g \in AiPhases : g # f => items'[j].ai[g] = items[j].ai[g]
  <2>1. items[j] \in Items /\ items[j].ai \in [AiPhases -> BOOLEAN]
    BY <1>1 DEF Items
  <2>2. items'[j] = items[j] \/ items'[j] = [items[j] EXCEPT !.ai = [items[j].ai EXCEPT ![f] = b]]
    BY <1>1
  <2>3. QED
    BY <2>1, <2>2 DEF Items
<1>3. QED
  BY <1>2

LEMMA AiClaimKeepsOrder ==
  ASSUME Watchers = {}, TypeOK, TypeOK', Located, WorkersExclusive, OrderInv, NEW r \in Runners,
         AiClaim(r)
  PROVE  OrderInv'
<1>1. /\ Works(r) /\ pc[r] = "ai" /\ seen[r] \in AiPhases
      /\ UNCHANGED <<status, params, seen, local>>
  BY DEF AiClaim, Works, row, Located
<1>2. PICK f \in AiPhases : seen[r] = f
  BY <1>1
<1>3. Done(Level(f))
  BY <1>1, <1>2, AtWorkIn DEF AtWork
<1>4. PICK k \in FirstIn(batch[r]) : AiClaim(r)!2!(k)
  BY DEF AiClaim
<1>5. CASE k \in Eligible(seen[r])
  <2>1. items' = [items EXCEPT ![k].ai[f] = TRUE] /\ Goto(r, "aiWork")
    BY <1>2, <1>4, <1>5, Zenon
  <2>2. Done(Level(f))'
    BY <1>1, <1>3, <2>1, AiTouch, OneStamp
  <2>3. QED
    BY <1>1, <1>2, <2>1, <2>2, WorkStep DEF Fetching
<1>6. CASE k \notin Eligible(seen[r])
  <2>1. UNCHANGED <<items, pc>>
    BY <1>4, <1>6, Zenon
  <2>2. Done(Level(f))' /\ Goto(r, "ai")
    BY <1>1, <1>3, <2>1, DoneKept DEF SameItems, Goto, TypeOK
  <2>3. QED
    BY <1>1, <1>2, <2>2, WorkStep DEF Fetching
<1>7. QED
  BY <1>5, <1>6

LEMMA AiErrorKeepsOrder ==
  ASSUME Watchers = {}, TypeOK, TypeOK', Located, WorkersExclusive, OrderInv, NEW r \in Runners,
         AiError(r)
  PROVE  OrderInv'
<1>1. /\ Works(r) /\ pc[r] = "aiWork" /\ seen[r] \in AiPhases /\ InRun(r) /\ Goto(r, "fail")
      /\ UNCHANGED <<status, params, seen, local>>
  BY DEF AiError, Works, row, Located, InRun
<1>2. PICK f \in AiPhases : seen[r] = f
  BY <1>1
<1>3. AtWork(r) /\ RowInv
  BY <1>1, AtWorkIn
<1>4. items' = [items EXCEPT ![item[r]].ai[f] = FALSE]
  BY <1>2 DEF AiError
<1>5. Done(Level(f)) /\ Standing <= Level(f) /\ Standing' = Standing
  BY <1>1, <1>2, <1>3 DEF AtWork, Standing
<1>6. Done(Level(f))'
  BY <1>1, <1>4, <1>5, AiTouch, OneStamp
<1>7. Done(Standing)'
  BY <1>5, <1>6, Levels, StandingRange DEF Done, AiPhases
<1>8. RowInv'
  BY <1>1, <1>3, <1>5, <1>7 DEF RowInv
<1>9. RunInv(r)'
  BY <1>1 DEF RunInv, Works, Listing, Fetching, Goto, TypeOK
<1>10. QED
  BY <1>1, <1>8, <1>9, OwnStep

LEMMA AiOkKeepsOrder ==
  ASSUME Watchers = {}, TypeOK, TypeOK', Located, WorkersExclusive, OrderInv, NEW r \in Runners,
         AiOk(r)
  PROVE  OrderInv'
<1>1. /\ Works(r) /\ pc[r] = "aiWork" /\ seen[r] \in AiPhases /\ InRun(r) /\ Goto(r, "ai")
      /\ UNCHANGED <<status, items, seen, local>>
      /\ params' = IF seen[r] = "enriching" THEN local[r] ELSE params
  BY DEF AiOk, Works, Located, InRun
<1>2. PICK f \in AiPhases : seen[r] = f
  BY <1>1
<1>3. CASE seen[r] = "enriching"
  <2>1. params' = local[r]
    BY <1>1, <1>3
  <2>2. AtWork(r)
    BY <1>1, AtWorkIn
  <2>3. Listed(params')
    BY <1>3, <2>1, <2>2, Levels DEF AtWork
  <2>4. /\ RowInv' /\ status # "failed" /\ Standing' <= Level(seen[r]) /\ Done(Level(seen[r]))'
        /\ status # "cancelled" => Level(local[r].pausedFrom) <= Standing'
    BY <1>1, <2>1, <2>3, WriteBack DEF SameItems
  <2>5. AtWork(r)'
    BY <1>1, <2>2, <2>4 DEF AtWork
  <2>6. RunInv(r)'
    BY <1>1, <2>5 DEF RunInv, Listing, Fetching, Goto, TypeOK
  <2>7. QED
    BY <1>1, <2>4, <2>6, OwnStep
<1>4. CASE seen[r] # "enriching"
  <2>1. Done(Level(f))
    BY <1>1, <1>2, AtWorkIn DEF AtWork
  <2>2. Done(Level(f))'
    BY <1>1, <1>4, <2>1, DoneKept DEF SameItems
  <2>3. QED
    BY <1>1, <1>2, <1>4, <2>2, WorkStep DEF Fetching
<1>5. QED
  BY <1>3, <1>4

LEMMA AiEndKeepsOrder ==
  ASSUME Watchers = {}, TypeOK, TypeOK', Located, WorkersExclusive, OrderInv, NEW r \in Runners,
         AiEnd(r)
  PROVE  OrderInv'
<1>1. /\ Works(r) /\ pc[r] = "ai" /\ seen[r] \in AiPhases
      /\ UNCHANGED <<status, params, items, seen, local>>
  BY DEF AiEnd, Works, Located, row
<1>2. PICK f \in AiPhases : seen[r] = f
  BY <1>1
<1>3. CASE Eligible(f) = {} \/ (f = "enriching" /\ SampleUsedUp("enriching"))
  <2>1. AdvanceTo(r, NextPhase[f])
    BY <1>2, <1>3 DEF AiEnd
  <2>2. AiDone(f)
    BY <1>3 DEF AiDone
  <2>3. f \in Phases \ {"discovering", "fetching"}
    BY PhaseNames DEF AiPhases
  <2>4. QED
    BY <1>1, <1>2, <2>1, <2>2, <2>3, PhaseDone
<1>4. CASE ~(Eligible(f) = {} \/ (f = "enriching" /\ SampleUsedUp("enriching")))
  <2>1. Goto(r, "release") /\ goal' = goal
    BY <1>2, <1>4 DEF AiEnd
  <2>2. QED
    BY <1>1, <2>1, RestStep
<1>5. QED
  BY <1>3, <1>4

LEMMA ReviewKeepsOrder ==
  ASSUME Watchers = {}, TypeOK, TypeOK', Located, WorkersExclusive, OrderInv, NEW r \in Runners,
         Review(r)
  PROVE  OrderInv'
<1>1. /\ Works(r) /\ pc[r] = "phase" /\ seen[r] = "reviewing"
      /\ AdvanceTo(r, NextPhase["reviewing"]) /\ UNCHANGED <<status, items, seen>>
  BY PhaseNames DEF Review, Works
<1>2. CASE ~PromotesWatermark(local[r])
  <2>1. params' = params
    BY <1>2 DEF Review
  <2>2. QED
    BY <1>1, <2>1, PhaseNames, PhaseDone
<1>3. CASE PromotesWatermark(local[r])
  <2>1. /\ local' = [local EXCEPT ![r] = [local[r] EXCEPT !.watermark = local[r].pending, !.pending = 0]]
        /\ params' = local'[r]
    BY <1>3 DEF Review
  <2>2. local[r] \in Params /\ AtWork(r)
    BY <1>1, AtWorkIn DEF TypeOK
  <2>3. Listed(local[r])
    BY <1>1, <2>2, Levels DEF AtWork
  <2>4. Listed(params') /\ params'.pausedFrom = local[r].pausedFrom
    BY <2>1, <2>2, <2>3 DEF Listed, TypeOK, Params
  <2>5. RowInv' /\ Standing' <= Level(seen[r]) /\ Done(Level(seen[r]))'
    BY <1>1, <2>4, WriteBack DEF SameItems
  <2>6. Done(7)'
    BY <1>1, <2>5, Levels DEF Done
  <2>7. Done(8)'
    BY <2>6 DEF Done
  <2>8. goal'[r] = NextPhase["reviewing"] /\ Goto(r, "advance")
    BY <1>1 DEF AdvanceTo, TypeOK
  <2>9. Done(Level(NextPhase["reviewing"]))'
    BY <2>7, PhaseNames, Levels
  <2>10. QED
    BY <1>1, <2>5, <2>8, <2>9, PhaseNames, LeaveStep
<1>4. QED
  BY <1>2, <1>3

\* A failure is recorded: the campaign would go on where its document says.
LEMMA FailWriteKeepsOrder ==
  ASSUME Watchers = {}, TypeOK, TypeOK', WorkersExclusive, OrderInv, NEW r \in Runners, FailWrite(r)
  PROVE  OrderInv'
<1>1. InRun(r) /\ Goto(r, "release") /\ UNCHANGED <<params, items, seen, local, goal>>
  BY DEF FailWrite, InRun, mine
<1>2. CASE status' = status
  BY <1>1, <1>2, RestStep
<1>3. CASE status' # status
  <2>1. <<status, "failed">> \in Transitions /\ status' = "failed"
    BY <1>3 DEF FailWrite
  <2>2. status \notin {"paused", "cancelled", "completed", "failed"}
    BY <2>1, LastStatuses, PhaseNames DEF Transitions
  <2>3. /\ Done(Standing) /\ Level(params.pausedFrom) <= 2 /\ Level(params.pausedFrom) <= Standing
    BY <2>2 DEF OrderInv, RowInv
  <2>4. Standing' = (IF Listed(params) THEN 2 ELSE 1)
    BY <1>1, <2>1 DEF Standing
  <2>5. Standing \in 1 .. 8
    BY StandingRange
  <2>6. Done(Standing)'
    BY <1>1, <2>4 DEF Done
  <2>7. Level(params.pausedFrom) \in 1 .. 8
    BY LevelOf DEF TypeOK, Params, Statuses
  <2>8. Standing >= 2 => Listed(params)
    BY <2>3 DEF Done
  <2>9. Level(params.pausedFrom) <= Standing'
    BY <2>3, <2>4, <2>5, <2>7, <2>8
  <2>10. RowInv'
    BY <1>1, <2>3, <2>6, <2>9 DEF RowInv
  <2>11. RunInv(r)'
    BY <1>1 DEF RunInv, Works, Listing, Fetching, Goto, TypeOK
  <2>12. QED
    BY <1>1, <2>10, <2>11, OwnStep
<1>4. QED
  BY <1>2, <1>3

\* The operator, from outside: every run keeps its place and its memory.
LEMMA OutsideStep ==
  ASSUME TypeOK, TypeOK', OrderInv, UNCHANGED <<pc, mine>>, RowInv', status' # "failed",
         status' = "cancelled" \/ (Standing' = Standing /\ status # "cancelled"), Standing' <= Standing,
         \A n \in 1 .. 8 : Done(n) => Done(n)'
  PROVE  OrderInv'
<1>1. ASSUME NEW r \in Runners
      PROVE  RunInv(r)'
  <2>1. /\ pc'[r] = pc[r] /\ seen'[r] = seen[r] /\ local'[r] = local[r] /\ goal'[r] = goal[r]
        /\ RunInv(r)
    BY DEF mine, OrderInv
  <2>2. Level(seen[r]) \in 1 .. 8 /\ Level(goal[r]) \in 1 .. 8 /\ Standing \in 1 .. 8
    BY LevelOf, StandingRange DEF TypeOK
  <2>3. Standing' \in 1 .. 8
    BY StandingRangeNext
  <2>4. Done(Level(seen[r])) => Done(Level(seen[r]))'
    BY <2>1, <2>2 DEF Done
  <2>5. Done(Level(goal[r])) => Done(Level(goal[r]))'
    BY <2>1, <2>2 DEF Done
  <2>6. AtWork(r) => AtWork(r)'
    BY <2>1, <2>2, <2>3, <2>4 DEF AtWork
  <2>7. Advancing(r) => Advancing(r)'
    BY <2>1, <2>2, <2>3, <2>5 DEF Advancing
  <2>8. Works(r)' = Works(r)
    BY <2>1 DEF Works
  <2>9. QED
    BY <2>1, <2>6, <2>7, <2>8 DEF RunInv
<1>2. QED
  BY <1>1 DEF OrderInv

LEMMA StillStep ==
  ASSUME OrderInv, UNCHANGED <<status, params, pc, mine>>, SameItems
  PROVE  OrderInv'
<1>1. Standing' = Standing /\ (\A n : Done(n) => Done(n)') /\ RowInv'
  BY RowKept DEF OrderInv
<1>2. ASSUME NEW r \in Runners
      PROVE  RunInv(r)'
  <2>1. /\ pc'[r] = pc[r] /\ seen'[r] = seen[r] /\ local'[r] = local[r] /\ goal'[r] = goal[r]
        /\ RunInv(r)
    BY DEF mine, OrderInv
  <2>2. AtWork(r) => AtWork(r)'
    BY <1>1, <2>1 DEF AtWork, Done
  <2>3. Advancing(r) => Advancing(r)'
    BY <1>1, <2>1 DEF Advancing, Done
  <2>4. Works(r)' = Works(r)
    BY <2>1 DEF Works
  <2>5. QED
    BY <2>1, <2>2, <2>3, <2>4 DEF RunInv
<1>3. QED
  BY <1>1, <1>2 DEF OrderInv

LEMMA PauseKeepsOrder ==
  ASSUME TypeOK, TypeOK', OrderInv, Pause
  PROVE  OrderInv'
<1>1. /\ status \in Active /\ status' = "paused" /\ params' = [params EXCEPT !.pausedFrom = status]
      /\ UNCHANGED <<items, pc, mine>>
  BY DEF Pause
<1>2. params'.pausedFrom = status /\ Listed(params') = Listed(params)
  BY <1>1 DEF TypeOK, Params, Listed
<1>3. Standing = Level(status) /\ Standing' = Standing
  BY <1>1, <1>2 DEF Standing, Active
<1>4. \A n \in 1 .. 8 : Done(n) => Done(n)'
  BY <1>1, <1>2, DoneKept DEF SameItems
<1>5. RowInv'
  BY <1>1, <1>3, <1>4, StandingRange DEF RowInv, OrderInv, Done
<1>6. status # "cancelled" /\ Standing' <= Standing
  BY <1>1, <1>3, StandingRange DEF Active
<1>7. QED
  BY <1>1, <1>3, <1>4, <1>5, <1>6, OutsideStep

LEMMA ResumePausedKeepsOrder ==
  ASSUME TypeOK, TypeOK', OrderInv, ResumePaused
  PROVE  OrderInv'
<1>1. CASE status # "paused"
  <2>1. UNCHANGED <<status, params, items, pc, mine>>
    BY <1>1 DEF ResumePaused
  <2>2. QED
    BY <2>1, StillStep DEF SameItems
<1>2. CASE status = "paused"
  <2>1. /\ status' = IF params.pausedFrom = "none" THEN "discovering" ELSE params.pausedFrom
        /\ params' = [params EXCEPT !.pausedFrom = "none"] /\ UNCHANGED <<items, pc, mine>>
    BY <1>2 DEF ResumePaused
  <2>2. params'.pausedFrom = "none" /\ Listed(params') = Listed(params)
    BY <2>1 DEF TypeOK, Params, Listed
  <2>3. status' \in Active
    BY <2>1 DEF TypeOK, Params, Active
  <2>4. Standing' = Level(status') /\ Standing = Level(params.pausedFrom)
    BY <1>2, <2>3 DEF Standing, Active
  <2>5. Standing' = Standing
    BY <2>1, <2>4, Levels
  <2>6. \A n \in 1 .. 8 : Done(n) => Done(n)'
    BY <2>1, <2>2, DoneKept DEF SameItems
  <2>7. Done(Standing)
    BY DEF OrderInv, RowInv
  <2>8. Done(Standing)'
    BY <2>5, <2>6, <2>7, StandingRange DEF Done
  <2>9. RowInv'
    BY <2>2, <2>5, <2>8, Levels, StandingRange DEF RowInv
  <2>10. status' # "failed" /\ Standing' <= Standing
    BY <2>3, <2>5, StandingRange DEF Active
  <2>11. QED
    BY <1>2, <2>1, <2>5, <2>6, <2>9, <2>10, OutsideStep
<1>3. QED
  BY <1>1, <1>2

LEMMA CancelKeepsOrder ==
  ASSUME TypeOK, TypeOK', OrderInv, Cancel
  PROVE  OrderInv'
<1>1. status' = "cancelled" /\ UNCHANGED <<params, pc, mine>>
  BY DEF Cancel
<1>2. Standing' = 1
  BY <1>1, Levels DEF Standing
<1>3. NothingLeft => items' = items
  <2>1. ASSUME NothingLeft, NEW k \in Keys
        PROVE  items[k].status # "running"
    BY <2>1 DEF NothingLeft
  <2>2. items \in [Keys -> Items]
    BY DEF TypeOK
  <2>3. QED
    BY <2>1, <2>2 DEF Cancel
<1>4. \A n \in 1 .. 8 : Done(n) => Done(n)'
  <2>1. ASSUME NothingLeft, NEW n \in 1 .. 8, Done(n)
        PROVE  Done(n)'
    BY <1>1, <1>3, <2>1, DoneKept DEF SameItems
  <2>2. ASSUME ~NothingLeft, NEW n \in 1 .. 8, Done(n)
        PROVE  Done(n)'
    BY <1>1, <2>2 DEF Done
  <2>3. QED
    BY <2>1, <2>2
<1>5. RowInv'
  BY <1>1, <1>2 DEF RowInv, Done
<1>6. Standing' <= Standing
  BY <1>2, StandingRange
<1>7. QED
  BY <1>1, <1>4, <1>5, <1>6, OutsideStep

LEMMA TimeKeepsOrder ==
  ASSUME TypeOK, OrderInv,
         \/ LeaseExpires \/ CreateAgain \/ UNCHANGED vars
         \/ \E k \in Keys : ItemLeaseExpires(k) \/ RetryDue(k)
  PROVE  OrderInv'
<1>1. UNCHANGED <<status, params, pc, mine>>
  BY DEF LeaseExpires, CreateAgain, vars, ItemLeaseExpires, RetryDue, row
<1>2. SameItems
  BY DEF LeaseExpires, CreateAgain, vars, ItemLeaseExpires, RetryDue, row, SameItems, TypeOK, Items
<1>3. QED
  BY <1>1, <1>2, StillStep

\* What a run does to end, or to give up a place.
LEMMA EndKeepsOrder ==
  ASSUME TypeOK, OrderInv, NEW r \in Runners,
         \/ StartTask(r) \/ Claim(r) \/ NoPhase(r) \/ FailLoad(r) \/ Release(r) \/ Finish(r)
         \/ Abort(r) \/ Crash(r)
  PROVE  OrderInv'
<1> USE DEF row, mine
<1>1. CASE StartTask(r)
  BY <1>1, RestStep DEF StartTask
<1>2. CASE Claim(r)
  BY <1>2, RestStep DEF Claim
<1>3. CASE NoPhase(r)
  BY <1>3, RestStep DEF NoPhase
<1>4. CASE FailLoad(r)
  BY <1>4, RestStep DEF FailLoad, Reread, TypeOK
<1>5. CASE Release(r)
  BY <1>5, RestStep DEF Release
<1>6. CASE Finish(r)
  BY <1>6, RestStep DEF Finish, Forget, TypeOK
<1>7. CASE Abort(r)
  BY <1>7, RestStep DEF Abort
<1>8. CASE Crash(r)
  BY <1>8, RestStep DEF Crash, Forget, TypeOK
<1>9. QED
  BY <1>1, <1>2, <1>3, <1>4, <1>5, <1>6, <1>7, <1>8

LEMMA OrderStep ==
  ASSUME Watchers = {}, TypeOK, TypeOK', Located, WorkersExclusive, OrderInv, [Next]_vars
  PROVE  OrderInv'
<1>1. ASSUME NEW r \in Runners,
             \/ Start(r) \/ Claim(r) \/ NoPhase(r) \/ FailLoad(r) \/ Release(r) \/ Finish(r)
             \/ Abort(r) \/ Crash(r)
      PROVE  OrderInv'
  <2>1. ~StartWatch(r)
    BY DEF StartWatch
  <2>2. QED
    BY <1>1, <2>1, EndKeepsOrder DEF Start
<1>2. ASSUME NEW r \in Runners,
             Load(r) \/ Resume(r) \/ Begin(r) \/ Advance(r) \/ Refresh(r) \/ FailWrite(r)
      PROVE  OrderInv'
  BY <1>2, LoadKeepsOrder, ResumeKeepsOrder, BeginKeepsOrder, AdvanceKeepsOrder,
     RefreshKeepsOrder, FailWriteKeepsOrder
<1>3. ASSUME NEW r \in Runners, DiscoverPage(r) \/ SavePage(r) \/ Truncate(r) \/ SaveCrawl(r)
      PROVE  OrderInv'
  BY <1>3, DiscoverKeepsOrder, SavePageKeepsOrder, TruncateKeepsOrder, SaveCrawlKeepsOrder
<1>4. ASSUME NEW r \in Runners,
             \/ FetchBegin(r) \/ ClaimItem(r) \/ ImportOk(r) \/ ImportGone(r) \/ ImportRetry(r)
             \/ ImportError(r) \/ Count(r) \/ FetchEnd(r)
      PROVE  OrderInv'
  BY <1>4, ImportKeepsOrder, FetchEndKeepsOrder
<1>5. ASSUME NEW r \in Runners,
             \/ Mapping(r) \/ AiBegin(r) \/ AiClaim(r) \/ AiOk(r) \/ AiError(r) \/ AiEnd(r)
             \/ Reconcile(r) \/ Review(r)
      PROVE  OrderInv'
  BY <1>5, PhaseKeepsOrder, AiBeginKeepsOrder, AiClaimKeepsOrder, AiOkKeepsOrder,
     AiErrorKeepsOrder, AiEndKeepsOrder, ReviewKeepsOrder
<1>6. CASE Clock \/ CreateAgain \/ UNCHANGED vars
  BY <1>6, TimeKeepsOrder DEF Clock
<1>7. CASE Pause \/ ResumePaused \/ Cancel
  BY <1>7, PauseKeepsOrder, ResumePausedKeepsOrder, CancelKeepsOrder
<1>8. QED
  BY <1>1, <1>2, <1>3, <1>4, <1>5, <1>6, <1>7, Zenon DEF Next, Run, Operator

LEMMA OrderInit == Init => OrderInv
<1> SUFFICES ASSUME Init
             PROVE  OrderInv
  OBVIOUS
<1>1. status = "queued" /\ params.pausedFrom = "none"
  BY DEF Init, FreshParams
<1>2. Standing = 1
  BY <1>1, Levels DEF Standing
<1>3. RowInv
  BY <1>1, <1>2, Levels DEF RowInv, Done
<1>4. QED
  BY <1>3 DEF Init, OrderInv, RunInv, Works, Listing, Fetching

-----------------------------------------------------------------------------
(***************************************************************************)
(* What was listed, with watchers too.                                     *)
(***************************************************************************)
\* A run at the end of its listing.
Ending == {"savePage", "truncate", "saveCrawl"}

\* A document of parameters, in the row or in a runner's memory, promises only ids that
\* were listed: up to its watermarks, up to its cursor, and all of them at the end.
CoveredBy(p, S) ==
  /\ \A i \in Promised : DateOf[i] <= p.watermark => i \in S
  /\ \A i \in Promised : DateOf[i] <= p.pending => i \in S
  /\ p.next # 0 => \A i \in Promised : i <= ListedBefore(p.watermark) + (p.next - 1) * PageSize => i \in S
  /\ Listed(p) /\ ~p.truncated => Promised \subseteq S
CoverInv ==
  /\ CoveredBy(params, SeenIds)
  /\ \A r \in Runners :
       /\ CoveredBy(local[r], SeenIds)
       /\ pc[r] \in Ending /\ local[r].next = 0 => Promised \subseteq SeenIds
\* A watermark is promoted at the end of the catalogue: the cursor counts from the old one.
PromotedAtEnd ==
  \A r \in Runners : pc[r] = "phase" /\ seen[r] = "reviewing" /\ PromotesWatermark(local[r])
    => local[r].next = 0 \/ Promised \subseteq SeenIds

LEMMA PromisedIds == Promised \subseteq Ids
BY DEF Promised

LEMMA CoversMore ==
  ASSUME NEW p, NEW S, NEW T, S \subseteq T, CoveredBy(p, S)
  PROVE  CoveredBy(p, T)
  BY DEF CoveredBy

\* The ids dated up to w are the first ListedBefore(w): dates are in the order of ids.
LEMMA FirstByDate ==
  ASSUME NEW w \in Nat, NEW i \in Ids, Incremental
  PROVE  i <= ListedBefore(w) <=> DateOf[i] <= w
<1> DEFINE D == {j \in Ids : DateOf[j] <= w}
<1>1. IsFiniteSet(D) /\ Cardinality(D) \in Nat /\ ListedBefore(w) = Cardinality(D)
  <2>1. IsFiniteSet(Ids)
    BY FS_Interval, NaturalConstants DEF Ids
  <2>2. QED
    BY <2>1, FS_Subset, FS_CardinalityType DEF ListedBefore
<1>2. i \in Nat /\ i >= 1 /\ i <= NumIds /\ NumIds \in Nat
  BY NaturalConstants DEF Ids
<1>3. DateOf \in [Ids -> Nat] /\ \A j, k \in Ids : j < k => DateOf[j] <= DateOf[k]
  BY ConstantsAssumption
<1>4. ASSUME DateOf[i] <= w
      PROVE  i <= Cardinality(D)
  <2>1. 1 .. i \subseteq D
    <3> SUFFICES ASSUME NEW j \in 1 .. i
                 PROVE  j \in D
      OBVIOUS
    <3>1. j \in Ids
      BY <1>2 DEF Ids
    <3>2. DateOf[j] <= DateOf[i]
      BY <1>2, <1>3, <3>1
    <3>3. DateOf[j] \in Nat /\ DateOf[i] \in Nat
      BY <1>3, <3>1
    <3>4. QED
      BY <1>4, <3>1, <3>2, <3>3
  <2>2. Cardinality(1 .. i) = i /\ IsFiniteSet(1 .. i)
    BY <1>2, FS_Interval
  <2>3. QED
    BY <1>1, <2>1, <2>2, FS_Subset
<1>5. ASSUME ~(DateOf[i] <= w)
      PROVE  ~(i <= Cardinality(D))
  <2>1. D \subseteq 1 .. (i - 1)
    <3> SUFFICES ASSUME NEW j \in Ids, DateOf[j] <= w
                 PROVE  j \in 1 .. (i - 1)
      OBVIOUS
    <3>1. j \in Nat /\ j >= 1
      BY NaturalConstants DEF Ids
    <3>2. ~(i < j)
      <4>1. i < j => DateOf[i] <= DateOf[j]
        BY <1>3
      <4>2. DateOf[i] \in Nat /\ DateOf[j] \in Nat
        BY <1>3
      <4>3. QED
        BY <1>5, <4>1, <4>2
    <3>3. i # j
      BY <1>5
    <3>4. QED
      BY <1>2, <3>1, <3>2, <3>3
  <2>2. Cardinality(1 .. (i - 1)) = i - 1 /\ IsFiniteSet(1 .. (i - 1))
    BY <1>2, FS_Interval
  <2>3. Cardinality(D) <= Cardinality(1 .. (i - 1))
    BY <2>1, <2>2, FS_Subset
  <2>4. Cardinality(D) <= i - 1
    BY <2>2, <2>3
  <2>5. QED
    BY <1>1, <1>2, <2>4
<1>6. QED
  BY <1>1, <1>4, <1>5

LEMMA NoneBefore ==
  ASSUME ~Incremental, NEW w
  PROVE  ListedBefore(w) = 0
  BY DEF ListedBefore

\* A fresh document promises nothing: every date is at least 1.
LEMMA FreshCovered ==
  ASSUME NEW S
  PROVE  CoveredBy(FreshParams, S)
<1>1. \A i \in Ids : DateOf[i] \in Nat /\ DateOf[i] # 0
  BY ConstantsAssumption
<1>2. \A i \in Promised : ~(DateOf[i] <= 0)
  BY <1>1, PromisedIds
<1>3. QED
  BY <1>2 DEF FreshParams, CoveredBy, Listed

\* The last id of a page that is not empty: what is dated before it comes before it, and
\* nothing promised shares its date if that date stays the watermark.
LEMMA WatermarkBehindPage ==
  ASSUME NEW w \in Nat, NEW n \in Nat, NEW i \in Promised, DateOf[i] <= PageWatermark(w, n),
         Incremental
  PROVE  DateOf[i] <= w \/ i <= ListedBefore(w) + n * PageSize
<1>1. n * PageSize \in Nat /\ ListedBefore(w) \in Nat /\ i \in Ids
  BY NaturalConstants, ListedBeforeNat, PromisedIds
<1> DEFINE end  == ListedBefore(w) + n * PageSize
           last == LastId(w, n)
<1>2. end \in Nat
  BY <1>1
<1>3. CASE PageIds(w, n) = {}
  BY <1>3 DEF PageWatermark
<1>4. CASE PageIds(w, n) # {} /\ ~(DateOf[i] <= w)
  <2>1. PICK j \in Ids : j <= end
    BY <1>4 DEF PageIds
  <2>2. last = IF NumIds < end THEN NumIds ELSE end
    BY DEF LastId, Min2
  <2> HIDE DEF end, last
  <2>3. last \in Ids /\ last <= end
    BY <1>2, <2>1, <2>2, NaturalConstants DEF Ids
  <2>4. \A k \in Ids : DateOf[k] \in Nat \ {0}
    BY ConstantsAssumption
  <2>5. DateOf[i] <= PreviousDay(DateOf[last])
    BY <1>4 DEF PageWatermark, Max2, last
  <2>6. i \in Int /\ last \in Int
    BY <1>1, <2>3, NaturalConstants DEF Ids
  <2>7. ~(last < i)
    <3>1. CASE PreviousDay(DateOf[last]) < DateOf[last]
      <4>1. PreviousDay(DateOf[last]) \in Nat /\ DateOf[last] \in Nat /\ DateOf[i] \in Nat
        BY <1>1, <2>3, <2>4, PreviousDayNat
      <4>2. ~(DateOf[last] <= DateOf[i])
        BY <2>5, <3>1, <4>1
      <4>3. QED
        BY <1>1, <2>3, <4>2, ConstantsAssumption
    <3>2. CASE PreviousDay(DateOf[last]) = DateOf[last] /\ Partial(DateOf[last])
      <4>1. ASSUME last < i
            PROVE  DateOf[last] = DateOf[i]
        <5>1. DateOf[last] <= DateOf[i]
          BY <1>1, <2>3, <4>1, ConstantsAssumption
        <5>2. DateOf[last] \in Nat /\ DateOf[i] \in Nat
          BY <1>1, <2>3, <2>4
        <5>3. QED
          BY <2>5, <3>2, <5>1, <5>2
      <4>2. ASSUME last < i
            PROVE  last = i
        BY <2>3, <3>2, <4>1, <4>2 DEF Promised
      <4>3. QED
        BY <2>6, <4>2
    <3>3. QED
      BY <2>3, <2>4, <3>1, <3>2, PreviousDayNat
  <2>8. i <= end
    BY <1>2, <2>3, <2>6, <2>7
  <2>9. QED
    BY <2>8 DEF end
<1>5. QED
  BY <1>3, <1>4

\* What a page of discovery leaves in the document was listed, that page included.
LEMMA PageCovered ==
  ASSUME NEW p \in Params, NEW n \in Nat, NEW S, CoveredBy(p, S),
         n = IF p.next = 0 THEN 1 ELSE p.next, PageIds(p.watermark, n) \subseteq S
  PROVE  /\ CoveredBy(PageParams(p, n), S)
         /\ PageParams(p, n).next = 0 => Promised \subseteq S
<1> DEFINE w       == p.watermark
           from    == (n - 1) * PageSize
           upTo    == n * PageSize
           next    == NextCursor(w, n)
           pages   == p.pages + 1
           pending == IF Incremental THEN Max2(p.pending, PageWatermark(w, n)) ELSE 0
           promote == Incremental /\ next # 0 /\ pending > w /\ pages % WindowPages = 0
           q       == [p EXCEPT !.started = TRUE, !.pages = pages]
<1>1. /\ w \in Nat /\ p.pending \in Nat /\ p.next \in Nat /\ ListedBefore(w) \in Nat
      /\ upTo \in Nat /\ from \in Int /\ NumIds \in Nat
  BY NaturalConstants, ListedBeforeNat DEF Params
<1>2. \A i \in Promised : i \in Ids /\ i \in Nat /\ i <= NumIds /\ DateOf[i] \in Nat /\ ~(DateOf[i] <= 0)
  <2>1. \A i \in Ids : DateOf[i] \in Nat \ {0}
    BY ConstantsAssumption
  <2>2. QED
    BY <2>1, NaturalConstants, PromisedIds DEF Ids
<1>3. \A i \in Promised : i <= ListedBefore(w) + from => i \in S
  <2>1. CASE p.next # 0
    BY <2>1 DEF CoveredBy
  <2>2. CASE p.next = 0
    <3>1. from = 0
      BY <2>2, NaturalConstants
    <3>2. CASE Incremental
      BY <1>1, <1>2, <3>1, <3>2, FirstByDate DEF CoveredBy
    <3>3. CASE ~Incremental
      <4>1. ListedBefore(w) + from = 0
        BY <3>1, <3>3, NoneBefore
      <4>2. \A i \in Promised : ~(i <= 0)
        BY NaturalConstants, PromisedIds DEF Ids
      <4>3. QED
        BY <4>1, <4>2
    <3>4. QED
      BY <3>2, <3>3
  <2>3. QED
    BY <2>1, <2>2
<1>4. \A i \in Promised : i <= ListedBefore(w) + upTo => i \in S
  <2> SUFFICES ASSUME NEW i \in Promised, i <= ListedBefore(w) + upTo
               PROVE  i \in S
    OBVIOUS
  <2>1. CASE i <= ListedBefore(w) + from
    BY <1>3, <2>1
  <2>2. CASE i > ListedBefore(w) + from
    BY <1>2, <2>2 DEF PageIds
  <2> HIDE DEF from
  <2>3. QED
    BY <1>1, <1>2, <2>1, <2>2
<1>5. next = 0 => Promised \subseteq S
  <2>1. ASSUME next = 0
        PROVE  ~(ListedBefore(w) + upTo < NumIds)
    BY <2>1 DEF NextCursor
  <2> HIDE DEF next, upTo
  <2>2. QED
    BY <1>1, <1>2, <1>4, <2>1
<1>6. \A i \in Promised : DateOf[i] <= pending => i \in S
  <2> SUFFICES ASSUME NEW i \in Promised, DateOf[i] <= pending
               PROVE  i \in S
    OBVIOUS
  <2>1. CASE ~Incremental
    BY <1>2, <2>1
  <2>2. CASE Incremental
    <3>1. DateOf[i] <= p.pending \/ DateOf[i] <= PageWatermark(w, n)
      BY <2>2 DEF Max2
    <3>2. CASE DateOf[i] <= p.pending
      BY <3>2 DEF CoveredBy
    <3>3. CASE DateOf[i] <= PageWatermark(w, n)
      BY <1>1, <1>4, <2>2, <3>3, WatermarkBehindPage DEF CoveredBy
    <3>4. QED
      BY <3>1, <3>2, <3>3
  <2>3. QED
    BY <2>1, <2>2
<1>7. PageParams(p, n) = IF promote THEN [q EXCEPT !.next = 1, !.watermark = pending, !.pending = 0]
                         ELSE [q EXCEPT !.next = next, !.pending = pending]
  BY Zenon DEF PageParams
<1>8. PageWatermark(w, n) \in Nat
  BY <1>1, PageWatermarkNat
<1>9. pending \in Nat
  BY <1>1, <1>8 DEF Max2
<1> HIDE DEF pages, pending, promote
<1>10. CASE promote
  <2> DEFINE m == [q EXCEPT !.next = 1, !.watermark = pending, !.pending = 0]
  <2>1. m.next = 1 /\ m.watermark = pending /\ m.pending = 0
    BY DEF Params
  <2>2. \A i \in Promised : i <= ListedBefore(pending) + (1 - 1) * PageSize => i \in S
    <3>1. Incremental
      BY <1>10 DEF promote
    <3>2. ListedBefore(pending) + (1 - 1) * PageSize = ListedBefore(pending)
      BY NaturalConstants, ListedBeforeNat
    <3>3. QED
      BY <1>2, <1>6, <1>9, <3>1, <3>2, FirstByDate
  <2>3. CoveredBy(m, S)
    <3> HIDE DEF m
    <3>1. \A i \in Promised : DateOf[i] <= m.watermark => i \in S
      BY <1>6, <2>1
    <3>2. \A i \in Promised : ~(DateOf[i] <= m.pending)
      BY <1>2, <2>1
    <3>3. \A i \in Promised : i <= ListedBefore(m.watermark) + (m.next - 1) * PageSize => i \in S
      BY <2>1, <2>2
    <3>4. ~Listed(m)
      BY <2>1 DEF Listed
    <3>5. QED
      BY <3>1, <3>2, <3>3, <3>4 DEF CoveredBy
  <2>4. PageParams(p, n) = m
    BY <1>7, <1>10
  <2> HIDE DEF m
  <2>5. QED
    BY <2>1, <2>3, <2>4
<1>11. CASE ~promote
  <2> DEFINE m == [q EXCEPT !.next = next, !.pending = pending]
  <2>1. m.next = next /\ m.watermark = w /\ m.pending = pending
    BY DEF Params
  <2>2. next # 0 => (next - 1) * PageSize = upTo
    BY DEF NextCursor
  <2> HIDE DEF next, upTo
  <2>3. CoveredBy(m, S)
    <3> HIDE DEF m
    <3>1. \A i \in Promised : DateOf[i] <= w => i \in S
      BY DEF CoveredBy
    <3>2. m.next # 0 => \A i \in Promised : i <= ListedBefore(w) + (next - 1) * PageSize => i \in S
      BY <1>4, <2>1, <2>2
    <3>3. QED
      BY <1>5, <1>6, <2>1, <3>1, <3>2 DEF CoveredBy, Listed
  <2>4. PageParams(p, n) = m
    BY <1>7, <1>11
  <2> HIDE DEF m
  <2>5. QED
    BY <1>5, <2>1, <2>3, <2>4
<1>12. QED
  BY <1>10, <1>11

\* An id whose work item was created stays listed.
LEMMA SeenFromItems ==
  ASSUME \A k \in Keys : items'[k].status = "absent" => items[k].status = "absent"
  PROVE  SeenIds \subseteq SeenIds'
  BY DEF SeenIds

LEMMA SeenGrows ==
  ASSUME TypeOK, Located, Paid, [Next]_vars
  PROVE  SeenIds \subseteq SeenIds'
<1> USE DEF row, mine
<1>0. items \in [Keys -> Items]
  BY DEF TypeOK
<1>1. CASE items' = items
  BY <1>1, SeenFromItems
<1>2. ASSUME StampsKept
      PROVE  SeenIds \subseteq SeenIds'
  BY <1>2, SeenFromItems DEF StampsKept
<1>3. ASSUME NEW r \in Runners,
             \/ StartWatch(r) \/ Resume(r) \/ DiscoverPage(r) \/ FetchBegin(r) \/ ClaimItem(r)
             \/ ImportOk(r) \/ ImportGone(r) \/ ImportRetry(r) \/ ImportError(r)
      PROVE  SeenIds \subseteq SeenIds'
  BY <1>2, <1>3, StampsStep
<1>4. ASSUME NEW r \in Runners, AiClaim(r)
      PROVE  SeenIds \subseteq SeenIds'
  <2>1. PICK k \in FirstIn(batch[r]) : AiClaim(r)!2!(k)
    BY <1>4 DEF AiClaim
  <2>2. items' = items \/ items' = [items EXCEPT ![k].ai[seen[r]] = TRUE]
    BY <2>1, Zenon
  <2>3. \A l \in Keys : items'[l].status = items[l].status
    BY <2>2, <1>0 DEF Items
  <2>4. QED
    BY <2>3, SeenFromItems
<1>5. ASSUME NEW r \in Runners, AiError(r)
      PROVE  SeenIds \subseteq SeenIds'
  <2>1. items' = [items EXCEPT ![item[r]].ai[seen[r]] = FALSE]
    BY <1>5 DEF AiError
  <2>2. \A l \in Keys : items'[l].status = items[l].status
    BY <2>1, <1>0 DEF Items
  <2>3. QED
    BY <2>2, SeenFromItems
<1>6. ASSUME Clock \/ Cancel
      PROVE  SeenIds \subseteq SeenIds'
  <2>1. CASE Cancel
    <3>1. \A l \in Keys : items'[l].status = "absent" => items[l].status = "absent"
      BY <1>0, <2>1 DEF Cancel, Items
    <3>2. QED
      BY <3>1, SeenFromItems
  <2>2. CASE LeaseExpires
    BY <1>1, <2>2 DEF LeaseExpires
  <2>3. ASSUME NEW k \in Keys, ItemLeaseExpires(k) \/ RetryDue(k)
        PROVE  SeenIds \subseteq SeenIds'
    <3>0. \E b \in BOOLEAN : \/ items' = [items EXCEPT ![k].leased = b]
                            \/ items' = [items EXCEPT ![k].due = b]
      BY <2>3 DEF ItemLeaseExpires, RetryDue
    <3>1. \A l \in Keys : items'[l].status = items[l].status
      BY <1>0, <3>0 DEF Items
    <3>2. QED
      BY <3>1, SeenFromItems
  <2>4. QED
    BY <1>6, <2>1, <2>2, <2>3 DEF Clock
<1>7. ASSUME NEW r \in Runners,
             \/ StartTask(r) \/ Claim(r) \/ Load(r) \/ Begin(r) \/ NoPhase(r) \/ Advance(r)
             \/ Refresh(r) \/ SavePage(r) \/ Truncate(r) \/ SaveCrawl(r) \/ Count(r) \/ FetchEnd(r)
      PROVE  items' = items
  BY <1>7 DEF StartTask, Claim, Load, Begin, NoPhase, Advance, Refresh, SavePage, Truncate,
    SaveCrawl, Count, FetchEnd
<1>8. ASSUME NEW r \in Runners,
             \/ Mapping(r) \/ AiBegin(r) \/ AiOk(r) \/ AiEnd(r) \/ Reconcile(r) \/ Review(r)
             \/ FailLoad(r) \/ FailWrite(r) \/ Release(r) \/ Finish(r) \/ Abort(r) \/ Crash(r)
      PROVE  items' = items
  BY <1>8 DEF Mapping, AiBegin, AiOk, AiEnd, Reconcile, Review, FailLoad, FailWrite, Release,
    Finish, Abort, Crash
<1>9. ASSUME Pause \/ ResumePaused \/ CreateAgain \/ UNCHANGED vars
      PROVE  items' = items
  BY <1>9 DEF Pause, ResumePaused, CreateAgain, vars
<1>10. QED
  BY <1>1, <1>3, <1>4, <1>5, <1>6, <1>7, <1>8, <1>9, Zenon DEF Next, Start, Run, Operator

\* A step that copies documents about, and lists nothing.
LEMMA CoverKept ==
  ASSUME CoverInv, SeenIds \subseteq SeenIds',
         \/ params' = params
         \/ \E s \in Runners : params' = local[s]
         \/ CoveredBy(params', SeenIds'),
         \A s \in Runners :
           \/ local'[s] \in {local[s], params, FreshParams}
           \/ CoveredBy(local'[s], SeenIds'),
         \A s \in Runners : pc'[s] \in Ending =>
           \/ pc[s] \in Ending /\ local'[s] = local[s]
           \/ local'[s].next = 0 => Promised \subseteq SeenIds'
  PROVE  CoverInv'
<1> DEFINE S == SeenIds
           T == SeenIds'
<1>1. CoveredBy(params, S) /\ \A s \in Runners : CoveredBy(local[s], S)
  BY DEF CoverInv
<1>2. CoveredBy(params, T) /\ (\A s \in Runners : CoveredBy(local[s], T)) /\ CoveredBy(FreshParams, T)
  <2> HIDE DEF S, T
  <2>1. S \subseteq T
    BY DEF S, T
  <2>2. QED
    BY <1>1, <2>1, CoversMore, FreshCovered
<1>3. CoveredBy(params', T)
  BY <1>2
<1>4. \A s \in Runners : CoveredBy(local'[s], T)
  BY <1>2
<1>5. ASSUME NEW s \in Runners, pc'[s] \in Ending, local'[s].next = 0
      PROVE  Promised \subseteq T
  BY <1>5 DEF CoverInv, Ending
<1>6. QED
  BY <1>3, <1>4, <1>5 DEF CoverInv, Ending

\* A document that differs in what pausing wrote promises the same.
LEMMA SamePromise ==
  ASSUME NEW p, NEW q, NEW S, CoveredBy(p, S), q.next = p.next, q.watermark = p.watermark,
         q.pending = p.pending, q.started = p.started, q.truncated = p.truncated
  PROVE  CoveredBy(q, S)
  BY DEF CoveredBy, Listed

LEMMA DiscoverCovers ==
  ASSUME TypeOK, CoverInv, NEW r \in Runners, DiscoverPage(r), SeenIds \subseteq SeenIds'
  PROVE  CoverInv'
<1> DEFINE p == local[r]
           n == IF p.next = 0 THEN 1 ELSE p.next
           S == SeenIds'
<1>1. p \in Params /\ n \in Nat
  BY DEF TypeOK, Params
<1>2. PageIds(p.watermark, n) \subseteq S
  <2> SUFFICES ASSUME NEW i \in PageIds(p.watermark, n)
               PROVE  i \in SeenIds'
    OBVIOUS
  <2> DEFINE k == <<p.pages + 1, i>>
  <2>1. i \in Ids
    BY DEF PageIds
  <2>2. p.pages \in Nat /\ p.pages + 1 <= MaxShards
    BY <1>1 DEF Params, DiscoverPage
  <2>3. k \in Keys
    BY <2>1, <2>2, NaturalConstants DEF Keys
  <2>4. items' = [l \in Keys |->
          IF l[1] = p.pages + 1 /\ l[2] \in PageIds(p.watermark, n) /\ items[l].status = "absent"
          THEN NewItem ELSE items[l]]
    BY DEF DiscoverPage
  <2>5. items'[k].status # "absent"
    BY <2>3, <2>4 DEF NewItem
  <2>6. k[2] = i
    OBVIOUS
  <2> HIDE DEF k
  <2>7. QED
    BY <2>3, <2>5, <2>6 DEF SeenIds
<1>3. CoveredBy(p, S)
  <2> HIDE DEF S, n
  <2>1. CoveredBy(p, SeenIds) /\ SeenIds \subseteq S
    BY DEF CoverInv, S
  <2> HIDE DEF p
  <2>2. QED
    BY <2>1, CoversMore
<1>4. local' = [local EXCEPT ![r] = PageParams(p, n)] /\ params' = params
  BY DEF DiscoverPage, row
<1>5. \A s \in Runners : s # r => local'[s] = local[s] /\ pc'[s] = pc[s]
  BY <1>4 DEF DiscoverPage, Goto, TypeOK
<1>6. local'[r] = PageParams(p, n)
  BY <1>4 DEF TypeOK
<1> HIDE DEF p, n, S
<1>7. CoveredBy(local'[r], S) /\ (local'[r].next = 0 => Promised \subseteq S)
  BY <1>1, <1>2, <1>3, <1>6, PageCovered DEF n
<1>8. QED
  BY <1>4, <1>5, <1>7, CoverKept DEF S

LEMMA TruncateCovers ==
  ASSUME TypeOK, CoverInv, NEW r \in Runners, Truncate(r), SeenIds \subseteq SeenIds'
  PROVE  CoverInv'
<1>1. local[r] \in Params /\ pc[r] = "truncate"
  BY DEF TypeOK, Truncate
<1>2. /\ local' = [local EXCEPT ![r] =
            [local[r] EXCEPT !.truncated = (local[r].next # 0), !.next = 0, !.pending = 0]]
      /\ params' = local'[r] /\ Goto(r, "advance")
  BY DEF Truncate, AdvanceTo
<1>3. /\ params'.next = 0 /\ params'.pending = 0 /\ params'.watermark = local[r].watermark
      /\ params'.truncated = (local[r].next # 0)
  BY <1>1, <1>2 DEF TypeOK, Params
<1>4. CoveredBy(params', SeenIds)
  <2>1. \A i \in Promised : ~(DateOf[i] <= 0)
    <3>1. \A i \in Ids : DateOf[i] \in Nat \ {0}
      BY ConstantsAssumption
    <3>2. QED
      BY <3>1, PromisedIds
  <2>2. local[r].next = 0 => Promised \subseteq SeenIds
    BY <1>1 DEF CoverInv, Ending
  <2>3. \A i \in Promised : DateOf[i] <= local[r].watermark => i \in SeenIds
    BY DEF CoverInv, CoveredBy
  <2>4. QED
    BY <1>3, <2>1, <2>2, <2>3 DEF CoveredBy, Listed
<1>5. CoveredBy(params', SeenIds')
  BY <1>4, CoversMore
<1>6. \A s \in Runners : s # r => local'[s] = local[s] /\ pc'[s] = pc[s]
  BY <1>2 DEF Goto, TypeOK
<1>7. local'[r] = params' /\ pc'[r] = "advance"
  BY <1>2 DEF Goto, TypeOK
<1>8. QED
  BY <1>5, <1>6, <1>7, CoverKept DEF Ending

LEMMA ReviewCovers ==
  ASSUME TypeOK, CoverInv, PromotedAtEnd, NEW r \in Runners, Review(r), SeenIds \subseteq SeenIds'
  PROVE  CoverInv'
<1>1. /\ local[r] \in Params /\ pc[r] = "phase" /\ seen[r] = "reviewing" /\ Goto(r, "advance")
      /\ CoveredBy(local[r], SeenIds)
  BY DEF TypeOK, Review, AdvanceTo, CoverInv
<1>2. \A s \in Runners : pc'[s] \in Ending => pc[s] \in Ending /\ s # r
  BY <1>1 DEF Goto, TypeOK, Ending
<1>3. CASE ~PromotesWatermark(local[r])
  <2>1. UNCHANGED <<local, params>>
    BY <1>3 DEF Review
  <2>2. QED
    BY <1>2, <2>1, CoverKept
<1>4. CASE PromotesWatermark(local[r])
  <2>1. /\ local' = [local EXCEPT ![r] = [local[r] EXCEPT !.watermark = local[r].pending, !.pending = 0]]
        /\ params' = local'[r]
    BY <1>4 DEF Review
  <2>2. local[r].next = 0 \/ Promised \subseteq SeenIds
    BY <1>1, <1>4 DEF PromotedAtEnd
  <2>3. /\ params'.next = local[r].next /\ params'.pending = 0 /\ params'.watermark = local[r].pending
        /\ params'.truncated = local[r].truncated /\ params'.started = local[r].started
    BY <1>1, <2>1 DEF TypeOK, Params
  <2>4. CoveredBy(params', SeenIds)
    <3>1. CASE local[r].next = 0
      <4>1. \A i \in Ids : DateOf[i] \in Nat \ {0}
        BY ConstantsAssumption
      <4>2. \A i \in Promised : ~(DateOf[i] <= 0)
        BY <4>1, PromisedIds
      <4>3. QED
        BY <1>1, <2>3, <3>1, <4>2 DEF CoveredBy, Listed
    <3>2. CASE Promised \subseteq SeenIds
      BY <3>2 DEF CoveredBy
    <3>3. QED
      BY <2>2, <3>1, <3>2
  <2>5. CoveredBy(params', SeenIds')
    BY <2>4, CoversMore
  <2>6. \A s \in Runners : s # r => local'[s] = local[s]
    BY <2>1 DEF TypeOK
  <2>7. local'[r] = params'
    BY <2>1
  <2>8. QED
    BY <1>2, <2>5, <2>6, <2>7, CoverKept
<1>5. QED
  BY <1>3, <1>4

\* What reads the row, or writes the runner's copy back as it is.
LEMMA CopyCovers ==
  ASSUME TypeOK, CoverInv, SeenIds \subseteq SeenIds', NEW r \in Runners,
         \/ params' = params
         \/ params' = local[r],
         \A s \in Runners : s # r => local'[s] = local[s] /\ pc'[s] = pc[s],
         local'[r] \in {local[r], params, FreshParams},
         pc'[r] \in Ending => pc[r] \in Ending /\ local'[r] = local[r]
  PROVE  CoverInv'
<1>1. \A s \in Runners : local'[s] \in {local[s], params, FreshParams}
  OBVIOUS
<1>2. \A s \in Runners : pc'[s] \in Ending => pc[s] \in Ending /\ local'[s] = local[s]
  OBVIOUS
<1>3. QED
  BY <1>1, <1>2, CoverKept

LEMMA OperatorCovers ==
  ASSUME TypeOK, CoverInv, SeenIds \subseteq SeenIds', UNCHANGED <<pc, local>>,
         \/ params' = params
         \/ \E s \in Active \union {"none"} : params' = [params EXCEPT !.pausedFrom = s]
  PROVE  CoverInv'
<1>1. CASE params' = params
  BY <1>1, CoverKept
<1>2. ASSUME NEW s, params' = [params EXCEPT !.pausedFrom = s]
      PROVE  CoverInv'
  <2>1. /\ params'.next = params.next /\ params'.watermark = params.watermark
        /\ params'.pending = params.pending /\ params'.started = params.started
        /\ params'.truncated = params.truncated
    BY <1>2 DEF TypeOK, Params
  <2>2. CoveredBy(params, SeenIds)
    BY DEF CoverInv
  <2>3. CoveredBy(params', SeenIds)
    BY <2>1, <2>2, SamePromise
  <2>4. CoveredBy(params', SeenIds')
    BY <2>3, CoversMore
  <2>5. QED
    BY <2>4, CoverKept
<1>3. QED
  BY <1>1, <1>2

LEMMA CoverStep ==
  ASSUME TypeOK, Located, Paid, CoverInv, PromotedAtEnd, [Next]_vars
  PROVE  CoverInv'
<1> USE DEF row, mine, Goto, Ending
<1>0. /\ SeenIds \subseteq SeenIds' /\ pc \in [Runners -> Labels]
      /\ local \in [Runners -> Params]
  BY SeenGrows DEF TypeOK
<1>1. ASSUME NEW r \in Runners,
             \/ StartTask(r) \/ StartWatch(r) \/ Claim(r) \/ Begin(r) \/ NoPhase(r) \/ Advance(r)
             \/ FailWrite(r) \/ Release(r) \/ Abort(r)
      PROVE  CoverInv'
  <2>1. UNCHANGED <<params, local>>
    BY <1>1 DEF StartTask, StartWatch, Claim, Begin, NoPhase, Advance, FailWrite, Release, Abort
  <2>2. \E l \in Labels \ Ending : pc' = [pc EXCEPT ![r] = l]
    BY <1>1 DEF StartTask, StartWatch, Claim, Begin, NoPhase, Advance, FailWrite, Release, Abort,
      Labels
  <2>3. QED
    BY <1>0, <2>1, <2>2, CopyCovers
<1>2. ASSUME NEW r \in Runners, Load(r) \/ Resume(r) \/ Refresh(r) \/ FetchEnd(r) \/ FailLoad(r)
      PROVE  CoverInv'
  <2>1. params' = params /\ local' = [local EXCEPT ![r] = params]
    BY <1>2 DEF Load, Resume, Refresh, FetchEnd, FailLoad, Reread
  <2>2. \E l \in Labels \ Ending : pc' = [pc EXCEPT ![r] = l]
    BY <1>2 DEF Load, Resume, Refresh, FetchEnd, FailLoad, AdvanceTo, Labels
  <2>3. QED
    BY <1>0, <2>1, <2>2, CopyCovers
<1>3. ASSUME NEW r \in Runners, Finish(r) \/ Crash(r)
      PROVE  CoverInv'
  <2>1. /\ params' = params /\ local' = [local EXCEPT ![r] = FreshParams]
        /\ pc' = [pc EXCEPT ![r] = "idle"]
    BY <1>3 DEF Finish, Crash, Forget
  <2>2. QED
    BY <1>0, <2>1, CopyCovers
<1>4. ASSUME NEW r \in Runners, DiscoverPage(r) \/ Truncate(r) \/ Review(r)
      PROVE  CoverInv'
  BY <1>0, <1>4, DiscoverCovers, TruncateCovers, ReviewCovers
<1>5. ASSUME NEW r \in Runners, SavePage(r) \/ SaveCrawl(r)
      PROVE  CoverInv'
  <2>1. params' = local[r] /\ local' = local /\ pc[r] \in Ending
    BY <1>5 DEF SavePage, SaveCrawl
  <2>2. \E l \in Labels : pc' = [pc EXCEPT ![r] = l]
    BY <1>5 DEF SavePage, SaveCrawl, AdvanceTo, Labels
  <2>3. QED
    BY <1>0, <2>1, <2>2, CopyCovers
<1>6. ASSUME NEW r \in Runners,
             \/ FetchBegin(r) \/ ImportOk(r) \/ ImportGone(r) \/ ImportRetry(r) \/ ImportError(r)
             \/ Count(r) \/ Mapping(r) \/ AiBegin(r) \/ AiError(r) \/ AiEnd(r) \/ Reconcile(r)
      PROVE  CoverInv'
  <2>1. UNCHANGED <<params, local>>
    BY <1>6 DEF FetchBegin, ImportOk, ImportGone, ImportRetry, ImportError, Count, Mapping, AiBegin,
      AiError, AiEnd, Reconcile
  <2>2. \E l \in Labels \ Ending : pc' = [pc EXCEPT ![r] = l]
    BY <1>6 DEF FetchBegin, ImportOk, ImportGone, ImportRetry, ImportError, Count, Mapping, AiBegin,
      AiError, AiEnd, Reconcile, AdvanceTo, Labels
  <2>3. QED
    BY <1>0, <2>1, <2>2, CopyCovers
<1>7. ASSUME NEW r \in Runners, AiOk(r)
      PROVE  CoverInv'
  <2>1. /\ params' = params \/ params' = local[r]
        /\ local' = local /\ pc' = [pc EXCEPT ![r] = "ai"]
    BY <1>7 DEF AiOk
  <2>2. QED
    BY <1>0, <2>1, CopyCovers
<1>8. ASSUME NEW r \in Runners, ClaimItem(r) \/ AiClaim(r)
      PROVE  CoverInv'
  <2>1. UNCHANGED <<params, local>>
    BY <1>8 DEF ClaimItem, AiClaim
  <2>2. \/ pc' = pc
        \/ \E l \in {"import", "aiWork"} : pc' = [pc EXCEPT ![r] = l]
    BY <1>8, Zenon DEF ClaimItem, AiClaim
  <2>3. QED
    BY <1>0, <2>1, <2>2, CopyCovers
<1>9. CASE Clock \/ Operator \/ UNCHANGED vars
  <2>1. UNCHANGED <<pc, local>>
    BY <1>9 DEF Clock, LeaseExpires, ItemLeaseExpires, RetryDue, Operator, Pause, ResumePaused,
      Cancel, CreateAgain, vars
  <2>2. \/ params' = params
        \/ \E s \in Active \union {"none"} : params' = [params EXCEPT !.pausedFrom = s]
    BY <1>9 DEF Clock, LeaseExpires, ItemLeaseExpires, RetryDue, Operator, Pause, ResumePaused,
      Cancel, CreateAgain, vars
  <2>3. QED
    BY <1>0, <2>1, <2>2, OperatorCovers
<1>10. QED
  BY <1>1, <1>2, <1>3, <1>4, <1>5, <1>6, <1>7, <1>8, <1>9, Zenon DEF Next, Start, Run

LEMMA CoverInit == Init => CoverInv
<1> SUFFICES ASSUME Init
             PROVE  CoverInv
  OBVIOUS
<1>1. params = FreshParams /\ \A r \in Runners : local[r] = FreshParams /\ pc[r] = "idle"
  BY DEF Init
<1>2. QED
  BY <1>1, FreshCovered DEF CoverInv, Ending

-----------------------------------------------------------------------------
(***************************************************************************)
(* What is marked MISSING, with watchers too.                              *)
(***************************************************************************)
Beyond(s) == Level(s) >= 2
RunStarted(r) ==
  /\ Beyond(local[r].pausedFrom) => local[r].started
  /\ pc[r] \in Listing => local[r].started
  /\ pc[r] \in Fetching \union {"advance"} => params.started
  /\ pc[r] \in {"begin", "phase", "ai", "aiWork"} /\ Beyond(seen[r])
       => local[r].started /\ params.started
RowStarted ==
  /\ Beyond(status) => params.started
  /\ Beyond(params.pausedFrom) => params.started
\* Past DISCOVERING, discovery has started, and every copy of the document knows it.
StartedInv == RowStarted /\ \A r \in Runners : RunStarted(r)

LEMMA BeyondNames ==
  /\ \A s \in {"none", "queued", "discovering", "paused", "failed", "cancelled"} : ~Beyond(s)
  /\ \A s \in Phases : s # "discovering" => Beyond(s)
  BY Levels, PhaseNames DEF Beyond

LEMMA OtherStarted ==
  ASSUME NEW s \in Runners, RunStarted(s), pc'[s] = pc[s], seen'[s] = seen[s],
         local'[s] = local[s], params.started => params'.started
  PROVE  RunStarted(s)'
  BY DEF RunStarted, Beyond

\* A step of one run, for the others.
LEMMA StartedKept ==
  ASSUME TypeOK, StartedInv, NEW r \in Runners, RowStarted', RunStarted(r)',
         params.started => params'.started,
         \A s \in Runners : s # r =>
           pc'[s] = pc[s] /\ seen'[s] = seen[s] /\ local'[s] = local[s]
  PROVE  StartedInv'
<1>1. \A s \in Runners : s # r => RunStarted(s)'
  BY OtherStarted DEF StartedInv
<1>2. QED
  BY <1>1 DEF StartedInv

\* A step that leaves the row, and the run where it promises nothing new.
LEMMA StartedRest ==
  ASSUME TypeOK, StartedInv, NEW r \in Runners, NEW l \in Labels, Goto(r, l),
         l \notin Listing \union Fetching \union {"advance", "begin", "phase", "ai", "aiWork"},
         UNCHANGED <<status, params>>,
         local'[r] \in {local[r], params, FreshParams},
         \A s \in Runners : s # r => seen'[s] = seen[s] /\ local'[s] = local[s]
  PROVE  StartedInv'
<1>1. pc'[r] = l /\ \A s \in Runners : s # r => pc'[s] = pc[s]
  BY DEF Goto, TypeOK
<1>2. RowStarted'
  BY DEF StartedInv, RowStarted, Beyond
<1>3. RunStarted(r) /\ RowStarted
  BY DEF StartedInv
<1>4. Beyond(local'[r].pausedFrom) => local'[r].started
  BY <1>3, BeyondNames DEF RunStarted, RowStarted, FreshParams
<1>5. RunStarted(r)'
  BY <1>1, <1>4 DEF RunStarted, Beyond
<1>6. QED
  BY <1>1, <1>2, <1>5, StartedKept

\* A step that leaves the row and the run's memory, past discovery all along.
LEMMA StartedOn ==
  ASSUME TypeOK, StartedInv, NEW r \in Runners, NEW l \in Labels, Goto(r, l),
         UNCHANGED <<status, params, seen, local>>,
         \/ pc[r] \in Fetching \union {"ai", "aiWork"}
         \/ pc[r] = "phase" /\ seen[r] \in Phases /\ seen[r] # "discovering",
         pc[r] \in {"ai", "aiWork"} => seen[r] \in AiPhases,
         l \in {"ai", "aiWork"} => pc[r] \in {"phase", "ai", "aiWork"},
         l \notin Listing \union {"begin", "phase"}
  PROVE  StartedInv'
<1>1. pc'[r] = l /\ \A s \in Runners : s # r => pc'[s] = pc[s]
  BY DEF Goto, TypeOK
<1>2. RowStarted'
  BY DEF StartedInv, RowStarted, Beyond
<1>3. RunStarted(r)
  BY DEF StartedInv
<1>4. pc[r] \in {"phase", "ai", "aiWork"} => Beyond(seen[r])
  BY BeyondNames, PhaseNames DEF AiPhases, Fetching
<1>5. params.started
  BY <1>3, <1>4 DEF RunStarted
<1>6. pc[r] \in {"phase", "ai", "aiWork"} => local[r].started
  BY <1>3, <1>4 DEF RunStarted
<1>7. RunStarted(r)'
  BY <1>1, <1>3, <1>5, <1>6 DEF RunStarted, Beyond
<1>8. QED
  BY <1>1, <1>2, <1>7, StartedKept

\* A run that has just read the row.
LEMMA StartedRead ==
  ASSUME TypeOK, StartedInv, RowStarted', NEW r \in Runners, NEW l \in Labels, Goto(r, l),
         params' = params, seen' = [seen EXCEPT ![r] = status'],
         local' = [local EXCEPT ![r] = params], l \notin Listing \union Fetching \union {"advance"}
  PROVE  StartedInv'
<1>1. /\ pc'[r] = l /\ seen'[r] = status' /\ local'[r] = params'
      /\ \A s \in Runners : s # r => pc'[s] = pc[s] /\ seen'[s] = seen[s] /\ local'[s] = local[s]
  BY DEF Goto, TypeOK
<1>2. RunStarted(r)'
  BY <1>1 DEF RunStarted, RowStarted, Beyond
<1>3. QED
  BY <1>1, <1>2, StartedKept

\* A run that writes its copy of the document back, discovery started.
LEMMA StartedWrite ==
  ASSUME TypeOK, StartedInv, NEW r \in Runners, NEW l \in Labels, Goto(r, l),
         UNCHANGED <<status, seen>>, local[r].started, params' = local'[r],
         local'[r].started, local'[r].pausedFrom = local[r].pausedFrom,
         \A s \in Runners : s # r => local'[s] = local[s]
  PROVE  StartedInv'
<1>1. pc'[r] = l /\ \A s \in Runners : s # r => pc'[s] = pc[s]
  BY DEF Goto, TypeOK
<1>2. RowStarted' /\ RunStarted(r)'
  BY DEF RowStarted, RunStarted
<1>3. QED
  BY <1>1, <1>2, StartedKept

LEMMA DiscoverStarts ==
  ASSUME TypeOK, StartedInv, NEW r \in Runners, DiscoverPage(r)
  PROVE  StartedInv'
<1> DEFINE n == IF local[r].next = 0 THEN 1 ELSE local[r].next
<1>1. /\ local' = [local EXCEPT ![r] = PageParams(local[r], n)] /\ Goto(r, "savePage")
      /\ UNCHANGED <<status, params, seen>>
  BY DEF DiscoverPage, row
<1>2. local'[r].started
  BY <1>1 DEF PageParams, TypeOK, Params
<1>3. /\ pc'[r] = "savePage"
      /\ \A s \in Runners : s # r => pc'[s] = pc[s] /\ local'[s] = local[s]
  BY <1>1 DEF Goto, TypeOK
<1>4. RunStarted(r)'
  BY <1>2, <1>3 DEF RunStarted, Fetching
<1>5. RowStarted'
  BY <1>1 DEF StartedInv, RowStarted, Beyond
<1>6. QED
  BY <1>1, <1>3, <1>4, <1>5, StartedKept

LEMMA TransitionStarts ==
  ASSUME TypeOK, TypeOK', StartedInv, NEW r \in Runners,
         Begin(r) \/ Advance(r) \/ FailWrite(r)
  PROVE  StartedInv'
<1>1. /\ UNCHANGED <<params, local>>
      /\ \A s \in Runners : s # r => pc'[s] = pc[s] /\ seen'[s] = seen[s]
  BY DEF Begin, Advance, FailWrite, Goto, TypeOK, mine
<1>2. RunStarted(r) /\ RowStarted
  BY DEF StartedInv
<1>3. CASE Begin(r)
  <2>1. /\ pc'[r] \in {"phase", "release"} /\ pc[r] = "begin"
        /\ (status' = status /\ seen' = seen) \/ (status' = "discovering" /\ seen'[r] = "discovering")
    BY <1>3 DEF Begin, Goto, TypeOK
  <2>2. RowStarted'
    BY <1>1, <1>2, <2>1, BeyondNames DEF RowStarted, Beyond
  <2>3. Beyond(seen'[r]) => Beyond(seen[r])
    BY <2>1, BeyondNames
  <2>4. RunStarted(r)'
    BY <1>1, <1>2, <2>1, <2>3 DEF RunStarted, Beyond, Listing, Fetching
  <2>5. QED
    BY <1>1, <2>2, <2>4, StartedKept
<1>4. CASE Advance(r)
  <2>1. pc[r] = "advance" /\ pc'[r] \in {"refresh", "fail"}
    BY <1>4 DEF Advance, Goto, TypeOK
  <2>2. params'.started
    BY <1>1, <1>2, <2>1 DEF RunStarted
  <2>3. RowStarted'
    BY <2>2 DEF RowStarted
  <2>4. RunStarted(r)'
    BY <1>1, <1>2, <2>1 DEF RunStarted, Beyond, Listing, Fetching
  <2>5. QED
    BY <1>1, <2>3, <2>4, StartedKept
<1>5. CASE FailWrite(r)
  <2>1. /\ pc'[r] = "release" /\ status' \in {status, "failed"}
    BY <1>5 DEF FailWrite, Goto, TypeOK
  <2>2. RowStarted'
    BY <1>1, <1>2, <2>1, BeyondNames DEF RowStarted, Beyond
  <2>3. RunStarted(r)'
    BY <1>1, <1>2, <2>1 DEF RunStarted, Beyond, Listing, Fetching
  <2>4. QED
    BY <1>1, <2>2, <2>3, StartedKept
<1>6. QED
  BY <1>3, <1>4, <1>5

\* resume() sends a campaign past DISCOVERING only when discovery has started.
LEMMA ResumeStarts ==
  ASSUME RowStarted, ResumeFailed, params' = params
  PROVE  RowStarted'
<1>1. \/ status' = status
      \/ status' = "discovering"
      \/ params.started
  BY DEF ResumeFailed
<1>2. QED
  BY <1>1, BeyondNames DEF RowStarted, Beyond

LEMMA OperatorStarts ==
  ASSUME TypeOK, StartedInv, UNCHANGED <<pc, seen, local>>,
         \/ Pause \/ ResumePaused
         \/ (params' = params /\ status' \in {status, "cancelled"})
  PROVE  StartedInv'
<1>1. RowStarted
  BY DEF StartedInv
<1>2. RowStarted' /\ (params.started => params'.started)
  <2>1. CASE Pause
    <3>1. /\ status' = "paused" /\ params'.pausedFrom = status
          /\ params'.started = params.started
      BY <2>1 DEF Pause, TypeOK, Params
    <3>2. QED
      BY <1>1, <3>1, BeyondNames DEF RowStarted, Beyond
  <2>2. CASE ResumePaused /\ status = "paused"
    <3>1. /\ status' = (IF params.pausedFrom = "none" THEN "discovering" ELSE params.pausedFrom)
          /\ params'.pausedFrom = "none" /\ params'.started = params.started
      BY <2>2 DEF ResumePaused, TypeOK, Params
    <3>2. QED
      BY <1>1, <3>1, BeyondNames DEF RowStarted, Beyond
  <2>3. CASE ResumePaused /\ status # "paused"
    BY <1>1, <2>3 DEF ResumePaused, RowStarted, Beyond
  <2>4. CASE params' = params /\ status' \in {status, "cancelled"}
    BY <1>1, <2>4, BeyondNames DEF RowStarted, Beyond
  <2>5. QED
    BY <2>1, <2>2, <2>3, <2>4
<1>3. \A s \in Runners : RunStarted(s)'
  BY <1>2, OtherStarted DEF StartedInv
<1>4. QED
  BY <1>2, <1>3 DEF StartedInv

\* A watcher's turn: it may resume the campaign, and promises nothing itself.
LEMMA WatchStarts ==
  ASSUME TypeOK, StartedInv, NEW r \in Runners, StartWatch(r)
  PROVE  StartedInv'
<1>1. RowStarted' /\ RunStarted(r)
  BY ResumeStarts DEF StartWatch, StartedInv
<1>2. /\ UNCHANGED <<params, seen, local>> /\ pc'[r] = "claim"
      /\ \A s \in Runners : s # r => pc'[s] = pc[s]
  BY DEF StartWatch, Goto, TypeOK, mine
<1>3. RunStarted(r)'
  BY <1>1, <1>2 DEF RunStarted, Beyond, Listing, Fetching
<1>4. QED
  BY <1>1, <1>2, <1>3, StartedKept

\* The claim of a work item, or its call: the run stays where it was, or works on it.
LEMMA ClaimsStart ==
  ASSUME TypeOK, StartedInv, Located, NEW r \in Runners, ClaimItem(r) \/ AiClaim(r)
  PROVE  StartedInv'
<1>1. /\ UNCHANGED <<status, params, seen, local>>
      /\ (pc[r] = "fetch" /\ ClaimItem(r)) \/ (pc[r] = "ai" /\ AiClaim(r))
  BY DEF ClaimItem, AiClaim, row
<1>2. CASE pc[r] = "fetch" /\ ClaimItem(r)
  <2>1. pc' = pc \/ Goto(r, "import")
    BY <1>2, Zenon DEF ClaimItem
  <2>2. Goto(r, "fetch") \/ Goto(r, "import")
    BY <1>2, <2>1 DEF Goto, TypeOK
  <2>3. QED
    BY <1>1, <1>2, <2>2, StartedOn DEF Labels, Fetching, Listing
<1>3. CASE pc[r] = "ai" /\ AiClaim(r)
  <2>1. pc' = pc \/ Goto(r, "aiWork")
    BY <1>3, Zenon DEF AiClaim
  <2>2. Goto(r, "ai") \/ Goto(r, "aiWork")
    BY <1>3, <2>1 DEF Goto, TypeOK
  <2>3. QED
    BY <1>1, <1>3, <2>2, StartedOn DEF Labels, Fetching, Listing, Located
<1>4. QED
  BY <1>1, <1>2, <1>3

LEMMA StartedStep ==
  ASSUME TypeOK, TypeOK', Located, StartedInv, [Next]_vars
  PROVE  StartedInv'
<1> USE DEF row, mine
<1>0. /\ pc \in [Runners -> Labels] /\ local \in [Runners -> Params]
      /\ seen \in [Runners -> Statuses]
  BY DEF TypeOK
<1>1. ASSUME NEW r \in Runners,
             StartTask(r) \/ Claim(r) \/ NoPhase(r) \/ Release(r) \/ Abort(r) \/ Finish(r) \/ Crash(r)
      PROVE  StartedInv'
  <2>1. /\ UNCHANGED <<status, params>> /\ local'[r] \in {local[r], FreshParams}
        /\ \A s \in Runners : s # r => seen'[s] = seen[s] /\ local'[s] = local[s]
    BY <1>0, <1>1 DEF StartTask, Claim, NoPhase, Release, Abort, Finish, Crash, Forget
  <2>2. \E l \in {"claim", "load", "finish", "release", "fail", "idle"} : Goto(r, l)
    BY <1>1 DEF StartTask, Claim, NoPhase, Release, Abort, Finish, Crash
  <2>3. QED
    BY <2>1, <2>2, StartedRest DEF Labels, Listing, Fetching
<1>2. ASSUME NEW r \in Runners, Load(r) \/ Refresh(r) \/ FailLoad(r) \/ Resume(r)
      PROVE  StartedInv'
  <2>1. /\ params' = params /\ seen' = [seen EXCEPT ![r] = status']
        /\ local' = [local EXCEPT ![r] = params]
    BY <1>2 DEF Load, Refresh, FailLoad, Resume, Reread
  <2>2. \E l \in {"resume", "begin", "phase", "release", "failing"} : Goto(r, l)
    BY <1>2 DEF Load, Refresh, FailLoad, Resume
  <2>3. RowStarted'
    <3>1. CASE Resume(r)
      BY <2>1, <3>1, ResumeStarts DEF Resume, StartedInv
    <3>2. CASE status' = status
      BY <2>1, <3>2 DEF StartedInv, RowStarted, Beyond
    <3>3. QED
      BY <1>2, <3>1, <3>2 DEF Load, Refresh, FailLoad
  <2>4. QED
    BY <2>1, <2>2, <2>3, StartedRead DEF Labels, Listing, Fetching
<1>3. ASSUME NEW r \in Runners, DiscoverPage(r) \/ Begin(r) \/ Advance(r) \/ FailWrite(r)
      PROVE  StartedInv'
  BY <1>3, DiscoverStarts, TransitionStarts
<1>4. ASSUME NEW r \in Runners, SavePage(r) \/ SaveCrawl(r) \/ Truncate(r)
      PROVE  StartedInv'
  <2>1. local[r].started
    BY <1>4 DEF StartedInv, RunStarted, Listing, SavePage, SaveCrawl, Truncate
  <2>2. /\ UNCHANGED <<status, seen>> /\ params' = local'[r]
        /\ \A s \in Runners : s # r => local'[s] = local[s]
    BY <1>0, <1>4 DEF SavePage, SaveCrawl, Truncate
  <2>3. local'[r].started /\ local'[r].pausedFrom = local[r].pausedFrom
    BY <1>0, <1>4, <2>1 DEF SavePage, SaveCrawl, Truncate, Params
  <2>4. \E l \in {"truncate", "page", "saveCrawl", "advance", "release"} : Goto(r, l)
    BY <1>4 DEF SavePage, SaveCrawl, Truncate, AdvanceTo
  <2>5. QED
    BY <2>1, <2>2, <2>3, <2>4, StartedWrite DEF Labels
<1>5. ASSUME NEW r \in Runners,
             \/ FetchBegin(r) \/ ImportOk(r) \/ ImportGone(r) \/ ImportRetry(r) \/ ImportError(r)
             \/ Count(r)
      PROVE  StartedInv'
  <2>1. /\ UNCHANGED <<status, params, seen, local>>
        /\ \/ pc[r] \in Fetching
           \/ pc[r] = "phase" /\ seen[r] = "fetching"
    BY <1>5 DEF FetchBegin, ImportOk, ImportGone, ImportRetry, ImportError, MayAnswer, Count,
      Fetching
  <2>2. \E l \in Fetching : Goto(r, l)
    BY <1>5 DEF FetchBegin, ImportOk, ImportGone, ImportRetry, ImportError, Count, Fetching
  <2>3. QED
    BY <2>1, <2>2, PhaseNames, StartedOn DEF Labels, Listing, Fetching
<1>6. ASSUME NEW r \in Runners, FetchEnd(r)
      PROVE  StartedInv'
  <2>1. /\ pc[r] = "fetch" /\ UNCHANGED <<status, params>>
        /\ \A s \in Runners : s # r => seen'[s] = seen[s] /\ local'[s] = local[s]
        /\ local'[r] = params
    BY <1>0, <1>6 DEF FetchEnd, Reread
  <2>2. \E l \in {"release", "fail", "advance"} : Goto(r, l)
    BY <1>6 DEF FetchEnd, AdvanceTo
  <2>3. params.started
    BY <2>1 DEF StartedInv, RunStarted, Fetching
  <2>4. RowStarted'
    BY <2>1 DEF StartedInv, RowStarted, Beyond
  <2>5. /\ pc'[r] \in {"release", "fail", "advance"}
        /\ \A s \in Runners : s # r => pc'[s] = pc[s]
    BY <1>0, <2>2 DEF Goto
  <2>6. RunStarted(r)'
    BY <2>1, <2>3, <2>5 DEF RunStarted
  <2>7. QED
    BY <2>1, <2>4, <2>5, <2>6, StartedKept
<1>7. ASSUME NEW r \in Runners, Mapping(r) \/ AiBegin(r) \/ AiEnd(r) \/ AiError(r) \/ Reconcile(r)
      PROVE  StartedInv'
  <2>1. /\ UNCHANGED <<status, params, seen, local>>
        /\ \/ pc[r] \in {"ai", "aiWork"} /\ seen[r] \in AiPhases
           \/ pc[r] = "phase" /\ seen[r] \in Phases /\ seen[r] # "discovering"
    BY <1>7, PhaseNames DEF Mapping, AiBegin, AiEnd, AiError, Reconcile, AiPhases, Located
  <2>2. \E l \in {"advance", "ai", "release", "fail"} : Goto(r, l)
    BY <1>7 DEF Mapping, AiBegin, AiEnd, AiError, Reconcile, AdvanceTo
  <2>3. QED
    BY <2>1, <2>2, StartedOn DEF Labels, Listing, Fetching
<1>8. ASSUME NEW r \in Runners, AiOk(r) \/ Review(r)
      PROVE  StartedInv'
  <2>1. Beyond(seen[r]) /\ pc[r] \in {"aiWork", "phase"}
    BY <1>8, BeyondNames, PhaseNames DEF AiOk, Review, AiPhases, Located
  <2>2. local[r].started /\ params.started
    BY <2>1 DEF StartedInv, RunStarted
  <2>3. /\ UNCHANGED <<status, seen>> /\ params' \in {params, local'[r]}
        /\ \A s \in Runners : s # r => local'[s] = local[s]
    BY <1>0, <1>8 DEF AiOk, Review
  <2>4. local'[r].started /\ local'[r].pausedFrom = local[r].pausedFrom
    BY <1>0, <1>8, <2>2 DEF AiOk, Review, Params
  <2>5. \E l \in {"ai", "advance"} : Goto(r, l)
    BY <1>8 DEF AiOk, Review, AdvanceTo
  <2>6. params'.started
    BY <2>2, <2>3, <2>4
  <2>7. RowStarted' /\ RunStarted(r)'
    BY <2>4, <2>6 DEF RowStarted, RunStarted
  <2>8. \A s \in Runners : s # r => pc'[s] = pc[s]
    BY <1>0, <2>5 DEF Goto
  <2>9. QED
    BY <2>3, <2>6, <2>7, <2>8, StartedKept
<1>9. ASSUME Clock \/ Operator \/ UNCHANGED vars
      PROVE  StartedInv'
  <2>1. UNCHANGED <<pc, seen, local>>
    BY <1>9 DEF Clock, LeaseExpires, ItemLeaseExpires, RetryDue, Operator, Pause, ResumePaused,
      Cancel, CreateAgain, vars
  <2>2. Pause \/ ResumePaused \/ (params' = params /\ status' \in {status, "cancelled"})
    BY <1>9 DEF Clock, LeaseExpires, ItemLeaseExpires, RetryDue, Operator, Cancel, CreateAgain, vars
  <2>3. QED
    BY <2>1, <2>2, OperatorStarts
<1>10. QED
  BY <1>1, <1>2, <1>3, <1>4, <1>5, <1>6, <1>7, <1>8, <1>9, WatchStarts, ClaimsStart, Zenon
  DEF Next, Start, Run

LEMMA StartedInit == Init => StartedInv
<1> SUFFICES ASSUME Init
             PROVE  StartedInv
  OBVIOUS
<1>1. /\ status = "queued" /\ params = FreshParams
      /\ \A r \in Runners : pc[r] = "idle" /\ local[r] = FreshParams
  BY DEF Init
<1>2. QED
  BY <1>1, BeyondNames DEF StartedInv, RowStarted, RunStarted, FreshParams, Listing, Fetching

\* A step marks records MISSING only after the whole catalogue was listed.
LEMMA MissingStep ==
  ASSUME TypeOK, StartedInv, ~Incremental => CoverInv, [Next]_vars
  PROVE  (active \ active') \intersect Ids = {}
<1> USE DEF row, mine
<1>1. CASE active \subseteq active'
  BY <1>1
<1>2. ASSUME NEW r \in Runners, Reconcile(r)
      PROVE  (active \ active') \intersect Ids = {}
  <2>1. CASE ~CanMarkMissing(local[r])
    BY <1>2, <2>1 DEF Reconcile
  <2>2. CASE CanMarkMissing(local[r])
    <3>1. /\ pc[r] = "phase" /\ seen[r] = "reconciling" /\ active' = active \intersect SeenIds
      BY <1>2, <2>2 DEF Reconcile
    <3>2. local[r].started
      BY <3>1, BeyondNames, PhaseNames DEF StartedInv, RunStarted
    <3>3. Listed(local[r]) /\ ~local[r].truncated /\ ~Incremental
      BY <2>2, <3>2 DEF Listed, CanMarkMissing
    <3>4. Ids \subseteq SeenIds
      BY <3>3 DEF CoverInv, CoveredBy, Promised
    <3>5. QED
      BY <3>1, <3>4
  <2>3. QED
    BY <2>1, <2>2
<1>3. ASSUME NEW r \in Runners, Start(r) \/ AiError(r) \/ Abort(r) \/ Crash(r)
      PROVE  active \subseteq active'
  BY <1>3 DEF Start, StartTask, StartWatch, AiError, Abort, Crash
<1>4. ASSUME NEW r \in Runners,
             \/ Claim(r) \/ Load(r) \/ Resume(r) \/ Begin(r) \/ NoPhase(r) \/ Advance(r) \/ Refresh(r)
             \/ DiscoverPage(r) \/ SavePage(r) \/ Truncate(r) \/ SaveCrawl(r)
             \/ FailLoad(r) \/ FailWrite(r) \/ Release(r) \/ Finish(r)
      PROVE  active \subseteq active'
  BY <1>4 DEF Claim, Load, Resume, Begin, NoPhase, Advance, Refresh, DiscoverPage, SavePage,
    Truncate, SaveCrawl, FailLoad, FailWrite, Release, Finish
<1>5. ASSUME NEW r \in Runners,
             \/ FetchBegin(r) \/ ClaimItem(r) \/ ImportOk(r) \/ ImportGone(r) \/ ImportRetry(r)
             \/ ImportError(r) \/ Count(r) \/ FetchEnd(r)
             \/ Mapping(r) \/ AiBegin(r) \/ AiClaim(r) \/ AiOk(r) \/ AiEnd(r) \/ Review(r)
      PROVE  active \subseteq active'
  BY <1>5 DEF FetchBegin, ClaimItem, ImportOk, ImportGone, ImportRetry, ImportError, Count,
    FetchEnd, Mapping, AiBegin, AiClaim, AiOk, AiEnd, Review
<1>6. ASSUME Clock \/ Operator \/ UNCHANGED vars
      PROVE  active \subseteq active'
  BY <1>6 DEF Clock, LeaseExpires, ItemLeaseExpires, RetryDue, Operator, Pause, ResumePaused,
    Cancel, CreateAgain, vars
<1>7. QED
  BY <1>1, <1>2, <1>3, <1>4, <1>5, <1>6, Zenon DEF Next, Run

\* Overlapping runs, stale copies of the parameters, pauses, truncation and crashes never
\* make the reconciliation of a full campaign mark a record MISSING that the catalogue
\* lists: no record in the catalogue leaves ACTIVE.
THEOREM MissingAreUnlisted == Safety => MissingOnlyIfUnlisted
<1> DEFINE Inv == TypeOK /\ Located /\ Paid /\ StartedInv /\ (~Incremental => CoverInv)
<1>1. Init => Inv
  <2>1. Init => Paid
    BY DEF Init, Paid, Stamped, InFlight, Apart, AbsentItem, NewItem
  <2>2. QED
    BY <2>1, InvariantInit, StartedInit, CoverInit
<1>2. Inv /\ [Next]_vars => Inv'
  <2> SUFFICES ASSUME Inv, [Next]_vars
               PROVE  Inv'
    OBVIOUS
  <2>1. TypeOK' /\ Located' /\ Paid'
    BY TypeStep, LocatedStep, PaidStep
  <2>2. StartedInv'
    BY <2>1, StartedStep
  <2>3. ASSUME ~Incremental
        PROVE  CoverInv'
    <3>1. PromotedAtEnd
      BY <2>3 DEF PromotedAtEnd, PromotesWatermark
    <3>2. QED
      BY <2>3, <3>1, CoverStep
  <2>4. QED
    BY <2>1, <2>2, <2>3
<1>3. Inv /\ [Next]_vars => [(active \ active') \intersect Ids = {}]_vars
  BY MissingStep
<1>4. QED
  BY <1>1, <1>2, <1>3, PTL DEF Safety, MissingOnlyIfUnlisted

-----------------------------------------------------------------------------
(***************************************************************************)
(* Campaigns without a limit of pages, with watchers too.                  *)
(***************************************************************************)
AllSeen == Promised \subseteq SeenIds
\* A run that works past discovery, or whose copy of the document says it was past it.
RunPast(r) ==
  \/ Beyond(local[r].pausedFrom)
  \/ pc[r] \in Fetching \union {"advance"}
  \/ pc[r] \in {"begin", "phase", "ai", "aiWork"} /\ Beyond(seen[r])
RowPast == Beyond(status) \/ Beyond(params.pausedFrom)
Untruncated == ~params.truncated /\ \A r \in Runners : ~local[r].truncated /\ pc[r] # "truncate"
\* Nobody is past discovery before the whole catalogue was listed.
PastInv == ~AllSeen => ~RowPast /\ \A r \in Runners : ~RunPast(r)
UnlimitedInv == Untruncated /\ PastInv

LEMMA UntruncatedKept ==
  ASSUME TypeOK, Untruncated, NEW r \in Runners, NEW l \in Labels \ {"truncate"}, Goto(r, l),
         params'.truncated \in {params.truncated, local[r].truncated},
         local'[r].truncated \in {local[r].truncated, params.truncated, FALSE},
         \A s \in Runners : s # r => local'[s] = local[s]
  PROVE  Untruncated'
<1>1. pc'[r] = l /\ \A s \in Runners : s # r => pc'[s] = pc[s]
  BY DEF Goto, TypeOK
<1>2. QED
  BY <1>1 DEF Untruncated

LEMMA UntruncatedStep ==
  ASSUME MaxPages = 0, TypeOK, Untruncated, [Next]_vars
  PROVE  Untruncated'
<1> USE DEF row, mine
<1>0. pc \in [Runners -> Labels] /\ local \in [Runners -> Params] /\ params \in Params
  BY DEF TypeOK
<1>1. ASSUME NEW r \in Runners,
             \/ StartTask(r) \/ StartWatch(r) \/ Claim(r) \/ Begin(r) \/ NoPhase(r) \/ Advance(r)
             \/ FailWrite(r) \/ Release(r) \/ Abort(r)
      PROVE  Untruncated'
  <2>1. UNCHANGED <<params, local>>
    BY <1>1 DEF StartTask, StartWatch, Claim, Begin, NoPhase, Advance, FailWrite, Release, Abort
  <2>2. \E l \in Labels \ {"truncate"} : Goto(r, l)
    BY <1>1 DEF StartTask, StartWatch, Claim, Begin, NoPhase, Advance, FailWrite, Release, Abort,
      Labels
  <2>3. QED
    BY <2>1, <2>2, UntruncatedKept
<1>2. ASSUME NEW r \in Runners, Load(r) \/ Resume(r) \/ Refresh(r) \/ FetchEnd(r) \/ FailLoad(r)
      PROVE  Untruncated'
  <2>1. params' = params /\ local' = [local EXCEPT ![r] = params]
    BY <1>2 DEF Load, Resume, Refresh, FetchEnd, FailLoad, Reread
  <2>2. \E l \in Labels \ {"truncate"} : Goto(r, l)
    BY <1>2 DEF Load, Resume, Refresh, FetchEnd, FailLoad, AdvanceTo, Labels
  <2>3. QED
    BY <1>0, <2>1, <2>2, UntruncatedKept
<1>3. ASSUME NEW r \in Runners, Finish(r) \/ Crash(r)
      PROVE  Untruncated'
  <2>1. /\ params' = params /\ local' = [local EXCEPT ![r] = FreshParams]
        /\ Goto(r, "idle") /\ "idle" \in Labels
    BY <1>3 DEF Finish, Crash, Forget, Labels
  <2>2. FreshParams.truncated = FALSE
    BY DEF FreshParams
  <2>3. QED
    BY <1>0, <2>1, <2>2, UntruncatedKept
<1>4. ASSUME NEW r \in Runners, DiscoverPage(r)
      PROVE  Untruncated'
  <2> DEFINE n == IF local[r].next = 0 THEN 1 ELSE local[r].next
  <2>1. /\ local' = [local EXCEPT ![r] = PageParams(local[r], n)] /\ params' = params
        /\ Goto(r, "savePage") /\ "savePage" \in Labels
    BY <1>4 DEF DiscoverPage, Labels
  <2>2. PageParams(local[r], n).truncated = local[r].truncated
    BY <1>0 DEF PageParams, Params
  <2>3. QED
    BY <1>0, <2>1, <2>2, UntruncatedKept
<1>5. ASSUME NEW r \in Runners, SavePage(r) \/ SaveCrawl(r)
      PROVE  Untruncated'
  <2>1. params' = local[r] /\ local' = local
    BY <1>5 DEF SavePage, SaveCrawl
  <2>2. \E l \in {"page", "saveCrawl", "advance", "release"} : Goto(r, l)
    BY <1>5 DEF SavePage, SaveCrawl, AdvanceTo
  <2>3. QED
    BY <2>1, <2>2, UntruncatedKept DEF Labels
<1>6. ASSUME NEW r \in Runners, Truncate(r)
      PROVE  Untruncated'
  BY <1>6 DEF Truncate, Untruncated
<1>7. ASSUME NEW r \in Runners,
             \/ FetchBegin(r) \/ ImportOk(r) \/ ImportGone(r) \/ ImportRetry(r) \/ ImportError(r)
             \/ Count(r) \/ Mapping(r) \/ AiBegin(r) \/ AiError(r) \/ AiEnd(r) \/ Reconcile(r)
      PROVE  Untruncated'
  <2>1. UNCHANGED <<params, local>>
    BY <1>7 DEF FetchBegin, ImportOk, ImportGone, ImportRetry, ImportError, Count, Mapping, AiBegin,
      AiError, AiEnd, Reconcile
  <2>2. \E l \in Labels \ {"truncate"} : Goto(r, l)
    BY <1>7 DEF FetchBegin, ImportOk, ImportGone, ImportRetry, ImportError, Count, Mapping, AiBegin,
      AiError, AiEnd, Reconcile, AdvanceTo, Labels
  <2>3. QED
    BY <2>1, <2>2, UntruncatedKept
<1>8. ASSUME NEW r \in Runners, AiOk(r) \/ Review(r)
      PROVE  Untruncated'
  <2>1. /\ local' = local \/ local' = [local EXCEPT ![r] =
                                  [local[r] EXCEPT !.watermark = local[r].pending, !.pending = 0]]
        /\ params' \in {params, local'[r]}
    BY <1>0, <1>8 DEF AiOk, Review
  <2>2. local'[r].truncated = local[r].truncated
    BY <1>0, <2>1 DEF Params
  <2>3. \E l \in {"ai", "advance"} : Goto(r, l)
    BY <1>8 DEF AiOk, Review, AdvanceTo
  <2>4. QED
    BY <1>0, <2>1, <2>2, <2>3, UntruncatedKept DEF Labels
<1>9. ASSUME NEW r \in Runners, ClaimItem(r) \/ AiClaim(r)
      PROVE  Untruncated'
  <2>1. UNCHANGED <<params, local>>
    BY <1>9 DEF ClaimItem, AiClaim
  <2>2. \/ pc' = pc
        \/ \E l \in {"import", "aiWork"} : Goto(r, l)
    BY <1>9, Zenon DEF ClaimItem, AiClaim
  <2>3. QED
    BY <1>0, <2>1, <2>2, UntruncatedKept DEF Labels, Untruncated
<1>10. ASSUME Clock \/ Operator \/ UNCHANGED vars
       PROVE  Untruncated'
  <2>1. UNCHANGED <<pc, local>>
    BY <1>10 DEF Clock, LeaseExpires, ItemLeaseExpires, RetryDue, Operator, Pause, ResumePaused,
      Cancel, CreateAgain, vars
  <2>2. \/ params' = params
        \/ \E s \in Active \union {"none"} : params' = [params EXCEPT !.pausedFrom = s]
    BY <1>10 DEF Clock, LeaseExpires, ItemLeaseExpires, RetryDue, Operator, Pause, ResumePaused,
      Cancel, CreateAgain, vars
  <2>3. params'.truncated = params.truncated
    BY <1>0, <2>2 DEF Params
  <2>4. QED
    BY <2>1, <2>3 DEF Untruncated
<1>11. QED
  BY <1>1, <1>2, <1>3, <1>4, <1>5, <1>6, <1>7, <1>8, <1>9, <1>10, Zenon DEF Next, Start, Run

\* resume() sends a campaign past DISCOVERING only when its listing has ended.
LEMMA ResumeUnlisted ==
  ASSUME CoverInv, Untruncated, ~AllSeen, ~Beyond(status), ResumeFailed
  PROVE  ~Beyond(status')
<1>1. ~Listed(params)
  BY DEF CoverInv, CoveredBy, Untruncated, AllSeen
<1>2. status' \in {status, "discovering"}
  BY <1>1 DEF ResumeFailed, Listed
<1>3. QED
  BY <1>2, BeyondNames

\* A step of one run, for the others.
LEMMA PastKept ==
  ASSUME NEW r \in Runners, \A s \in Runners : ~RunPast(s), ~RowPast', ~RunPast(r)',
         \A s \in Runners : s # r =>
           pc'[s] = pc[s] /\ seen'[s] = seen[s] /\ local'[s] = local[s]
  PROVE  ~RowPast' /\ \A s \in Runners : ~RunPast(s)'
<1>1. \A s \in Runners : s # r => ~RunPast(s)'
  BY Zenon DEF RunPast, Beyond
<1>2. QED
  BY <1>1

\* Whoever works past discovery has seen the end of the listing.
LEMMA NothingPast ==
  ASSUME Located, Untruncated, NEW r \in Runners, ~RunPast(r),
         \/ FetchBegin(r) \/ ClaimItem(r) \/ ImportOk(r) \/ ImportGone(r) \/ ImportRetry(r)
         \/ ImportError(r) \/ Count(r) \/ FetchEnd(r) \/ Advance(r) \/ Truncate(r)
         \/ Mapping(r) \/ AiBegin(r) \/ AiClaim(r) \/ AiOk(r) \/ AiError(r) \/ AiEnd(r)
         \/ Reconcile(r) \/ Review(r)
  PROVE  FALSE
<1>1. /\ pc[r] \notin Fetching \union {"advance"} /\ pc[r] # "truncate"
      /\ ~(pc[r] = "phase" /\ seen[r] \in Phases \ {"discovering"})
  BY BeyondNames DEF RunPast, Untruncated
<1>2. pc[r] \notin {"ai", "aiWork"}
  BY BeyondNames, PhaseNames DEF Located, AiPhases, RunPast
<1>3. QED
  BY <1>1, <1>2, PhaseNames DEF FetchBegin, ClaimItem, ImportOk, ImportGone, ImportRetry,
    ImportError, MayAnswer, Count, FetchEnd, Advance, Truncate, Mapping, AiBegin, AiClaim, AiOk,
    AiError, AiEnd, Reconcile, Review, AiPhases, Fetching

\* The start, the end and the reading of a run, and its listing, lead nobody past discovery.
LEMMA PastRun ==
  ASSUME MaxPages = 0, TypeOK, CoverInv, Untruncated, ~AllSeen, ~RowPast,
         \A s \in Runners : ~RunPast(s), NEW r \in Runners,
         \/ Start(r) \/ Claim(r) \/ Load(r) \/ Resume(r) \/ Begin(r) \/ NoPhase(r) \/ Refresh(r)
         \/ DiscoverPage(r) \/ SavePage(r) \/ SaveCrawl(r) \/ FailLoad(r) \/ FailWrite(r)
         \/ Release(r) \/ Finish(r) \/ Abort(r) \/ Crash(r)
  PROVE  ~RowPast' /\ \A s \in Runners : ~RunPast(s)'
<1> USE DEF row, mine
<1>0. /\ pc \in [Runners -> Labels] /\ local \in [Runners -> Params] /\ params \in Params
      /\ seen \in [Runners -> Statuses]
  BY DEF TypeOK
<1>a. /\ ~Beyond(status) /\ ~Beyond(params.pausedFrom) /\ ~Beyond(local[r].pausedFrom)
      /\ pc[r] \in {"begin", "phase"} => ~Beyond(seen[r])
      /\ ~Beyond("none") /\ ~Beyond("discovering") /\ ~Beyond("failed") /\ ~Beyond("queued")
  BY BeyondNames DEF RowPast, RunPast
<1> HIDE DEF Beyond
<1>1. CASE StartTask(r) \/ Claim(r) \/ NoPhase(r) \/ Release(r) \/ Abort(r) \/ Finish(r) \/ Crash(r)
  <2>1. /\ UNCHANGED <<status, params>> /\ local'[r] \in {local[r], FreshParams}
        /\ \A s \in Runners : s # r => seen'[s] = seen[s] /\ local'[s] = local[s]
    BY <1>0, <1>1 DEF StartTask, Claim, NoPhase, Release, Abort, Finish, Crash, Forget
  <2>2. \E l \in {"claim", "load", "finish", "release", "fail", "idle"} : Goto(r, l)
    BY <1>1 DEF StartTask, Claim, NoPhase, Release, Abort, Finish, Crash
  <2>3. /\ pc'[r] \in {"claim", "load", "finish", "release", "fail", "idle"}
        /\ \A s \in Runners : s # r => pc'[s] = pc[s]
    BY <1>0, <2>2 DEF Goto
  <2>4. ~RowPast' /\ ~RunPast(r)'
    BY <1>a, <2>1, <2>3 DEF RowPast, RunPast, FreshParams, Fetching
  <2>5. QED
    BY <2>1, <2>3, <2>4, PastKept
<1>2. CASE Load(r) \/ Refresh(r) \/ FailLoad(r) \/ Resume(r)
  <2>1. /\ params' = params /\ seen' = [seen EXCEPT ![r] = status']
        /\ local' = [local EXCEPT ![r] = params]
    BY <1>2 DEF Load, Refresh, FailLoad, Resume, Reread
  <2>2. \E l \in {"resume", "begin", "phase", "release", "failing"} : Goto(r, l)
    BY <1>2 DEF Load, Refresh, FailLoad, Resume
  <2>3. /\ pc'[r] \in {"resume", "begin", "phase", "release", "failing"}
        /\ \A s \in Runners : s # r =>
             pc'[s] = pc[s] /\ seen'[s] = seen[s] /\ local'[s] = local[s]
        /\ seen'[r] = status' /\ local'[r] = params
    BY <1>0, <2>1, <2>2 DEF Goto
  <2>4. ~Beyond(status')
    <3>1. CASE Resume(r)
      BY <1>a, <3>1, ResumeUnlisted DEF Resume
    <3>2. CASE status' = status
      BY <1>a, <3>2
    <3>3. QED
      BY <1>2, <3>1, <3>2 DEF Load, Refresh, FailLoad
  <2>5. ~RowPast' /\ ~RunPast(r)'
    BY <1>a, <2>1, <2>3, <2>4 DEF RowPast, RunPast, Fetching
  <2>6. QED
    BY <2>3, <2>5, PastKept
<1>3. CASE StartWatch(r)
  <2>1. ~Beyond(status')
    BY <1>a, <1>3, ResumeUnlisted DEF StartWatch
  <2>2. /\ UNCHANGED <<params, seen, local>> /\ pc'[r] = "claim"
        /\ \A s \in Runners : s # r => pc'[s] = pc[s]
    BY <1>0, <1>3 DEF StartWatch, Goto
  <2>3. ~RowPast' /\ ~RunPast(r)'
    BY <1>a, <2>1, <2>2 DEF RowPast, RunPast, Fetching
  <2>4. QED
    BY <2>2, <2>3, PastKept
<1>4. CASE Begin(r)
  <2>1. /\ UNCHANGED <<params, local>> /\ pc'[r] \in {"phase", "release"} /\ pc[r] = "begin"
        /\ \A s \in Runners : s # r => pc'[s] = pc[s] /\ seen'[s] = seen[s]
        /\ \/ status' = status /\ seen' = seen
           \/ status' = "discovering" /\ seen'[r] = "discovering"
    BY <1>0, <1>4 DEF Begin, Goto
  <2>2. ~RowPast' /\ ~RunPast(r)'
    BY <1>a, <2>1 DEF RowPast, RunPast, Fetching
  <2>3. QED
    BY <2>1, <2>2, PastKept
<1>5. CASE FailWrite(r)
  <2>1. /\ UNCHANGED <<params, local, seen>> /\ pc'[r] = "release" /\ status' \in {status, "failed"}
        /\ \A s \in Runners : s # r => pc'[s] = pc[s]
    BY <1>0, <1>5 DEF FailWrite, Goto
  <2>2. ~RowPast' /\ ~RunPast(r)'
    BY <1>a, <2>1 DEF RowPast, RunPast, Fetching
  <2>3. QED
    BY <2>1, <2>2, PastKept
<1>6. CASE DiscoverPage(r)
  <2> DEFINE n == IF local[r].next = 0 THEN 1 ELSE local[r].next
  <2>1. /\ local' = [local EXCEPT ![r] = PageParams(local[r], n)] /\ Goto(r, "savePage")
        /\ UNCHANGED <<status, params, seen>>
    BY <1>6 DEF DiscoverPage
  <2>2. PageParams(local[r], n).pausedFrom = local[r].pausedFrom
    BY <1>0 DEF PageParams, Params
  <2>3. /\ pc'[r] = "savePage" /\ local'[r].pausedFrom = local[r].pausedFrom
        /\ \A s \in Runners : s # r => pc'[s] = pc[s] /\ local'[s] = local[s]
    BY <1>0, <2>1, <2>2 DEF Goto
  <2>4. ~RowPast' /\ ~RunPast(r)'
    BY <1>a, <2>1, <2>3 DEF RowPast, RunPast, Fetching
  <2>5. QED
    BY <2>1, <2>3, <2>4, PastKept
<1>7. CASE SavePage(r) \/ SaveCrawl(r)
  <2>1. local[r].next # 0 \/ SavePage(r)
    BY <1>7 DEF SaveCrawl, CoverInv, Ending, AllSeen
  <2>2. /\ params' = local[r] /\ UNCHANGED <<status, seen, local>>
        /\ \E l \in {"page", "saveCrawl", "release"} : Goto(r, l)
    BY <1>7, <2>1 DEF SavePage, SaveCrawl
  <2>3. /\ pc'[r] \in {"page", "saveCrawl", "release"}
        /\ \A s \in Runners : s # r => pc'[s] = pc[s]
    BY <1>0, <2>2 DEF Goto
  <2>4. ~RowPast' /\ ~RunPast(r)'
    BY <1>a, <2>2, <2>3 DEF RowPast, RunPast, Fetching
  <2>5. QED
    BY <2>2, <2>3, <2>4, PastKept
<1>8. QED
  BY <1>1, <1>2, <1>3, <1>4, <1>5, <1>6, <1>7 DEF Start

LEMMA PastStep ==
  ASSUME MaxPages = 0, TypeOK, Located, Paid, CoverInv, UnlimitedInv, [Next]_vars
  PROVE  PastInv'
<1> SUFFICES ASSUME ~AllSeen'
             PROVE  ~RowPast' /\ \A s \in Runners : ~RunPast(s)'
  BY DEF PastInv
<1>1. ~AllSeen
  BY SeenGrows DEF AllSeen
<1>2. Untruncated /\ ~RowPast /\ \A s \in Runners : ~RunPast(s)
  BY <1>1 DEF UnlimitedInv, PastInv
<1>3. ASSUME NEW r \in Runners, Start(r) \/ Run(r) \/ AiError(r) \/ Abort(r) \/ Crash(r)
      PROVE  ~RowPast' /\ \A s \in Runners : ~RunPast(s)'
  BY <1>1, <1>2, <1>3, NothingPast, PastRun, Zenon DEF Run
<1>4. CASE Clock \/ Operator \/ UNCHANGED vars
  <2>1. UNCHANGED <<pc, seen, local>>
    BY <1>4 DEF Clock, LeaseExpires, ItemLeaseExpires, RetryDue, Operator, Pause, ResumePaused,
      Cancel, CreateAgain, vars, mine
  <2>2. \A s \in Runners : ~RunPast(s)'
    BY <1>2, <2>1 DEF RunPast, Beyond
  <2>3. ~Beyond(status) /\ ~Beyond(params.pausedFrom)
    BY <1>2 DEF RowPast
  <2>4. ~RowPast'
    <3>1. CASE Pause
      <4>1. status' = "paused" /\ params'.pausedFrom = status
        BY <3>1 DEF Pause, TypeOK, Params
      <4>2. QED
        BY <2>3, <4>1, BeyondNames DEF RowPast, Beyond
    <3>2. CASE ResumePaused /\ status = "paused"
      <4>1. /\ status' = (IF params.pausedFrom = "none" THEN "discovering" ELSE params.pausedFrom)
            /\ params'.pausedFrom = "none"
        BY <3>2 DEF ResumePaused, TypeOK, Params
      <4>2. QED
        BY <2>3, <4>1, BeyondNames DEF RowPast, Beyond
    <3>3. CASE params' = params /\ status' \in {status, "cancelled"}
      BY <2>3, <3>3, BeyondNames DEF RowPast, Beyond
    <3>4. QED
      BY <1>4, <3>1, <3>2, <3>3 DEF Clock, LeaseExpires, ItemLeaseExpires, RetryDue, Operator,
        ResumePaused, Cancel, CreateAgain, vars, row
  <2>5. QED
    BY <2>2, <2>4
<1>5. QED
  BY <1>3, <1>4 DEF Next

\* Everything the two theorems below rest on.
UnlimitedWorks == TypeOK /\ Located /\ Paid /\ CoverInv /\ UnlimitedInv

LEMMA UnlimitedInit == Init => UnlimitedWorks
<1> SUFFICES ASSUME Init
             PROVE  UnlimitedWorks
  OBVIOUS
<1>1. Paid
  BY DEF Init, Paid, Stamped, InFlight, Apart, AbsentItem, NewItem
<1>2. /\ status = "queued" /\ params = FreshParams
      /\ \A r \in Runners : pc[r] = "idle" /\ local[r] = FreshParams
  BY DEF Init
<1>3. UnlimitedInv
  BY <1>2, BeyondNames DEF UnlimitedInv, Untruncated, PastInv, RowPast, RunPast, FreshParams,
    Fetching
<1>4. QED
  BY <1>1, <1>3, InvariantInit, CoverInit DEF UnlimitedWorks

LEMMA UnlimitedStep ==
  ASSUME MaxPages = 0, UnlimitedWorks, [Next]_vars
  PROVE  UnlimitedWorks'
<1> USE DEF UnlimitedWorks
<1>1. TypeOK' /\ Located' /\ Paid'
  BY TypeStep, LocatedStep, PaidStep
<1>2. UnlimitedInv'
  BY UntruncatedStep, PastStep DEF UnlimitedInv
<1>3. PromotedAtEnd
  <2>1. ASSUME NEW r \in Runners, pc[r] = "phase", seen[r] = "reviewing"
        PROVE  AllSeen
    BY <2>1, BeyondNames, PhaseNames DEF UnlimitedInv, PastInv, RunPast
  <2>2. QED
    BY <2>1 DEF PromotedAtEnd, AllSeen
<1>4. CoverInv'
  BY <1>3, CoverStep
<1>5. QED
  BY <1>1, <1>2, <1>4

\* Without a limit of pages the watermark of a delta campaign covers every promised id dated
\* up to it even when `--watch' processes outlive their lease and write old parameters back
\* over newer ones: a watermark that is promoted belongs to a listing that came to its end.
THEOREM UnlimitedWatermark ==
  ASSUME MaxPages = 0
  PROVE  Safety => []WatermarkCovered
<1>1. Init => UnlimitedWorks
  BY UnlimitedInit
<1>2. UnlimitedWorks /\ [Next]_vars => UnlimitedWorks'
  BY UnlimitedStep
<1>3. UnlimitedWorks => WatermarkCovered
  BY DEF UnlimitedWorks, CoverInv, CoveredBy, WatermarkCovered
<1>4. QED
  BY <1>1, <1>2, <1>3, PTL DEF Safety

\* And a campaign is never past DISCOVERING, let alone COMPLETED, before every promised id
\* has its work item (every id of the catalogue in a full campaign), whoever overlaps,
\* pauses, fails or resumes it.
THEOREM ListedBeforeFetched ==
  ASSUME MaxPages = 0
  PROVE  Safety => [](status \in (Phases \ {"discovering"}) \union {"completed"}
                        => Promised \subseteq SeenIds)
<1>1. Init => UnlimitedWorks
  BY UnlimitedInit
<1>2. UnlimitedWorks /\ [Next]_vars => UnlimitedWorks'
  BY UnlimitedStep
<1>3. UnlimitedWorks => (status \in (Phases \ {"discovering"}) \union {"completed"}
                           => Promised \subseteq SeenIds)
  BY BeyondNames, Levels DEF UnlimitedWorks, UnlimitedInv, PastInv, RowPast, AllSeen, Beyond
<1>4. QED
  BY <1>1, <1>2, <1>3, PTL DEF Safety

\* How a campaign looks to whoever asked for it, and the work it stands for: the listing.
CampaignPhase ==
  CASE status = "completed" -> "succeeded" [] status = "cancelled" -> "failed" [] OTHER -> "open"
Crawl == INSTANCE LeasedWork WITH phase <- CampaignPhase, performed <- AllSeen

\* Only a transition and a cancellation settle a campaign.
LEMMA SettlingSteps ==
  ASSUME TypeOK, [Next]_vars, CampaignPhase' # CampaignPhase
  PROVE  \/ \E r \in Runners : Advance(r)
         \/ Cancel
<1> USE DEF row
<1>1. ASSUME NEW r \in Runners,
             \/ StartTask(r) \/ Claim(r) \/ Load(r) \/ NoPhase(r) \/ Refresh(r)
             \/ DiscoverPage(r) \/ SavePage(r) \/ Truncate(r) \/ SaveCrawl(r)
             \/ FailLoad(r) \/ Release(r) \/ Finish(r) \/ AiError(r) \/ Abort(r) \/ Crash(r)
      PROVE  status' = status
  BY <1>1, Zenon DEF StartTask, Claim, Load, NoPhase, Refresh, DiscoverPage, SavePage, Truncate, SaveCrawl,
    FailLoad, Release, Finish, AiError, Abort, Crash
<1>2. ASSUME NEW r \in Runners,
             \/ FetchBegin(r) \/ ClaimItem(r) \/ ImportOk(r) \/ ImportGone(r) \/ ImportRetry(r)
             \/ ImportError(r) \/ Count(r) \/ FetchEnd(r)
             \/ Mapping(r) \/ AiBegin(r) \/ AiClaim(r) \/ AiOk(r) \/ AiEnd(r) \/ Reconcile(r)
             \/ Review(r)
      PROVE  status' = status
  BY <1>2 DEF FetchBegin, ClaimItem, ImportOk, ImportGone, ImportRetry, ImportError, Count, FetchEnd,
    Mapping, AiBegin, AiClaim, AiOk, AiEnd, Reconcile, Review
<1>3. ASSUME NEW r \in Runners, StartWatch(r) \/ Resume(r) \/ Begin(r) \/ FailWrite(r)
      PROVE  CampaignPhase' = CampaignPhase
  <2>1. \/ status' = status
        \/ status = "failed" /\ status' \in {"discovering", "fetching"}
        \/ status = "queued" /\ status' = "discovering"
        \/ status \notin {"completed", "cancelled"} /\ status' = "failed"
    BY <1>3, LastStatuses DEF StartWatch, Resume, ResumeFailed, Begin, FailWrite
  <2>2. QED
    BY <2>1 DEF CampaignPhase
<1>4. ASSUME Clock \/ CreateAgain \/ UNCHANGED vars
      PROVE  status' = status
  BY <1>4 DEF Clock, LeaseExpires, ItemLeaseExpires, RetryDue, CreateAgain, vars
<1>5. ASSUME Pause \/ ResumePaused
      PROVE  CampaignPhase' = CampaignPhase
  <2>1. params.pausedFrom \in Active \union {"none"}
    BY DEF TypeOK, Params
  <2>2. \/ status' = status
        \/ status \in Active /\ status' = "paused"
        \/ status = "paused" /\ status' \in Active
    BY <1>5, <2>1 DEF Pause, ResumePaused, Active
  <2>3. QED
    BY <2>2 DEF CampaignPhase, Active
<1>6. status' # status
  BY DEF CampaignPhase
<1>7. QED
  BY <1>1, <1>2, <1>3, <1>4, <1>5, <1>6, Zenon DEF Next, Start, Run, Operator

LEMMA CrawlInit == Promised # {} /\ Init => Crawl!Init
<1> SUFFICES ASSUME Promised # {}, Init
             PROVE  Crawl!Init
  OBVIOUS
<1>1. SeenIds = {}
  BY DEF Init, SeenIds, AbsentItem, NewItem
<1>2. QED
  BY <1>1 DEF Init, Crawl!Init, CampaignPhase, AllSeen

LEMMA CrawlStep ==
  UnlimitedWorks /\ [Next]_vars => [Crawl!Next]_<<CampaignPhase, AllSeen>>
<1> SUFFICES ASSUME UnlimitedWorks, [Next]_vars
             PROVE  [Crawl!Next]_<<CampaignPhase, AllSeen>>
  OBVIOUS
<1>1. SeenIds \subseteq SeenIds'
  BY SeenGrows DEF UnlimitedWorks
<1>2. AllSeen \in BOOLEAN /\ AllSeen' \in BOOLEAN /\ (AllSeen => AllSeen')
  BY <1>1 DEF AllSeen
<1>3. CASE CampaignPhase' = CampaignPhase
  BY <1>2, <1>3 DEF Crawl!Next, Crawl!Perform
<1>4. CASE CampaignPhase' # CampaignPhase
  <2>1. status \notin {"completed", "cancelled"}
    BY <1>4, StoppedStep DEF CampaignPhase
  <2>2. CampaignPhase = "open" /\ CampaignPhase \notin Crawl!Settled
    BY <2>1 DEF CampaignPhase, Crawl!Settled
  <2>3. ASSUME NEW r \in Runners, Advance(r)
        PROVE  Crawl!Next
    <3>1. pc[r] = "advance" /\ items' = items
      BY <2>3 DEF Advance
    <3>2. AllSeen /\ AllSeen'
      BY <1>2, <3>1 DEF UnlimitedWorks, UnlimitedInv, PastInv, RunPast
    <3>3. CampaignPhase' \in {"succeeded", "failed"}
      BY <1>4, <2>2 DEF CampaignPhase
    <3>4. AllSeen' = AllSeen
      BY <1>2, <3>2
    <3>5. QED
      BY <2>2, <3>2, <3>3, <3>4 DEF Crawl!Next, Crawl!Succeed, Crawl!Fail
  <2>4. ASSUME Cancel
        PROVE  Crawl!Next
    <3>1. /\ status' = "cancelled"
          /\ \A k \in Keys : items'[k].status = "absent" <=> items[k].status = "absent"
      BY <2>4 DEF Cancel, UnlimitedWorks, TypeOK, Items
    <3>2. SeenIds' = SeenIds
      BY <3>1 DEF SeenIds
    <3>3. AllSeen' = AllSeen
      BY <3>2 DEF AllSeen
    <3>4. CampaignPhase' = "failed"
      BY <3>1 DEF CampaignPhase
    <3>5. QED
      BY <2>2, <3>3, <3>4 DEF Crawl!Next, Crawl!Fail
  <2>5. QED
    BY <1>4, <2>3, <2>4, SettlingSteps DEF UnlimitedWorks
<1>5. QED
  BY <1>3, <1>4

\* Without a limit of pages a campaign over a catalogue that is not empty, seen through
\* CampaignPhase, keeps the safety half of what a piece of work promises: it settles at most
\* once and for good, and is a success only after every promised id was listed (every id
\* of the catalogue in a full campaign), whoever overlaps, pauses, fails, resumes or
\* cancels it.
THEOREM CampaignRefinesWork ==
  ASSUME MaxPages = 0, Promised # {}
  PROVE  Safety => Crawl!Promise
<1>1. Init => UnlimitedWorks /\ Crawl!Init
  BY UnlimitedInit, CrawlInit
<1>2. UnlimitedWorks /\ [Next]_vars => UnlimitedWorks'
  BY UnlimitedStep
<1>3. UnlimitedWorks /\ [Next]_vars => [Crawl!Next]_<<CampaignPhase, AllSeen>>
  BY CrawlStep
<1>4. QED
  BY <1>1, <1>2, <1>3, PTL DEF Safety, Crawl!Promise

-----------------------------------------------------------------------------
(***************************************************************************)
(* What a completed campaign has behind it, with Celery workers alone.     *)
(***************************************************************************)
LEMMA ReviewedAtEnd ==
  ASSUME OrderInv
  PROVE  PromotedAtEnd
<1> SUFFICES ASSUME NEW r \in Runners, pc[r] = "phase", seen[r] = "reviewing"
             PROVE  local[r].next = 0
  BY DEF PromotedAtEnd
<1>1. AtWork(r)
  BY PhaseNames DEF OrderInv, RunInv, Works
<1>2. QED
  BY <1>1, Levels DEF AtWork, Listed

\* Everything the invariants of this section rest on.
WorkersInv ==
  /\ TypeOK /\ Located /\ Paid /\ InHand /\ WorkersExclusive
  /\ OrderInv /\ CoverInv

LEMMA WorkersInit == Watchers = {} /\ Init => WorkersInv
<1> SUFFICES ASSUME Watchers = {}, Init
             PROVE  WorkersInv
  OBVIOUS
<1>1. Paid
  BY DEF Init, Paid, Stamped, InFlight, Apart, AbsentItem, NewItem
<1>2. InHand /\ WorkersExclusive
  <2>1. \A r \in Runners : pc[r] = "idle"
    BY DEF Init
  <2>2. QED
    BY <2>1 DEF InHand, WorkersExclusive, InRun, Runners
<1>3. QED
  BY <1>1, <1>2, InvariantInit, OrderInit, CoverInit DEF WorkersInv

LEMMA WorkersStep ==
  ASSUME Watchers = {}, WorkersInv, [Next]_vars
  PROVE  WorkersInv'
<1> USE DEF WorkersInv
<1>1. TypeOK' /\ Located' /\ Paid'
  BY TypeStep, LocatedStep, PaidStep
<1>2. WorkersExclusive'
  BY ExclusiveStep
<1>3. InHand'
  BY InHandStep
<1>4. OrderInv'
  BY <1>1, OrderStep
<1>5. CoverInv'
  BY ReviewedAtEnd, CoverStep
<1>6. QED
  BY <1>1, <1>2, <1>3, <1>4, <1>5

LEMMA CompletedStanding ==
  ASSUME OrderInv, status = "completed"
  PROVE  Standing = 8 /\ Done(8)
<1>1. Standing = 8
  BY Levels DEF Standing
<1>2. QED
  BY <1>1 DEF OrderInv, RowInv

LEMMA CompletedIsDone ==
  ASSUME OrderInv, CoverInv
  PROVE  CompletedMeansDone
<1> SUFFICES ASSUME status = "completed"
             PROVE  /\ NothingLeft
                    /\ ~params.truncated =>
                         /\ params.next = 0
                         /\ \A i \in Promised : \E k \in Keys : k[2] = i /\ items[k].status # "absent"
  BY DEF CompletedMeansDone
<1>1. NothingLeft /\ Listed(params)
  BY CompletedStanding DEF Done
<1>2. ~params.truncated => Promised \subseteq SeenIds
  BY <1>1 DEF CoverInv, CoveredBy
<1>3. QED
  BY <1>1, <1>2 DEF Listed, SeenIds

\* However pauses, cancellations, failures, resumptions, crashes and redelivered tasks fall,
\* a campaign is COMPLETED only with no work item queued, running or failed and, unless
\* discovery was truncated, with a work item for every promised id (every id of the
\* catalogue in a full campaign).
THEOREM CompletedCampaigns ==
  ASSUME Watchers = {}
  PROVE  Safety => []CompletedMeansDone
<1>1. Init => WorkersInv
  BY WorkersInit
<1>2. WorkersInv /\ [Next]_vars => WorkersInv'
  BY WorkersStep
<1>3. WorkersInv => CompletedMeansDone
  BY CompletedIsDone DEF WorkersInv
<1>4. QED
  BY <1>1, <1>2, <1>3, PTL DEF Safety

\* The watermark of a delta campaign never passes a promised id that was not listed: every
\* id dated up to it, but for those that share a partial date, has its work item, through
\* window promotions, truncation, crashes and parameters written back over one another.
THEOREM WatermarkIsCovered ==
  ASSUME Watchers = {}
  PROVE  Safety => []WatermarkCovered
<1>1. Init => WorkersInv
  BY WorkersInit
<1>2. WorkersInv /\ [Next]_vars => WorkersInv'
  BY WorkersStep
<1>3. WorkersInv => WatermarkCovered
  BY DEF WorkersInv, CoverInv, CoveredBy, WatermarkCovered
<1>4. QED
  BY <1>1, <1>2, <1>3, PTL DEF Safety

\* Without a crash, an item's timestamp is there because its call was made or is on its way.
Called ==
  used.crash = 0 =>
    \A k \in Keys, f \in AiPhases : items[k].ai[f] =>
      aiCalls[k][f] >= 1 \/ \E r \in Runners : pc[r] = "aiWork" /\ item[r] = k /\ seen[r] = f

\* A step that neither sets timestamps nor leaves a call in flight.
LEMMA CalledKept ==
  ASSUME Located, Called, used'.crash = 0 => used.crash = 0, aiCalls' = aiCalls,
         \A k \in Keys, f \in AiPhases : items'[k].ai[f] => items[k].ai[f],
         \A r \in Runners : pc[r] = "aiWork" =>
           pc'[r] = "aiWork" /\ item'[r] = item[r] /\ seen'[r] = seen[r]
  PROVE  Called'
<1> SUFFICES ASSUME used'.crash = 0, NEW k \in Keys, NEW f \in AiPhases, items'[k].ai[f]
             PROVE  \/ aiCalls'[k][f] >= 1
                    \/ \E r \in Runners : pc'[r] = "aiWork" /\ item'[r] = k /\ seen'[r] = f
  BY DEF Called
<1>1. aiCalls[k][f] >= 1 \/ \E r \in Runners : pc[r] = "aiWork" /\ item[r] = k /\ seen[r] = f
  BY DEF Called
<1>2. QED
  BY <1>1

LEMMA CalledAiStep ==
  ASSUME TypeOK, Located, Paid, Called, NEW r \in Runners, AiClaim(r) \/ AiOk(r) \/ AiError(r)
  PROVE  Called'
<1>0. /\ items \in [Keys -> Items] /\ pc \in [Runners -> Labels]
      /\ item \in [Runners -> Keys \union {NoItem}] /\ seen' = seen
      /\ aiCalls \in [Keys -> [AiPhases -> Nat]]
  BY DEF TypeOK, AiClaim, AiOk, AiError
<1>a. used.crash \in Nat /\ (used'.crash = 0 => used.crash = 0)
  BY DEF TypeOK, AiClaim, AiOk, AiError, UseUp
<1> SUFFICES ASSUME used.crash = 0, NEW k \in Keys, NEW f \in AiPhases, items'[k].ai[f]
             PROVE  \/ aiCalls'[k][f] >= 1
                    \/ \E s \in Runners : pc'[s] = "aiWork" /\ item'[s] = k /\ seen'[s] = f
  BY <1>a DEF Called
<1>b. items[k].ai[f] =>
        aiCalls[k][f] >= 1 \/ \E s \in Runners : pc[s] = "aiWork" /\ item[s] = k /\ seen[s] = f
  BY DEF Called
<1>c. \A s \in Runners : s # r => pc'[s] = pc[s] /\ item'[s] = item[s]
  BY <1>0 DEF AiClaim, AiOk, AiError, Goto
<1>1. CASE AiClaim(r)
  <2>1. PICK l \in FirstIn(batch[r]) : AiClaim(r)!2!(l)
    BY <1>1 DEF AiClaim
  <2>2. pc[r] = "ai" /\ aiCalls' = aiCalls /\ seen[r] \in AiPhases
    BY <1>1 DEF AiClaim, Located
  <2>3. CASE l \notin Eligible(seen[r])
    <3>1. items' = items /\ item' = item /\ pc' = pc
      BY <2>1, <2>3, Zenon
    <3>2. QED
      BY <1>0, <1>b, <2>2, <3>1
  <2>4. CASE l \in Eligible(seen[r])
    <3>1. /\ items' = [items EXCEPT ![l].ai[seen[r]] = TRUE]
          /\ item' = [item EXCEPT ![r] = l] /\ pc' = [pc EXCEPT ![r] = "aiWork"]
      BY <2>1, <2>4, Zenon DEF Goto
    <3>2. l \in Keys
      BY <2>4 DEF Eligible, WithStatus
    <3>3. pc'[r] = "aiWork" /\ item'[r] = l
      BY <1>0, <3>1
    <3>4. CASE k = l /\ f = seen[r]
      BY <1>0, <3>3, <3>4
    <3>5. CASE ~(k = l /\ f = seen[r])
      <4>1. items[k].ai[f]
        BY <1>0, <3>1, <3>2, <3>5 DEF Items
      <4>2. QED
        BY <1>0, <1>b, <1>c, <2>2, <4>1
    <3>6. QED
      BY <3>4, <3>5
  <2>5. QED
    BY <2>3, <2>4
<1>2. CASE AiOk(r)
  <2>1. /\ pc[r] = "aiWork" /\ items' = items
        /\ aiCalls' = [aiCalls EXCEPT ![item[r]][seen[r]] = @ + 1]
    BY <1>2 DEF AiOk
  <2>2. item[r] \in Keys /\ seen[r] \in AiPhases
    BY <2>1 DEF Located
  <2>3. CASE k = item[r] /\ f = seen[r]
    <3>1. aiCalls[k][f] \in Nat /\ aiCalls'[k][f] = aiCalls[k][f] + 1
      BY <1>0, <2>1, <2>2, <2>3
    <3>2. QED
      BY <3>1
  <2>4. CASE ~(k = item[r] /\ f = seen[r])
    <3>1. aiCalls'[k][f] = aiCalls[k][f]
      BY <1>0, <2>1, <2>2, <2>4
    <3>2. QED
      BY <1>0, <1>b, <1>c, <2>1, <2>4, <3>1
  <2>5. QED
    BY <2>3, <2>4
<1>3. CASE AiError(r)
  <2>1. /\ pc[r] = "aiWork" /\ aiCalls' = aiCalls
        /\ items' = [items EXCEPT ![item[r]].ai[seen[r]] = FALSE]
    BY <1>3 DEF AiError
  <2>2. item[r] \in Keys /\ seen[r] \in AiPhases
    BY <2>1 DEF Located
  <2>3. ~(k = item[r] /\ f = seen[r])
    BY <1>0, <2>1, <2>2 DEF Items
  <2>4. items[k].ai[f]
    BY <1>0, <2>1, <2>2, <2>3 DEF Items
  <2>5. QED
    BY <1>0, <1>b, <1>c, <2>1, <2>3, <2>4
<1>4. QED
  BY <1>1, <1>2, <1>3

LEMMA CalledStep ==
  ASSUME TypeOK, Located, Paid, Called, [Next]_vars
  PROVE  Called'
<1> USE DEF row, mine
<1>0. /\ items \in [Keys -> Items] /\ pc \in [Runners -> Labels] /\ used.crash \in Nat
      /\ item \in [Runners -> Keys \union {NoItem}] /\ seen \in [Runners -> Statuses]
  BY DEF TypeOK
<1>1. ASSUME StampsKept, used'.crash = used.crash, aiCalls' = aiCalls,
             NEW r \in Runners, NEW l \in Labels, Goto(r, l), pc[r] # "aiWork",
             \A s \in Runners : s # r => item'[s] = item[s] /\ seen'[s] = seen[s]
      PROVE  Called'
  <2>1. \A s \in Runners : s # r => pc'[s] = pc[s]
    BY <1>0, <1>1 DEF Goto
  <2>2. \A k \in Keys, f \in AiPhases : items'[k].ai[f] => items[k].ai[f]
    BY <1>1 DEF StampsKept
  <2>3. QED
    BY <1>1, <2>1, <2>2, CalledKept
<1>2. ASSUME items' = items
      PROVE  StampsKept
  BY <1>2 DEF StampsKept
<1>3. ASSUME NEW r \in Runners,
             \/ StartWatch(r) \/ Resume(r) \/ DiscoverPage(r) \/ FetchBegin(r)
             \/ ImportOk(r) \/ ImportGone(r) \/ ImportRetry(r) \/ ImportError(r)
      PROVE  Called'
  <2>1. StampsKept
    BY <1>3, StampsStep
  <2>2. /\ used'.crash = used.crash /\ aiCalls' = aiCalls /\ pc[r] # "aiWork"
        /\ \A s \in Runners : s # r => item'[s] = item[s] /\ seen'[s] = seen[s]
    BY <1>0, <1>3 DEF StartWatch, Resume, ResumeFailed, UseUp, DiscoverPage, FetchBegin, ImportOk,
      ImportGone, ImportRetry, ImportError, MayAnswer, TypeOK
  <2>3. \E l \in Labels : Goto(r, l)
    BY <1>3 DEF StartWatch, Resume, DiscoverPage, FetchBegin, ImportOk, ImportGone, ImportRetry,
      ImportError, Labels
  <2>4. QED
    BY <1>1, <2>1, <2>2, <2>3
<1>4. ASSUME NEW r \in Runners, ClaimItem(r)
      PROVE  Called'
  <2>1. StampsKept
    BY <1>4, StampsStep
  <2>2. pc[r] = "fetch" /\ UNCHANGED <<aiCalls, used, seen>>
    BY <1>4 DEF ClaimItem
  <2>3. pc' = pc \/ Goto(r, "import")
    BY <1>4, Zenon DEF ClaimItem
  <2>4. Goto(r, "fetch") \/ Goto(r, "import")
    BY <1>0, <2>2, <2>3 DEF Goto
  <2>5. \A s \in Runners : s # r => item'[s] = item[s]
    BY <1>0, <1>4 DEF ClaimItem
  <2>6. QED
    BY <1>1, <2>1, <2>2, <2>4, <2>5 DEF Labels
<1>5. ASSUME NEW r \in Runners,
             \/ StartTask(r) \/ Claim(r) \/ Load(r) \/ Begin(r) \/ NoPhase(r) \/ Advance(r)
             \/ Refresh(r) \/ SavePage(r) \/ Truncate(r) \/ SaveCrawl(r) \/ Count(r) \/ FetchEnd(r)
      PROVE  Called'
  <2>1. StampsKept
    BY <1>2, <1>5 DEF StartTask, Claim, Load, Begin, NoPhase, Advance, Refresh, SavePage, Truncate,
      SaveCrawl, Count, FetchEnd
  <2>2. /\ UNCHANGED <<used, aiCalls>> /\ pc[r] # "aiWork"
        /\ \A s \in Runners : s # r => item'[s] = item[s] /\ seen'[s] = seen[s]
    BY <1>0, <1>5 DEF StartTask, Claim, Load, Begin, NoPhase, Advance, Refresh, SavePage, Truncate,
      SaveCrawl, Count, FetchEnd, Reread
  <2>3. \E l \in Labels : Goto(r, l)
    BY <1>5 DEF StartTask, Claim, Load, Begin, NoPhase, Advance, Refresh, SavePage, Truncate,
      SaveCrawl, Count, FetchEnd, AdvanceTo, Labels
  <2>4. QED
    BY <1>1, <2>1, <2>2, <2>3
<1>6. ASSUME NEW r \in Runners,
             \/ Mapping(r) \/ AiBegin(r) \/ AiEnd(r) \/ Reconcile(r) \/ Review(r)
             \/ FailLoad(r) \/ FailWrite(r) \/ Release(r) \/ Abort(r)
             \/ (Finish(r) /\ pc[r] = "finish")
      PROVE  Called'
  <2>1. StampsKept
    BY <1>2, <1>6 DEF Mapping, AiBegin, AiEnd, Reconcile, Review, FailLoad, FailWrite, Release,
      Abort, Finish
  <2>2. /\ used'.crash = used.crash /\ aiCalls' = aiCalls /\ pc[r] # "aiWork"
        /\ \A s \in Runners : s # r => item'[s] = item[s] /\ seen'[s] = seen[s]
    BY <1>0, <1>6 DEF Mapping, AiBegin, AiEnd, Reconcile, Review, FailLoad, FailWrite, Release,
      Abort, Finish, Forget, Reread, UseUp, CanAbort, TypeOK
  <2>3. \E l \in Labels : Goto(r, l)
    BY <1>6 DEF Mapping, AiBegin, AiEnd, Reconcile, Review, FailLoad, FailWrite, Release, Abort,
      Finish, AdvanceTo, Labels
  <2>4. QED
    BY <1>1, <2>1, <2>2, <2>3
<1>7. ASSUME NEW r \in Runners, Finish(r)
      PROVE  Called'
  BY <1>6, <1>7 DEF Finish
<1>8. ASSUME NEW r \in Runners, Crash(r)
      PROVE  Called'
  <2>1. used'.crash = used.crash + 1
    BY <1>8 DEF Crash, UseUp, TypeOK
  <2>2. used'.crash # 0
    BY <1>0, <2>1
  <2>3. QED
    BY <2>2 DEF Called
<1>9. ASSUME Clock \/ Operator \/ UNCHANGED vars
      PROVE  Called'
  <2>1. UNCHANGED <<pc, seen, item, aiCalls>> /\ used'.crash = used.crash
    BY <1>9 DEF Clock, LeaseExpires, ItemLeaseExpires, RetryDue, Operator, Pause, ResumePaused,
      Cancel, CreateAgain, vars, Control, UseUp, TypeOK
  <2>2. \A k \in Keys : items'[k].ai = items[k].ai
    <3>1. CASE Cancel
      BY <1>0, <3>1 DEF Cancel, Items
    <3>2. ASSUME NEW k \in Keys, ItemLeaseExpires(k) \/ RetryDue(k)
          PROVE  \A l \in Keys : items'[l].ai = items[l].ai
      <4>1. \E b \in BOOLEAN : \/ items' = [items EXCEPT ![k].leased = b]
                              \/ items' = [items EXCEPT ![k].due = b]
        BY <3>2 DEF ItemLeaseExpires, RetryDue
      <4>2. QED
        BY <1>0, <4>1 DEF Items
    <3>3. CASE items' = items
      BY <3>3
    <3>4. QED
      BY <1>9, <3>1, <3>2, <3>3 DEF Clock, LeaseExpires, Operator, Pause, ResumePaused, CreateAgain,
        vars
  <2>3. QED
    BY <2>1, <2>2, CalledKept
<1>10. QED
  BY <1>3, <1>4, <1>5, <1>6, <1>7, <1>8, <1>9, CalledAiStep, Zenon DEF Next, Start, Run

LEMMA CompletedIsCalled ==
  ASSUME TypeOK, Located, Paid, OrderInv, Called
  PROVE  AiNotSkipped
<1> SUFFICES ASSUME status = "completed", AiOn, used.crash = 0, NEW f \in AiPhases,
                    ~SampleUsedUp(f), NEW k \in WithStatus("succeeded")
             PROVE  aiCalls[k][f] = 1
  BY DEF AiNotSkipped
<1>1. Standing = 8 /\ AiDone(f)
  BY CompletedStanding DEF Done, AiPhases
<1>2. k \in Keys /\ items[k].ai[f]
  BY <1>1 DEF AiDone, Eligible, WithStatus
<1>3. ASSUME NEW r \in Runners, pc[r] = "aiWork"
      PROVE  FALSE
  <2>1. Standing <= Level(seen[r]) /\ seen[r] \in AiPhases
    BY <1>3 DEF OrderInv, RunInv, Works, AtWork, Located
  <2>2. Level(seen[r]) <= 6
    BY <2>1, Levels DEF AiPhases
  <2>3. Level(seen[r]) \in 1 .. 8
    <3>1. seen[r] \in Statuses
      BY DEF TypeOK
    <3>2. QED
      BY <3>1, LevelOf
  <2>4. QED
    BY <1>1, <2>1, <2>2, <2>3
<1>4. aiCalls[k][f] >= 1
  BY <1>2, <1>3 DEF Called
<1>5. aiCalls[k][f] <= 1 /\ aiCalls[k][f] \in Nat
  BY <1>2 DEF Paid, Stamped, TypeOK
<1>6. QED
  BY <1>4, <1>5

\* No item is left out of the AI phases of a COMPLETED campaign: with the AI on, every
\* imported item had its call in both phases, exactly one, unless the sample of the phase
\* was used up or a crash fell between an item's claim and the end of its call.
THEOREM AiCallsComplete ==
  ASSUME Watchers = {}
  PROVE  Safety => []AiNotSkipped
<1>1. Init => WorkersInv /\ Called
  <2>1. Init => Called
    <3> SUFFICES ASSUME Init, NEW k \in Keys, NEW f \in AiPhases
                 PROVE  ~items[k].ai[f]
      BY DEF Called
    <3>1. items[k] = AbsentItem
      BY DEF Init
    <3>2. QED
      BY <3>1 DEF AbsentItem, NewItem
  <2>2. QED
    BY <2>1, WorkersInit
<1>2. WorkersInv /\ Called /\ [Next]_vars => WorkersInv' /\ Called'
  BY WorkersStep, CalledStep DEF WorkersInv
<1>3. WorkersInv /\ Called => AiNotSkipped
  BY CompletedIsCalled DEF WorkersInv
<1>4. QED
  BY <1>1, <1>2, <1>3, PTL DEF Safety

-----------------------------------------------------------------------------
(***************************************************************************)
(* The counters, with Celery workers alone.                                *)
(***************************************************************************)
\* A run that has yet to count its item leaves room for it.
Counting ==
  /\ CountersNeverOverstate
  /\ \A r \in Runners :
       /\ pc[r] = "synced"  => counts.synced < Cardinality(WithStatus("succeeded"))
       /\ pc[r] = "skipped" => counts.skipped < Cardinality(WithStatus("skipped"))

LEMMA MoreOf ==
  ASSUME NEW s, \A k \in Keys : items[k].status = s => items'[k].status = s
  PROVE  /\ Cardinality(WithStatus(s)) \in Nat /\ Cardinality(WithStatus(s))' \in Nat
         /\ Cardinality(WithStatus(s)) <= Cardinality(WithStatus(s))'
<1> DEFINE A == WithStatus(s)
           B == WithStatus(s)'
<1>1. A \subseteq B /\ A \subseteq Keys /\ B \subseteq Keys
  BY DEF WithStatus
<1> HIDE DEF A, B
<1>2. IsFiniteSet(B) /\ Cardinality(A) \in Nat /\ Cardinality(B) \in Nat
  BY <1>1, KeysFinite, FS_Subset
<1>3. Cardinality(A) <= Cardinality(B)
  BY <1>1, <1>2, FS_Subset
<1>4. QED
  BY <1>2, <1>3 DEF A, B

\* The import of the item in hand adds it to those with its outcome.
LEMMA OneMoreOf ==
  ASSUME NEW s, \A k \in Keys : items[k].status = s => items'[k].status = s,
         NEW j \in Keys, items[j].status # s, items'[j].status = s
  PROVE  Cardinality(WithStatus(s)) < Cardinality(WithStatus(s))'
<1> DEFINE A == WithStatus(s)
           B == WithStatus(s)'
<1>1. A \subseteq B /\ A \subseteq Keys /\ B \subseteq Keys /\ j \in B /\ j \notin A
  BY DEF WithStatus
<1> HIDE DEF A, B
<1>2. IsFiniteSet(A) /\ IsFiniteSet(B) /\ Cardinality(A) \in Nat /\ Cardinality(B) \in Nat
  BY <1>1, KeysFinite, FS_Subset
<1>3. Cardinality(A \union {j}) = Cardinality(A) + 1
  BY <1>1, <1>2, FS_AddElement
<1>4. Cardinality(A \union {j}) <= Cardinality(B)
  BY <1>1, <1>2, FS_Subset
<1>5. QED
  BY <1>2, <1>3, <1>4 DEF A, B

\* A step that neither counts nor imports.
LEMMA CountingKept ==
  ASSUME TypeOK, Counting, \A k \in Keys : Keeps(k),
         counts'.synced = counts.synced, counts'.skipped = counts.skipped,
         \A r \in Runners : pc'[r] \in {"synced", "skipped"} => pc[r] = pc'[r]
  PROVE  Counting'
<1> DEFINE a == Cardinality(WithStatus("succeeded"))
           b == Cardinality(WithStatus("skipped"))
<1>1. a \in Nat /\ a' \in Nat /\ a <= a' /\ b \in Nat /\ b' \in Nat /\ b <= b'
  BY MoreOf DEF Keeps
<1>2. counts.synced \in Nat /\ counts.skipped \in Nat
  BY DEF TypeOK
<1>3. /\ counts.synced <= a /\ counts.skipped <= b
      /\ \A r \in Runners : (pc[r] = "synced" => counts.synced < a)
                            /\ (pc[r] = "skipped" => counts.skipped < b)
  BY DEF Counting, CountersNeverOverstate
<1> HIDE DEF a, b
<1>4. /\ counts'.synced <= a' /\ counts'.skipped <= b'
  BY <1>1, <1>2, <1>3
<1>5. ASSUME NEW r \in Runners
      PROVE  /\ pc'[r] = "synced"  => counts'.synced < a'
             /\ pc'[r] = "skipped" => counts'.skipped < b'
  BY <1>1, <1>2, <1>3
<1>6. QED
  BY <1>4, <1>5 DEF Counting, CountersNeverOverstate, a, b

LEMMA ImportCounting ==
  ASSUME TypeOK, Located, InHand, Counting, \A k \in Keys : Keeps(k), NEW r \in Runners,
         ImportOk(r) \/ ImportGone(r)
  PROVE  Counting'
<1> DEFINE a == Cardinality(WithStatus("succeeded"))
           b == Cardinality(WithStatus("skipped"))
<1>0. /\ items \in [Keys -> Items] /\ pc[r] = "import" /\ counts' = counts
      /\ \A s \in Runners : s # r => pc'[s] = pc[s]
  BY DEF TypeOK, ImportOk, ImportGone, MayAnswer, row, Goto
<1>1. item[r] \in Keys /\ items[item[r]].status \in {"running", "queued"}
  BY <1>0 DEF Located, InHand
<1>2. a \in Nat /\ a' \in Nat /\ a <= a' /\ b \in Nat /\ b' \in Nat /\ b <= b'
  BY MoreOf DEF Keeps
<1>3. counts.synced \in Nat /\ counts.skipped \in Nat
  BY DEF TypeOK
<1>4. /\ counts.synced <= a /\ counts.skipped <= b
      /\ \A s \in Runners : (pc[s] = "synced" => counts.synced < a)
                            /\ (pc[s] = "skipped" => counts.skipped < b)
  BY DEF Counting, CountersNeverOverstate
<1>5. /\ pc'[r] = "synced"  => a < a'
      /\ pc'[r] = "skipped" => b < b'
  <2>1. CASE ImportOk(r)
    <3>1. pc'[r] = "synced" /\ items'[item[r]].status = "succeeded"
      BY <1>0, <1>1, <2>1 DEF ImportOk, SetItem, Goto, TypeOK, Items
    <3>2. a < a'
      BY <1>1, <3>1, OneMoreOf DEF Keeps
    <3>3. QED
      BY <3>1, <3>2
  <2>2. CASE ImportGone(r)
    <3>1. pc'[r] = "skipped" /\ items'[item[r]].status = "skipped"
      BY <1>0, <1>1, <2>2 DEF ImportGone, SetItem, Goto, TypeOK, Items
    <3>2. b < b'
      BY <1>1, <3>1, OneMoreOf DEF Keeps
    <3>3. QED
      BY <3>1, <3>2
  <2>3. QED
    BY <2>1, <2>2
<1> HIDE DEF a, b
<1>6. /\ counts'.synced <= a' /\ counts'.skipped <= b'
  BY <1>0, <1>2, <1>3, <1>4
<1>7. ASSUME NEW s \in Runners
      PROVE  /\ pc'[s] = "synced"  => counts'.synced < a'
             /\ pc'[s] = "skipped" => counts'.skipped < b'
  BY <1>0, <1>2, <1>3, <1>4, <1>5
<1>8. QED
  BY <1>6, <1>7 DEF Counting, CountersNeverOverstate, a, b

\* Only one run has an item to count.
LEMMA CountCounting ==
  ASSUME Watchers = {}, TypeOK, WorkersExclusive, Counting, NEW r \in Runners, Count(r)
  PROVE  Counting'
<1> DEFINE a == Cardinality(WithStatus("succeeded"))
           b == Cardinality(WithStatus("skipped"))
<1>1. a \in Nat /\ b \in Nat /\ a' = a /\ b' = b
  <2>1. WithStatus("succeeded") \subseteq Keys /\ WithStatus("skipped") \subseteq Keys
    BY DEF WithStatus
  <2>2. items' = items
    BY DEF Count
  <2>3. QED
    BY <2>1, <2>2, KeysFinite DEF WithStatus
<1>2. counts.synced \in Nat /\ counts.skipped \in Nat
  BY DEF TypeOK
<1>3. /\ counts.synced <= a /\ counts.skipped <= b
      /\ (pc[r] = "synced" => counts.synced < a) /\ (pc[r] = "skipped" => counts.skipped < b)
  BY DEF Counting, CountersNeverOverstate
<1>4. \A s \in Runners : pc'[s] \notin {"synced", "skipped"}
  <2>1. pc[r] \in {"synced", "skipped", "failed"} /\ pc' = [pc EXCEPT ![r] = "fetch"]
    BY DEF Count, Goto
  <2>2. ASSUME NEW s \in Runners, pc[s] \in {"synced", "skipped"}
        PROVE  s = r
    BY <2>1, <2>2, OneRun DEF InRun
  <2>3. QED
    BY <2>1, <2>2 DEF TypeOK
<1>5. /\ counts'.synced  = IF pc[r] = "synced"  THEN counts.synced + 1  ELSE counts.synced
      /\ counts'.skipped = IF pc[r] = "skipped" THEN counts.skipped + 1 ELSE counts.skipped
  BY DEF Count, TypeOK
<1> HIDE DEF a, b
<1>6. counts'.synced <= a' /\ counts'.skipped <= b'
  BY <1>1, <1>2, <1>3, <1>5
<1>7. QED
  BY <1>4, <1>6 DEF Counting, CountersNeverOverstate, a, b

LEMMA CountingStep ==
  ASSUME Watchers = {}, WorkersInv, Counting, [Next]_vars
  PROVE  Counting'
<1> USE DEF row, mine
<1>0. /\ TypeOK /\ Located /\ InHand /\ WorkersExclusive
      /\ \A k \in Keys : Keeps(k)
      /\ pc \in [Runners -> Labels] /\ counts \in [processed : Nat, synced : Nat, skipped : Nat, failed : Nat]
  BY KeptStep DEF WorkersInv, TypeOK
<1>1. ASSUME counts'.synced = counts.synced, counts'.skipped = counts.skipped,
             \/ pc' = pc
             \/ \E r \in Runners, l \in Labels \ {"synced", "skipped"} : Goto(r, l)
      PROVE  Counting'
  <2>1. \A s \in Runners : pc'[s] \in {"synced", "skipped"} => pc[s] = pc'[s]
    BY <1>0, <1>1 DEF Goto
  <2>2. QED
    BY <1>0, <1>1, <2>1, CountingKept
<1>2. ASSUME NEW r \in Runners,
             \/ StartTask(r) \/ StartWatch(r) \/ Claim(r) \/ Load(r) \/ Resume(r) \/ Begin(r)
             \/ NoPhase(r) \/ Advance(r) \/ Refresh(r) \/ DiscoverPage(r) \/ SavePage(r) \/ Truncate(r)
             \/ SaveCrawl(r) \/ FetchBegin(r) \/ ImportRetry(r) \/ ImportError(r)
      PROVE  Counting'
  <2>1. counts' = counts
    BY <1>2 DEF StartTask, StartWatch, Claim, Load, Resume, Begin, NoPhase, Advance, Refresh,
      DiscoverPage, SavePage, Truncate, SaveCrawl, FetchBegin, ImportRetry, ImportError
  <2>2. \E l \in Labels \ {"synced", "skipped"} : Goto(r, l)
    BY <1>2 DEF StartTask, StartWatch, Claim, Load, Resume, Begin, NoPhase, Advance, Refresh,
      DiscoverPage, SavePage, Truncate, SaveCrawl, FetchBegin, ImportRetry, ImportError, AdvanceTo,
      Labels
  <2>3. QED
    BY <1>1, <2>1, <2>2
<1>3. ASSUME NEW r \in Runners,
             \/ Mapping(r) \/ AiBegin(r) \/ AiOk(r) \/ AiEnd(r) \/ AiError(r) \/ Reconcile(r)
             \/ Review(r) \/ FailLoad(r) \/ FailWrite(r) \/ Release(r) \/ Finish(r) \/ Abort(r)
             \/ Crash(r)
      PROVE  Counting'
  <2>1. counts' = counts
    BY <1>3 DEF Mapping, AiBegin, AiOk, AiEnd, AiError, Reconcile, Review, FailLoad, FailWrite,
      Release, Finish, Abort, Crash
  <2>2. \E l \in Labels \ {"synced", "skipped"} : Goto(r, l)
    BY <1>3 DEF Mapping, AiBegin, AiOk, AiEnd, AiError, Reconcile, Review, FailLoad, FailWrite,
      Release, Finish, Abort, Crash, AdvanceTo, Labels
  <2>3. QED
    BY <1>1, <2>1, <2>2
<1>4. ASSUME NEW r \in Runners, FetchEnd(r)
      PROVE  Counting'
  <2>1. counts'.synced = counts.synced /\ counts'.skipped = counts.skipped
    BY <1>0, <1>4 DEF FetchEnd
  <2>2. \E l \in Labels \ {"synced", "skipped"} : Goto(r, l)
    BY <1>4 DEF FetchEnd, AdvanceTo, Labels
  <2>3. QED
    BY <1>1, <2>1, <2>2
<1>5. ASSUME NEW r \in Runners, ClaimItem(r) \/ AiClaim(r)
      PROVE  Counting'
  <2>1. counts' = counts
    BY <1>5 DEF ClaimItem, AiClaim
  <2>2. pc' = pc \/ \E l \in {"import", "aiWork"} : Goto(r, l)
    BY <1>5, Zenon DEF ClaimItem, AiClaim
  <2>3. QED
    BY <1>1, <2>1, <2>2 DEF Labels
<1>6. ASSUME NEW r \in Runners, ImportOk(r) \/ ImportGone(r) \/ Count(r)
      PROVE  Counting'
  BY <1>0, <1>6, ImportCounting, CountCounting
<1>7. ASSUME Clock \/ Operator \/ UNCHANGED vars
      PROVE  Counting'
  <2>1. pc' = pc /\ counts' = counts
    BY <1>7 DEF Clock, LeaseExpires, ItemLeaseExpires, RetryDue, Operator, Pause, ResumePaused,
      Cancel, CreateAgain, vars
  <2>2. QED
    BY <1>1, <2>1
<1>8. QED
  BY <1>2, <1>3, <1>4, <1>5, <1>6, <1>7, Zenon DEF Next, Start, Run

\* Whatever crash falls between an item's write and the counter's, and however often runs are
\* repeated, synced_items and skipped_items never promise more than the work items show.
THEOREM CountersAreBacked ==
  ASSUME Watchers = {}
  PROVE  Safety => []CountersNeverOverstate
<1>1. Init => WorkersInv /\ Counting
  <2>1. Init => Counting
    <3> SUFFICES ASSUME Init
                 PROVE  Counting
      OBVIOUS
    <3>1. counts.synced = 0 /\ counts.skipped = 0 /\ \A r \in Runners : pc[r] = "idle"
      BY DEF Init
    <3>2. WithStatus("succeeded") \subseteq Keys /\ WithStatus("skipped") \subseteq Keys
      BY DEF WithStatus
    <3>3. Cardinality(WithStatus("succeeded")) \in Nat /\ Cardinality(WithStatus("skipped")) \in Nat
      BY <3>2, KeysFinite
    <3>4. QED
      BY <3>1, <3>3 DEF Counting, CountersNeverOverstate
  <2>2. QED
    BY <2>1, WorkersInit
<1>2. WorkersInv /\ Counting /\ [Next]_vars => WorkersInv' /\ Counting'
  BY WorkersStep, CountingStep
<1>3. Counting => CountersNeverOverstate
  BY DEF Counting
<1>4. QED
  BY <1>1, <1>2, <1>3, PTL DEF Safety
=============================================================================
