----------------------- MODULE IncrementalSyncProofs -----------------------
(***************************************************************************)
(* Theorems about IncrementalSync for every id space, batch size, pair of  *)
(* streak limits, number of workers and amount of trouble.                 *)
(***************************************************************************)
EXTENDS IncrementalSync, TLAPS

LEMMA NaturalConstants ==
  BatchSize \in Nat /\ BatchSize >= 1 /\ MaxId \in Nat
BY WindowAssumption

\* The outcomes a fetch has, as the code names them.
Outcomes == {"synced", "skipped", "failed"}

LEMMA AnswersType == \A i : Answers(i) \subseteq Outcomes
BY DEF Answers, Outcomes

-----------------------------------------------------------------------------
(***************************************************************************)
(* Type correctness.                                                       *)
(***************************************************************************)
\* What a run leaves in memory when it ends, and a move of its program counter,
\* keep the type of the runner's variables.
LEMMA LeaveType ==
  ASSUME TypeOK, NEW r \in Runners, Leave(r)
  PROVE  /\ pc' \in [Runners -> {"idle", "sync", "check", "fail"}]
         /\ next' \in [Runners -> Nat] /\ end' \in [Runners -> Nat]
         /\ last' \in [Runners -> Nat]
         /\ skips' \in [Runners -> Nat] /\ fails' \in [Runners -> Nat]
BY DEF TypeOK, Leave, Goto

LEMMA GotoType ==
  ASSUME TypeOK, NEW r \in Runners, NEW l \in {"idle", "sync", "check", "fail"}, Goto(r, l)
  PROVE  pc' \in [Runners -> {"idle", "sync", "check", "fail"}]
BY DEF TypeOK, Goto

LEMMA StrikesType ==
  ASSUME TypeOK, NEW b \in {"crash", "abort", "outage", "unlock"}, Strikes(b)
  PROVE  used' \in [crash : Nat, abort : Nat, outage : Nat, unlock : Nat]
BY DEF TypeOK, Strikes

\* A fetch writes ids to the histories and to the ledger, nothing else.
LEMMA RecordType ==
  ASSUME TypeOK, NEW i \in Nat, NEW outcome, Record(i, outcome)
  PROVE  synced' \subseteq Nat /\ skipped' \subseteq Nat /\ errors' \subseteq Nat
BY DEF TypeOK, Record

LEMMA InitType == Init => TypeOK
<1> SUFFICES ASSUME Init PROVE TypeOK
  OBVIOUS
<1>1. cursor \in Nat /\ state \in States /\ stale \in BOOLEAN /\ errors \subseteq Nat
  BY DEF Init, States
<1>2. published \in 0 .. MaxId
  BY NaturalConstants DEF Init
<1>3. synced \subseteq Nat /\ skipped \subseteq Nat /\ pruned \subseteq Nat /\ scan \subseteq Scanners /\ fixed \in Nat
  BY DEF Init
<1>4. used \in [crash : Nat, abort : Nat, outage : Nat, unlock : Nat]
  BY DEF Init
<1>5. pc \in [Runners -> {"idle", "sync", "check", "fail"}]
  BY DEF Init
<1>6. next \in [Runners -> Nat] /\ end \in [Runners -> Nat] /\ last \in [Runners -> Nat]
  BY DEF Init
<1>7. skips \in [Runners -> Nat] /\ fails \in [Runners -> Nat]
  BY DEF Init
<1>8. QED
  BY <1>1, <1>2, <1>3, <1>4, <1>5, <1>6, <1>7 DEF TypeOK

LEMMA TypeStep ==
  ASSUME TypeOK, [Next]_vars
  PROVE  TypeOK'
<1> USE NaturalConstants
<1>1. ASSUME NEW r \in Runners, StartWindow(r) PROVE TypeOK'
  <2>1. pc' \in [Runners -> {"idle", "sync", "check", "fail"}]
    BY <1>1, GotoType DEF StartWindow
  <2>2. next' \in [Runners -> Nat] /\ end' \in [Runners -> Nat] /\ last' \in [Runners -> Nat]
    <3>1. cursor + 1 \in Nat /\ cursor + BatchSize \in Nat /\ cursor \in Nat
      BY DEF TypeOK
    <3>2. QED
      BY <1>1, <3>1 DEF StartWindow, TypeOK
  <2>3. QED
    BY <1>1, <2>1, <2>2 DEF StartWindow, TypeOK, States
<1>2. ASSUME NEW r \in Runners, SyncOne(r) PROVE TypeOK'
  <2>1. PICK outcome \in Answers(next[r]) \union {"failed"} :
          /\ \/ outcome \in Answers(next[r]) /\ UNCHANGED used
             \/ outcome \notin Answers(next[r]) /\ Strikes("outage")
          /\ Record(next[r], outcome)
          /\ fails' = [fails EXCEPT ![r] = IF outcome = "failed" THEN @ + 1 ELSE 0]
          /\ last' = [last EXCEPT ![r] = IF outcome = "synced" THEN next[r] ELSE @]
          /\ skips' = [skips EXCEPT ![r] = CASE outcome = "synced" -> 0
                                             [] outcome = "skipped" -> @ + 1
                                             [] OTHER -> @]
    BY <1>2 DEF SyncOne
  <2>2. next[r] \in Nat /\ last[r] \in Nat /\ skips[r] \in Nat /\ fails[r] \in Nat
    BY DEF TypeOK
  <2>3. synced' \subseteq Nat /\ skipped' \subseteq Nat /\ errors' \subseteq Nat
    BY <2>1, <2>2, RecordType
  <2>4. used' \in [crash : Nat, abort : Nat, outage : Nat, unlock : Nat]
    BY <2>1, StrikesType DEF TypeOK
  <2>5. fails' \in [Runners -> Nat]
    BY <2>1, <2>2 DEF TypeOK
  <2>6. last' \in [Runners -> Nat]
    BY <2>1, <2>2 DEF TypeOK
  <2>7. skips' \in [Runners -> Nat]
    <3> DEFINE s == CASE outcome = "synced" -> 0
                      [] outcome = "skipped" -> skips[r] + 1
                      [] OTHER -> skips[r]
    <3>1. s \in Nat
      BY <2>2
    <3>2. skips' = [skips EXCEPT ![r] = s]
      BY <2>1
    <3> HIDE DEF s
    <3>3. QED
      BY <3>1, <3>2 DEF TypeOK
  <2>8. pc' \in [Runners -> {"idle", "sync", "check", "fail"}]
    BY <1>2, GotoType DEF SyncOne
  <2>9. QED
    BY <1>2, <2>3, <2>4, <2>5, <2>6, <2>7, <2>8 DEF SyncOne, TypeOK, row
<1>3. ASSUME NEW r \in Runners, ReachFrontier(r) \/ FinishWindow(r) \/ FailWindow(r)
      PROVE  TypeOK'
  <2>1. Leave(r) /\ cursor' \in {last[r], end[r]} /\ state' \in States /\ stale' = FALSE
        /\ UNCHANGED <<errors, published, synced, skipped, pruned, used, scan, fixed>>
    BY <1>3 DEF ReachFrontier, FinishWindow, FailWindow, States
  <2>2. cursor' \in Nat
    BY <2>1 DEF TypeOK
  <2>3. QED
    BY <2>1, <2>2, LeaveType DEF TypeOK
<1>4. ASSUME NEW r \in Runners, GiveUp(r) PROVE TypeOK'
  BY <1>4, GotoType DEF GiveUp, TypeOK, row, local
<1>5. ASSUME NEW r \in Runners, GoOn(r) PROVE TypeOK'
  <2>1. cursor' \in Nat /\ stale' \in BOOLEAN
    BY <1>5 DEF GoOn, TypeOK
  <2>2. next' \in [Runners -> Nat]
    BY <1>5 DEF GoOn, TypeOK
  <2>3. pc' \in [Runners -> {"idle", "sync", "check", "fail"}]
    BY <1>5, GotoType DEF GoOn
  <2>4. QED
    BY <1>5, <2>1, <2>2, <2>3 DEF GoOn, TypeOK
<1>6. ASSUME NEW r \in Runners, Abort(r) PROVE TypeOK'
  <2>1. used' \in [crash : Nat, abort : Nat, outage : Nat, unlock : Nat]
    BY <1>6, StrikesType DEF Abort
  <2>2. pc' \in [Runners -> {"idle", "sync", "check", "fail"}]
    BY <1>6, GotoType DEF Abort
  <2>3. QED
    BY <1>6, <2>1, <2>2 DEF Abort, TypeOK, row, local
<1>7. ASSUME NEW r \in Runners, Crash(r) PROVE TypeOK'
  <2>1. used' \in [crash : Nat, abort : Nat, outage : Nat, unlock : Nat]
    BY <1>7, StrikesType DEF Crash
  <2>2. QED
    BY <1>7, <2>1, LeaveType DEF Crash, TypeOK, row
<1>8. ASSUME NEW s \in Scanners, Scan(s) PROVE TypeOK'
  <2>1. CASE ScanSelect(s)
    BY <2>1, <1>8 DEF ScanSelect, TypeOK, row, local
  <2>2. CASE ScanUnlock(s)
    BY <2>2 DEF ScanUnlock, UnlockRunning, TypeOK, local, States
  <2>3. QED
    BY <1>8, <2>1, <2>2 DEF Scan
<1>9. CASE GoesStale
  BY <1>9 DEF GoesStale, TypeOK, local
<1>10. CASE OperatorUnlock
  <2>1. used' \in [crash : Nat, abort : Nat, outage : Nat, unlock : Nat]
    BY <1>10, StrikesType DEF OperatorUnlock
  <2>2. QED
    BY <1>10, <2>1 DEF OperatorUnlock, UnlockRunning, TypeOK, local, States
<1>11. CASE Ledger
  <2>1. CASE DeleteError
    BY <2>1 DEF DeleteError, TypeOK, row, local
  <2>2. ASSUME NEW i \in errors, RetryError(i) PROVE TypeOK'
    <3>1. i \in Nat
      BY DEF TypeOK
    <3>2. synced' \subseteq Nat /\ skipped' \subseteq Nat /\ errors' \subseteq Nat
      BY <2>2, <3>1, RecordType DEF RetryError
    <3>3. fixed' \in Nat
      BY <2>2, <3>1 DEF RetryError
    <3>4. QED
      BY <2>2, <3>2, <3>3 DEF RetryError, TypeOK, row, local
  <2>3. ASSUME NEW i \in errors, PruneError(i) PROVE TypeOK'
    BY <2>3 DEF PruneError, TypeOK, row, local
  <2>4. QED
    BY <1>11, <2>1, <2>2, <2>3 DEF Ledger
<1>12. CASE Publish
  BY <1>12 DEF Publish, TypeOK, row, local
<1>13. CASE UNCHANGED vars
  BY <1>13 DEF TypeOK, vars, row, local
<1>14. QED
  BY <1>1, <1>2, <1>3, <1>4, <1>5, <1>6, <1>7, <1>8, <1>9, <1>10, <1>11, <1>12, <1>13
     DEF Next, Run

\* Every reachable state of a task is well typed.
THEOREM TypeCorrect == Safety => []TypeOK
<1>1. Init => TypeOK
  BY InitType
<1>2. TypeOK /\ [Next]_vars => TypeOK'
  BY TypeStep
<1>3. QED
  BY <1>1, <1>2, PTL DEF Safety
-----------------------------------------------------------------------------
(***************************************************************************)
(* The cursor covers only ids that were attempted.                         *)
(***************************************************************************)
\* What a runner holds in memory is attempted too: everything up to
\* last_synced_id, and the ids of its window before the one in hand.
SeenBy(r) ==
  /\ pc[r] # "idle" => \A i \in 1 .. last[r] : Attempted(i)
  /\ pc[r] = "sync" => \A i \in 1 .. next[r] - 1 : Attempted(i)
  /\ pc[r] = "check" => \A i \in 1 .. next[r] : Attempted(i)
Seen == \A r \in Runners : SeenBy(r)
\* An id leaves the ledger once it was fetched or found missing.
Settled == fixed # 0 => fixed \in synced \union skipped
CoveredInv == TypeOK /\ CursorCovered /\ Seen /\ Settled

\* An attempt is never forgotten.
LEMMA AttemptsKept ==
  ASSUME Settled, [Next]_vars, NEW i, Attempted(i)
  PROVE  Attempted(i)'
<1>1. ASSUME NEW r \in Runners, SyncOne(r) PROVE Attempted(i)'
  BY <1>1 DEF SyncOne, Record, Attempted
<1>2. ASSUME NEW r \in Runners,
             \/ StartWindow(r) \/ ReachFrontier(r) \/ GiveUp(r) \/ GoOn(r)
             \/ FinishWindow(r) \/ FailWindow(r) \/ Abort(r) \/ Crash(r)
      PROVE  UNCHANGED <<synced, skipped, errors, pruned>>
  BY <1>2 DEF StartWindow, ReachFrontier, GiveUp, GoOn, FinishWindow, FailWindow, Abort, Crash
<1>3. ASSUME NEW s \in Scanners, Scan(s) PROVE UNCHANGED <<synced, skipped, errors, pruned>>
  BY <1>3 DEF Scan, ScanSelect, ScanUnlock
<1>4. ASSUME GoesStale \/ OperatorUnlock \/ Publish PROVE UNCHANGED <<synced, skipped, errors, pruned>>
  BY <1>4 DEF GoesStale, OperatorUnlock, Publish
<1>5. ASSUME DeleteError PROVE Attempted(i)'
  BY <1>5 DEF DeleteError, Settled, Attempted
<1>10. ASSUME NEW k \in errors, PruneError(k) PROVE Attempted(i)'
  BY <1>10 DEF PruneError, Attempted
<1>6. ASSUME NEW k \in errors, RetryError(k) PROVE Attempted(i)'
  BY <1>6 DEF RetryError, Record, Attempted
<1>7. ASSUME UNCHANGED vars PROVE UNCHANGED <<synced, skipped, errors, pruned>>
  BY <1>7 DEF vars
<1>8. ASSUME UNCHANGED <<synced, skipped, errors, pruned>> PROVE Attempted(i)'
  BY <1>8 DEF Attempted
<1>9. QED
  BY <1>1, <1>2, <1>3, <1>4, <1>5, <1>10, <1>6, <1>7, <1>8 DEF Next, Run, Ledger

\* The id a fetch was for counts as attempted, whatever came of it.
LEMMA RecordAttempts ==
  ASSUME NEW i, NEW outcome \in Outcomes, Record(i, outcome)
  PROVE  Attempted(i)'
BY DEF Record, Attempted, Outcomes

\* A runner the step does not touch, or that leaves its window, keeps SeenBy.
LEMMA SeenUntouched ==
  ASSUME CoveredInv, [Next]_vars, NEW q \in Runners,
         pc'[q] = pc[q] /\ next'[q] = next[q] /\ last'[q] = last[q]
  PROVE  SeenBy(q)'
BY AttemptsKept DEF CoveredInv, Seen, SeenBy

LEMMA OthersUntouched ==
  ASSUME CoveredInv, [Next]_vars, NEW r \in Runners, NEW l, NEW n, NEW m,
         pc' = [pc EXCEPT ![r] = l], next' = [next EXCEPT ![r] = n],
         last' = [last EXCEPT ![r] = m]
  PROVE  /\ \A q \in Runners \ {r} : SeenBy(q)'
         /\ pc'[r] = l /\ next'[r] = n /\ last'[r] = m
<1>1. ASSUME NEW q \in Runners \ {r}
      PROVE  pc'[q] = pc[q] /\ next'[q] = next[q] /\ last'[q] = last[q]
  BY <1>1 DEF CoveredInv, TypeOK
<1>2. pc'[r] = l /\ next'[r] = n /\ last'[r] = m
  BY DEF CoveredInv, TypeOK
<1>3. QED
  BY <1>1, <1>2, SeenUntouched

LEMMA LeaveSeen ==
  ASSUME CoveredInv, [Next]_vars, NEW r \in Runners, Leave(r)
  PROVE  Seen'
<1>1. pc'[r] = "idle" /\ \A q \in Runners \ {r} : SeenBy(q)'
  BY OthersUntouched DEF Leave, Goto
<1>2. SeenBy(r)'
  BY <1>1 DEF SeenBy
<1>3. QED
  BY <1>1, <1>2 DEF Seen

\* Settled is about the ledger and the histories only.
LEMMA SettledKept ==
  ASSUME Settled, [Next]_vars
  PROVE  Settled'
<1>1. ASSUME NEW i \in errors, RetryError(i) PROVE Settled'
  <2>1. PICK outcome \in Answers(i) :
          Record(i, outcome) /\ fixed' = IF outcome = "failed" THEN 0 ELSE i
    BY <1>1 DEF RetryError
  <2>2. outcome \in Outcomes
    BY AnswersType
  <2>3. QED
    BY <2>1, <2>2 DEF Record, Settled, Outcomes
<1>2. ASSUME DeleteError PROVE Settled'
  BY <1>2 DEF DeleteError, Settled
<1>3. ASSUME NEW r \in Runners, SyncOne(r) PROVE Settled'
  BY <1>3 DEF SyncOne, Record, Settled
<1>4. ASSUME NEW r \in Runners,
             \/ StartWindow(r) \/ ReachFrontier(r) \/ GiveUp(r) \/ GoOn(r)
             \/ FinishWindow(r) \/ FailWindow(r) \/ Abort(r) \/ Crash(r)
      PROVE  UNCHANGED <<synced, skipped, fixed>>
  BY <1>4 DEF StartWindow, ReachFrontier, GiveUp, GoOn, FinishWindow, FailWindow, Abort, Crash
<1>5. ASSUME NEW s \in Scanners, Scan(s) PROVE UNCHANGED <<synced, skipped, fixed>>
  BY <1>5 DEF Scan, ScanSelect, ScanUnlock
<1>6. ASSUME \/ GoesStale \/ OperatorUnlock \/ Publish
             \/ \E i \in errors : PruneError(i)
      PROVE  UNCHANGED <<synced, skipped, fixed>>
  BY <1>6 DEF GoesStale, OperatorUnlock, Publish, PruneError
<1>7. ASSUME UNCHANGED vars PROVE UNCHANGED <<synced, skipped, fixed>>
  BY <1>7 DEF vars
<1>8. ASSUME UNCHANGED <<synced, skipped, fixed>> PROVE Settled'
  BY <1>8 DEF Settled
<1>9. QED
  BY <1>1, <1>2, <1>3, <1>4, <1>5, <1>6, <1>7, <1>8 DEF Next, Run, Ledger

LEMMA CoveredStep ==
  ASSUME CoveredInv, [Next]_vars
  PROVE  CoveredInv'
<1>1. TypeOK' /\ Settled'
  BY TypeStep, SettledKept DEF CoveredInv
<1>2. CursorCovered' /\ Seen'
  <2>0. ASSUME cursor' = cursor PROVE CursorCovered'
    BY <2>0, AttemptsKept DEF CoveredInv, CursorCovered
  <2>1. ASSUME UNCHANGED <<pc, next, last>> PROVE Seen'
    BY <2>1, SeenUntouched DEF Seen
  <2>2. ASSUME NEW r \in Runners, StartWindow(r) PROVE CursorCovered' /\ Seen'
    <3>1. /\ pc'[r] = "sync" /\ next'[r] = cursor + 1 /\ last'[r] = cursor
          /\ \A q \in Runners \ {r} : SeenBy(q)'
      BY <2>2, OthersUntouched DEF StartWindow, Goto
    <3>2. \A i \in 1 .. cursor : Attempted(i)'
      BY AttemptsKept DEF CoveredInv, CursorCovered
    <3>3. cursor \in Nat
      BY DEF CoveredInv, TypeOK
    <3>4. SeenBy(r)'
      BY <3>1, <3>2, <3>3 DEF SeenBy
    <3>5. QED
      BY <2>0, <2>2, <3>1, <3>4 DEF StartWindow, Seen
  <2>3. ASSUME NEW r \in Runners, SyncOne(r) PROVE CursorCovered' /\ Seen'
    <3>1. PICK outcome \in Answers(next[r]) \union {"failed"} :
            /\ Record(next[r], outcome)
            /\ last' = [last EXCEPT ![r] = IF outcome = "synced" THEN next[r] ELSE @]
      BY <2>3 DEF SyncOne
    <3>2. \A i : i = next[r] => Attempted(i)'
      <4>1. outcome \in Outcomes
        BY AnswersType DEF Outcomes
      <4>2. QED
        BY <3>1, <4>1, RecordAttempts
    <3>3. \A i \in 1 .. next[r] - 1 : Attempted(i)'
      BY <2>3, AttemptsKept DEF SyncOne, CoveredInv, Seen, SeenBy
    <3>4. \A i \in 1 .. last[r] : Attempted(i)'
      BY <2>3, AttemptsKept DEF SyncOne, CoveredInv, Seen, SeenBy
    <3>5. next[r] \in Nat /\ last[r] \in Nat
      BY DEF CoveredInv, TypeOK
    <3>6. \A i \in 1 .. next[r] : Attempted(i)'
      <4>1. \A i \in 1 .. next[r] : i = next[r] \/ i \in 1 .. next[r] - 1
        BY <3>5
      <4>2. QED
        BY <3>2, <3>3, <4>1
    <3> DEFINE m == IF outcome = "synced" THEN next[r] ELSE last[r]
    <3>7. m \in {next[r], last[r]} /\ last' = [last EXCEPT ![r] = m]
      BY <3>1
    <3> HIDE DEF m
    <3>8. next' = [next EXCEPT ![r] = next[r]] /\ pc' = [pc EXCEPT ![r] = "check"]
      BY <2>3 DEF SyncOne, Goto, CoveredInv, TypeOK
    <3>9. /\ pc'[r] = "check" /\ next'[r] = next[r] /\ last'[r] = m
          /\ \A q \in Runners \ {r} : SeenBy(q)'
      BY <3>7, <3>8, OthersUntouched
    <3>10. SeenBy(r)'
      BY <3>4, <3>6, <3>7, <3>9 DEF SeenBy
    <3>11. QED
      BY <2>0, <2>3, <3>9, <3>10 DEF SyncOne, row, Seen
  <2>4. ASSUME NEW r \in Runners, ReachFrontier(r) \/ FailWindow(r)
        PROVE  CursorCovered' /\ Seen'
    <3>1. Leave(r) /\ cursor' = last[r] /\ pc[r] # "idle"
      BY <2>4 DEF ReachFrontier, FailWindow
    <3>2. \A i \in 1 .. last[r] : Attempted(i)'
      BY <3>1, AttemptsKept DEF CoveredInv, Seen, SeenBy
    <3>3. QED
      BY <3>1, <3>2, LeaveSeen DEF CursorCovered
  <2>5. ASSUME NEW r \in Runners, FinishWindow(r) PROVE CursorCovered' /\ Seen'
    <3>1. Leave(r) /\ cursor' = end[r] /\ pc[r] = "sync" /\ next[r] > end[r]
      BY <2>5 DEF FinishWindow
    <3>2. \A i \in 1 .. next[r] - 1 : Attempted(i)'
      BY <3>1, AttemptsKept DEF CoveredInv, Seen, SeenBy
    <3>3. 1 .. end[r] \subseteq 1 .. next[r] - 1
      BY <3>1 DEF CoveredInv, TypeOK
    <3>4. QED
      BY <3>1, <3>2, <3>3, LeaveSeen DEF CursorCovered
  <2>6. ASSUME NEW r \in Runners, GoOn(r) PROVE CursorCovered' /\ Seen'
    <3>1. /\ pc' = [pc EXCEPT ![r] = "sync"] /\ next' = [next EXCEPT ![r] = next[r] + 1]
          /\ last' = [last EXCEPT ![r] = last[r]]
          /\ cursor' \in {cursor, last[r]} /\ pc[r] = "check"
      BY <2>6 DEF GoOn, Goto, CoveredInv, TypeOK
    <3>2. /\ pc'[r] = "sync" /\ next'[r] = next[r] + 1 /\ last'[r] = last[r]
          /\ \A q \in Runners \ {r} : SeenBy(q)'
      BY <3>1, OthersUntouched
    <3>3. \A i \in 1 .. last[r] : Attempted(i)'
      BY <3>1, AttemptsKept DEF CoveredInv, Seen, SeenBy
    <3>4. \A i \in 1 .. next[r] : Attempted(i)'
      BY <3>1, AttemptsKept DEF CoveredInv, Seen, SeenBy
    <3>5. \A n : n = next[r] + 1 => n - 1 = next[r]
      BY DEF CoveredInv, TypeOK
    <3>6. SeenBy(r)'
      <4>1. 1 .. (next'[r] - 1) = 1 .. next[r]
        BY <3>2, <3>5
      <4>2. \A i \in 1 .. (next'[r] - 1) : Attempted(i)'
        BY <3>4, <4>1
      <4>3. QED
        BY <3>2, <3>3, <4>2 DEF SeenBy
    <3>7. CursorCovered'
      BY <2>0, <3>1, <3>3 DEF CursorCovered
    <3>8. QED
      BY <3>2, <3>6, <3>7 DEF Seen
  <2>7. ASSUME NEW r \in Runners, GiveUp(r) \/ Abort(r) PROVE CursorCovered' /\ Seen'
    <3>1. /\ pc' = [pc EXCEPT ![r] = "fail"] /\ next' = [next EXCEPT ![r] = next[r]]
          /\ last' = [last EXCEPT ![r] = last[r]] /\ cursor' = cursor /\ pc[r] # "idle"
      BY <2>7 DEF GiveUp, Abort, Goto, CoveredInv, TypeOK, local, row
    <3>2. /\ pc'[r] = "fail" /\ last'[r] = last[r]
          /\ \A q \in Runners \ {r} : SeenBy(q)'
      BY <3>1, OthersUntouched
    <3>3. \A i \in 1 .. last[r] : Attempted(i)'
      BY <3>1, AttemptsKept DEF CoveredInv, Seen, SeenBy
    <3>4. SeenBy(r)'
      BY <3>2, <3>3 DEF SeenBy
    <3>5. QED
      BY <2>0, <3>1, <3>2, <3>4 DEF Seen
  <2>8. ASSUME NEW r \in Runners, Crash(r) PROVE CursorCovered' /\ Seen'
    BY <2>0, <2>8, LeaveSeen DEF Crash, row
  <2>9. ASSUME \/ \E s \in Scanners : Scan(s)
               \/ GoesStale \/ OperatorUnlock \/ Ledger \/ Publish \/ UNCHANGED vars
        PROVE  UNCHANGED <<cursor, pc, next, last>>
    BY <2>9 DEF Scan, ScanSelect, ScanUnlock, GoesStale, OperatorUnlock, Ledger, DeleteError,
                RetryError, PruneError, Publish, vars, row, local
  <2>10. QED
    BY <2>0, <2>1, <2>2, <2>3, <2>4, <2>5, <2>6, <2>7, <2>8, <2>9 DEF Next, Run
<1>3. QED
  BY <1>1, <1>2 DEF CoveredInv

\* However windows fail, crash, are reopened and overlap, in workers or in shells, the
\* cursor passes only ids that were fetched, found missing or entered in the ledger.
THEOREM Covered == Safety => []CursorCovered
<1>1. Init => CoveredInv
  <2>1. ASSUME Init PROVE TypeOK
    BY <2>1, InitType
  <2>2. ASSUME Init PROVE CursorCovered /\ Settled
    BY <2>2 DEF Init, CursorCovered, Settled
  <2>3. ASSUME Init PROVE Seen
    BY <2>3 DEF Init, Seen, SeenBy
  <2>4. QED
    BY <2>1, <2>2, <2>3 DEF CoveredInv
<1>2. CoveredInv /\ [Next]_vars => CoveredInv'
  BY CoveredStep
<1>3. CoveredInv => CursorCovered
  BY DEF CoveredInv
<1>4. QED
  BY <1>1, <1>2, <1>3, PTL DEF Safety
-----------------------------------------------------------------------------
(***************************************************************************)
(* Runs do not overlap, and the cursor does not go back.  Two premises are *)
(* needed: every run is a Celery run, which ends before its row can turn   *)
(* stale, and the scan runs in one process; a second scan could reopen a   *)
(* row that was stale when it looked and has been claimed since.           *)
(***************************************************************************)
InTime == Shells = {} /\ \A s, t \in Scanners : s = t

\* A run holds a fresh RUNNING row, behind whose window the cursor stays.
Owns(r) ==
  Inside(r) =>
    /\ state = "running" /\ ~stale
    /\ cursor <= last[r] /\ last[r] <= next[r] /\ last[r] <= end[r]
    /\ pc[r] = "check" => next[r] <= end[r]
\* Nobody shares a window, and a row selected as stale is still nobody's.
Alone ==
  /\ \A r, q \in Runners : Inside(r) /\ Inside(q) => r = q
  /\ \A r \in Runners : Owns(r)
  /\ \A s \in scan : state = "running" /\ stale
AloneInv == TypeOK /\ (used.unlock = 0 => Alone)

\* The trouble of the past stays on record.
LEMMA UnlocksKept ==
  ASSUME TypeOK, [Next]_vars, used'.unlock = 0
  PROVE  used.unlock = 0
<1>1. ASSUME NEW b \in {"crash", "abort", "outage", "unlock"}, Strikes(b)
      PROVE  used.unlock = 0
  BY <1>1 DEF Strikes, TypeOK
<1>2. ASSUME used' = used PROVE used.unlock = 0
  BY <1>2
<1>3. ASSUME NEW r \in Runners, SyncOne(r) PROVE used.unlock = 0
  <2>1. UNCHANGED used \/ Strikes("outage")
    BY <1>3 DEF SyncOne
  <2>2. QED
    BY <1>1, <1>2, <2>1
<1>4. ASSUME NEW r \in Runners, Abort(r) \/ Crash(r) PROVE used.unlock = 0
  BY <1>1, <1>4 DEF Abort, Crash
<1>5. ASSUME OperatorUnlock PROVE used.unlock = 0
  BY <1>1, <1>5 DEF OperatorUnlock
<1>6. ASSUME NEW r \in Runners,
             \/ StartWindow(r) \/ ReachFrontier(r) \/ GiveUp(r) \/ GoOn(r)
             \/ FinishWindow(r) \/ FailWindow(r)
      PROVE  used' = used
  BY <1>6 DEF StartWindow, ReachFrontier, GiveUp, GoOn, FinishWindow, FailWindow
<1>7. ASSUME \/ \E s \in Scanners : Scan(s)
             \/ GoesStale \/ Ledger \/ Publish \/ UNCHANGED vars
      PROVE  used' = used
  BY <1>7 DEF Scan, ScanSelect, ScanUnlock, GoesStale, Ledger, DeleteError, RetryError,
              PruneError, Publish, vars
<1>8. QED
  BY <1>2, <1>3, <1>4, <1>5, <1>6, <1>7 DEF Next, Run

\* A run that ends leaves an empty field: nobody is inside, nothing is selected.
LEMMA LeaveAlone ==
  ASSUME TypeOK, Alone, NEW r \in Runners, Inside(r), Leave(r), scan' = scan
  PROVE  Alone'
<1>1. \A q \in Runners : ~Inside(q)'
  <2>1. \A q \in Runners : pc'[q] = IF q = r THEN "idle" ELSE pc[q]
    BY DEF Leave, Goto, TypeOK
  <2>2. \A q \in Runners : q # r => pc[q] = "idle"
    BY DEF Alone, Inside
  <2>3. QED
    BY <2>1, <2>2 DEF Inside
<1>2. scan' = {}
  BY DEF Alone, Owns
<1>3. QED
  BY <1>1, <1>2 DEF Alone, Owns

\* A step of the run in the window: the others stay outside, the row stays its own.
LEMMA StepAlone ==
  ASSUME TypeOK, Alone, NEW r \in Runners, Inside(r), NEW l, Goto(r, l),
         scan' = scan, Owns(r)'
  PROVE  Alone'
<1>1. \A q \in Runners : q # r => ~Inside(q)'
  BY DEF Goto, TypeOK, Alone, Inside
<1>2. scan' = {}
  BY DEF Alone, Owns
<1>3. QED
  BY <1>1, <1>2 DEF Alone, Owns

LEMMA AloneStep ==
  ASSUME InTime, TypeOK, Alone, [Next]_vars, used'.unlock = 0
  PROVE  Alone'
<1>0. Runners = Workers /\ used.unlock = 0
  BY UnlocksKept DEF InTime, Runners
<1>1. ASSUME NEW r \in Runners, StartWindow(r) PROVE Alone'
  <2>1. \A q \in Runners : ~Inside(q)
    BY <1>1 DEF StartWindow, Alone, Owns
  <2>2. scan' = {}
    BY <1>1 DEF StartWindow, Alone
  <2>3. \A q \in Runners : q # r => ~Inside(q)'
    BY <1>1, <2>1 DEF StartWindow, Goto, TypeOK, Inside
  <2>4. Owns(r)'
    <3>1. /\ pc'[r] = "sync" /\ next'[r] = cursor + 1 /\ end'[r] = cursor + BatchSize
          /\ last'[r] = cursor /\ cursor' = cursor /\ state' = "running" /\ stale' = FALSE
      BY <1>1 DEF StartWindow, Goto, TypeOK
    <3>2. cursor <= cursor + 1 /\ cursor <= cursor + BatchSize /\ cursor <= cursor
      BY NaturalConstants DEF TypeOK
    <3>3. QED
      BY <3>1, <3>2 DEF Owns
  <2>5. QED
    BY <2>2, <2>3, <2>4 DEF Alone, Owns
<1>2. ASSUME NEW r \in Runners, SyncOne(r) PROVE Alone'
  <2>1. Inside(r) /\ next[r] <= end[r]
    BY <1>2 DEF SyncOne, Inside
  <2>2. last'[r] \in {next[r], last[r]} /\ pc'[r] = "check"
        /\ UNCHANGED <<cursor, state, stale, next, end>>
    BY <1>2 DEF SyncOne, Goto, row, TypeOK
  <2>3. /\ cursor <= last[r] /\ last[r] <= next[r] /\ last[r] <= end[r]
        /\ state = "running" /\ ~stale
        /\ cursor \in Nat /\ last[r] \in Nat /\ next[r] \in Nat /\ end[r] \in Nat
    BY <2>1 DEF Alone, Owns, TypeOK
  <2>4. Owns(r)'
    <3>1. cursor <= next[r] /\ next[r] <= next[r]
      BY <2>3
    <3>2. CASE last'[r] = next[r]
      BY <2>1, <2>2, <2>3, <3>1, <3>2 DEF Owns
    <3>3. CASE last'[r] = last[r]
      BY <2>1, <2>2, <2>3, <3>3 DEF Owns
    <3>4. QED
      BY <2>2, <3>2, <3>3
  <2>5. QED
    BY <1>2, <2>1, <2>4, StepAlone DEF SyncOne
<1>3. ASSUME NEW r \in Runners, ReachFrontier(r) \/ FinishWindow(r) \/ FailWindow(r) \/ Crash(r)
      PROVE  Alone'
  BY <1>3, LeaveAlone DEF ReachFrontier, FinishWindow, FailWindow, Crash, Inside
<1>4. ASSUME NEW r \in Runners, GiveUp(r) \/ Abort(r) PROVE Alone'
  <2>1. Inside(r) /\ Goto(r, "fail") /\ UNCHANGED <<cursor, state, stale, next, end, last, scan>>
    BY <1>4 DEF GiveUp, Abort, Inside, row, local
  <2>2. Owns(r)'
    BY <2>1 DEF Alone, Owns, Goto, TypeOK
  <2>3. QED
    BY <2>1, <2>2, StepAlone
<1>5. ASSUME NEW r \in Runners, GoOn(r) PROVE Alone'
  <2>1. /\ pc[r] = "check" /\ pc'[r] = "sync" /\ next'[r] = next[r] + 1
        /\ cursor' \in {cursor, last[r]} /\ stale' \in {stale, FALSE}
        /\ UNCHANGED <<state, end, last, scan>>
    BY <1>5 DEF GoOn, Goto, TypeOK
  <2>2. /\ cursor <= last[r] /\ last[r] <= next[r] /\ last[r] <= end[r]
        /\ state = "running" /\ ~stale
        /\ cursor \in Nat /\ last[r] \in Nat /\ next[r] \in Nat
    BY <2>1 DEF Alone, Owns, Inside, TypeOK
  <2>3. last[r] <= next[r] + 1 /\ last[r] <= last[r]
    BY <2>2
  <2>4. Owns(r)'
    BY <2>1, <2>2, <2>3 DEF Owns
  <2>5. QED
    BY <1>5, <2>1, <2>4, StepAlone DEF GoOn, Inside
<1>6. ASSUME NEW s \in Scanners, ScanSelect(s) PROVE Alone'
  BY <1>6 DEF ScanSelect, Alone, Owns, Inside, row, local
<1>7. ASSUME NEW s \in Scanners, ScanUnlock(s) PROVE Alone'
  <2>1. state = "running" /\ stale
    BY <1>7 DEF ScanUnlock, Alone
  <2>2. \A q \in Runners : ~Inside(q)
    BY <2>1 DEF Alone, Owns
  <2>3. scan' = {}
    BY <1>7 DEF ScanUnlock, InTime, TypeOK
  <2>4. \A q \in Runners : ~Inside(q)'
    BY <1>7, <2>2 DEF ScanUnlock, Inside
  <2>5. QED
    BY <2>3, <2>4 DEF Alone, Owns
<1>8. CASE GoesStale
  <2>1. \A q \in Runners : ~Inside(q)'
    BY <1>0, <1>8 DEF GoesStale, Inside
  <2>2. state' = "running" /\ stale'
    BY <1>8 DEF GoesStale
  <2>3. QED
    BY <2>1, <2>2 DEF Alone, Owns
<1>9. CASE OperatorUnlock
  <2>1. used'.unlock = used.unlock + 1
    BY <1>9 DEF OperatorUnlock, Strikes, TypeOK
  <2>2. QED
    BY <1>0, <2>1
<1>10. ASSUME Ledger \/ Publish \/ UNCHANGED vars PROVE Alone'
  <2>1. UNCHANGED <<row, pc, local, scan>>
    BY <1>10 DEF Ledger, DeleteError, RetryError, PruneError, Publish, vars
  <2>2. QED
    BY <2>1 DEF Alone, Owns, Inside, row, local
<1>11. QED
  BY <1>1, <1>2, <1>3, <1>4, <1>5, <1>6, <1>7, <1>8, <1>9, <1>10 DEF Next, Run, Scan

LEMMA AlwaysAlone == ASSUME InTime PROVE Safety => []AloneInv
<1>1. Init => AloneInv
  <2>1. ASSUME Init PROVE Alone
    BY <2>1 DEF Init, Alone, Owns, Inside
  <2>2. QED
    BY <2>1, InitType DEF AloneInv
<1>2. AloneInv /\ [Next]_vars => AloneInv'
  <2>1. ASSUME AloneInv, [Next]_vars PROVE TypeOK'
    BY <2>1, TypeStep DEF AloneInv
  <2>2. ASSUME AloneInv, [Next]_vars, used'.unlock = 0 PROVE Alone'
    BY <2>2, UnlocksKept, AloneStep DEF AloneInv
  <2>3. QED
    BY <2>1, <2>2 DEF AloneInv
<1>3. QED
  BY <1>1, <1>2, PTL DEF Safety

\* As long as the operator unlocks nothing by hand, no two Celery runs ever work on
\* the same task at once, whatever crashes, aborts and outages there are.
THEOREM Exclusive == ASSUME InTime PROVE Safety => []WindowExclusive
<1>1. AloneInv => WindowExclusive
  BY DEF AloneInv, Alone, WindowExclusive, Runners
<1>2. QED
  BY <1>1, AlwaysAlone, PTL

\* Under the same premises no write of a run takes the cursor back.
THEOREM Forward == ASSUME InTime PROVE Safety => CursorForward
<1>1. AloneInv /\ [Next]_vars => [used.unlock = 0 => cursor' >= cursor]_vars
  <2> SUFFICES ASSUME AloneInv, Next, used.unlock = 0 PROVE cursor' >= cursor
    OBVIOUS
  <2>0. cursor \in Nat /\ Alone
    BY DEF AloneInv, TypeOK
  <2>1. ASSUME cursor' = cursor PROVE cursor' >= cursor
    BY <2>0, <2>1
  <2>2. ASSUME NEW r \in Runners, Inside(r), cursor' = last[r] PROVE cursor' >= cursor
    <3>1. cursor <= last[r] /\ last[r] \in Nat
      BY <2>0, <2>2 DEF Alone, Owns, AloneInv, TypeOK
    <3>2. QED
      BY <2>0, <2>2, <3>1
  <2>3. ASSUME NEW r \in Runners, FinishWindow(r) PROVE cursor' >= cursor
    <3>1. cursor <= last[r] /\ last[r] <= end[r] /\ last[r] \in Nat /\ end[r] \in Nat
      BY <2>0, <2>3 DEF FinishWindow, Inside, Alone, Owns, AloneInv, TypeOK
    <3>2. QED
      BY <2>0, <2>3, <3>1 DEF FinishWindow
  <2>4. ASSUME NEW r \in Runners, ReachFrontier(r) \/ FailWindow(r) \/ GoOn(r)
        PROVE  Inside(r) /\ (cursor' = last[r] \/ cursor' = cursor)
    BY <2>4 DEF ReachFrontier, FailWindow, GoOn, Inside
  <2>5. ASSUME NEW r \in Runners,
               StartWindow(r) \/ SyncOne(r) \/ GiveUp(r) \/ Abort(r) \/ Crash(r)
        PROVE  cursor' = cursor
    BY <2>5 DEF StartWindow, SyncOne, GiveUp, Abort, Crash, row
  <2>6. ASSUME \/ \E s \in Scanners : Scan(s)
               \/ GoesStale \/ OperatorUnlock \/ Ledger \/ Publish
        PROVE  cursor' = cursor
    BY <2>6 DEF Scan, ScanSelect, ScanUnlock, GoesStale, OperatorUnlock, Ledger, DeleteError,
                RetryError, PruneError, Publish, row
  <2>7. QED
    BY <2>1, <2>2, <2>3, <2>4, <2>5, <2>6 DEF Next, Run
<1>2. QED
  BY <1>1, AlwaysAlone, PTL DEF Safety, CursorForward
=============================================================================
