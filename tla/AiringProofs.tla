---------------------------- MODULE AiringProofs ----------------------------
(***************************************************************************)
(* Theorems about the two halves of airing: AiringDaily, for every board,  *)
(* batch size, error limit and number of runs, and AiringBoard, for every  *)
(* catalogue, number of quarters, of tasks that run at once and of failures. *)
(***************************************************************************)
EXTENDS AiringDaily, AiringBoard, SequenceTheorems, FiniteSetTheorems, FunctionTheorems, TLAPS

LEMMA NaturalConstants ==
  /\ NumMembers \in Nat /\ BatchSize \in Nat /\ BatchSize >= 1
  /\ MaxErrors \in Nat /\ MaxErrors >= 1
BY AiringAssumption

-----------------------------------------------------------------------------
(***************************************************************************)
(* Lists of targets.                                                       *)
(***************************************************************************)
\* A list of targets is finite, and empty only if it has no position.
LEMMA ListFinite ==
  ASSUME NEW list \in SUBSET Members
  PROVE  /\ IsFiniteSet(list) /\ Cardinality(list) \in Nat
         /\ list # {} => Cardinality(list) >= 1
<1>1. IsFiniteSet(Members)
  BY FS_Interval, NaturalConstants DEF Members
<1>2. IsFiniteSet(list)
  BY <1>1, FS_Subset
<1>3. Cardinality(list) \in Nat /\ (Cardinality(list) = 0 <=> list = {})
  BY <1>2, FS_CardinalityType, FS_EmptySet
<1>4. QED
  BY <1>2, <1>3

\* Counting the members sorted before it numbers a list from 0 without a gap, so
\* every position has a target: targets[k] never runs out of the list.
LEMMA TargetExists ==
  ASSUME NEW list \in SUBSET Members, NEW k \in Nat, k < Cardinality(list)
  PROVE  Target(list, k) \in list
<1> DEFINE Before(m) == {l \in list : l < m}
           Rank(m)   == Cardinality(Before(m))
           n         == Cardinality(list)
           rank      == [m \in list |-> Rank(m)]
<1>1. IsFiniteSet(list) /\ n \in Nat
  BY ListFinite
<1>2. \A m : IsFiniteSet(Before(m)) /\ Rank(m) \in Nat
  BY <1>1, FS_Subset, FS_CardinalityType
<1>3. \A m \in list : m \in Nat
  BY NaturalConstants DEF Members
<1>4. ASSUME NEW m \in list PROVE Rank(m) \in 0 .. n - 1
  <2>1. Before(m) \in SUBSET list /\ m \notin Before(m)
    BY <1>3
  <2>2. Rank(m) <= n /\ Rank(m) # n
    BY <1>1, <2>1, FS_Subset
  <2>3. QED
    BY <1>1, <1>2, <2>2
<1>5. ASSUME NEW m \in list, NEW l \in list, m < l PROVE Rank(m) # Rank(l)
  <2>1. Before(m) \in SUBSET Before(l)
    BY <1>3, <1>5
  <2>2. m \in Before(l) /\ m \notin Before(m)
    BY <1>3, <1>5
  <2>3. QED
    BY <1>2, <2>1, <2>2, FS_Subset
<1>6. rank \in Injection(list, 0 .. n - 1)
  <2>1. rank \in [list -> 0 .. n - 1]
    BY <1>4
  <2>2. ASSUME NEW m \in list, NEW l \in list, rank[m] = rank[l] PROVE m = l
    <3>1. Rank(m) = Rank(l)
      BY <2>2
    <3> HIDE DEF Rank
    <3>2. ~(m < l) /\ ~(l < m)
      BY <1>5, <3>1
    <3>3. QED
      BY <1>3, <3>2
  <2>3. QED
    BY <2>1, <2>2 DEF Injection, IsInjective
<1>7. IsFiniteSet(0 .. n - 1) /\ Cardinality(0 .. n - 1) = n
  <2> HIDE DEF n
  <2>1. n - 1 \in Int
    BY <1>1
  <2>2. /\ IsFiniteSet(0 .. n - 1)
        /\ Cardinality(0 .. n - 1) = IF 0 > n - 1 THEN 0 ELSE (n - 1) - 0 + 1
    BY <2>1, FS_Interval
  <2>3. QED
    BY <1>1, <2>2
<1>8. rank \in Surjection(list, 0 .. n - 1)
  BY <1>6, <1>7, FS_Injection
<1>9. k \in 0 .. n - 1
  BY <1>1
<1>10. PICK m \in list : rank[m] = k
  BY <1>8, <1>9 DEF Surjection
<1>11. Cardinality({l \in list : l < m}) = k
  BY <1>10
<1>12. QED
  BY <1>11 DEF Target
-----------------------------------------------------------------------------
(***************************************************************************)
(* Type correctness, and batches inside their list.                        *)
(***************************************************************************)
\* A run that has read the board has a list that is not empty, and a run that has
\* opened a batch has one that lies inside the list.
Placed(w) ==
  /\ pc[w] # "idle" => targets[w] # {}
  /\ Inside(w) => next[w] <= end[w] + 1 /\ end[w] < Cardinality(targets[w])
AllPlaced == \A w \in Workers : Placed(w)
BatchInv == TypeOK /\ AllPlaced

LEMMA BatchInit == Init => BatchInv
<1> SUFFICES ASSUME Init PROVE BatchInv
  OBVIOUS
<1>1. index \in Nat /\ state \in States /\ board \subseteq Members /\ attempted \subseteq Members
  BY DEF Init, States
<1>2. used \in [Kinds -> Nat]
  BY DEF Init
<1>3. pc \in [Workers -> {"idle", "look", "start", "refresh", "fail"}]
  BY DEF Init
<1>4. targets \in [Workers -> SUBSET Members]
  BY DEF Init
<1>5. next \in [Workers -> Nat] /\ end \in [Workers -> Nat] /\ fails \in [Workers -> Nat]
  BY DEF Init
<1>6. AllPlaced
  BY DEF Init, AllPlaced, Placed, Inside
<1>7. QED
  BY <1>1, <1>2, <1>3, <1>4, <1>5, <1>6 DEF BatchInv, TypeOK

\* The run is over: its variables are well typed and nothing is claimed of them.
LEMMA LeaveInv ==
  ASSUME BatchInv, NEW w \in Workers, Leave(w)
  PROVE  /\ pc' \in [Workers -> {"idle", "look", "start", "refresh", "fail"}]
         /\ targets' \in [Workers -> SUBSET Members]
         /\ next' \in [Workers -> Nat] /\ end' \in [Workers -> Nat] /\ fails' \in [Workers -> Nat]
         /\ AllPlaced'
<1>1. /\ pc' \in [Workers -> {"idle", "look", "start", "refresh", "fail"}]
      /\ targets' \in [Workers -> SUBSET Members]
      /\ next' \in [Workers -> Nat] /\ end' \in [Workers -> Nat] /\ fails' \in [Workers -> Nat]
  BY DEF BatchInv, TypeOK, Leave, Goto
<1>2. Placed(w)'
  BY DEF BatchInv, TypeOK, Leave, Goto, Placed, Inside
<1>3. ASSUME NEW v \in Workers, v # w PROVE Placed(v)'
  <2>1. /\ pc'[v] = pc[v] /\ targets'[v] = targets[v] /\ next'[v] = next[v] /\ end'[v] = end[v]
    BY <1>3 DEF BatchInv, TypeOK, Leave, Goto
  <2>2. QED
    BY <2>1 DEF BatchInv, AllPlaced, Placed, Inside
<1>4. QED
  BY <1>1, <1>2, <1>3 DEF AllPlaced

LEMMA NoteType ==
  ASSUME TypeOK, NEW k \in Kinds, Note(k)
  PROVE  used' \in [Kinds -> Nat]
BY DEF TypeOK, Note

LEMMA BatchStep ==
  ASSUME BatchInv, [Next]_vars
  PROVE  BatchInv'
<1> USE DEF BatchInv
<1>1. ASSUME NEW w \in Workers, ReadBoard(w) PROVE BatchInv'
  <2>1. TypeOK'
    BY <1>1 DEF ReadBoard, Goto, TypeOK, row
  <2>2. ASSUME NEW v \in Workers PROVE Placed(v)'
    BY <1>1 DEF ReadBoard, Goto, TypeOK, AllPlaced, Placed, Inside
  <2>3. QED
    BY <2>1, <2>2 DEF AllPlaced
<1>2. ASSUME NEW w \in Workers, LookDone(w) PROVE BatchInv'
  <2>1. CASE Leave(w)
    BY <1>2, <2>1, LeaveInv DEF LookDone, TypeOK, row
  <2>2. CASE Goto(w, "start") /\ UNCHANGED local
    <3>1. TypeOK'
      BY <1>2, <2>2 DEF LookDone, Goto, TypeOK, row, local
    <3>2. ASSUME NEW v \in Workers PROVE Placed(v)'
      BY <1>2, <2>2 DEF LookDone, Goto, TypeOK, AllPlaced, Placed, Inside, local
    <3>3. QED
      BY <3>1, <3>2 DEF AllPlaced
  <2>3. QED
    BY <1>2, <2>1, <2>2 DEF LookDone
<1>3. ASSUME NEW w \in Workers, StartWindow(w) PROVE BatchInv'
  <2> DEFINE n     == Cardinality(targets[w])
             start == IF index < n THEN index ELSE n - 1
             last  == Last(start, n)
  <2>1. CASE state = "running" /\ Leave(w) /\ UNCHANGED state
    BY <1>3, <2>1, LeaveInv DEF StartWindow, TypeOK
  <2>2. CASE state # "running" /\ next' = [next EXCEPT ![w] = start]
             /\ end' = [end EXCEPT ![w] = last]
             /\ state' = "running" /\ Goto(w, "refresh") /\ UNCHANGED <<targets, fails>>
    <3>1. n \in Nat /\ n >= 1
      <4>1. targets[w] # {} /\ targets[w] \in SUBSET Members
        BY <1>3 DEF StartWindow, AllPlaced, Placed, TypeOK
      <4>2. QED
        BY <4>1, ListFinite
    <3>2. start \in Nat /\ start <= n - 1
      <4> HIDE DEF n
      <4>1. QED
        BY <3>1 DEF TypeOK
    <3>3. last \in Nat /\ start <= last /\ last <= n - 1
      <4> HIDE DEF n, start
      <4>1. QED
        BY <3>1, <3>2, NaturalConstants DEF Last
    <3> HIDE DEF n, start, last
    <3>4. TypeOK'
      BY <1>3, <2>2, <3>2, <3>3 DEF StartWindow, Goto, TypeOK, States
    <3>5. Placed(w)'
      <4>1. /\ pc'[w] = "refresh" /\ next'[w] = start /\ end'[w] = last
            /\ targets'[w] = targets[w]
        BY <2>2 DEF Goto, TypeOK
      <4>2. start <= last + 1 /\ last < n
        BY <3>1, <3>2, <3>3
      <4>3. targets[w] # {}
        BY <1>3 DEF StartWindow, AllPlaced, Placed
      <4>4. QED
        BY <4>1, <4>2, <4>3 DEF Placed, Inside, n
    <3>6. ASSUME NEW v \in Workers, v # w PROVE Placed(v)'
      <4>1. /\ pc'[v] = pc[v] /\ next'[v] = next[v] /\ end'[v] = end[v]
            /\ targets'[v] = targets[v]
        BY <2>2, <3>6 DEF Goto, TypeOK
      <4>2. QED
        BY <4>1 DEF AllPlaced, Placed, Inside
    <3>7. QED
      BY <3>4, <3>5, <3>6 DEF AllPlaced
  <2>3. QED
    BY <1>3, <2>1, <2>2 DEF StartWindow
<1>4. ASSUME NEW w \in Workers, RefreshTarget(w) PROVE BatchInv'
  <2> DEFINE target == Target(targets[w], next[w])
  <2>1. /\ next[w] \in Nat /\ end[w] \in Nat /\ fails[w] \in Nat
        /\ targets[w] \in SUBSET Members /\ targets[w] # {}
        /\ next[w] <= end[w] /\ end[w] < Cardinality(targets[w])
    BY <1>4 DEF RefreshTarget, AllPlaced, Placed, Inside, TypeOK
  <2>2. target \in targets[w]
    <3>1. next[w] < Cardinality(targets[w])
      BY <2>1, ListFinite
    <3>2. QED
      BY <2>1, <3>1, TargetExists
  <2>3. attempted' \subseteq Members
    BY <1>4, <2>1, <2>2 DEF RefreshTarget, TypeOK
  <2>4. fails' \in [Workers -> Nat] /\ used' \in [Kinds -> Nat]
    <3>1. UNCHANGED used \/ Note("outage")
      BY <1>4 DEF RefreshTarget, Strikes
    <3>2. used' \in [Kinds -> Nat]
      BY <3>1, NoteType DEF TypeOK, Kinds
    <3>3. fails' = [fails EXCEPT ![w] = 0] \/ fails' = [fails EXCEPT ![w] = fails[w] + 1]
      BY <1>4 DEF RefreshTarget
    <3>4. QED
      BY <2>1, <3>2, <3>3 DEF TypeOK
  <2>5. \/ pc' = [pc EXCEPT ![w] = "fail"] /\ next' = next
        \/ pc' = pc /\ next' = [next EXCEPT ![w] = next[w] + 1]
    BY <1>4 DEF RefreshTarget, Goto
  <2>6. UNCHANGED <<index, state, board, targets, end>> /\ pc[w] = "refresh"
    BY <1>4 DEF RefreshTarget, row
  <2>7. TypeOK'
    BY <2>1, <2>3, <2>4, <2>5, <2>6 DEF TypeOK
  <2>8. Placed(w)'
    <3>1. pc'[w] \in {"fail", "refresh"} /\ next'[w] \in {next[w], next[w] + 1}
      BY <2>5, <2>6 DEF TypeOK
    <3>2. next[w] <= end[w] + 1 /\ next[w] + 1 <= end[w] + 1
      BY <2>1
    <3>3. QED
      BY <2>1, <2>6, <3>1, <3>2 DEF Placed, Inside
  <2>9. ASSUME NEW v \in Workers, v # w PROVE Placed(v)'
    <3>1. pc'[v] = pc[v] /\ next'[v] = next[v]
      BY <2>5, <2>9 DEF TypeOK
    <3>2. QED
      BY <2>6, <3>1 DEF AllPlaced, Placed, Inside
  <2>10. QED
    BY <2>7, <2>8, <2>9 DEF AllPlaced
<1>5. ASSUME NEW w \in Workers, FinishWindow(w) \/ FailWindow(w) PROVE BatchInv'
  <2>1. /\ Leave(w) /\ index' = end[w] + 1 /\ state' \in States
        /\ UNCHANGED <<board, attempted>>
    BY <1>5 DEF FinishWindow, FailWindow, States
  <2>2. used' \in [Kinds -> Nat]
    BY <1>5 DEF FinishWindow, FailWindow, TypeOK
  <2>3. index' \in Nat
    BY <2>1 DEF TypeOK
  <2>4. QED
    BY <2>1, <2>2, <2>3, LeaveInv DEF TypeOK
<1>6. ASSUME NEW w \in Workers, Abort(w) PROVE BatchInv'
  <2>1. used' \in [Kinds -> Nat]
    BY <1>6, NoteType DEF Abort, Strikes, Kinds
  <2>2. TypeOK'
    BY <1>6, <2>1 DEF Abort, Goto, TypeOK, row, local
  <2>3. ASSUME NEW v \in Workers PROVE Placed(v)'
    BY <1>6 DEF Abort, Goto, TypeOK, AllPlaced, Placed, Inside, local
  <2>4. QED
    BY <2>2, <2>3 DEF AllPlaced
<1>7. ASSUME NEW w \in Workers, Crash(w) PROVE BatchInv'
  <2>1. used' \in [Kinds -> Nat]
    BY <1>7, NoteType DEF Crash, Strikes, Kinds
  <2>2. QED
    BY <1>7, <2>1, LeaveInv DEF Crash, TypeOK, row
<1>8. ASSUME ReplaceBoard \/ SwitchSeason \/ CancelStale PROVE BatchInv'
  <2>1. used' \in [Kinds -> Nat]
    BY <1>8, NoteType DEF ReplaceBoard, SwitchSeason, CancelStale, Strikes, Kinds, TypeOK
  <2>2. board' \subseteq Members /\ state' \in States
    BY <1>8 DEF ReplaceBoard, SwitchSeason, CancelStale, TypeOK, States, row
  <2>3. UNCHANGED <<index, attempted, pc, local>>
    BY <1>8 DEF ReplaceBoard, SwitchSeason, CancelStale, row
  <2>4. QED
    BY <2>1, <2>2, <2>3 DEF TypeOK, AllPlaced, Placed, Inside, local
<1>9. CASE UNCHANGED vars
  BY <1>9 DEF vars, row, local, TypeOK, AllPlaced, Placed, Inside
<1>10. QED
  BY <1>1, <1>2, <1>3, <1>4, <1>5, <1>6, <1>7, <1>8, <1>9 DEF Next, Run

LEMMA AlwaysPlaced == Safety => []BatchInv
<1>1. BatchInv /\ [Next]_vars => BatchInv'
  BY BatchStep
<1>2. QED
  BY BatchInit, <1>1, PTL DEF Safety

\* Every reachable state of a shard and its runs is well typed: no index is ever
\* negative, and every target a run attempts is one.
THEOREM TypeCorrect == Safety => []TypeOK
BY AlwaysPlaced, PTL DEF BatchInv

\* However the board grows or shrinks between two batches, and whatever a crashed or
\* failed batch left in the row, a batch lies inside the list its run has read.
THEOREM InsideList == Safety => []BatchInList
<1>1. BatchInv => BatchInList
  BY DEF BatchInv, AllPlaced, Placed, BatchInList
<1>2. QED
  BY AlwaysPlaced, <1>1, PTL

-----------------------------------------------------------------------------
(***************************************************************************)
(* One batch at a time.                                                    *)
(***************************************************************************)
\* Trouble is only ever added to the history.
LEMMA TroubleStays ==
  ASSUME TypeOK, [Next]_vars
  PROVE  \A k \in Kinds : used[k] # 0 => used'[k] # 0
<1>1. ASSUME NEW j \in Kinds, Note(j) PROVE \A k \in Kinds : used[k] # 0 => used'[k] # 0
  BY <1>1 DEF Note, TypeOK
<1>2. ASSUME NEW w \in Workers, FailWindow(w) PROVE \A k \in Kinds : used[k] # 0 => used'[k] # 0
  BY <1>2 DEF FailWindow, TypeOK
<1>3. \/ UNCHANGED used
      \/ \E j \in Kinds : Note(j)
      \/ \E w \in Workers : FailWindow(w)
  BY DEF Next, Run, ReadBoard, LookDone, StartWindow, RefreshTarget, FinishWindow, Abort, Crash,
         ReplaceBoard, SwitchSeason, CancelStale, Strikes, Kinds, vars
<1>4. QED
  BY <1>1, <1>2, <1>3

\* Until a rollover a run inside a batch is alone there, and its shard is RUNNING:
\* cancel_stale_seasons, the only writer that does not look, has no board to act for.
Alone ==
  used.rollover = 0 =>
    /\ board # {}
    /\ \A w \in Workers :
         Inside(w) => state = "running" /\ \A v \in Workers : Inside(v) => v = w

LEMMA AloneStep ==
  ASSUME BatchInv, Alone, [Next]_vars
  PROVE  Alone'
<1> SUFFICES ASSUME used'.rollover = 0 PROVE Alone'
  BY DEF Alone
<1> USE DEF BatchInv
<1>1. used.rollover = 0
  BY TroubleStays DEF Kinds
<1>2. /\ board # {}
      /\ \A w \in Workers :
           Inside(w) => state = "running" /\ \A v \in Workers : Inside(v) => v = w
  BY <1>1 DEF Alone
\* A step that lets no run in, and leaves the shard alone unless its run leaves.
<1>3. ASSUME NEW w \in Workers, board' # {},
             \A v \in Workers : v # w => pc'[v] = pc[v],
             Inside(w)' => Inside(w) /\ state' = state,
             ~ Inside(w) => state' = state
      PROVE  Alone'
  BY <1>2, <1>3 DEF Alone, Inside
<1>4. ASSUME NEW w \in Workers, NEW l \in {"idle", "look", "start", "refresh", "fail"}, Goto(w, l)
      PROVE  pc'[w] = l /\ \A v \in Workers : v # w => pc'[v] = pc[v]
  BY <1>4 DEF Goto, TypeOK
<1>5. ASSUME NEW w \in Workers, ReadBoard(w) PROVE Alone'
  BY <1>2, <1>3, <1>4, <1>5 DEF ReadBoard, row, Inside
<1>6. ASSUME NEW w \in Workers, LookDone(w) PROVE Alone'
  BY <1>2, <1>3, <1>4, <1>6 DEF LookDone, Leave, row, Inside
<1>7. ASSUME NEW w \in Workers, StartWindow(w) PROVE Alone'
  <2>1. CASE state = "running" /\ Leave(w) /\ UNCHANGED state
    BY <1>2, <1>3, <1>4, <1>7, <2>1 DEF StartWindow, Leave, Inside
  <2>2. CASE state # "running" /\ state' = "running" /\ Goto(w, "refresh")
    <3>1. \A v \in Workers : ~ Inside(v)
      BY <1>2, <2>2
    <3>2. \A v \in Workers : v # w => ~ Inside(v)'
      BY <1>4, <2>2, <3>1 DEF Inside
    <3>3. board' # {} /\ state' = "running"
      BY <1>2, <1>7, <2>2 DEF StartWindow
    <3>4. QED
      BY <3>2, <3>3 DEF Alone
  <2>3. QED
    BY <1>7, <2>1, <2>2 DEF StartWindow
<1>8. ASSUME NEW w \in Workers, RefreshTarget(w) PROVE Alone'
  <2>1. Goto(w, "fail") \/ UNCHANGED pc
    BY <1>8 DEF RefreshTarget
  <2>2. Inside(w) /\ state' = state /\ board' = board
    BY <1>8 DEF RefreshTarget, row, Inside
  <2>3. QED
    BY <1>2, <1>3, <1>4, <2>1, <2>2
<1>9. ASSUME NEW w \in Workers, FinishWindow(w) \/ FailWindow(w) PROVE Alone'
  <2>1. Inside(w) /\ board' = board /\ Goto(w, "idle")
    BY <1>9 DEF FinishWindow, FailWindow, Leave, Inside
  <2>2. ~ Inside(w)'
    BY <1>4, <2>1 DEF Inside
  <2>3. QED
    BY <1>2, <1>3, <1>4, <2>1, <2>2
<1>10. ASSUME NEW w \in Workers, Abort(w) PROVE Alone'
  BY <1>2, <1>3, <1>4, <1>10 DEF Abort, row, Inside
<1>11. ASSUME NEW w \in Workers, Crash(w) PROVE Alone'
  <2>1. board' = board /\ state' = state /\ Goto(w, "idle")
    BY <1>11 DEF Crash, Leave, row
  <2>2. ~ Inside(w)'
    BY <1>4, <2>1 DEF Inside
  <2>3. QED
    BY <1>2, <1>3, <1>4, <2>1, <2>2
<1>12. ASSUME ReplaceBoard PROVE Alone'
  BY <1>2, <1>12 DEF ReplaceBoard, Alone, Inside, row
<1>13. ~ SwitchSeason
  BY <1>1 DEF SwitchSeason, Strikes, Note, TypeOK, Kinds
<1>14. ~ CancelStale
  BY <1>2 DEF CancelStale
<1>15. CASE UNCHANGED vars
  BY <1>2, <1>15 DEF vars, row, Alone, Inside
<1>16. QED
  BY <1>5, <1>6, <1>7, <1>8, <1>9, <1>10, <1>11, <1>12, <1>13, <1>14, <1>15 DEF Next, Run

\* Until the season ends the RUNNING status of the shard keeps every second run out,
\* for any number of runs and through replaced boards, failures and crashes.
THEOREM OneBatch == Safety => []OneBatchAtATime
<1>1. Init => Alone
  BY DEF Init, Alone, Inside
<1>2. BatchInv /\ Alone /\ [Next]_vars => Alone'
  BY AloneStep
<1>3. Alone => OneBatchAtATime
  BY DEF Alone, OneBatchAtATime
<1>4. QED
  BY AlwaysPlaced, <1>1, <1>2, <1>3, PTL DEF Safety

-----------------------------------------------------------------------------
(***************************************************************************)
(* Nothing before the index is left out.                                   *)
(***************************************************************************)
\* The first n targets of a list are among those done.
FirstDone(n, list, done) ==
  \A k \in Nat : k < n /\ k < Cardinality(list) => Target(list, k) \in done

\* In a calm season every run works on the list the board has, and behind the index,
\* as behind the position every run has in hand, nothing was left out.
Gapless ==
  Calm =>
    /\ FirstDone(index, board, attempted)
    /\ \A w \in Workers :
         /\ pc[w] # "idle" => targets[w] = board
         /\ Inside(w) => FirstDone(next[w], board, attempted)

LEMMA GaplessStep ==
  ASSUME BatchInv, Gapless, [Next]_vars
  PROVE  Gapless'
<1> SUFFICES ASSUME Calm' PROVE Gapless'
  BY DEF Gapless
<1> USE DEF BatchInv
<1>1. Calm
  BY TroubleStays DEF Calm, Kinds
<1>2. /\ FirstDone(index, board, attempted)
      /\ \A w \in Workers :
           /\ pc[w] # "idle" => targets[w] = board
           /\ Inside(w) => FirstDone(next[w], board, attempted)
  BY <1>1 DEF Gapless
\* One run moves; the board stays and attempts are not forgotten.
<1>3. ASSUME NEW w \in Workers, board' = board, attempted \subseteq attempted',
             \A v \in Workers : v # w =>
               pc'[v] = pc[v] /\ targets'[v] = targets[v] /\ next'[v] = next[v],
             index' = index \/ FirstDone(index', board', attempted'),
             pc'[w] # "idle" => targets'[w] = board,
             Inside(w)' => FirstDone(next'[w], board', attempted')
      PROVE  Gapless'
  <2>1. ASSUME NEW n, FirstDone(n, board, attempted) PROVE FirstDone(n, board', attempted')
    BY <1>3, <2>1 DEF FirstDone
  <2>2. FirstDone(index', board', attempted')
    BY <1>2, <1>3, <2>1
  <2>3. ASSUME NEW v \in Workers, v # w
        PROVE  /\ pc'[v] # "idle" => targets'[v] = board'
               /\ Inside(v)' => FirstDone(next'[v], board', attempted')
    BY <1>2, <1>3, <2>1, <2>3 DEF Inside
  <2>4. QED
    BY <1>3, <2>2, <2>3 DEF Gapless
<1>4. ASSUME NEW w \in Workers, Leave(w), UNCHANGED <<board, attempted>>,
             index' = index \/ FirstDone(index', board', attempted')
      PROVE  Gapless'
  <2>1. /\ pc'[w] = "idle"
        /\ \A v \in Workers : v # w =>
             pc'[v] = pc[v] /\ targets'[v] = targets[v] /\ next'[v] = next[v]
    BY <1>4 DEF Leave, Goto, TypeOK
  <2>2. QED
    BY <1>3, <1>4, <2>1 DEF Inside
<1>5. ASSUME NEW w \in Workers, ReadBoard(w) PROVE Gapless'
  <2>1. /\ pc'[w] = "look" /\ targets'[w] = board
        /\ \A v \in Workers : v # w => pc'[v] = pc[v] /\ targets'[v] = targets[v]
    BY <1>5 DEF ReadBoard, Goto, TypeOK
  <2>2. UNCHANGED <<index, board, attempted, next>>
    BY <1>5 DEF ReadBoard, row
  <2>3. QED
    BY <1>3, <2>1, <2>2 DEF Inside
<1>6. ASSUME NEW w \in Workers, LookDone(w) PROVE Gapless'
  <2>1. CASE Leave(w)
    BY <1>4, <1>6, <2>1 DEF LookDone, row
  <2>2. CASE Goto(w, "start") /\ UNCHANGED local
    <3>1. pc'[w] = "start" /\ pc[w] # "idle" /\ \A v \in Workers : v # w => pc'[v] = pc[v]
      BY <1>6, <2>2 DEF LookDone, Goto, TypeOK
    <3>2. QED
      BY <1>2, <1>3, <1>6, <2>2, <3>1 DEF LookDone, Inside, row, local
  <2>3. QED
    BY <1>6, <2>1, <2>2 DEF LookDone
<1>7. ASSUME NEW w \in Workers, StartWindow(w) PROVE Gapless'
  <2> DEFINE n     == Cardinality(targets[w])
             start == IF index < n THEN index ELSE n - 1
  <2>1. CASE state = "running" /\ Leave(w) /\ UNCHANGED state
    BY <1>4, <1>7, <2>1 DEF StartWindow
  <2>2. CASE next' = [next EXCEPT ![w] = start] /\ Goto(w, "refresh")
             /\ UNCHANGED <<targets, fails>>
    <3>1. n \in Nat
      BY ListFinite DEF TypeOK
    <3>2. start <= index
      <4> HIDE DEF n
      <4>1. QED
        BY <3>1 DEF TypeOK
    <3>3. FirstDone(start, board, attempted)
      <4> HIDE DEF n, start
      <4>1. start \in Int
        BY <3>1 DEF start, TypeOK
      <4>2. QED
        BY <1>2, <3>2, <4>1 DEF FirstDone, TypeOK
    <3> HIDE DEF n, start
    <3>4. /\ pc'[w] = "refresh" /\ pc[w] # "idle" /\ next'[w] = start
          /\ \A v \in Workers : v # w => pc'[v] = pc[v] /\ next'[v] = next[v]
      BY <1>7, <2>2 DEF StartWindow, Goto, TypeOK
    <3>5. UNCHANGED <<index, board, attempted, targets>>
      BY <1>7, <2>2 DEF StartWindow
    <3>6. FirstDone(next'[w], board', attempted')
      BY <3>3, <3>4, <3>5 DEF FirstDone
    <3>7. QED
      BY <1>2, <1>3, <3>4, <3>5, <3>6
  <2>3. QED
    BY <1>7, <2>1, <2>2 DEF StartWindow
<1>8. ASSUME NEW w \in Workers, RefreshTarget(w) PROVE Gapless'
  <2>1. /\ pc[w] = "refresh" /\ targets[w] = board /\ next[w] \in Nat
        /\ FirstDone(next[w], board, attempted)
    BY <1>2, <1>8 DEF RefreshTarget, Inside, TypeOK
  <2>2. attempted' = attempted \union {Target(board, next[w])}
    BY <1>8, <2>1 DEF RefreshTarget
  <2>3. /\ next'[w] \in {next[w], next[w] + 1}
        /\ \A v \in Workers : v # w => pc'[v] = pc[v] /\ next'[v] = next[v]
    BY <1>8 DEF RefreshTarget, Goto, TypeOK
  <2>4. UNCHANGED <<index, board, targets>>
    BY <1>8 DEF RefreshTarget, row
  <2>5. FirstDone(next[w] + 1, board', attempted')
    <3>1. ASSUME NEW k \in Nat, k < next[w] + 1, k < Cardinality(board)
          PROVE  Target(board, k) \in attempted'
      <4>1. k < next[w] \/ k = next[w]
        BY <2>1, <3>1
      <4>2. QED
        BY <2>1, <2>2, <3>1, <4>1 DEF FirstDone
    <3>2. QED
      BY <2>4, <3>1 DEF FirstDone
  <2>6. FirstDone(next[w], board', attempted')
    BY <2>1, <2>2, <2>4 DEF FirstDone
  <2>7. FirstDone(next'[w], board', attempted')
    BY <2>3, <2>5, <2>6
  <2>8. QED
    BY <1>3, <2>1, <2>2, <2>3, <2>4, <2>7
<1>9. ASSUME NEW w \in Workers, FinishWindow(w) PROVE Gapless'
  <2>1. /\ pc[w] = "refresh" /\ next[w] > end[w] /\ index' = end[w] + 1
        /\ Leave(w) /\ UNCHANGED <<board, attempted>>
    BY <1>9 DEF FinishWindow
  <2>2. next[w] \in Nat /\ end[w] \in Nat /\ FirstDone(next[w], board, attempted)
    BY <1>2, <2>1 DEF Inside, TypeOK
  <2>3. FirstDone(end[w] + 1, board, attempted)
    BY <2>1, <2>2 DEF FirstDone
  <2>4. FirstDone(index', board', attempted')
    BY <2>1, <2>3 DEF FirstDone
  <2>5. QED
    BY <1>4, <2>1, <2>4
<1>10. ASSUME NEW w \in Workers, FailWindow(w) PROVE Gapless'
  BY <1>10 DEF FailWindow, Calm, TypeOK, Kinds
<1>11. ASSUME NEW w \in Workers, Abort(w) PROVE Gapless'
  <2>1. /\ pc'[w] = "fail" /\ pc[w] = "refresh"
        /\ \A v \in Workers : v # w => pc'[v] = pc[v]
    BY <1>11 DEF Abort, Goto, TypeOK
  <2>2. UNCHANGED <<index, board, attempted, targets, next>>
    BY <1>11 DEF Abort, row, local
  <2>3. targets'[w] = board /\ FirstDone(next'[w], board', attempted')
    BY <1>2, <2>1, <2>2 DEF Inside, FirstDone
  <2>4. QED
    BY <1>3, <2>1, <2>2, <2>3
<1>12. ASSUME NEW w \in Workers, Crash(w) PROVE Gapless'
  BY <1>4, <1>12 DEF Crash, row
<1>13. ~ ReplaceBoard /\ ~ SwitchSeason
  BY DEF Calm, ReplaceBoard, SwitchSeason, Strikes, Note, TypeOK, Kinds
<1>14. CASE CancelStale \/ UNCHANGED vars
  <2>1. UNCHANGED <<index, board, attempted, pc, targets, next>>
    BY <1>14 DEF CancelStale, vars, row, local
  <2>2. QED
    BY <1>2, <2>1 DEF Gapless, FirstDone, Inside
<1>15. QED
  BY <1>5, <1>6, <1>7, <1>8, <1>9, <1>10, <1>11, <1>12, <1>13, <1>14 DEF Next, Run

\* On a board that stays, batches that do not fail leave no gap behind the index,
\* wherever runs overlap or die; so a shard past its board has attempted all of it.
THEOREM Prefix == Safety => []PrefixAttempted
<1>1. Init => Gapless
  BY DEF Init, Gapless, FirstDone, Inside
<1>2. BatchInv /\ Gapless /\ [Next]_vars => Gapless'
  BY GaplessStep
<1>3. BatchInv /\ Gapless => PrefixAttempted
  BY DEF BatchInv, TypeOK, Gapless, FirstDone, PrefixAttempted
<1>4. QED
  BY AlwaysPlaced, <1>1, <1>2, <1>3, PTL DEF Safety

-----------------------------------------------------------------------------
(***************************************************************************)
(* AiringBoard: types, and what the tasks are about to do.                 *)
(***************************************************************************)
\* The legs of the tasks, and what is left of them.
Fresh == {Rebuild, Calendar, <<"mal">>, <<"grace">>}
Legs ==
  Fresh \union {<<"ensure", "switch", "candidates", "write">>, <<"switch", "candidates", "write">>,
                <<"candidates", "write">>, <<"write">>, <<"replace">>}
Works == Subjects \union Titles
Boards == [season : -1 .. LastQuarter, obs : SUBSET Subjects, entries : SUBSET Works]
Readings == [season : 0 .. LastQuarter, obs : SUBSET Subjects, rows : SUBSET Works,
             gone : BOOLEAN, none : BOOLEAN]

\* Only the leg in hand may have begun.
PlanOK ==
  /\ todo \in [Tasks -> Seq(Legs)]
  /\ \A t \in Tasks : todo[t] # <<>> => Tail(todo[t]) \in Seq(Fresh)
DateOK == quarter \in 1 .. LastQuarter
BoardOK ==
  /\ activeBoard \in Boards /\ events \in [obs : SUBSET Subjects, works : SUBSET Works]
  /\ snapshot \in [0 .. LastQuarter + 1 -> SUBSET Titles] /\ linked \in SUBSET Titles
HeldOK == held \in [Tasks -> Readings]
TroubleOK == trouble \in Nat
BoardTypeOK == PlanOK /\ DateOK /\ graceOver \in BOOLEAN /\ BoardOK /\ HeldOK /\ TroubleOK

\* What a run that is about to replace the calendar has read.
Ready == \A t \in Tasks : At(t, "replace") => held[t].rows # {} /\ held[t].rows \subseteq held[t].obs

\* The events are of the observation that they name.
CalendarIsObserved == events.works \subseteq events.obs
\* No season is ahead of the date.
NothingAhead == activeBoard.season <= quarter /\ \A t \in Tasks : held[t].season <= quarter

-----------------------------------------------------------------------------
LEMMA LegFacts ==
  /\ \A leg \in Legs : Len(leg) = 1 \/ (Tail(leg) \in Legs /\ (Head(Tail(leg)) = "replace" => Head(leg) = "prepare"))
  /\ \A leg \in Fresh : Head(leg) # "replace"
  /\ Fresh \subseteq Legs
  BY DEF Legs, Fresh, Rebuild, Calendar

LEMMA FreshLegs == Seq(Fresh) \subseteq Seq(Legs)
<1> SUFFICES ASSUME NEW q \in Seq(Fresh) PROVE q \in Seq(Legs)
  OBVIOUS
<1>1. Len(q) \in Nat /\ DOMAIN q = 1 .. Len(q) /\ \A i \in 1 .. Len(q) : q[i] \in Fresh
  BY LenProperties, ElementOfSeq
<1>2. \A i \in 1 .. Len(q) : q[i] \in Legs
  BY <1>1, LegFacts
<1>3. q = [i \in 1 .. Len(q) |-> q[i]]
  BY <1>1
<1>4. QED
  BY <1>1, <1>2, <1>3

\* A run that goes on does not come to replace the calendar unless it has prepared it.
LEMMA RestIs ==
  ASSUME NEW t \in Tasks, PlanOK, todo[t] # <<>>, NEW r, r = Rest(t)
  PROVE  /\ r \in Seq(Legs) /\ (r # <<>> => Tail(r) \in Seq(Fresh))
         /\ r # <<>> /\ Head(Head(r)) = "replace" => Head(Head(todo[t])) = "prepare"
<1> DEFINE q == todo[t]
<1>1. q \in Seq(Legs) /\ q # <<>> /\ Tail(q) \in Seq(Fresh)
  BY DEF PlanOK
<1>2. Head(q) \in Legs
  BY <1>1, HeadTailProperties
<1>3. CASE Len(Head(q)) = 1
  <2>1. r = Tail(q)
    BY <1>3 DEF Rest, LegOver
  <2>2. r \in Seq(Fresh) /\ r \in Seq(Legs)
    BY <1>1, <2>1, FreshLegs
  <2>3. r # <<>> => Tail(r) \in Seq(Fresh) /\ Head(r) \in Fresh
    BY <2>2, HeadTailProperties
  <2>4. QED
    BY <2>2, <2>3, LegFacts
<1>4. CASE Len(Head(q)) # 1
  <2> DEFINE leg == Tail(Head(q))
  <2>1. r = <<leg>> \o Tail(q)
    BY <1>4 DEF Rest, LegOver
  <2>2. leg \in Legs /\ (Head(leg) = "replace" => Head(Head(q)) = "prepare")
    BY <1>2, <1>4, LegFacts
  <2> HIDE DEF leg, q
  <2>3. <<leg>> \in Seq(Legs) /\ Len(<<leg>>) = 1 /\ <<leg>>[1] = leg
    BY <2>2
  <2>4. Tail(q) \in Seq(Legs) /\ Tail(q) \in Seq(Fresh)
    BY <1>1, FreshLegs
  <2>5. r \in Seq(Legs) /\ Len(r) = 1 + Len(Tail(q))
    BY <2>1, <2>3, <2>4, ConcatProperties
  <2>6. Head(r) = leg /\ Tail(r) = Tail(q)
    BY <2>1, <2>2, <2>3, <2>4
  <2>7. QED
    BY <2>2, <2>4, <2>5, <2>6 DEF q
<1>5. QED
  BY <1>3, <1>4

\* The plan of one task is replaced.
LEMMA PlanAt ==
  ASSUME PlanOK, NEW t \in Tasks, NEW r, r \in Seq(Legs), r # <<>> => Tail(r) \in Seq(Fresh),
         todo' = [todo EXCEPT ![t] = r]
  PROVE  PlanOK' /\ todo'[t] = r /\ \A u \in Tasks \ {t} : todo'[u] = todo[u]
  BY DEF PlanOK

LEMMA PlanAdvance ==
  ASSUME PlanOK, NEW t \in Tasks, todo[t] # <<>>, Advance(t)
  PROVE  /\ PlanOK' /\ \A u \in Tasks \ {t} : todo'[u] = todo[u]
         /\ At(t, "replace")' => At(t, "prepare")
<1>1. PICK r : r = Rest(t)
  OBVIOUS
<1>2. todo' = [todo EXCEPT ![t] = r]
  BY <1>1 DEF Advance
<1>3. /\ r \in Seq(Legs) /\ (r # <<>> => Tail(r) \in Seq(Fresh))
      /\ r # <<>> /\ Head(Head(r)) = "replace" => Head(Head(todo[t])) = "prepare"
  BY <1>1, RestIs
<1>4. QED
  BY <1>2, <1>3, PlanAt DEF At

LEMMA FreshPlans ==
  /\ <<Calendar>> \in Seq(Fresh) /\ <<Rebuild>> \in Seq(Fresh)
  /\ <<<<"mal">>, Calendar, <<"grace">>, Rebuild>> \in Seq(Fresh)
  /\ << >> \in Seq(Fresh)
  BY DEF Fresh

\* A run begins, or gives up legs of its plan: what is left are whole legs.
LEMMA PlanFresh ==
  ASSUME PlanOK, NEW t \in Tasks, NEW r, r \in Seq(Fresh), todo' = [todo EXCEPT ![t] = r]
  PROVE  /\ PlanOK' /\ \A u \in Tasks \ {t} : todo'[u] = todo[u]
         /\ ~ At(t, "replace")'
<1>1. r # <<>> => Head(r) \in Fresh /\ Tail(r) \in Seq(Fresh)
  BY HeadTailProperties
<1>2. r \in Seq(Legs)
  BY FreshLegs
<1>3. r # <<>> => Head(Head(r)) # "replace"
  BY <1>1, LegFacts
<1>4. QED
  BY <1>1, <1>2, <1>3, PlanAt DEF At

\* Every step of a task is one of its plan's.
LEMMA PlanStep ==
  ASSUME PlanOK, BoardNext
  PROVE  PlanOK'
<1>1. CASE StartCalendar
  <2>1. todo' = [todo EXCEPT !["calendar"] = <<Calendar>>]
    BY <1>1, Zenon DEF StartCalendar
  <2>2. QED
    BY <2>1, FreshPlans, PlanFresh DEF Tasks
<1>2. CASE StartPipeline
  <2>1. todo' = [todo EXCEPT !["pipeline"] = <<Rebuild>>]
    BY <1>2, Zenon DEF StartPipeline
  <2>2. QED
    BY <2>1, FreshPlans, PlanFresh DEF Tasks
<1>3. CASE StartRollover
  <2>1. \/ todo' = [todo EXCEPT !["rollover"] = <<Rebuild>>]
        \/ todo' = [todo EXCEPT !["rollover"] = <<<<"mal">>, Calendar, <<"grace">>, Rebuild>>]
    BY <1>3, Zenon DEF StartRollover
  <2>2. QED
    BY <2>1, FreshPlans, PlanFresh DEF Tasks
<1>4. CASE UNCHANGED todo
  BY <1>4 DEF PlanOK
<1>5. ASSUME NEW t \in Tasks, Step(t) PROVE PlanOK'
  <2>1. t = "rollover" \/ t # "rollover"
    OBVIOUS
  <2>2. CASE Advance(t) /\ todo[t] # <<>>
    BY <2>2, PlanAdvance
  <2>3. CASE todo' = [todo EXCEPT ![t] = << >>]
    BY <2>3, FreshPlans, PlanFresh
  <2>4. QED
    BY <1>4, <1>5, <2>2, <2>3, Zenon DEF Step, Prepare, Replace, FetchSeason, EnsureBoard, CreateBoard, SwitchBoard, Candidates, Write, Grace, At
<1>6. ASSUME NEW t \in Tasks, Fail(t) PROVE PlanOK'
  <2>1. todo[t] # <<>> /\ todo' = [todo EXCEPT ![t] = Tail(todo[t])]
    BY <1>6 DEF Fail
  <2>2. Tail(todo[t]) \in Seq(Fresh)
    BY <2>1 DEF PlanOK
  <2>3. QED
    BY <2>1, <2>2, PlanFresh
<1>7. ASSUME NEW t \in Tasks, Kill(t) PROVE PlanOK'
  <2>1. todo' = [todo EXCEPT ![t] = << >>]
    BY <1>7, Zenon DEF Kill
  <2>2. QED
    BY <2>1, FreshPlans, PlanFresh
<1>8. CASE NextQuarter \/ GraceEnds \/ \E w \in Titles : Link(w)
  BY <1>4, <1>8, Zenon DEF NextQuarter, GraceEnds, Link
<1>9. QED
  BY <1>1, <1>2, <1>3, <1>5, <1>6, <1>7, <1>8 DEF BoardNext, Start

-----------------------------------------------------------------------------
\* refresh() leaves a board of the season and the observation it is given.
LEMMA RefreshedIs ==
  ASSUME BoardOK, NEW season \in 0 .. LastQuarter, NEW obs \in SUBSET Subjects
  PROVE  /\ Refreshed(season, obs) \in Boards
         /\ Refreshed(season, obs).season = season /\ Refreshed(season, obs).obs = obs
<1>1. activeBoard \in Boards /\ activeBoard.season \in -1 .. LastQuarter /\ activeBoard.entries \in SUBSET Works
  BY DEF BoardOK, Boards
<1>2. [season |-> season, obs |-> obs, entries |-> {}] \in Boards
  BY BoardAssumption DEF Boards
<1>3. [activeBoard EXCEPT !.obs = obs] \in Boards
  BY <1>1 DEF Boards
<1>4. CASE activeBoard.season = season
  BY <1>1, <1>3, <1>4 DEF Refreshed, Boards
<1>5. CASE activeBoard.season # season
  BY <1>2, <1>5 DEF Refreshed
<1>6. QED
  BY <1>4, <1>5

\* What a run has read is not touched when the board it read is archived.
LEMMA ArchivedIs ==
  ASSUME HeldOK, NEW season
  PROVE  /\ Archived(season) \in [Tasks -> Readings]
         /\ \A t \in Tasks : /\ Archived(season)[t].season = held[t].season
                             /\ Archived(season)[t].rows = held[t].rows
                             /\ Archived(season)[t].obs = held[t].obs
<1>1. \A t \in Tasks : held[t] \in Readings
  BY DEF HeldOK
<1>2. \A t \in Tasks : /\ [held[t] EXCEPT !.gone = TRUE] \in Readings
                       /\ [held[t] EXCEPT !.gone = TRUE].season = held[t].season
                       /\ [held[t] EXCEPT !.gone = TRUE].rows = held[t].rows
                       /\ [held[t] EXCEPT !.gone = TRUE].obs = held[t].obs
  BY <1>1 DEF Readings
<1>3. PICK a : a = Archived(season)
  OBVIOUS
<1>4. DOMAIN a = Tasks /\ a = [t \in Tasks |-> a[t]]
  BY <1>3 DEF Archived
<1>5. \A t \in Tasks : a[t] = held[t] \/ a[t] = [held[t] EXCEPT !.gone = TRUE]
  BY <1>3 DEF Archived
<1> HIDE DEF Readings
<1>6. \A t \in Tasks : /\ a[t] \in Readings /\ a[t].season = held[t].season
                       /\ a[t].rows = held[t].rows /\ a[t].obs = held[t].obs
  <2>1. SUFFICES ASSUME NEW t \in Tasks
                 PROVE  /\ a[t] \in Readings /\ a[t].season = held[t].season
                        /\ a[t].rows = held[t].rows /\ a[t].obs = held[t].obs
    OBVIOUS
  <2>2. CASE a[t] = held[t]
    BY <1>1, <2>2
  <2>3. CASE a[t] = [held[t] EXCEPT !.gone = TRUE]
    BY <1>2, <2>3
  <2>4. QED
    BY <1>5, <2>2, <2>3
<1>7. a \in [Tasks -> Readings]
  BY <1>4, <1>6
<1>8. QED
  BY <1>3, <1>6, <1>7

LEMMA BlankIs == Blank \in Readings
  BY BoardAssumption DEF Blank, Readings, Nothing

LEMMA DateStep ==
  ASSUME DateOK, graceOver \in BOOLEAN, BoardNext
  PROVE  DateOK' /\ graceOver' \in BOOLEAN /\ quarter <= quarter'
<1>1. CASE UNCHANGED <<quarter, graceOver>>
  BY <1>1 DEF DateOK
<1>2. CASE NextQuarter
  <2>1. quarter < LastQuarter /\ quarter' = quarter + 1 /\ graceOver' = FALSE
    BY <1>2, Zenon DEF NextQuarter
  <2>2. LastQuarter \in Nat
    BY BoardAssumption
  <2>3. quarter' \in 1 .. LastQuarter /\ quarter <= quarter'
    BY <2>1, <2>2 DEF DateOK
  <2>4. QED
    BY <2>1, <2>3 DEF DateOK
<1>3. CASE GraceEnds
  BY <1>3 DEF GraceEnds, DateOK
<1>4. QED
  BY <1>1, <1>2, <1>3, Zenon DEF BoardNext, Start, StartCalendar, StartPipeline, StartRollover, Step,
     Prepare, Replace, FetchSeason, EnsureBoard, CreateBoard, SwitchBoard, Candidates, Write, Grace, Link, Fail, Kill

LEMMA TroubleStep ==
  ASSUME trouble \in Nat, BoardNext
  PROVE  trouble' \in Nat
<1>1. CASE UNCHANGED trouble
  BY <1>1
<1>2. CASE trouble' = trouble + 1
  BY <1>2
<1>3. QED
  BY <1>1, <1>2, Zenon DEF BoardNext, Start, StartCalendar, StartPipeline, StartRollover, Step,
     Prepare, Replace, FetchSeason, EnsureBoard, CreateBoard, SwitchBoard, Candidates, Write, Grace, Link, Fail, Kill, NextQuarter, GraceEnds

-----------------------------------------------------------------------------
(***************************************************************************)
(* What each step of a task leaves in the board and in the readings.       *)
(***************************************************************************)
\* The inductive invariant.
BoardInv == PlanOK /\ DateOK /\ graceOver \in BOOLEAN /\ BoardOK /\ HeldOK /\ Ready
            /\ CalendarIsObserved /\ NothingAhead

\* The readings of one task are replaced.
LEMMA HeldAt ==
  ASSUME HeldOK, NEW t \in Tasks, NEW x \in Readings, held' = [held EXCEPT ![t] = x]
  PROVE  HeldOK' /\ held'[t] = x /\ \A u \in Tasks \ {t} : held'[u] = held[u]
  BY DEF HeldOK

LEMMA HeldArchived ==
  ASSUME HeldOK, NEW t \in Tasks, NEW season, NEW x \in Readings,
         held' = [Archived(season) EXCEPT ![t] = x]
  PROVE  /\ HeldOK' /\ held'[t] = x
         /\ \A u \in Tasks \ {t} : /\ held'[u].season = held[u].season
                                   /\ held'[u].rows = held[u].rows /\ held'[u].obs = held[u].obs
<1>1. PICK a : a = Archived(season)
  OBVIOUS
<1>2. /\ a \in [Tasks -> Readings]
      /\ \A u \in Tasks : a[u].season = held[u].season /\ a[u].rows = held[u].rows /\ a[u].obs = held[u].obs
  BY <1>1, ArchivedIs
<1>3. held' = [a EXCEPT ![t] = x]
  BY <1>1
<1>4. QED
  BY <1>2, <1>3 DEF HeldOK

\* A run comes to replace the calendar with what it has prepared, and nobody else's
\* step changes that.
LEMMA ReadyKept ==
  ASSUME Ready, NEW t \in Tasks, ~ At(t, "replace")',
         \A u \in Tasks \ {t} : todo'[u] = todo[u] /\ held'[u].rows = held[u].rows /\ held'[u].obs = held[u].obs
  PROVE  Ready'
  BY DEF Ready, At

\* No step of a task reads a season that has not begun.
LEMMA NotAhead ==
  ASSUME HeldOK, NothingAhead, DateOK, quarter' = quarter, NEW t \in Tasks,
         activeBoard'.season <= quarter, held'[t].season <= quarter,
         \A u \in Tasks \ {t} : held'[u].season = held[u].season
  PROVE  NothingAhead'
  BY DEF NothingAhead

LEMMA PrepareInv ==
  ASSUME BoardInv, NEW t \in Tasks, Prepare(t)
  PROVE  BoardOK' /\ HeldOK' /\ Ready' /\ CalendarIsObserved' /\ NothingAhead'
<1>1. /\ todo[t] # <<>> /\ Advance(t)
      /\ UNCHANGED <<quarter, graceOver, activeBoard, events, snapshot, linked, trouble>>
  BY Zenon DEF Prepare, At
<1>2. PICK payload \in Payloads : \E works \in (SUBSET payload) \ {{}} :
       held' = [held EXCEPT ![t] = [Blank EXCEPT !.season = quarter, !.obs = payload, !.rows = works]]
  BY Zenon DEF Prepare
<1>3. PICK works \in (SUBSET payload) \ {{}} :
       held' = [held EXCEPT ![t] = [Blank EXCEPT !.season = quarter, !.obs = payload, !.rows = works]]
  BY <1>2, Zenon
<1>4. PICK x : x = [Blank EXCEPT !.season = quarter, !.obs = payload, !.rows = works]
  OBVIOUS
<1>5. payload \in SUBSET Subjects /\ works \in SUBSET Works /\ works \subseteq payload /\ works # {}
  BY <1>3, BoardAssumption DEF Works
<1>6. quarter \in 0 .. LastQuarter
  BY BoardAssumption DEF BoardInv, DateOK
<1>7. x \in Readings /\ x.season = quarter /\ x.rows = works /\ x.obs = payload
  BY <1>4, <1>5, <1>6 DEF Blank, Readings
<1>8. HeldOK' /\ held'[t] = x /\ \A u \in Tasks \ {t} : held'[u] = held[u]
  BY <1>3, <1>4, <1>7, HeldAt DEF BoardInv
<1>9. \A u \in Tasks \ {t} : todo'[u] = todo[u]
  BY <1>1, PlanAdvance DEF BoardInv
<1>10. Ready'
  BY <1>5, <1>7, <1>8, <1>9 DEF BoardInv, Ready, At
<1>11. NothingAhead'
  <2>1. activeBoard'.season <= quarter /\ quarter <= quarter /\ quarter' = quarter
    BY <1>1, <1>6 DEF BoardInv, NothingAhead
  <2>2. QED
    BY <1>7, <1>8, <2>1, NotAhead DEF BoardInv
<1>12. QED
  BY <1>1, <1>8, <1>10, <1>11 DEF BoardInv, BoardOK, CalendarIsObserved

LEMMA ReplaceInv ==
  ASSUME BoardInv, NEW t \in Tasks, Replace(t)
  PROVE  BoardOK' /\ HeldOK' /\ Ready' /\ CalendarIsObserved' /\ NothingAhead' /\ events'.works # {}
<1>1. /\ todo[t] # <<>> /\ At(t, "replace") /\ Advance(t)
      /\ events' = NewEvents(t) /\ activeBoard' = Refreshed(held[t].season, held[t].obs)
      /\ held' = [Archived(held[t].season) EXCEPT ![t] = Blank]
      /\ quarter' = quarter /\ snapshot' = snapshot /\ linked' = linked
  BY Zenon DEF Replace, At
<1>2. held[t] \in Readings /\ held[t].season <= quarter /\ held[t].rows # {} /\ held[t].rows \subseteq held[t].obs
  BY <1>1 DEF BoardInv, HeldOK, NothingAhead, Ready
<1>3. held[t].season \in 0 .. LastQuarter /\ held[t].obs \in SUBSET Subjects /\ held[t].rows \in SUBSET Works
  BY <1>2 DEF Readings
<1>4. /\ events' \in [obs : SUBSET Subjects, works : SUBSET Works]
      /\ events'.works = held[t].rows /\ events'.obs = held[t].obs
  BY <1>1, <1>3 DEF NewEvents
<1>5. activeBoard' \in Boards /\ activeBoard'.season = held[t].season
  BY <1>1, <1>3, RefreshedIs DEF BoardInv
<1>6. /\ HeldOK' /\ held'[t] = Blank
      /\ \A u \in Tasks \ {t} : /\ held'[u].season = held[u].season
                                /\ held'[u].rows = held[u].rows /\ held'[u].obs = held[u].obs
  BY <1>1, BlankIs, HeldArchived DEF BoardInv
<1>7. /\ \A u \in Tasks \ {t} : todo'[u] = todo[u]
      /\ ~ At(t, "replace")'
  BY <1>1, PlanAdvance DEF BoardInv, At
<1>8. Ready'
  BY <1>6, <1>7, ReadyKept DEF BoardInv
<1>9. NothingAhead'
  <2>1. held'[t].season <= quarter
    BY <1>6, BoardAssumption DEF Blank, BoardInv, DateOK
  <2>2. QED
    BY <1>1, <1>2, <1>5, <1>6, <2>1, NotAhead DEF BoardInv
<1>10. QED
  BY <1>1, <1>2, <1>4, <1>5, <1>6, <1>8, <1>9 DEF BoardInv, BoardOK, CalendarIsObserved

LEMMA EnsureBoardInv ==
  ASSUME BoardInv, NEW t \in Tasks, EnsureBoard(t)
  PROVE  BoardOK' /\ HeldOK' /\ Ready' /\ CalendarIsObserved' /\ NothingAhead'
<1>1. PICK x : x = IF activeBoard.season = -1 THEN [Blank EXCEPT !.none = TRUE]
                   ELSE [Blank EXCEPT !.season = activeBoard.season, !.obs = activeBoard.obs]
  OBVIOUS
<1>2. /\ todo[t] # <<>> /\ At(t, "ensure") /\ Advance(t) /\ held' = [held EXCEPT ![t] = x]
      /\ UNCHANGED <<quarter, graceOver, activeBoard, events, snapshot, linked, trouble>>
  BY <1>1, Zenon DEF EnsureBoard, At
<1>3. /\ activeBoard.season \in -1 .. LastQuarter /\ activeBoard.season <= quarter
      /\ activeBoard.obs \in SUBSET Subjects /\ quarter \in 1 .. LastQuarter /\ LastQuarter \in Nat
  BY BoardAssumption DEF BoardInv, BoardOK, Boards, NothingAhead, DateOK
<1>4. x \in Readings /\ x.season <= quarter
  <2>1. CASE activeBoard.season = -1
    <3>1. x = [season |-> 0, obs |-> {}, rows |-> {}, gone |-> FALSE, none |-> TRUE]
      BY <1>1, <2>1 DEF Blank, Nothing
    <3>2. 0 \in 0 .. LastQuarter /\ 0 <= quarter
      BY <1>3
    <3>3. QED
      BY <3>1, <3>2 DEF Readings
  <2>2. CASE activeBoard.season # -1
    <3>1. activeBoard.season \in 0 .. LastQuarter
      BY <1>3, <2>2
    <3>2. QED
      BY <1>1, <1>3, <2>2, <3>1 DEF Blank, Readings
  <2>3. QED
    BY <2>1, <2>2
<1>5. HeldOK' /\ held'[t] = x /\ \A u \in Tasks \ {t} : held'[u] = held[u]
  BY <1>2, <1>4, HeldAt DEF BoardInv
<1>6. /\ \A u \in Tasks \ {t} : todo'[u] = todo[u]
      /\ ~ At(t, "replace")'
  BY <1>2, PlanAdvance DEF BoardInv, At
<1>7. Ready'
  BY <1>5, <1>6, ReadyKept DEF BoardInv
<1>8. NothingAhead'
  <2>1. activeBoard'.season <= quarter /\ quarter' = quarter /\ held'[t].season <= quarter
    BY <1>2, <1>3, <1>4, <1>5
  <2>2. QED
    BY <1>5, <2>1, NotAhead DEF BoardInv
<1>9. QED
  BY <1>2, <1>5, <1>7, <1>8 DEF BoardInv, BoardOK, CalendarIsObserved

\* A refresh() in a rebuild, for a season that has begun, with what has been observed.
LEMMA RefreshInv ==
  ASSUME BoardInv, NEW t \in Tasks, ~ At(t, "replace")', \A u \in Tasks \ {t} : todo'[u] = todo[u],
         NEW season \in 0 .. LastQuarter, season <= quarter, NEW obs \in SUBSET Subjects,
         NEW x \in Readings, x.season = season,
         activeBoard' = Refreshed(season, obs), held' = [Archived(season) EXCEPT ![t] = x],
         UNCHANGED <<quarter, events, snapshot, linked>>
  PROVE  BoardOK' /\ HeldOK' /\ Ready' /\ CalendarIsObserved' /\ NothingAhead'
<1>1. activeBoard' \in Boards /\ activeBoard'.season = season
  BY RefreshedIs DEF BoardInv
<1>2. /\ HeldOK' /\ held'[t] = x
      /\ \A u \in Tasks \ {t} : /\ held'[u].season = held[u].season
                                /\ held'[u].rows = held[u].rows /\ held'[u].obs = held[u].obs
  BY HeldArchived DEF BoardInv
<1>3. Ready'
  BY <1>2, ReadyKept DEF BoardInv
<1>4. NothingAhead'
  BY <1>1, <1>2, NotAhead DEF BoardInv
<1>5. BoardOK'
  BY <1>1 DEF BoardInv, BoardOK
<1>6. CalendarIsObserved'
  BY DEF BoardInv, CalendarIsObserved
<1>7. QED
  BY <1>2, <1>3, <1>4, <1>5, <1>6

LEMMA CreateBoardInv ==
  ASSUME BoardInv, NEW t \in Tasks, CreateBoard(t)
  PROVE  BoardOK' /\ HeldOK' /\ Ready' /\ CalendarIsObserved' /\ NothingAhead'
<1>1. /\ At(t, "switch") /\ activeBoard' = Refreshed(0, Nothing)
      /\ held' = [Archived(0) EXCEPT ![t] = Blank]
      /\ UNCHANGED <<quarter, events, snapshot, linked, todo>>
  BY Zenon DEF CreateBoard
<1>2. ~ At(t, "replace")' /\ \A u \in Tasks \ {t} : todo'[u] = todo[u]
  BY <1>1 DEF At
<1>3. 0 \in 0 .. LastQuarter /\ 0 <= quarter /\ Nothing \in SUBSET Subjects
  BY BoardAssumption DEF BoardInv, DateOK, Nothing
<1>4. Blank \in Readings /\ Blank.season = 0
  BY BlankIs DEF Blank
<1>5. QED
  BY <1>1, <1>2, <1>3, <1>4, RefreshInv

LEMMA SwitchBoardInv ==
  ASSUME BoardInv, NEW t \in Tasks, SwitchBoard(t)
  PROVE  BoardOK' /\ HeldOK' /\ Ready' /\ CalendarIsObserved' /\ NothingAhead'
<1>1. /\ todo[t] # <<>> /\ At(t, "switch") /\ Advance(t)
      /\ UNCHANGED <<quarter, events, snapshot, linked>>
  BY Zenon DEF SwitchBoard, At
<1>2. /\ \A u \in Tasks \ {t} : todo'[u] = todo[u]
      /\ ~ At(t, "replace")'
  BY <1>1, PlanAdvance DEF BoardInv, At
<1>3. quarter \in 0 .. LastQuarter /\ quarter <= quarter /\ held[t].obs \in SUBSET Subjects
  BY BoardAssumption DEF BoardInv, DateOK, HeldOK, Readings
<1>4. PICK x : x = [Blank EXCEPT !.season = quarter, !.obs = held[t].obs]
  OBVIOUS
<1>5. x \in Readings /\ x.season = quarter
  BY <1>3, <1>4 DEF Blank, Readings
<1>6. CASE activeBoard' = Refreshed(quarter, held[t].obs) /\ held' = [Archived(quarter) EXCEPT ![t] = x]
  BY <1>1, <1>2, <1>3, <1>5, <1>6, RefreshInv
<1>7. CASE UNCHANGED <<activeBoard, held>>
  <2>1. BoardOK' /\ HeldOK' /\ CalendarIsObserved' /\ NothingAhead'
    BY <1>1, <1>7 DEF BoardInv, BoardOK, HeldOK, CalendarIsObserved, NothingAhead
  <2>2. Ready'
    BY <1>2, <1>7, ReadyKept DEF BoardInv
  <2>3. QED
    BY <2>1, <2>2
<1>8. QED
  BY <1>4, <1>6, <1>7, Zenon DEF SwitchBoard

\* The rows of a season are works: the snapshots read are those of a quarter and of the
\* one after it, which there are.
LEMMA BarsIs ==
  ASSUME BoardOK, NEW season \in 0 .. LastQuarter
  PROVE  Bars(season) \in SUBSET Works
<1>1. season \in 0 .. LastQuarter + 1 /\ season + 1 \in 0 .. LastQuarter + 1
  BY BoardAssumption
<1>2. snapshot[season] \in SUBSET Titles /\ snapshot[season + 1] \in SUBSET Titles
  BY <1>1 DEF BoardOK
<1>3. OfSeason(season) \in SUBSET Works
  <2>1. Wanted(season) \subseteq {season, season + 1}
    BY DEF Wanted
  <2>2. \A q \in Wanted(season) : snapshot[q] \in SUBSET Titles
    BY <1>2, <2>1
  <2>3. QED
    BY <2>2 DEF OfSeason, Works
<1>4. OfCalendar \in SUBSET Works
  BY DEF OfCalendar, BoardOK
<1>5. QED
  BY <1>3, <1>4 DEF Bars

LEMMA CandidatesInv ==
  ASSUME BoardInv, NEW t \in Tasks, Candidates(t)
  PROVE  BoardOK' /\ HeldOK' /\ Ready' /\ CalendarIsObserved' /\ NothingAhead'
<1>1. /\ todo[t] # <<>> /\ At(t, "candidates") /\ Advance(t)
      /\ held' = [held EXCEPT ![t].rows = Bars(held[t].season)]
      /\ UNCHANGED <<quarter, graceOver, activeBoard, events, snapshot, linked, trouble>>
  BY Zenon DEF Candidates, At
<1>2. held[t] \in Readings /\ held[t].season \in 0 .. LastQuarter /\ held[t].season <= quarter
  BY DEF BoardInv, HeldOK, Readings, NothingAhead
<1>3. Bars(held[t].season) \in SUBSET Works
  BY <1>2, BarsIs DEF BoardInv
<1>4. PICK x : x = [held[t] EXCEPT !.rows = Bars(held[t].season)]
  OBVIOUS
<1>5. x \in Readings /\ x.season = held[t].season
  BY <1>2, <1>3, <1>4 DEF Readings
<1>6. held' = [held EXCEPT ![t] = x]
  BY <1>1, <1>4
<1>7. HeldOK' /\ held'[t] = x /\ \A u \in Tasks \ {t} : held'[u] = held[u]
  BY <1>5, <1>6, HeldAt DEF BoardInv
<1>8. /\ \A u \in Tasks \ {t} : todo'[u] = todo[u]
      /\ ~ At(t, "replace")'
  BY <1>1, PlanAdvance DEF BoardInv, At
<1>9. Ready'
  BY <1>7, <1>8, ReadyKept DEF BoardInv
<1>10. NothingAhead'
  <2>1. activeBoard'.season <= quarter /\ quarter' = quarter /\ held'[t].season <= quarter
    BY <1>1, <1>2, <1>5, <1>7 DEF BoardInv, NothingAhead
  <2>2. QED
    BY <1>7, <2>1, NotAhead DEF BoardInv
<1>11. QED
  BY <1>1, <1>7, <1>9, <1>10 DEF BoardInv, BoardOK, CalendarIsObserved

LEMMA WriteInv ==
  ASSUME BoardInv, NEW t \in Tasks, Write(t)
  PROVE  BoardOK' /\ HeldOK' /\ Ready' /\ CalendarIsObserved' /\ NothingAhead'
<1>1. /\ todo[t] # <<>> /\ At(t, "write") /\ Advance(t)
      /\ \/ activeBoard' = Refreshed(held[t].season, held[t].obs)
         \/ activeBoard' = [Refreshed(held[t].season, held[t].obs) EXCEPT !.entries = held[t].rows]
      /\ held' = [Archived(held[t].season) EXCEPT ![t] = Blank]
      /\ quarter' = quarter /\ events' = events /\ snapshot' = snapshot /\ linked' = linked
  BY Zenon DEF Write, At
<1>2. held[t] \in Readings /\ held[t].season <= quarter
  BY DEF BoardInv, HeldOK, NothingAhead
<1>3. held[t].season \in 0 .. LastQuarter /\ held[t].obs \in SUBSET Subjects /\ held[t].rows \in SUBSET Works
  BY <1>2 DEF Readings
<1>4. PICK b : b = Refreshed(held[t].season, held[t].obs)
  OBVIOUS
<1>5. b \in Boards /\ b.season = held[t].season
  BY <1>3, <1>4, RefreshedIs DEF BoardInv
<1>6. [b EXCEPT !.entries = held[t].rows] \in Boards /\ [b EXCEPT !.entries = held[t].rows].season = held[t].season
  BY <1>3, <1>5 DEF Boards
<1>7. activeBoard' \in Boards /\ activeBoard'.season = held[t].season
  BY <1>1, <1>4, <1>5, <1>6
<1>8. /\ HeldOK' /\ held'[t] = Blank
      /\ \A u \in Tasks \ {t} : /\ held'[u].season = held[u].season
                                /\ held'[u].rows = held[u].rows /\ held'[u].obs = held[u].obs
  BY <1>1, BlankIs, HeldArchived DEF BoardInv
<1>9. /\ \A u \in Tasks \ {t} : todo'[u] = todo[u]
      /\ ~ At(t, "replace")'
  BY <1>1, PlanAdvance DEF BoardInv, At
<1>10. Ready'
  BY <1>8, <1>9, ReadyKept DEF BoardInv
<1>11. NothingAhead'
  <2>1. held'[t].season <= quarter
    BY <1>8, BoardAssumption DEF Blank, BoardInv, DateOK
  <2>2. QED
    BY <1>1, <1>2, <1>7, <1>8, <2>1, NotAhead DEF BoardInv
<1>12. QED
  BY <1>1, <1>7, <1>8, <1>10, <1>11 DEF BoardInv, BoardOK, CalendarIsObserved

\* Steps that change neither the board nor what a run has read: a run begins, waits for
\* the grace period, fetches a season, or the world outside goes on.
LEMMA ElsewhereInv ==
  ASSUME BoardInv, DateOK', quarter <= quarter', UNCHANGED <<activeBoard, events, held>>,
         snapshot' \in [0 .. LastQuarter + 1 -> SUBSET Titles], linked' \in SUBSET Titles,
         \A u \in Tasks : At(u, "replace")' => At(u, "replace")
  PROVE  BoardOK' /\ HeldOK' /\ Ready' /\ CalendarIsObserved' /\ NothingAhead'
<1>1. BoardOK' /\ HeldOK' /\ CalendarIsObserved'
  BY DEF BoardInv, BoardOK, HeldOK, CalendarIsObserved
<1>2. Ready'
  BY DEF BoardInv, Ready
<1>3. NothingAhead'
  <2>1. \A n \in Int : n <= quarter => n <= quarter'
    BY DEF BoardInv, DateOK
  <2>2. activeBoard.season \in Int /\ \A u \in Tasks : held[u].season \in Int
    BY DEF BoardInv, BoardOK, Boards, HeldOK, Readings
  <2>3. QED
    BY <2>1, <2>2 DEF BoardInv, NothingAhead
<1>4. QED
  BY <1>1, <1>2, <1>3

\* A leg that fails, or a task that is killed, forgets what it had read.
LEMMA ForgetInv ==
  ASSUME BoardInv, NEW t \in Tasks, held' = Forget(t), ~ At(t, "replace")',
         \A u \in Tasks \ {t} : todo'[u] = todo[u],
         UNCHANGED <<quarter, activeBoard, events, snapshot, linked>>
  PROVE  BoardOK' /\ HeldOK' /\ Ready' /\ CalendarIsObserved' /\ NothingAhead'
<1>1. held' = [held EXCEPT ![t] = Blank]
  BY DEF Forget
<1>2. HeldOK' /\ held'[t] = Blank /\ \A u \in Tasks \ {t} : held'[u] = held[u]
  BY <1>1, BlankIs, HeldAt DEF BoardInv
<1>3. Ready'
  BY <1>2, ReadyKept DEF BoardInv
<1>4. NothingAhead'
  <2>1. held'[t].season <= quarter /\ activeBoard'.season <= quarter
    BY <1>2, BoardAssumption DEF Blank, BoardInv, DateOK, NothingAhead
  <2>2. QED
    BY <1>2, <2>1, NotAhead DEF BoardInv
<1>5. QED
  BY <1>2, <1>3, <1>4 DEF BoardInv, BoardOK, CalendarIsObserved

-----------------------------------------------------------------------------
(***************************************************************************)
(* The inductive invariant, and what it says.                              *)
(***************************************************************************)
LEMMA BoardBegins == BoardInit => BoardInv /\ BoardTypeOK
<1> SUFFICES ASSUME BoardInit PROVE BoardInv /\ BoardTypeOK
  OBVIOUS
<1>1. PlanOK
  BY FreshPlans, FreshLegs DEF BoardInit, PlanOK
<1>2. DateOK /\ graceOver \in BOOLEAN /\ trouble \in Nat
  BY BoardAssumption DEF BoardInit, DateOK
<1>3. activeBoard = NoBoard /\ NoBoard \in Boards /\ NoBoard.season = -1
  BY BoardAssumption DEF BoardInit, NoBoard, Boards, Nothing
<1>4. BoardOK /\ CalendarIsObserved
  BY <1>3 DEF BoardInit, BoardOK, Nothing, CalendarIsObserved
<1>5. \A t \in Tasks : held[t] = Blank /\ todo[t] = <<>>
  BY DEF BoardInit
<1>6. HeldOK
  BY BlankIs DEF BoardInit, HeldOK
<1>7. Ready
  BY <1>5 DEF Ready, At
<1>8. NothingAhead
  BY <1>3, <1>5 DEF BoardInit, NothingAhead, Blank
<1>9. QED
  BY <1>1, <1>2, <1>4, <1>6, <1>7, <1>8 DEF BoardInv, BoardTypeOK, TroubleOK

LEMMA BoardStep ==
  ASSUME BoardInv, BoardNext
  PROVE  BoardOK' /\ HeldOK' /\ Ready' /\ CalendarIsObserved' /\ NothingAhead'
<1>1. DateOK' /\ quarter <= quarter'
  BY DateStep DEF BoardInv
<1>2. snapshot \in [0 .. LastQuarter + 1 -> SUBSET Titles] /\ linked \in SUBSET Titles
  BY DEF BoardInv, BoardOK
<1>3. CASE Start
  <2>1. UNCHANGED <<activeBoard, events, snapshot, linked, held>>
    BY <1>3, Zenon DEF Start, StartCalendar, StartPipeline, StartRollover
  <2>2. \A u \in Tasks : At(u, "replace")' => At(u, "replace")
    <3>1. PICK t \in Tasks : \E r \in Seq(Fresh) : todo' = [todo EXCEPT ![t] = r]
      <4>1. \/ todo' = [todo EXCEPT !["calendar"] = <<Calendar>>]
            \/ todo' = [todo EXCEPT !["pipeline"] = <<Rebuild>>]
            \/ todo' = [todo EXCEPT !["rollover"] = <<Rebuild>>]
            \/ todo' = [todo EXCEPT !["rollover"] = <<<<"mal">>, Calendar, <<"grace">>, Rebuild>>]
        BY <1>3, Zenon DEF Start, StartCalendar, StartPipeline, StartRollover
      <4>2. "calendar" \in Tasks /\ "pipeline" \in Tasks /\ "rollover" \in Tasks
        BY DEF Tasks
      <4>3. QED
        BY <4>1, <4>2, FreshPlans
    <3>2. PICK r \in Seq(Fresh) : todo' = [todo EXCEPT ![t] = r]
      BY <3>1
    <3>3. ~ At(t, "replace")' /\ \A u \in Tasks \ {t} : todo'[u] = todo[u]
      BY <3>2, PlanFresh DEF BoardInv
    <3>4. QED
      BY <3>3 DEF At
  <2>3. QED
    BY <1>1, <1>2, <2>1, <2>2, ElsewhereInv
<1>4. CASE NextQuarter \/ GraceEnds \/ \E w \in Titles : Link(w)
  <2>1. UNCHANGED <<activeBoard, events, snapshot, todo, held>> /\ linked' \in SUBSET Titles
    BY <1>2, <1>4 DEF NextQuarter, GraceEnds, Link
  <2>2. \A u \in Tasks : At(u, "replace")' => At(u, "replace")
    BY <2>1 DEF At
  <2>3. QED
    BY <1>1, <1>2, <2>1, <2>2, ElsewhereInv
<1>5. ASSUME NEW t \in Tasks,
             \/ Prepare(t) \/ Replace(t) \/ EnsureBoard(t) \/ CreateBoard(t) \/ SwitchBoard(t)
             \/ Candidates(t) \/ Write(t)
      PROVE  BoardOK' /\ HeldOK' /\ Ready' /\ CalendarIsObserved' /\ NothingAhead'
  BY <1>5, PrepareInv, ReplaceInv, EnsureBoardInv, CreateBoardInv, SwitchBoardInv, CandidatesInv, WriteInv
<1>6. ASSUME NEW t \in Tasks, FetchSeason(t)
      PROVE  BoardOK' /\ HeldOK' /\ Ready' /\ CalendarIsObserved' /\ NothingAhead'
  <2>1. /\ At(t, "mal") /\ todo[t] # <<>> /\ Advance(t)
        /\ snapshot' = [snapshot EXCEPT ![quarter] = Titles]
        /\ UNCHANGED <<activeBoard, events, linked, held>>
    BY <1>6, Zenon DEF FetchSeason, At
  <2>2. snapshot' \in [0 .. LastQuarter + 1 -> SUBSET Titles]
    BY <1>2, <2>1
  <2>3. ~ At(t, "replace")' /\ \A u \in Tasks \ {t} : todo'[u] = todo[u]
    BY <2>1, PlanAdvance DEF BoardInv, At
  <2>4. \A u \in Tasks : At(u, "replace")' => At(u, "replace")
    BY <2>3 DEF At
  <2>5. QED
    BY <1>1, <1>2, <2>1, <2>2, <2>4, ElsewhereInv
<1>7. CASE Grace
  <2>1. /\ At("rollover", "grace") /\ todo["rollover"] # <<>> /\ "rollover" \in Tasks
        /\ Advance("rollover") \/ todo' = [todo EXCEPT !["rollover"] = <<>>]
        /\ UNCHANGED <<activeBoard, events, snapshot, linked, held>>
    BY <1>7, Zenon DEF Grace, At, Tasks
  <2>2. ~ At("rollover", "replace")' /\ \A u \in Tasks \ {"rollover"} : todo'[u] = todo[u]
    BY <2>1, PlanAdvance, PlanFresh, FreshPlans DEF BoardInv, At
  <2>3. \A u \in Tasks : At(u, "replace")' => At(u, "replace")
    BY <2>2 DEF At
  <2>4. QED
    BY <1>1, <1>2, <2>1, <2>3, ElsewhereInv
<1>8. ASSUME NEW t \in Tasks, Fail(t)
      PROVE  BoardOK' /\ HeldOK' /\ Ready' /\ CalendarIsObserved' /\ NothingAhead'
  <2>1. /\ todo[t] # <<>> /\ todo' = [todo EXCEPT ![t] = Tail(todo[t])] /\ held' = Forget(t)
        /\ UNCHANGED <<quarter, activeBoard, events, snapshot, linked>>
    BY <1>8 DEF Fail
  <2>2. Tail(todo[t]) \in Seq(Fresh)
    BY <2>1 DEF BoardInv, PlanOK
  <2>3. ~ At(t, "replace")' /\ \A u \in Tasks \ {t} : todo'[u] = todo[u]
    BY <2>1, <2>2, PlanFresh DEF BoardInv
  <2>4. QED
    BY <2>1, <2>3, ForgetInv
<1>9. ASSUME NEW t \in Tasks, Kill(t)
      PROVE  BoardOK' /\ HeldOK' /\ Ready' /\ CalendarIsObserved' /\ NothingAhead'
  <2>1. /\ todo[t] # <<>> /\ todo' = [todo EXCEPT ![t] = <<>>] /\ held' = Forget(t)
        /\ UNCHANGED <<quarter, activeBoard, events, snapshot, linked>>
    BY <1>9 DEF Kill
  <2>2. ~ At(t, "replace")' /\ \A u \in Tasks \ {t} : todo'[u] = todo[u]
    BY <2>1, FreshPlans, PlanFresh DEF BoardInv
  <2>3. QED
    BY <2>1, <2>2, ForgetInv
<1>10. QED
  BY <1>3, <1>4, <1>5, <1>6, <1>7, <1>8, <1>9 DEF BoardNext, Step

\* Only a calendar that has been prepared replaces the events.
LEMMA EventsStep ==
  ASSUME BoardInv, BoardNext
  PROVE  UNCHANGED events \/ events'.works # {}
<1>1. CASE \E t \in Tasks : Replace(t)
  BY <1>1, ReplaceInv
<1>2. CASE ~ \E t \in Tasks : Replace(t)
  BY <1>2, Zenon DEF BoardNext, Start, StartCalendar, StartPipeline, StartRollover, Step,
     Prepare, FetchSeason, EnsureBoard, CreateBoard, SwitchBoard, Candidates, Write, Grace, Link, Fail, Kill, NextQuarter, GraceEnds
<1>3. QED
  BY <1>1, <1>2

LEMMA BoardStutters ==
  ASSUME BoardInv, UNCHANGED boardVars
  PROVE  BoardInv' /\ (trouble \in Nat => trouble' \in Nat)
  BY DEF boardVars, BoardInv, PlanOK, DateOK, BoardOK, HeldOK, Ready, At, CalendarIsObserved, NothingAhead

\* For any number of quarters, of tasks at once and of failures: the plan of every task,
\* the board, the readings, and what follows.
THEOREM BoardInvariant == BoardSpec => []BoardInv
<1>1. BoardInit => BoardInv
  BY BoardBegins
<1>2. BoardInv /\ [BoardNext]_boardVars => BoardInv'
  <2>1. ASSUME BoardInv, BoardNext PROVE BoardInv'
    BY <2>1, PlanStep, DateStep, BoardStep DEF BoardInv
  <2>2. QED
    BY <2>1, BoardStutters
<1>3. QED
  BY <1>1, <1>2, PTL DEF BoardSpec

\* Every reachable state of the board and its tasks is well typed; a rebuild reads only
\* snapshots that there are.
THEOREM BoardTypeCorrect == BoardSpec => []BoardTypeOK
<1>1. BoardInit => TroubleOK
  BY DEF BoardInit, TroubleOK
<1>2. TroubleOK /\ [BoardNext]_boardVars => TroubleOK'
  BY TroubleStep DEF boardVars, TroubleOK
<1>3. BoardInv /\ TroubleOK => BoardTypeOK
  BY DEF BoardInv, BoardTypeOK
<1>4. QED
  BY <1>1, <1>2, <1>3, BoardInvariant, PTL DEF BoardSpec

\* No failed source or subject, no dead task and no overlap takes the last row of the
\* calendar away: only a run that has prepared a week replaces the one before.
THEOREM CalendarStaysFilled == BoardSpec => CalendarNeverEmptied
<1>1. BoardInv /\ [BoardNext]_boardVars => [events.works # {} => events.works' # {}]_boardVars
  BY EventsStep DEF boardVars
<1>2. QED
  BY <1>1, BoardInvariant, PTL DEF BoardSpec, CalendarNeverEmptied

\* The events of the calendar are subjects of the observation they are recorded with,
\* whichever of the overlapping syncs recorded it.
THEOREM CalendarObserved == BoardSpec => []CalendarIsObserved
<1>1. BoardInv => CalendarIsObserved
  BY DEF BoardInv
<1>2. QED
  BY <1>1, BoardInvariant, PTL

\* The board and the runs that rebuild it may fall behind the date, but never show or read
\* a season that has not begun.
THEOREM SeasonsHaveBegun == BoardSpec => []NothingAhead
<1>1. BoardInv => NothingAhead
  BY DEF BoardInv
<1>2. QED
  BY <1>1, BoardInvariant, PTL
=============================================================================
