----------------------- MODULE KnowledgeImportProofs -----------------------
(***************************************************************************)
(* Theorems about KnowledgeImport for any number of workers, records,      *)
(* versions, nested payloads and failures.                                 *)
(***************************************************************************)
EXTENDS KnowledgeImport, TLAPS

\* What a revision or an observation can hold, and what a decision can select.
Payload == Versions \union {Placeholder}
Known   == Payload \union {Unseen}
Values  == {0} \union {Answer[v] : v \in Versions}
Places  == {"idle", "record", "check", "take", "resolve", "facts", "commit"}
Row     == [revision : Known, current : Known, entity : SUBSET Workers, decision : Values]

TypeOK ==
  /\ upstream \in [Records -> Versions]
  /\ revision \in [Records -> Known] /\ current \in [Records -> Known]
  /\ entity \in [Records -> SUBSET Workers] /\ decision \in [Records -> Values]
  /\ pc \in [Workers -> Places] /\ solo \in [Workers -> BOOLEAN]
  /\ todo \in [Workers -> Seq(Records)]
  /\ DOMAIN fetched = Workers
  /\ \A w \in Workers : \A x \in ToSet(todo[w]) : fetched[w][x] \in Payload
  /\ DOMAIN own = Workers
  /\ \A w \in Workers : Rows(w) \subseteq Records
  /\ \A w \in Workers : \A r \in Rows(w) : own[w][r] \in Row

\* What a transaction has still to write is a work and what it nests, or a rest of
\* what is nested; the place says what it has in hand.
Script(s) ==
  \/ Head(s) \in Works /\ s = <<Head(s)>> \o Nested[Head(s)]
  \/ s \in Seq(Records \ Works)
Scripted ==
  \A w \in Workers :
    /\ pc[w] \in {"idle", "commit"} => todo[w] = << >>
    /\ pc[w] \notin {"idle", "commit"} => todo[w] # << >> /\ Script(todo[w])
    /\ pc[w] \in {"idle", "record", "check"} => Rows(w) = {}
    /\ pc[w] \in {"record", "check"} => NextOf(w) \in Split
    /\ pc[w] \in {"resolve", "facts"} => NextOf(w) \in Rows(w)

\* No two transactions have written to the row of one record.
RowsApart == \A v, w \in Workers : v # w => Rows(v) \cap Rows(w) = {}

\* The row in hand is selected, then resolved; every other row is complete: it brings an
\* entity where there is none, and decides as its observation says.
InHand(w, r, places) == pc[w] \in places /\ r = NextOf(w)
Resolved(w, r) == own[w][r].entity = IF entity[r] = {} THEN {w} ELSE {}
Answered(w, r) ==
  LET row == own[w][r] IN AnswerOf(row.current) # 0 => row.decision = AnswerOf(row.current)
Latest(w, r) == r \notin Split => own[w][r].current = own[w][r].revision /\ own[w][r].current # Unseen
RowsTrue ==
  \A w \in Workers : \A r \in Rows(w) :
    /\ ~InHand(w, r, {"resolve"}) => Resolved(w, r)
    /\ ~InHand(w, r, {"resolve", "facts"}) => Answered(w, r)
    /\ Latest(w, r)

\* What a written work nests is written, or still to be written.
NestedHeld ==
  \A w \in Workers : \A r \in Rows(w) \cap Works :
    ToSet(Nested[r]) \subseteq Rows(w) \union ToSet(todo[w])

ImportInv ==
  /\ TypeOK /\ Scripted /\ RowsApart /\ RowsTrue /\ NestedHeld
  /\ OneEntity /\ ShownAsObserved /\ NestedInGraph

\* An import that is alone has in hand what the record shows.
AloneInv ==
  \A w \in Workers : solo[w] =>
    /\ \A v \in Workers \ {w} : pc[v] = "idle"
    /\ pc[w] \in {"check", "take", "resolve", "facts"} /\ NextOf(w) \in Split =>
         fetched[w][NextOf(w)] = Shown(revision[NextOf(w)])
    /\ \A r \in Rows(w) \cap Split : own[w][r].current = Shown(revision[r])

-----------------------------------------------------------------------------
(***************************************************************************)
(* Sequences of records.                                                   *)
(***************************************************************************)
\* Taking the head off a sequence leaves the rest of its members.
LEMMA TailMembers ==
  ASSUME NEW S, NEW s \in Seq(S), s # << >>
  PROVE  /\ Head(s) \in S /\ Tail(s) \in Seq(S) /\ Head(s) \in ToSet(s)
         /\ ToSet(s) = {Head(s)} \union ToSet(Tail(s))
         /\ Len(s) = 1 <=> Tail(s) = << >>
<1>1. Head(s) \in S /\ Tail(s) \in Seq(S) /\ Head(s) = s[1] /\ Len(s) \in Nat /\ Len(s) >= 1
  OBVIOUS
<1>2. Len(Tail(s)) = Len(s) - 1 /\ \A i \in 1 .. Len(s) - 1 : Tail(s)[i] = s[i + 1]
  OBVIOUS
<1>3. DOMAIN s = 1 .. Len(s) /\ DOMAIN Tail(s) = 1 .. Len(s) - 1
  BY <1>1, <1>2
<1>4. ASSUME NEW i \in DOMAIN s PROVE s[i] \in {Head(s)} \union ToSet(Tail(s))
  <2>1. CASE i = 1
    BY <1>1, <2>1
  <2>2. CASE i # 1
    <3>1. i - 1 \in DOMAIN Tail(s) /\ Tail(s)[i - 1] = s[i]
      BY <1>1, <1>2, <1>3, <2>2
    <3>2. QED
      BY <3>1 DEF ToSet
  <2>3. QED
    BY <2>1, <2>2
<1>5. ASSUME NEW i \in DOMAIN Tail(s) PROVE Tail(s)[i] \in ToSet(s)
  <2>1. i + 1 \in DOMAIN s /\ Tail(s)[i] = s[i + 1]
    BY <1>1, <1>2, <1>3
  <2>2. QED
    BY <2>1 DEF ToSet
<1>6. Head(s) \in ToSet(s)
  BY <1>1, <1>3 DEF ToSet
<1>7. ToSet(s) = {Head(s)} \union ToSet(Tail(s))
  BY <1>4, <1>5, <1>6 DEF ToSet
<1>8. Len(s) = 1 <=> Tail(s) = << >>
  <2>1. \A t \in Seq(S) : Len(t) = 0 <=> t = << >>
    OBVIOUS
  <2>2. Len(Tail(s)) = 0 <=> Tail(s) = << >>
    BY <1>1, <2>1
  <2>3. QED
    BY <1>1, <1>2, <2>2
<1>9. QED
  BY <1>1, <1>6, <1>7, <1>8

\* A record put before a sequence is its head, and the sequence the tail.
LEMMA ConsMembers ==
  ASSUME NEW S, NEW r \in S, NEW s \in Seq(S)
  PROVE  /\ <<r>> \o s \in Seq(S) /\ <<r>> \o s # << >>
         /\ Head(<<r>> \o s) = r /\ Tail(<<r>> \o s) = s
         /\ ToSet(<<r>> \o s) = {r} \union ToSet(s)
<1> DEFINE t == <<r>> \o s
<1>1. t \in Seq(S) /\ Len(t) = Len(s) + 1 /\ t[1] = r /\ t # << >>
  OBVIOUS
<1>2. Head(t) = r
  BY <1>1
<1>3. Tail(t) = s
  OBVIOUS
<1>4. ToSet(t) = {r} \union ToSet(s)
  BY <1>1, <1>2, <1>3, TailMembers
<1>5. QED
  BY <1>1, <1>2, <1>3, <1>4

LEMMA EmptySet == ToSet(<< >>) = {}
BY DEF ToSet

LEMMA MembersIn ==
  ASSUME NEW S, NEW s \in Seq(S)
  PROVE  ToSet(s) \subseteq S
BY DEF ToSet

-----------------------------------------------------------------------------
(***************************************************************************)
(* The forms of a step.                                                    *)
(***************************************************************************)
\* An import begins: a transaction has a work and what it nests before it.
Started(w) ==
  \E r \in Works : \E at \in {"record", "check", "take"} : \E versions :
    /\ Begin(w, r, at, versions) /\ UNCHANGED graph
    /\ \A x \in {r} \union ToSet(Nested[r]) : versions[x] \in Payload
    /\ at = "take" <=> r \notin Split
    /\ at = "check" => versions[r] = Shown(revision[r])
\* A mention finds no entity, and goes on.
Looked(w) ==
  /\ pc[w] = "check" /\ Goto(w, "take")
  /\ UNCHANGED <<upstream, graph, fetched, todo, own, solo, imports, failures>>
\* An observation is selected in the row of a record, which is locked for it.
Taken(w) ==
  LET r == NextOf(w) IN
  /\ pc[w] = "take" /\ Free(w, r)
  /\ Select(w, r, IF r \in Split THEN revision[r] ELSE fetched[w][r])
\* A transaction is over and nothing of it stays.
Gone(w) == pc[w] # "idle" /\ Leave(w) /\ UNCHANGED <<upstream, graph>>

\* The payload of a record, and of those it nests, has versions.
LEMMA VersionsAre == Versions \subseteq Nat \ {0} /\ Placeholder \notin Versions /\ Unseen \notin Payload
BY ImportAssumption DEF Placeholder, Unseen, Payload

LEMMA NestedAre ==
  ASSUME NEW r \in Works
  PROVE  /\ r \in Records /\ Nested[r] \in Seq(Records \ Works) /\ Nested[r] \in Seq(Records)
         /\ ToSet(Nested[r]) \subseteq Records \ Works
         /\ r \in Split => Nested[r] = << >>
<1>1. r \in Records /\ Nested[r] \in Seq(Records \ Works)
  BY ImportAssumption
<1>2. Nested[r] \in Seq(Records)
  BY <1>1
<1>3. ToSet(Nested[r]) \subseteq Records \ Works
  BY <1>1, MembersIn
<1>4. QED
  BY <1>1, <1>2, <1>3, ImportAssumption

LEMMA StartForms ==
  ASSUME TypeOK, NEW w \in Workers, NEW r \in Works,
         Upsert(w, r) \/ Provide(w, r) \/ ImportBatch(w, r)
  PROVE  Started(w)
<1>1. r \in Records /\ ToSet(Nested[r]) \subseteq Records
  BY NestedAre
<1>2. \A x \in {r} \union ToSet(Nested[r]) : Payloads(r)[x] \in Payload
  BY <1>1 DEF TypeOK, Payloads, Payload
<1>3. CASE Upsert(w, r)
  BY <1>2, <1>3 DEF Upsert, Started
<1>4. CASE Provide(w, r)
  <2> DEFINE versions == [x \in {r} |-> IF revision[x] = Unseen THEN Placeholder ELSE revision[x]]
  <2>1. Begin(w, r, "check", versions) /\ UNCHANGED graph /\ r \in Split
    BY <1>4 DEF Provide
  <2>2. versions[r] = Shown(revision[r]) /\ versions[r] \in Payload
    BY <1>1 DEF Shown, TypeOK, Known, Payload
  <2>3. ToSet(Nested[r]) = {}
    BY <2>1, NestedAre, EmptySet
  <2> HIDE DEF versions
  <2>4. QED
    BY <2>1, <2>2, <2>3 DEF Started
<1>5. CASE ImportBatch(w, r)
  BY <1>2, <1>5 DEF ImportBatch, Started
<1>6. QED
  BY <1>3, <1>4, <1>5

LEMMA TakeForms ==
  ASSUME NEW w \in Workers, TakeProjection(w) \/ TakeBatch(w) \/ TakeNested(w)
  PROVE  Taken(w)
<1>1. Split \subseteq Works
  BY ImportAssumption
<1>2. QED
  BY <1>1 DEF TakeProjection, TakeBatch, TakeNested, Taken

LEMMA GoneForms ==
  ASSUME NEW w \in Workers, Victim(w) \/ Fail(w)
  PROVE  Gone(w)
<1>1. CASE Victim(w)
  <2>1. pc[w] # "idle"
    BY <1>1 DEF Victim, InCycle, Waiting
  <2>2. QED
    BY <1>1, <2>1 DEF Victim, RollBack, Gone
<1>2. CASE Fail(w)
  BY <1>2 DEF Fail, RollBack, Gone
<1>3. QED
  BY <1>1, <1>2

\* Every step is one of nine.
LEMMA StepForms ==
  ASSUME TypeOK, Next
  PROVE  \/ \E r \in Records : Change(r)
         \/ \E w \in Workers :
              \/ Started(w) \/ Record(w) \/ Looked(w) \/ Taken(w)
              \/ Resolve(w) \/ Facts(w) \/ Commit(w) \/ Gone(w)
<1>1. CASE \E r \in Records : Change(r)
  BY <1>1
<1>2. ASSUME NEW w \in Workers, Step(w)
      PROVE  \/ Record(w) \/ Looked(w) \/ Taken(w) \/ Resolve(w)
             \/ Facts(w) \/ Commit(w) \/ Gone(w)
  <2>1. CASE Check(w)
    BY <2>1 DEF Check, Looked, Gone
  <2>2. CASE TakeProjection(w) \/ TakeBatch(w) \/ TakeNested(w)
    BY <2>2, TakeForms
  <2>3. QED
    BY <1>2, <2>1, <2>2 DEF Step
<1>3. QED
  BY <1>1, <1>2, StartForms, GoneForms DEF Next

-----------------------------------------------------------------------------
(***************************************************************************)
(* What a step does to the worker that takes it, and to the others.        *)
(***************************************************************************)
Moves(w) ==
  \/ Started(w) \/ Record(w) \/ Looked(w) \/ Taken(w)
  \/ Resolve(w) \/ Facts(w) \/ Commit(w) \/ Gone(w)

\* A step of one worker leaves the transactions of the others alone.
LEMMA OthersStay ==
  ASSUME TypeOK, NEW w \in Workers, Moves(w), NEW v \in Workers, v # w
  PROVE  /\ pc'[v] = pc[v] /\ todo'[v] = todo[v] /\ own'[v] = own[v] /\ fetched'[v] = fetched[v]
<1>1. CASE Started(w)
  BY <1>1 DEF TypeOK, Started, Begin, Goto
<1>2. CASE Record(w) \/ Looked(w)
  BY <1>2 DEF TypeOK, Record, Looked, Goto
<1>3. CASE Taken(w)
  BY <1>3 DEF TypeOK, Taken, Select, Write, Goto
<1>4. CASE Resolve(w) \/ Facts(w)
  BY <1>4 DEF TypeOK, Resolve, Facts, Goto
<1>5. CASE Commit(w) \/ Gone(w)
  BY <1>5 DEF TypeOK, Commit, Gone, Leave, Goto
<1>6. QED
  BY <1>1, <1>2, <1>3, <1>4, <1>5 DEF Moves

LEMMA TakenMine ==
  ASSUME TypeOK, NEW w \in Workers, Taken(w)
  PROVE  /\ pc[w] = "take" /\ pc'[w] = "resolve" /\ todo' = todo /\ Rows(w)' = Rows(w) \union {NextOf(w)}
         /\ \A x \in Rows(w) : x # NextOf(w) => own'[w][x] = own[w][x]
         /\ own'[w][NextOf(w)] =
              [revision |-> IF NextOf(w) \in Split THEN revision[NextOf(w)] ELSE fetched[w][NextOf(w)],
               current |-> fetched[w][NextOf(w)], entity |-> {}, decision |-> decision[NextOf(w)]]
         /\ UNCHANGED <<upstream, graph, fetched, todo, solo>>
BY DEF TypeOK, Taken, Select, Write, Goto, Rows

LEMMA ResolveMine ==
  ASSUME TypeOK, NEW w \in Workers, Resolve(w), NextOf(w) \in Rows(w)
  PROVE  /\ pc[w] = "resolve" /\ pc'[w] = "facts" /\ Rows(w)' = Rows(w)
         /\ \A x \in Rows(w) : x # NextOf(w) => own'[w][x] = own[w][x]
         /\ own'[w][NextOf(w)] =
              [own[w][NextOf(w)] EXCEPT !.entity = IF entity[NextOf(w)] = {} THEN {w} ELSE {}]
         /\ UNCHANGED <<upstream, graph, fetched, todo, solo>>
BY DEF TypeOK, Resolve, Goto, Rows

LEMMA FactsMine ==
  ASSUME TypeOK, NEW w \in Workers, Facts(w), NextOf(w) \in Rows(w)
  PROVE  /\ pc[w] = "facts" /\ pc'[w] = IF Len(todo[w]) = 1 THEN "commit" ELSE "take"
         /\ todo'[w] = Tail(todo[w]) /\ Rows(w)' = Rows(w)
         /\ \A x \in Rows(w) : x # NextOf(w) => own'[w][x] = own[w][x]
         /\ own'[w][NextOf(w)] =
              [own[w][NextOf(w)] EXCEPT !.decision = Decided(own[w][NextOf(w)].decision, own[w][NextOf(w)].current)]
         /\ UNCHANGED <<upstream, graph, fetched, solo>>
BY DEF TypeOK, Facts, Goto, Rows

LEMMA LeftMine ==
  ASSUME TypeOK, NEW w \in Workers, Commit(w) \/ Gone(w)
  PROVE  /\ pc'[w] = "idle" /\ todo'[w] = << >> /\ Rows(w)' = {} /\ UNCHANGED upstream
         /\ solo' = [solo EXCEPT ![w] = FALSE]
<1>1. own'[w] = << >>
  BY DEF TypeOK, Commit, Gone, Leave
<1>2. Rows(w)' = {}
  BY <1>1 DEF Rows
<1>3. QED
  BY <1>2 DEF TypeOK, Commit, Gone, Leave, Goto

\* A commit replaces the rows it has written and keeps the others.
LEMMA CommitGraph ==
  ASSUME TypeOK, NEW w \in Workers, Commit(w), NEW r \in Records
  PROVE  /\ pc[w] = "commit"
         /\ revision'[r] = IF r \in Rows(w) /\ r \notin Split THEN own[w][r].revision ELSE revision[r]
         /\ current'[r] = IF r \in Rows(w) THEN own[w][r].current ELSE current[r]
         /\ entity'[r] = IF r \in Rows(w) THEN entity[r] \union own[w][r].entity ELSE entity[r]
         /\ decision'[r] = IF r \in Rows(w) THEN own[w][r].decision ELSE decision[r]
BY DEF Commit, Committed

\* An import begins with no row of its own.
LEMMA StartedMine ==
  ASSUME TypeOK, Scripted, NEW w \in Workers, Started(w)
  PROVE  /\ pc[w] = "idle" /\ own' = own /\ UNCHANGED <<upstream, graph>> /\ Rows(w) = {} /\ Rows(w)' = {}
         /\ solo' = [u \in Workers |-> u = w /\ \A v \in Workers : pc[v] = "idle"]
         /\ \E r \in Works :
              /\ todo'[w] = <<r>> \o Nested[r] /\ pc'[w] \in {"record", "check", "take"}
              /\ \A x \in {r} \union ToSet(Nested[r]) : fetched'[w][x] \in Payload
              /\ pc'[w] = "take" <=> r \notin Split
              /\ pc'[w] = "check" => fetched'[w][r] = Shown(revision[r])
<1>a. PICK r \in Works, at \in {"record", "check", "take"} : \E versions :
        /\ Begin(w, r, at, versions) /\ UNCHANGED graph
        /\ \A x \in {r} \union ToSet(Nested[r]) : versions[x] \in Payload
        /\ at = "take" <=> r \notin Split
        /\ at = "check" => versions[r] = Shown(revision[r])
  BY DEF Started
<1>1. PICK versions :
        /\ Begin(w, r, at, versions) /\ UNCHANGED graph
        /\ \A x \in {r} \union ToSet(Nested[r]) : versions[x] \in Payload
        /\ at = "take" <=> r \notin Split
        /\ at = "check" => versions[r] = Shown(revision[r])
  BY <1>a
<1>2. /\ pc'[w] = at /\ todo'[w] = <<r>> \o Nested[r] /\ fetched'[w] = versions
  BY <1>1 DEF TypeOK, Begin, Goto
<1>3. pc[w] = "idle" /\ own' = own /\ UNCHANGED <<upstream, graph>>
  BY <1>1 DEF Begin
<1>4. Rows(w) = {} /\ Rows(w)' = {}
  BY <1>3 DEF Scripted, Rows
<1>5. solo' = [u \in Workers |-> u = w /\ \A v \in Workers : pc[v] = "idle"]
  BY <1>1 DEF Begin
<1>6. QED
  BY <1>1, <1>2, <1>3, <1>4, <1>5

-----------------------------------------------------------------------------
(***************************************************************************)
(* The graph and the transactions are well typed.                          *)
(***************************************************************************)
\* What the transaction of one worker holds is well typed.
MineOK(w) ==
  /\ todo[w] \in Seq(Records)
  /\ \A x \in ToSet(todo[w]) : fetched[w][x] \in Payload
  /\ Rows(w) \subseteq Records
  /\ \A r \in Rows(w) : own[w][r] \in Row
GraphOK ==
  /\ upstream \in [Records -> Versions]
  /\ revision \in [Records -> Known] /\ current \in [Records -> Known]
  /\ entity \in [Records -> SUBSET Workers] /\ decision \in [Records -> Values]

LEMMA TypeInit == Init => TypeOK
<1> SUFFICES ASSUME Init PROVE TypeOK
  OBVIOUS
<1>1. upstream \in [Records -> Versions]
  BY ImportAssumption DEF Init
<1>2. /\ revision \in [Records -> Known] /\ current \in [Records -> Known]
      /\ entity \in [Records -> SUBSET Workers] /\ decision \in [Records -> Values]
  BY DEF Init, Known, Values
<1>3. pc \in [Workers -> Places] /\ solo \in [Workers -> BOOLEAN]
  BY DEF Init, Places
<1>4. todo \in [Workers -> Seq(Records)] /\ DOMAIN fetched = Workers /\ DOMAIN own = Workers
  BY DEF Init
<1>5. ASSUME NEW w \in Workers PROVE todo[w] = << >> /\ own[w] = << >>
  BY DEF Init
<1>6. ASSUME NEW w \in Workers PROVE Rows(w) = {} /\ ToSet(todo[w]) = {}
  BY <1>5, EmptySet DEF Rows
<1>7. QED
  BY <1>1, <1>2, <1>3, <1>4, <1>6 DEF TypeOK

LEMMA DecidedType ==
  ASSUME NEW old \in Values, NEW v
  PROVE  Decided(old, v) \in Values /\ AnswerOf(v) \in Values
BY DEF Decided, AnswerOf, Values

\* The step of a worker keeps its own transaction well typed.
LEMMA MineStep ==
  ASSUME TypeOK, Scripted, NEW w \in Workers, Moves(w)
  PROVE  MineOK(w)'
<1>1. CASE Started(w)
  <2>1. PICK r \in Works :
          /\ todo'[w] = <<r>> \o Nested[r]
          /\ \A x \in {r} \union ToSet(Nested[r]) : fetched'[w][x] \in Payload
    BY <1>1, StartedMine
  <2>2. todo'[w] \in Seq(Records) /\ ToSet(todo'[w]) = {r} \union ToSet(Nested[r])
    BY <2>1, NestedAre, ConsMembers
  <2>3. Rows(w)' = {}
    BY <1>1, StartedMine
  <2>4. QED
    BY <2>1, <2>2, <2>3 DEF MineOK
<1>2. CASE Record(w) \/ Looked(w)
  <2>1. UNCHANGED <<todo, own, fetched>>
    BY <1>2 DEF Record, Looked
  <2>2. QED
    BY <2>1 DEF MineOK, TypeOK, Rows
<1>3. CASE Taken(w)
  <2>1. todo[w] # << >> /\ todo[w] \in Seq(Records)
    BY <1>3, TakenMine DEF Scripted, TypeOK
  <2>2. NextOf(w) \in Records /\ NextOf(w) \in ToSet(todo[w])
    BY <2>1, TailMembers DEF NextOf
  <2> DEFINE n == NextOf(w)
             seen == fetched[w][n]
             latest == IF n \in Split THEN revision[n] ELSE seen
             row == [revision |-> latest, current |-> seen, entity |-> {}, decision |-> decision[n]]
  <2>a. /\ Rows(w)' = Rows(w) \union {n} /\ own'[w][n] = row
        /\ \A x \in Rows(w) : x # n => own'[w][x] = own[w][x]
        /\ UNCHANGED <<todo, fetched>>
    BY <1>3, TakenMine
  <2>b. Rows(w) \subseteq Records /\ \A r \in Rows(w) : own[w][r] \in Row
    BY DEF TypeOK
  <2>c. seen \in Known /\ revision[n] \in Known /\ decision[n] \in Values
    BY <2>2 DEF TypeOK, Known
  <2> HIDE DEF seen
  <2>3. row \in Row
    BY <2>c DEF Row
  <2> HIDE DEF row, n
  <2>4. \A r \in Rows(w)' : own'[w][r] \in Row
    BY <2>a, <2>b, <2>3
  <2>5. Rows(w)' \subseteq Records /\ UNCHANGED <<todo, fetched>>
    BY <2>a, <2>b, <2>2 DEF n
  <2>6. QED
    BY <2>4, <2>5 DEF MineOK, TypeOK
<1>4. CASE Resolve(w)
  <2>1. NextOf(w) \in Rows(w)
    BY <1>4 DEF Scripted, Resolve
  <2> DEFINE n == NextOf(w)
             made == IF entity[n] = {} THEN {w} ELSE {}
             row == [own[w][n] EXCEPT !.entity = made]
  <2>a. /\ Rows(w)' = Rows(w) /\ own'[w][n] = row
        /\ \A x \in Rows(w) : x # n => own'[w][x] = own[w][x]
        /\ UNCHANGED <<todo, fetched>>
    BY <1>4, <2>1, ResolveMine
  <2>b. Rows(w) \subseteq Records /\ \A r \in Rows(w) : own[w][r] \in Row
    BY DEF TypeOK
  <2>c. made \in SUBSET Workers
    OBVIOUS
  <2> HIDE DEF made
  <2>2. row \in Row
    BY <2>1, <2>b, <2>c DEF Row
  <2> HIDE DEF row, n
  <2>3. \A r \in Rows(w)' : own'[w][r] \in Row
    BY <2>a, <2>b, <2>2
  <2>4. Rows(w)' \subseteq Records /\ UNCHANGED <<todo, fetched>>
    BY <2>a, <2>b
  <2>5. QED
    BY <2>3, <2>4 DEF MineOK, TypeOK
<1>5. CASE Facts(w)
  <2>1. NextOf(w) \in Rows(w) /\ todo[w] # << >> /\ todo[w] \in Seq(Records)
    BY <1>5 DEF Scripted, Facts, TypeOK
  <2> DEFINE n == NextOf(w)
             answer == Decided(own[w][n].decision, own[w][n].current)
             row == [own[w][n] EXCEPT !.decision = answer]
  <2>a. /\ Rows(w)' = Rows(w) /\ own'[w][n] = row
        /\ \A x \in Rows(w) : x # n => own'[w][x] = own[w][x]
        /\ todo'[w] = Tail(todo[w]) /\ UNCHANGED fetched
    BY <1>5, <2>1, FactsMine
  <2>b. Rows(w) \subseteq Records /\ \A r \in Rows(w) : own[w][r] \in Row
    BY DEF TypeOK
  <2>2. own[w][n] \in Row
    BY <2>1, <2>b
  <2>c. answer \in Values
    BY <2>2, DecidedType DEF Row
  <2> HIDE DEF answer
  <2>3. row \in Row
    BY <2>2, <2>c DEF Row
  <2> HIDE DEF row, n
  <2>4. \A r \in Rows(w)' : own'[w][r] \in Row
    BY <2>a, <2>b, <2>3
  <2>5. Rows(w)' \subseteq Records
    BY <2>a, <2>b
  <2>6. todo'[w] \in Seq(Records) /\ ToSet(todo'[w]) \subseteq ToSet(todo[w]) /\ UNCHANGED fetched
    BY <2>a, <2>1, TailMembers
  <2>7. QED
    BY <2>4, <2>5, <2>6 DEF MineOK, TypeOK
<1>6. CASE Commit(w) \/ Gone(w)
  <2>1. todo'[w] = << >> /\ Rows(w)' = {}
    BY <1>6, LeftMine
  <2>2. ToSet(todo'[w]) = {} /\ todo'[w] \in Seq(Records)
    BY <2>1, EmptySet
  <2>3. QED
    BY <2>1, <2>2 DEF MineOK
<1>7. QED
  BY <1>1, <1>2, <1>3, <1>4, <1>5, <1>6 DEF Moves

\* What a worker writes to the graph is well typed.
LEMMA GraphStep ==
  ASSUME TypeOK, Scripted, NEW w \in Workers, Moves(w)
  PROVE  GraphOK'
<1>1. CASE Record(w)
  <2>1. todo[w] # << >> /\ todo[w] \in Seq(Records)
    BY <1>1 DEF Record, Scripted, TypeOK
  <2>2. fetched[w][NextOf(w)] \in Known
    BY <2>1, TailMembers DEF NextOf, TypeOK, Known
  <2>3. QED
    BY <1>1, <2>2 DEF Record, TypeOK, GraphOK
<1>2. CASE Commit(w)
  <2>1. /\ DOMAIN revision' = Records /\ DOMAIN current' = Records
        /\ DOMAIN entity' = Records /\ DOMAIN decision' = Records /\ upstream' = upstream
    BY <1>2 DEF Commit, Committed
  <2>2. ASSUME NEW r \in Records
        PROVE  /\ revision'[r] \in Known /\ current'[r] \in Known
               /\ entity'[r] \in SUBSET Workers /\ decision'[r] \in Values
    <3>1. revision[r] \in Known /\ current[r] \in Known /\ entity[r] \in SUBSET Workers /\ decision[r] \in Values
      BY DEF TypeOK
    <3>2. CASE r \in Rows(w)
      <4>1. own[w][r] \in Row
        BY <3>2 DEF TypeOK
      <4>2. /\ own[w][r].revision \in Known /\ own[w][r].current \in Known
            /\ own[w][r].entity \in SUBSET Workers /\ own[w][r].decision \in Values
        BY <4>1 DEF Row
      <4>3. QED
        BY <1>2, <3>1, <3>2, <4>2, CommitGraph
    <3>3. CASE r \notin Rows(w)
      BY <1>2, <3>1, <3>3, CommitGraph
    <3>4. QED
      BY <3>2, <3>3
  <2>3. /\ revision' = [r \in Records |-> revision'[r]] /\ current' = [r \in Records |-> current'[r]]
        /\ entity' = [r \in Records |-> entity'[r]] /\ decision' = [r \in Records |-> decision'[r]]
    BY <1>2 DEF Commit, Committed
  <2>4. QED
    BY <2>1, <2>2, <2>3 DEF TypeOK, GraphOK
<1>3. CASE UNCHANGED <<upstream, graph>>
  BY <1>3 DEF TypeOK, GraphOK, graph
<1>4. QED
  <2>1. Record(w) \/ Commit(w) \/ UNCHANGED <<upstream, graph>>
    BY DEF Moves, Started, Begin, Looked, Taken, Select, Resolve, Facts, Gone
  <2>2. QED
    BY <1>1, <1>2, <1>3, <2>1

LEMMA TypeStep == ASSUME TypeOK, Scripted, [Next]_vars PROVE TypeOK'
<1>1. CASE UNCHANGED vars
  BY <1>1 DEF TypeOK, vars, graph, Rows
<1>2. ASSUME NEW r \in Records, Change(r) PROVE TypeOK'
  <2>1. upstream' \in [Records -> Versions]
    BY <1>2 DEF Change, TypeOK
  <2>2. QED
    BY <1>2, <2>1 DEF Change, TypeOK, graph, Rows
<1>3. ASSUME NEW w \in Workers, Moves(w) PROVE TypeOK'
  <2>1. GraphOK'
    BY <1>3, GraphStep
  <2>2. MineOK(w)'
    BY <1>3, MineStep
  <2>3. ASSUME NEW v \in Workers, v # w PROVE MineOK(v)'
    BY <1>3, <2>3, OthersStay DEF TypeOK, MineOK, Rows
  <2>4. /\ DOMAIN todo' = Workers /\ DOMAIN fetched' = Workers /\ DOMAIN own' = Workers
        /\ pc' \in [Workers -> Places] /\ todo' = [v \in Workers |-> todo'[v]]
    <3>1. CASE Started(w)
      <4>1. PICK r \in Works, at \in {"record", "check", "take"} : \E versions : Begin(w, r, at, versions)
        BY <3>1 DEF Started
      <4>2. at \in Places
        BY DEF Places
      <4>3. PICK versions : Begin(w, r, at, versions)
        BY <4>1
      <4>4. QED
        BY <4>2, <4>3 DEF Begin, Goto, TypeOK
    <3>2. CASE Record(w) \/ Looked(w) \/ Taken(w)
      BY <3>2 DEF Record, Looked, Taken, Select, Write, Goto, TypeOK, Places
    <3>3. CASE Resolve(w) \/ Facts(w)
      BY <3>3 DEF Resolve, Facts, Goto, TypeOK, Places
    <3>4. CASE Commit(w) \/ Gone(w)
      BY <3>4 DEF Commit, Gone, Leave, Goto, TypeOK, Places
    <3>5. QED
      BY <1>3, <3>1, <3>2, <3>3, <3>4 DEF Moves
  <2>5. solo' \in [Workers -> BOOLEAN]
    <3>1. CASE Started(w)
      BY <3>1, StartedMine
    <3>2. CASE Commit(w) \/ Gone(w)
      BY <3>2, LeftMine DEF TypeOK
    <3>3. CASE UNCHANGED solo
      BY <3>3 DEF TypeOK
    <3>4. Started(w) \/ Commit(w) \/ Gone(w) \/ UNCHANGED solo
      BY <1>3 DEF Moves, Record, Looked, Taken, Select, Resolve, Facts
    <3>5. QED
      BY <3>1, <3>2, <3>3, <3>4
  <2>6. \A v \in Workers : MineOK(v)'
    BY <2>2, <2>3
  <2>7. todo' \in [Workers -> Seq(Records)]
    BY <2>4, <2>6 DEF MineOK
  <2>8. QED
    BY <2>1, <2>4, <2>5, <2>6, <2>7 DEF TypeOK, MineOK, GraphOK
<1>4. QED
  BY <1>1, <1>2, <1>3, StepForms DEF Moves

-----------------------------------------------------------------------------
(***************************************************************************)
(* A transaction follows its script, on rows that nobody else writes.      *)
(***************************************************************************)
ScriptedAt(w) ==
  /\ pc[w] \in {"idle", "commit"} => todo[w] = << >>
  /\ pc[w] \notin {"idle", "commit"} => todo[w] # << >> /\ Script(todo[w])
  /\ pc[w] \in {"idle", "record", "check"} => Rows(w) = {}
  /\ pc[w] \in {"record", "check"} => NextOf(w) \in Split
  /\ pc[w] \in {"resolve", "facts"} => NextOf(w) \in Rows(w)

\* Once its head is written, what is left of a script is nested records.
LEMMA ScriptTail ==
  ASSUME NEW s \in Seq(Records), s # << >>, Script(s)
  PROVE  Tail(s) \in Seq(Records \ Works) /\ (Tail(s) # << >> => Script(Tail(s)))
<1>1. CASE Head(s) \in Works /\ s = <<Head(s)>> \o Nested[Head(s)]
  <2> DEFINE h == Head(s)
  <2>1. h \in Works /\ s = <<h>> \o Nested[h]
    BY <1>1
  <2> HIDE DEF h
  <2>2. Nested[h] \in Seq(Records \ Works) /\ Nested[h] \in Seq(Records) /\ h \in Records
    BY <2>1, NestedAre
  <2>3. Tail(s) = Nested[h]
    BY <2>1, <2>2, ConsMembers
  <2>4. QED
    BY <2>2, <2>3 DEF Script
<1>2. CASE s \in Seq(Records \ Works)
  BY <1>2, TailMembers DEF Script
<1>3. QED
  BY <1>1, <1>2 DEF Script

LEMMA ScriptedStep ==
  ASSUME TypeOK, Scripted, NEW w \in Workers, Moves(w)
  PROVE  Scripted'
<1>1. ScriptedAt(w)'
  <2>1. CASE Started(w)
    <3>1. PICK r \in Works :
            /\ todo'[w] = <<r>> \o Nested[r] /\ pc'[w] \in {"record", "check", "take"}
            /\ pc'[w] = "take" <=> r \notin Split
      BY <2>1, StartedMine
    <3>2. Head(todo'[w]) = r /\ todo'[w] # << >>
      BY <3>1, NestedAre, ConsMembers
    <3>3. Rows(w)' = {}
      BY <2>1, StartedMine
    <3>4. QED
      BY <3>1, <3>2, <3>3 DEF ScriptedAt, Script, NextOf
  <2>2. CASE Record(w) \/ Looked(w)
    <3>1. pc[w] \in {"record", "check"} /\ pc'[w] = "take" /\ UNCHANGED <<todo, own>>
      BY <2>2 DEF Record, Looked, Goto, TypeOK
    <3>2. QED
      BY <3>1 DEF ScriptedAt, Scripted, Rows
  <2>3. CASE Taken(w)
    <3>1. pc[w] = "take" /\ pc'[w] = "resolve" /\ todo' = todo /\ Rows(w)' = Rows(w) \union {NextOf(w)}
      BY <2>3, TakenMine
    <3>2. QED
      BY <3>1 DEF ScriptedAt, Scripted, NextOf
  <2>4. CASE Resolve(w)
    <3>1. pc[w] = "resolve" /\ NextOf(w) \in Rows(w)
      BY <2>4 DEF Resolve, Scripted
    <3>2. pc'[w] = "facts" /\ todo' = todo /\ Rows(w)' = Rows(w)
      BY <2>4, <3>1, ResolveMine
    <3>3. QED
      BY <3>1, <3>2 DEF ScriptedAt, Scripted, NextOf
  <2>5. CASE Facts(w)
    <3>1. pc[w] = "facts" /\ NextOf(w) \in Rows(w) /\ todo[w] \in Seq(Records) /\ todo[w] # << >> /\ Script(todo[w])
      BY <2>5 DEF Facts, Scripted, TypeOK
    <3>2. pc'[w] = (IF Len(todo[w]) = 1 THEN "commit" ELSE "take") /\ todo'[w] = Tail(todo[w]) /\ Rows(w)' = Rows(w)
      BY <2>5, <3>1, FactsMine
    <3>3. Len(todo[w]) = 1 <=> todo'[w] = << >>
      BY <3>1, <3>2, TailMembers
    <3>4. todo'[w] # << >> => Script(todo'[w])
      BY <3>1, <3>2, ScriptTail
    <3>5. QED
      BY <3>2, <3>3, <3>4 DEF ScriptedAt, Script
  <2>6. CASE Commit(w) \/ Gone(w)
    BY <2>6, LeftMine DEF ScriptedAt
  <2>7. QED
    BY <2>1, <2>2, <2>3, <2>4, <2>5, <2>6 DEF Moves
<1>2. ASSUME NEW v \in Workers, v # w PROVE ScriptedAt(v)'
  <2>1. pc'[v] = pc[v] /\ todo'[v] = todo[v] /\ own'[v] = own[v]
    BY <1>2, OthersStay
  <2>2. QED
    BY <2>1 DEF Scripted, ScriptedAt, Rows, NextOf, Script
<1>3. QED
  BY <1>1, <1>2 DEF Scripted, ScriptedAt, Script

\* Rows stay apart: a record is only written while nobody else has written to it.
LEMMA RowsMove ==
  ASSUME TypeOK, Scripted, NEW w \in Workers, Moves(w)
  PROVE  \/ Taken(w) /\ Rows(w)' = Rows(w) \union {NextOf(w)}
         \/ Rows(w)' \subseteq Rows(w)
<1>1. CASE Started(w)
  BY <1>1, StartedMine
<1>2. CASE Record(w) \/ Looked(w)
  BY <1>2 DEF Record, Looked, Rows
<1>3. CASE Taken(w)
  BY <1>3, TakenMine
<1>4. CASE Resolve(w)
  BY <1>4, ResolveMine DEF Scripted, Resolve
<1>5. CASE Facts(w)
  BY <1>5, FactsMine DEF Scripted, Facts
<1>6. CASE Commit(w) \/ Gone(w)
  BY <1>6, LeftMine
<1>7. QED
  BY <1>1, <1>2, <1>3, <1>4, <1>5, <1>6 DEF Moves

LEMMA ApartStep ==
  ASSUME TypeOK, Scripted, RowsApart, NEW w \in Workers, Moves(w)
  PROVE  RowsApart'
<1>1. ASSUME NEW v \in Workers, v # w PROVE Rows(v)' = Rows(v) /\ Rows(v) \cap Rows(w) = {}
  BY <1>1, OthersStay DEF Rows, RowsApart
<1>2. ASSUME NEW v \in Workers, v # w PROVE Rows(v)' \cap Rows(w)' = {}
  <2>1. CASE Taken(w) /\ Rows(w)' = Rows(w) \union {NextOf(w)}
    <3>1. Free(w, NextOf(w))
      BY <2>1 DEF Taken
    <3>2. NextOf(w) \notin Rows(v)
      BY <1>2, <3>1 DEF Free, Holders
    <3>3. QED
      BY <1>1, <1>2, <2>1, <3>2
  <2>2. CASE Rows(w)' \subseteq Rows(w)
    BY <1>1, <1>2, <2>2
  <2>3. QED
    BY <2>1, <2>2, RowsMove
<1>3. ASSUME NEW u \in Workers, NEW v \in Workers, u # v PROVE Rows(u)' \cap Rows(v)' = {}
  BY <1>1, <1>2, <1>3 DEF RowsApart
<1>4. QED
  BY <1>3 DEF RowsApart

-----------------------------------------------------------------------------
(***************************************************************************)
(* What a transaction has written is complete when it commits.             *)
(***************************************************************************)
RowTrue(w, r) ==
  /\ ~InHand(w, r, {"resolve"}) => Resolved(w, r)
  /\ ~InHand(w, r, {"resolve", "facts"}) => Answered(w, r)
  /\ Latest(w, r)

\* Nobody else touches the entity of a record whose row a transaction holds.
LEMMA EntityHeld ==
  ASSUME TypeOK, RowsApart, NEW w \in Workers, Moves(w), NEW r \in Records
  PROVE  (Commit(w) /\ r \in Rows(w)) \/ entity'[r] = entity[r]
<1>1. CASE Commit(w)
  BY <1>1, CommitGraph
<1>2. CASE ~Commit(w)
  <2>1. UNCHANGED entity
    BY <1>2 DEF Moves, Started, Begin, Record, Looked, Taken, Select, Resolve, Facts, Gone, graph
  <2>2. QED
    BY <2>1
<1>3. QED
  BY <1>1, <1>2

LEMMA RowsTrueMine ==
  ASSUME TypeOK, Scripted, RowsTrue, NEW w \in Workers, Moves(w), NEW r \in Rows(w)'
  PROVE  RowTrue(w, r)'
<1>1. CASE Started(w) \/ Commit(w) \/ Gone(w)
  BY <1>1, StartedMine, LeftMine
<1>2. CASE Record(w) \/ Looked(w)
  BY <1>2 DEF Record, Looked, Scripted, Rows
<1>3. CASE Taken(w)
  <2> DEFINE n == NextOf(w)
  <2>1. /\ pc[w] = "take" /\ pc'[w] = "resolve" /\ todo' = todo /\ Rows(w)' = Rows(w) \union {n}
        /\ \A x \in Rows(w) : x # n => own'[w][x] = own[w][x]
        /\ own'[w][n] = [revision |-> IF n \in Split THEN revision[n] ELSE fetched[w][n],
                         current |-> fetched[w][n], entity |-> {}, decision |-> decision[n]]
        /\ UNCHANGED entity
    BY <1>3, TakenMine DEF graph
  <2>2. NextOf(w)' = n
    BY <2>1 DEF NextOf
  <2>3. CASE r = n
    <3>1. InHand(w, r, {"resolve"})' /\ InHand(w, r, {"resolve", "facts"})'
      BY <2>1, <2>2, <2>3 DEF InHand
    <3>2. todo[w] # << >> /\ todo[w] \in Seq(Records)
      BY <2>1 DEF Scripted, TypeOK
    <3>3. fetched[w][n] # Unseen
      BY <3>2, TailMembers, VersionsAre DEF NextOf, TypeOK
    <3>4. Latest(w, r)'
      BY <2>1, <2>3, <3>3 DEF Latest
    <3>5. QED
      BY <3>1, <3>4 DEF RowTrue
  <2>4. CASE r # n
    <3>1. r \in Rows(w) /\ own'[w][r] = own[w][r]
      BY <2>1, <2>4
    <3>2. Resolved(w, r) /\ Answered(w, r) /\ Latest(w, r)
      BY <2>1, <3>1 DEF RowsTrue, InHand
    <3>3. QED
      BY <2>1, <3>1, <3>2 DEF RowTrue, Resolved, Answered, Latest
  <2>5. QED
    BY <2>3, <2>4
<1>4. CASE Resolve(w)
  <2> DEFINE n == NextOf(w)
  <2>1. pc[w] = "resolve" /\ n \in Rows(w)
    BY <1>4 DEF Scripted, Resolve
  <2>2. /\ pc'[w] = "facts" /\ Rows(w)' = Rows(w)
        /\ \A x \in Rows(w) : x # n => own'[w][x] = own[w][x]
        /\ own'[w][n] = [own[w][n] EXCEPT !.entity = IF entity[n] = {} THEN {w} ELSE {}]
        /\ UNCHANGED <<entity, todo>>
    BY <1>4, <2>1, ResolveMine DEF graph
  <2>3. NextOf(w)' = n
    BY <2>2 DEF NextOf
  <2>4. CASE r = n
    <3>1. own[w][n] \in Row /\ Latest(w, n)
      BY <2>1 DEF TypeOK, RowsTrue
    <3>2. Resolved(w, r)' /\ Latest(w, r)'
      BY <2>2, <2>4, <3>1 DEF Row, Resolved, Latest
    <3>3. InHand(w, r, {"resolve", "facts"})'
      BY <2>2, <2>3, <2>4 DEF InHand
    <3>4. QED
      BY <3>2, <3>3 DEF RowTrue
  <2>5. CASE r # n
    <3>1. r \in Rows(w) /\ own'[w][r] = own[w][r]
      BY <2>2, <2>5
    <3>2. Resolved(w, r) /\ Answered(w, r) /\ Latest(w, r)
      BY <2>5, <3>1 DEF RowsTrue, InHand
    <3>3. QED
      BY <2>2, <3>1, <3>2 DEF RowTrue, Resolved, Answered, Latest
  <2>6. QED
    BY <2>4, <2>5
<1>5. CASE Facts(w)
  <2> DEFINE n == NextOf(w)
             answer == Decided(own[w][n].decision, own[w][n].current)
  <2>1. pc[w] = "facts" /\ n \in Rows(w)
    BY <1>5 DEF Scripted, Facts
  <2>2. /\ Rows(w)' = Rows(w)
        /\ \A x \in Rows(w) : x # n => own'[w][x] = own[w][x]
        /\ own'[w][n] = [own[w][n] EXCEPT !.decision = answer]
        /\ UNCHANGED entity
    BY <1>5, <2>1, FactsMine DEF graph
  <2>3. CASE r = n
    <3>1. own[w][n] \in Row /\ Latest(w, n) /\ Resolved(w, n)
      BY <2>1 DEF TypeOK, RowsTrue, InHand
    <3>2. AnswerOf(own[w][n].current) # 0 => answer = AnswerOf(own[w][n].current)
      BY DEF Decided
    <3> HIDE DEF answer
    <3>3. Resolved(w, r)' /\ Latest(w, r)'
      BY <2>2, <2>3, <3>1 DEF Row, Resolved, Latest
    <3>4. Answered(w, r)'
      BY <2>2, <2>3, <3>1, <3>2 DEF Row, Answered, AnswerOf
    <3>5. QED
      BY <3>3, <3>4 DEF RowTrue
  <2>4. CASE r # n
    <3>1. r \in Rows(w) /\ own'[w][r] = own[w][r]
      BY <2>2, <2>4
    <3>2. Resolved(w, r) /\ Answered(w, r) /\ Latest(w, r)
      BY <2>4, <3>1 DEF RowsTrue, InHand
    <3>3. QED
      BY <2>2, <3>1, <3>2 DEF RowTrue, Resolved, Answered, Latest, AnswerOf
  <2>5. QED
    BY <2>3, <2>4
<1>6. QED
  BY <1>1, <1>2, <1>3, <1>4, <1>5 DEF Moves

LEMMA RowsTrueStep ==
  ASSUME TypeOK, Scripted, RowsApart, RowsTrue, NEW w \in Workers, Moves(w)
  PROVE  RowsTrue'
<1>1. \A r \in Rows(w)' : RowTrue(w, r)'
  BY RowsTrueMine
<1>2. ASSUME NEW v \in Workers, v # w, NEW r \in Rows(v)' PROVE RowTrue(v, r)'
  <2>1. pc'[v] = pc[v] /\ todo'[v] = todo[v] /\ own'[v] = own[v]
    BY <1>2, OthersStay
  <2>2. r \in Rows(v) /\ r \in Records /\ r \notin Rows(w)
    BY <1>2, <2>1 DEF Rows, RowsApart, TypeOK
  <2>3. entity'[r] = entity[r]
    BY <2>2, EntityHeld
  <2>4. RowTrue(v, r)
    BY <2>2 DEF RowsTrue, RowTrue
  <2>5. QED
    BY <2>1, <2>3, <2>4 DEF RowTrue, InHand, NextOf, Resolved, Answered, Latest, AnswerOf
<1>3. QED
  BY <1>1, <1>2 DEF RowsTrue, RowTrue

\* A work brings what it nests: its row and theirs belong to one transaction.
HeldAt(w) == \A r \in Rows(w) \cap Works : ToSet(Nested[r]) \subseteq Rows(w) \union ToSet(todo[w])

LEMMA NestedHeldStep ==
  ASSUME TypeOK, Scripted, NestedHeld, NEW w \in Workers, Moves(w)
  PROVE  NestedHeld'
<1>1. HeldAt(w)'
  <2>1. CASE Started(w) \/ Commit(w) \/ Gone(w)
    BY <2>1, StartedMine, LeftMine DEF HeldAt
  <2>2. CASE Record(w) \/ Looked(w)
    BY <2>2 DEF Record, Looked, NestedHeld, HeldAt, Rows
  <2>3. CASE Taken(w)
    <3>1. pc[w] = "take" /\ todo' = todo /\ Rows(w)' = Rows(w) \union {NextOf(w)}
      BY <2>3, TakenMine
    <3>2. ASSUME NextOf(w) \in Works PROVE ToSet(Nested[NextOf(w)]) \subseteq ToSet(todo[w])
      <4>1. Script(todo[w]) /\ todo[w] # << >> /\ todo[w] \in Seq(Records)
        BY <3>1 DEF Scripted, TypeOK
      <4>2. CASE todo[w] = <<Head(todo[w])>> \o Nested[Head(todo[w])]
        <5> DEFINE h == Head(todo[w])
        <5>1. h \in Works /\ todo[w] = <<h>> \o Nested[h]
          BY <3>2, <4>2 DEF NextOf
        <5> HIDE DEF h
        <5>2. ToSet(todo[w]) = {h} \union ToSet(Nested[h])
          BY <5>1, NestedAre, ConsMembers
        <5>3. QED
          BY <5>2 DEF h, NextOf
      <4>3. CASE todo[w] \in Seq(Records \ Works)
        BY <3>2, <4>1, <4>3, TailMembers DEF NextOf
      <4>4. QED
        BY <4>1, <4>2, <4>3 DEF Script
    <3>3. QED
      BY <3>1, <3>2 DEF NestedHeld, HeldAt
  <2>4. CASE Resolve(w)
    BY <2>4, ResolveMine DEF Scripted, Resolve, NestedHeld, HeldAt
  <2>5. CASE Facts(w)
    <3>1. NextOf(w) \in Rows(w) /\ todo[w] # << >> /\ todo[w] \in Seq(Records)
      BY <2>5 DEF Scripted, Facts, TypeOK
    <3>2. todo'[w] = Tail(todo[w]) /\ Rows(w)' = Rows(w)
      BY <2>5, <3>1, FactsMine
    <3>3. ToSet(todo[w]) = {NextOf(w)} \union ToSet(todo'[w])
      BY <3>1, <3>2, TailMembers DEF NextOf
    <3>4. QED
      BY <3>1, <3>2, <3>3 DEF NestedHeld, HeldAt
  <2>6. QED
    BY <2>1, <2>2, <2>3, <2>4, <2>5 DEF Moves
<1>2. ASSUME NEW v \in Workers, v # w PROVE HeldAt(v)'
  <2>1. todo'[v] = todo[v] /\ own'[v] = own[v]
    BY <1>2, OthersStay
  <2>2. QED
    BY <2>1 DEF NestedHeld, HeldAt, Rows
<1>3. QED
  BY <1>1, <1>2 DEF NestedHeld, HeldAt

-----------------------------------------------------------------------------
(***************************************************************************)
(* The graph after a commit.                                               *)
(***************************************************************************)
\* A step that does not commit keeps the graph, but for the revision of a record whose
\* projection is a transaction of its own.
LEMMA GraphKept ==
  ASSUME TypeOK, Scripted, NEW w \in Workers, Moves(w), ~Commit(w), NEW r \in Records
  PROVE  /\ current'[r] = current[r] /\ entity'[r] = entity[r] /\ decision'[r] = decision[r]
         /\ revision'[r] # revision[r] => r \in Split
<1>1. CASE Record(w)
  <2>1. NextOf(w) \in Split
    BY <1>1 DEF Record, Scripted
  <2>2. QED
    BY <1>1, <2>1 DEF Record, TypeOK
<1>2. CASE ~Record(w)
  <2>1. UNCHANGED graph
    BY <1>2 DEF Moves, Started, Begin, Looked, Taken, Select, Resolve, Facts, Gone
  <2>2. QED
    BY <2>1 DEF graph
<1>3. QED
  BY <1>1, <1>2

\* A row that commits is complete.
LEMMA RowCommits ==
  ASSUME TypeOK, RowsTrue, NEW w \in Workers, Commit(w), NEW r \in Rows(w)
  PROVE  /\ r \in Records /\ Resolved(w, r) /\ Answered(w, r) /\ Latest(w, r)
         /\ entity'[r] = IF entity[r] = {} THEN {w} ELSE entity[r]
<1>1. r \in Records /\ pc[w] = "commit"
  BY CommitGraph DEF TypeOK, Commit
<1>2. Resolved(w, r) /\ Answered(w, r) /\ Latest(w, r)
  BY <1>1 DEF RowsTrue, InHand
<1>3. entity'[r] = entity[r] \union own[w][r].entity
  BY <1>1, CommitGraph
<1>4. QED
  BY <1>1, <1>2, <1>3 DEF Resolved

LEMMA OneEntityStep ==
  ASSUME TypeOK, Scripted, RowsTrue, OneEntity, NEW w \in Workers, Moves(w)
  PROVE  OneEntity'
<1>1. ASSUME NEW r \in Records PROVE \A e, f \in entity'[r] : e = f
  <2>1. CASE Commit(w) /\ r \in Rows(w)
    <3>1. entity'[r] = {w} \/ entity'[r] = entity[r]
      BY <2>1, RowCommits
    <3>2. QED
      BY <3>1 DEF OneEntity
  <2>2. CASE Commit(w) /\ r \notin Rows(w)
    BY <2>2, CommitGraph DEF OneEntity
  <2>3. CASE ~Commit(w)
    BY <2>3, GraphKept DEF OneEntity
  <2>4. QED
    BY <2>1, <2>2, <2>3
<1>2. QED
  BY <1>1 DEF OneEntity

ShownAt(r) ==
  current[r] # Unseen =>
    /\ entity[r] # {}
    /\ AnswerOf(current[r]) # 0 => decision[r] = AnswerOf(current[r])
    /\ r \notin Split => current[r] = revision[r]

LEMMA ShownStep ==
  ASSUME TypeOK, Scripted, RowsTrue, ShownAsObserved, NEW w \in Workers, Moves(w)
  PROVE  ShownAsObserved'
<1>1. ASSUME NEW r \in Records PROVE ShownAt(r)'
  <2>0. ShownAt(r)
    BY DEF ShownAsObserved, ShownAt
  <2>1. CASE Commit(w) /\ r \in Rows(w)
    <3>1. entity'[r] # {} /\ Answered(w, r) /\ Latest(w, r)
      BY <2>1, RowCommits
    <3>2. /\ revision'[r] = IF r \notin Split THEN own[w][r].revision ELSE revision[r]
          /\ current'[r] = own[w][r].current /\ decision'[r] = own[w][r].decision
      BY <2>1, CommitGraph
    <3>3. QED
      BY <3>1, <3>2 DEF ShownAt, Answered, Latest, AnswerOf
  <2>2. CASE Commit(w) /\ r \notin Rows(w)
    BY <2>0, <2>2, CommitGraph DEF ShownAt, AnswerOf
  <2>3. CASE ~Commit(w)
    BY <2>0, <2>3, GraphKept DEF ShownAt, AnswerOf
  <2>4. QED
    BY <2>1, <2>2, <2>3
<1>2. QED
  BY <1>1 DEF ShownAsObserved, ShownAt

\* Nothing takes the entity of a record away.
LEMMA EntityStays ==
  ASSUME TypeOK, Scripted, RowsTrue, NEW w \in Workers, Moves(w), NEW r \in Records, entity[r] # {}
  PROVE  entity'[r] # {}
<1>1. CASE Commit(w) /\ r \in Rows(w)
  BY <1>1, RowCommits
<1>2. CASE Commit(w) /\ r \notin Rows(w)
  BY <1>2, CommitGraph
<1>3. CASE ~Commit(w)
  BY <1>3, GraphKept
<1>4. QED
  BY <1>1, <1>2, <1>3

LEMMA NestedStep ==
  ASSUME TypeOK, Scripted, RowsTrue, NestedHeld, NestedInGraph, NEW w \in Workers, Moves(w)
  PROVE  NestedInGraph'
<1>1. ASSUME NEW r \in Works, current'[r] # Unseen, NEW n \in ToSet(Nested[r]) PROVE entity'[n] # {}
  <2>1. r \in Records /\ n \in Records
    BY NestedAre
  <2>2. CASE Commit(w) /\ r \in Rows(w)
    <3>1. pc[w] = "commit"
      BY <2>2 DEF Commit
    <3>2. ToSet(todo[w]) = {}
      BY <3>1, EmptySet DEF Scripted
    <3>3. n \in Rows(w)
      BY <2>2, <3>2 DEF NestedHeld
    <3>4. QED
      BY <2>2, <3>3, RowCommits
  <2>3. CASE ~(Commit(w) /\ r \in Rows(w))
    <3>1. current'[r] = current[r]
      BY <2>1, <2>3, CommitGraph, GraphKept
    <3>2. entity[n] # {}
      BY <1>1, <3>1 DEF NestedInGraph
    <3>3. QED
      BY <2>1, <3>2, EntityStays
  <2>4. QED
    BY <2>2, <2>3
<1>2. QED
  BY <1>1 DEF NestedInGraph

LEMMA ImportInit == Init => ImportInv
<1> SUFFICES ASSUME Init PROVE ImportInv
  OBVIOUS
<1>1. TypeOK
  BY TypeInit
<1>2. ASSUME NEW w \in Workers PROVE pc[w] = "idle" /\ todo[w] = << >> /\ Rows(w) = {}
  <2>1. own[w] = << >>
    BY DEF Init
  <2>2. QED
    BY <2>1 DEF Init, Rows
<1>3. Scripted /\ RowsApart /\ RowsTrue /\ NestedHeld
  BY <1>2 DEF Scripted, RowsApart, RowsTrue, NestedHeld
<1>4. ASSUME NEW r \in Records PROVE entity[r] = {} /\ current[r] = Unseen
  BY DEF Init
<1>5. OneEntity /\ ShownAsObserved
  BY <1>4 DEF OneEntity, ShownAsObserved
<1>6. NestedInGraph
  BY <1>4, NestedAre DEF NestedInGraph
<1>7. QED
  BY <1>1, <1>3, <1>5, <1>6 DEF ImportInv

LEMMA ImportStep == ASSUME ImportInv, [Next]_vars PROVE ImportInv'
<1>1. TypeOK'
  BY TypeStep DEF ImportInv
<1>2. CASE UNCHANGED <<graph, pc, fetched, todo, own>>
  <2>1. Scripted'
    BY <1>2 DEF ImportInv, Scripted, Script, NextOf, Rows
  <2>2. RowsApart' /\ NestedHeld'
    BY <1>2 DEF ImportInv, RowsApart, NestedHeld, Rows
  <2>3. RowsTrue'
    BY <1>2 DEF ImportInv, graph, RowsTrue, InHand, Resolved, Answered, AnswerOf, Latest, NextOf, Rows
  <2>4. OneEntity' /\ ShownAsObserved' /\ NestedInGraph'
    BY <1>2 DEF ImportInv, graph, OneEntity, ShownAsObserved, AnswerOf, NestedInGraph
  <2>5. QED
    BY <1>1, <2>1, <2>2, <2>3, <2>4 DEF ImportInv
<1>3. ASSUME NEW w \in Workers, Moves(w) PROVE ImportInv'
  BY <1>1, <1>3, ScriptedStep, ApartStep, RowsTrueStep, NestedHeldStep, OneEntityStep, ShownStep,
    NestedStep DEF ImportInv
<1>4. QED
  <2>1. CASE UNCHANGED vars
    BY <1>2, <2>1 DEF vars
  <2>2. ASSUME NEW r \in Records, Change(r) PROVE ImportInv'
    BY <1>2, <2>2 DEF Change
  <2>3. QED
    BY <1>3, <2>1, <2>2, StepForms DEF ImportInv, Moves

THEOREM ImportInvariant == Spec => []ImportInv
<1>1. QED
  BY ImportInit, ImportStep, PTL DEF Spec

\* Every reachable state of the graph and of the transactions is well typed.
THEOREM TypeCorrect == Spec => []TypeOK
<1>1. ImportInv => TypeOK
  BY DEF ImportInv
<1>2. QED
  BY <1>1, ImportInvariant, PTL

\* However many imports and mentions of a record run at once, fail, wait for each other or
\* are rolled back, no record comes to be represented by two entities.
THEOREM OneEach == Spec => []OneEntity
<1>1. ImportInv => OneEntity
  BY DEF ImportInv
<1>2. QED
  BY <1>1, ImportInvariant, PTL

\* A record with a current observation has an entity, the fact of that observation is the
\* answer, and where revision and projection commit together it is the latest revision.
THEOREM Observed == Spec => []ShownAsObserved
<1>1. ImportInv => ShownAsObserved
  BY DEF ImportInv
<1>2. QED
  BY <1>1, ImportInvariant, PTL

\* What a work nests is in the graph whenever the work is, whatever fails halfway.
THEOREM NestedTogether == Spec => []NestedInGraph
<1>1. ImportInv => NestedInGraph
  BY DEF ImportInv
<1>2. QED
  BY <1>1, ImportInvariant, PTL

-----------------------------------------------------------------------------
(***************************************************************************)
(* An import that nobody overtakes.                                        *)
(***************************************************************************)
SoloInv == ImportInv /\ AloneInv

AloneAt(w) ==
  solo[w] =>
    /\ \A v \in Workers \ {w} : pc[v] = "idle"
    /\ pc[w] \in {"check", "take", "resolve", "facts"} /\ NextOf(w) \in Split =>
         fetched[w][NextOf(w)] = Shown(revision[NextOf(w)])
    /\ \A r \in Rows(w) \cap Split : own[w][r].current = Shown(revision[r])

\* A worker that moves while another is alone has not been alone: it was idle, and begins.
LEMMA OvertakenStep ==
  ASSUME ImportInv, AloneInv, NEW w \in Workers, Moves(w), NEW v \in Workers, v # w, solo'[v]
  PROVE  FALSE
<1>1. CASE Started(w)
  BY <1>1, StartedMine DEF ImportInv
<1>2. CASE ~Started(w)
  <2>1. solo'[v] = solo[v]
    <3>1. CASE Commit(w) \/ Gone(w)
      BY <3>1, LeftMine DEF ImportInv, TypeOK
    <3>2. CASE ~(Commit(w) \/ Gone(w))
      BY <1>2, <3>2 DEF Moves, Record, Looked, Taken, Select, Resolve, Facts
    <3>3. QED
      BY <3>1, <3>2
  <2>2. pc[w] = "idle"
    BY <2>1 DEF AloneInv
  <2>3. pc[w] # "idle"
    BY <1>2 DEF Moves, Record, Looked, Taken, Resolve, Facts, Commit, Gone
  <2>4. QED
    BY <2>2, <2>3
<1>3. QED
  BY <1>1, <1>2

\* Where a record is split, its import has nothing else to write.
LEMMA SplitAlone ==
  ASSUME ImportInv, NEW w \in Workers, Facts(w), pc'[w] = "take"
  PROVE  NextOf(w)' \notin Split
<1>1. todo[w] # << >> /\ todo[w] \in Seq(Records) /\ Script(todo[w]) /\ NextOf(w) \in Rows(w)
  BY DEF ImportInv, Scripted, TypeOK, Facts
<1>2. todo'[w] = Tail(todo[w]) /\ Len(todo[w]) # 1
  BY <1>1, FactsMine DEF ImportInv
<1>3. todo'[w] \in Seq(Records \ Works) /\ todo'[w] # << >>
  BY <1>1, <1>2, ScriptTail, TailMembers
<1>4. NextOf(w)' \in Records \ Works
  BY <1>3, TailMembers DEF NextOf
<1>5. QED
  BY <1>4, ImportAssumption

LEMMA AloneMine ==
  ASSUME ImportInv, AloneInv, NEW w \in Workers, Moves(w), solo'[w]
  PROVE  AloneAt(w)'
<1>0. TypeOK /\ Scripted
  BY DEF ImportInv
<1>1. CASE Started(w)
  <2>1. PICK r \in Works :
          /\ todo'[w] = <<r>> \o Nested[r]
          /\ pc'[w] = "take" <=> r \notin Split
          /\ pc'[w] = "check" => fetched'[w][r] = Shown(revision[r])
          /\ pc'[w] \in {"record", "check", "take"}
    BY <1>0, <1>1, StartedMine
  <2>2. NextOf(w)' = r
    BY <2>1, NestedAre, ConsMembers DEF NextOf
  <2>3. Rows(w)' = {} /\ UNCHANGED revision
    BY <1>0, <1>1, StartedMine DEF graph
  <2>4. \A v \in Workers \ {w} : pc'[v] = "idle"
    BY <1>0, <1>1, StartedMine, OthersStay
  <2>5. QED
    BY <2>1, <2>2, <2>3, <2>4 DEF AloneAt, Shown
<1>2. ASSUME ~Started(w)
      PROVE  solo[w] /\ \A v \in Workers \ {w} : pc'[v] = "idle"
  <2>1. solo[w]
    <3>1. CASE Commit(w) \/ Gone(w)
      BY <1>0, <3>1, LeftMine DEF TypeOK
    <3>2. CASE ~(Commit(w) \/ Gone(w))
      BY <1>2, <3>2 DEF Moves, Record, Looked, Taken, Select, Resolve, Facts
    <3>3. QED
      BY <3>1, <3>2
  <2>2. QED
    BY <1>0, <2>1, OthersStay DEF AloneInv
<1>3. CASE Record(w) /\ ~Started(w)
  <2> DEFINE n == NextOf(w)
  <2>1. /\ pc[w] = "record" /\ revision' = [revision EXCEPT ![n] = fetched[w][n]] /\ pc'[w] = "take"
        /\ UNCHANGED <<fetched, todo, own>>
    BY <1>0, <1>3 DEF Record, Goto, TypeOK
  <2>2. todo[w] # << >> /\ todo[w] \in Seq(Records) /\ Rows(w) = {}
    BY <1>0, <2>1 DEF Scripted, TypeOK
  <2>3. n \in Records /\ fetched[w][n] \in Payload
    BY <1>0, <2>2, TailMembers DEF NextOf, TypeOK
  <2>4. revision'[n] = fetched[w][n] /\ fetched[w][n] # Unseen
    BY <1>0, <2>1, <2>3, VersionsAre DEF TypeOK
  <2>5. NextOf(w)' = n /\ Rows(w)' = {}
    BY <2>1, <2>2 DEF NextOf, Rows
  <2>6. QED
    BY <1>2, <1>3, <2>1, <2>4, <2>5 DEF AloneAt, Shown
<1>4. CASE Looked(w) /\ ~Started(w)
  <2>1. pc[w] = "check" /\ UNCHANGED <<graph, fetched, todo, own>> /\ solo[w]
    BY <1>2, <1>4 DEF Looked
  <2>2. QED
    BY <1>2, <1>4, <2>1 DEF AloneAt, AloneInv, Shown, NextOf, Rows, graph
<1>5. CASE Taken(w) /\ ~Started(w)
  <2> DEFINE n == NextOf(w)
  <2>a. /\ pc[w] = "take" /\ Rows(w)' = Rows(w) \union {n}
        /\ \A x \in Rows(w) : x # n => own'[w][x] = own[w][x]
        /\ own'[w][n] = [revision |-> IF n \in Split THEN revision[n] ELSE fetched[w][n],
                         current |-> fetched[w][n], entity |-> {}, decision |-> decision[n]]
        /\ UNCHANGED <<revision, fetched, todo>>
    BY <1>0, <1>5, TakenMine DEF graph
  <2>b. own'[w][n].current = fetched[w][n]
    BY <2>a
  <2>1. /\ pc[w] = "take" /\ Rows(w)' = Rows(w) \union {n}
        /\ \A x \in Rows(w) : x # n => own'[w][x] = own[w][x]
        /\ own'[w][n].current = fetched[w][n]
        /\ UNCHANGED <<revision, fetched, todo>>
    BY <2>a, <2>b
  <2>2. solo[w] /\ \A v \in Workers \ {w} : pc'[v] = "idle"
    BY <1>2, <1>5
  <2>3. n \in Split => fetched[w][n] = Shown(revision[n])
    BY <2>1, <2>2 DEF AloneInv
  <2>4. NextOf(w)' = n
    BY <2>1 DEF NextOf
  <2>5. \A r \in Rows(w) \cap Split : own[w][r].current = Shown(revision[r])
    BY <2>2 DEF AloneInv
  <2> HIDE DEF n
  <2>6. \A r \in Rows(w)' \cap Split : own'[w][r].current = Shown(revision'[r])
    BY <2>1, <2>3, <2>5
  <2>7. n \in Split => fetched'[w][n] = Shown(revision'[n])
    BY <2>1, <2>3
  <2>8. QED
    BY <2>2, <2>4, <2>6, <2>7 DEF AloneAt, Shown
<1>6. CASE Resolve(w) /\ ~Started(w)
  <2> DEFINE n == NextOf(w)
  <2>1. pc[w] = "resolve" /\ n \in Rows(w) /\ own[w][n] \in Row
    BY <1>0, <1>6 DEF Scripted, Resolve, TypeOK
  <2>2. /\ Rows(w)' = Rows(w)
        /\ \A x \in Rows(w) : x # n => own'[w][x] = own[w][x]
        /\ own'[w][n] = [own[w][n] EXCEPT !.entity = IF entity[n] = {} THEN {w} ELSE {}]
        /\ UNCHANGED <<revision, fetched, todo>>
    BY <1>0, <1>6, <2>1, ResolveMine DEF graph
  <2>3. solo[w] /\ \A v \in Workers \ {w} : pc'[v] = "idle"
    BY <1>2, <1>6
  <2>4. own'[w][n].current = own[w][n].current
    BY <2>1, <2>2 DEF Row
  <2>5. NextOf(w)' = n /\ (n \in Split => fetched[w][n] = Shown(revision[n]))
    BY <2>1, <2>2, <2>3 DEF NextOf, AloneInv
  <2>6. \A r \in Rows(w) \cap Split : own[w][r].current = Shown(revision[r])
    BY <2>3 DEF AloneInv
  <2> HIDE DEF n
  <2>7. \A r \in Rows(w)' \cap Split : own'[w][r].current = Shown(revision'[r])
    BY <2>2, <2>4, <2>6
  <2>8. QED
    BY <2>2, <2>3, <2>5, <2>7 DEF AloneAt, Shown
<1>7. CASE Facts(w) /\ ~Started(w)
  <2> DEFINE n == NextOf(w)
             answer == Decided(own[w][n].decision, own[w][n].current)
  <2>1. pc[w] = "facts" /\ n \in Rows(w) /\ own[w][n] \in Row
    BY <1>0, <1>7 DEF Scripted, Facts, TypeOK
  <2>2. /\ Rows(w)' = Rows(w) /\ pc'[w] \in {"take", "commit"}
        /\ \A x \in Rows(w) : x # n => own'[w][x] = own[w][x]
        /\ own'[w][n] = [own[w][n] EXCEPT !.decision = answer]
        /\ UNCHANGED <<revision, fetched>>
    BY <1>0, <1>7, <2>1, FactsMine DEF graph
  <2>3. solo[w] /\ \A v \in Workers \ {w} : pc'[v] = "idle"
    BY <1>2, <1>7
  <2>4. own'[w][n].current = own[w][n].current
    BY <2>1, <2>2 DEF Row
  <2>5. \A r \in Rows(w) \cap Split : own[w][r].current = Shown(revision[r])
    BY <2>3 DEF AloneInv
  <2>6. pc'[w] = "take" => NextOf(w)' \notin Split
    BY <1>7, SplitAlone
  <2> HIDE DEF n
  <2>7. \A r \in Rows(w)' \cap Split : own'[w][r].current = Shown(revision'[r])
    BY <2>2, <2>4, <2>5
  <2>8. QED
    BY <2>2, <2>3, <2>6, <2>7 DEF AloneAt, Shown
<1>8. CASE Commit(w) \/ Gone(w)
  BY <1>0, <1>8, LeftMine DEF TypeOK
<1>9. QED
  BY <1>1, <1>3, <1>4, <1>5, <1>6, <1>7, <1>8 DEF Moves

LEMMA SoloStep == ASSUME SoloInv, [Next]_vars PROVE SoloInv'
<1>1. ImportInv'
  BY ImportStep DEF SoloInv
<1>2. CASE UNCHANGED <<graph, pc, fetched, todo, own, solo>>
  <2>1. AloneInv'
    BY <1>2 DEF SoloInv, AloneInv, graph, NextOf, Rows, Shown
  <2>2. QED
    BY <1>1, <2>1 DEF SoloInv
<1>3. ASSUME NEW w \in Workers, Moves(w) PROVE SoloInv'
  <2>1. ASSUME NEW v \in Workers, solo'[v] PROVE v = w
    BY <1>3, <2>1, OvertakenStep DEF SoloInv
  <2>2. solo'[w] => AloneAt(w)'
    BY <1>3, AloneMine DEF SoloInv
  <2>3. \A v \in Workers : AloneAt(v)'
    BY <2>1, <2>2 DEF AloneAt
  <2>4. AloneInv'
    BY <2>3 DEF AloneAt, AloneInv
  <2>5. QED
    BY <1>1, <2>4 DEF SoloInv
<1>4. QED
  <2>1. CASE UNCHANGED vars
    BY <1>2, <2>1 DEF vars
  <2>2. ASSUME NEW r \in Records, Change(r) PROVE SoloInv'
    BY <1>2, <2>2 DEF Change
  <2>3. QED
    BY <1>3, <2>1, <2>2, StepForms DEF SoloInv, ImportInv, Moves

\* What an import leaves on show.
Leaves == \A w \in Workers : Commit(w) /\ solo[w] =>
            \A r \in Rows(w) : current'[r] = Shown(revision'[r])

LEMMA SoloLeaves == ASSUME SoloInv PROVE Leaves
<1> SUFFICES ASSUME NEW w \in Workers, Commit(w), solo[w], NEW r \in Rows(w)
             PROVE  current'[r] = Shown(revision'[r])
  BY DEF Leaves
<1>1. r \in Records /\ Latest(w, r)
  BY RowCommits DEF SoloInv, ImportInv
<1>2. /\ revision'[r] = IF r \notin Split THEN own[w][r].revision ELSE revision[r]
      /\ current'[r] = own[w][r].current
  BY <1>1, CommitGraph DEF SoloInv, ImportInv
<1>3. CASE r \in Split
  BY <1>2, <1>3 DEF SoloInv, AloneInv, Shown
<1>4. CASE r \notin Split
  BY <1>1, <1>2, <1>4 DEF Latest, Shown
<1>5. QED
  BY <1>3, <1>4

\* An import that nobody overtakes leaves on show what its record says, whatever earlier
\* imports left there.
THEOREM SoloShows == Spec => SoloImportShows
<1>1. Init => SoloInv
  <2>1. ASSUME Init PROVE AloneInv
    BY <2>1 DEF Init, AloneInv
  <2>2. QED
    BY <2>1, ImportInit DEF SoloInv
<1>2. SoloInv /\ [Next]_vars => SoloInv'
  BY SoloStep
<1>3. SoloInv => Leaves
  BY SoloLeaves
<1>4. QED
  BY <1>1, <1>2, <1>3, PTL DEF Spec, SoloImportShows, Leaves
=============================================================================
