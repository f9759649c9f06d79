-------------------------- MODULE KnowledgeImport --------------------------
(***************************************************************************)
(* Imports of provider records into the knowledge graph                    *)
(* (apps/sync/services/provider_record_service.py and the importers,       *)
(* apps/index/services/ingestion.py and fact_resolution.py).  A record     *)
(* keeps its latest revision; a projection selects the observation that is *)
(* current, the entity that represents the record, and the fact that       *)
(* answers a question about it.  A Bangumi import commits the revision     *)
(* first and projects it in a second transaction; a VNDB, MAL or AniList   *)
(* import does both, for the work and what its payload nests, in one.      *)
(* A transaction writes to rows of its own, and commits them together.     *)
(***************************************************************************)
EXTENDS Integers, Sequences, SequencesExt

CONSTANTS
  Workers, Records,
  Split,           \* records whose revision is committed on its own
  Works,           \* records an import is asked for
  Nested,          \* the records that the payload of a work holds
  Changing,        \* bound: the records that the provider changes
  Answer,          \* the value of the fact in each version of a payload, 0 for none
  MaxImports,      \* bound: imports started
  MaxFailures      \* bound: crashes and exceptions

Versions == DOMAIN Answer
Placeholder == 0   \* payload of a record that was only mentioned
Unseen == -1

ASSUME ImportAssumption ==
  /\ Split \subseteq Works /\ Works \subseteq Records
  /\ \A r \in Works : Nested[r] \in Seq(Records \ Works)
  /\ \A r \in Split : Nested[r] = << >>
  /\ Versions \subseteq Nat \ {0} /\ 1 \in Versions /\ MaxImports \in Nat /\ MaxFailures \in Nat

VARIABLES
  upstream,        \* the version that the provider serves of each record
  revision,        \* latest_revision of the ProviderRecord, Unseen without one
  current,         \* the version of its CurrentObservation, Unseen without one
  entity,          \* the entities with an active representation of it, by who made them
  decision,        \* the value that its active ResolutionDecision selects, 0 for none
  pc,              \* where each worker is
  fetched,         \* the versions it read, from the provider or from the record
  todo,            \* the records its transaction has still to write
  own,             \* the rows it has written and not committed
  solo,            \* history: nobody else was at work since it began
  imports, failures

graph == <<revision, current, entity, decision>>
vars  == <<upstream, graph, pc, fetched, todo, own, solo, imports, failures>>

Init ==
  /\ upstream = [r \in Records |-> 1]
  /\ revision = [r \in Records |-> Unseen] /\ current = [r \in Records |-> Unseen]
  /\ entity = [r \in Records |-> {}] /\ decision = [r \in Records |-> 0]
  /\ pc = [w \in Workers |-> "idle"] /\ fetched = [w \in Workers |-> << >>]
  /\ todo = [w \in Workers |-> << >>] /\ own = [w \in Workers |-> << >>]
  /\ solo = [w \in Workers |-> FALSE] /\ imports = 0 /\ failures = 0

Goto(w, l) == pc' = [pc EXCEPT ![w] = l]
Leave(w) ==
  /\ Goto(w, "idle") /\ fetched' = [fetched EXCEPT ![w] = << >>] /\ todo' = [todo EXCEPT ![w] = << >>]
  /\ own' = [own EXCEPT ![w] = << >>] /\ solo' = [solo EXCEPT ![w] = FALSE]
Rows(w) == DOMAIN own[w]
Holders(r) == {w \in Workers : r \in Rows(w)}
NextOf(w) == Head(todo[w])

\* The provider changes a record.
Change(r) ==
  /\ r \in Changing /\ upstream[r] + 1 \in Versions /\ upstream' = [upstream EXCEPT ![r] = @ + 1]
  /\ UNCHANGED <<graph, pc, fetched, todo, own, solo, imports, failures>>

-----------------------------------------------------------------------------
(***************************************************************************)
(* An import begins.                                                       *)
(***************************************************************************)
Begin(w, r, at, versions) ==
  /\ pc[w] = "idle" /\ imports < MaxImports /\ imports' = imports + 1
  /\ fetched' = [fetched EXCEPT ![w] = versions] /\ todo' = [todo EXCEPT ![w] = <<r>> \o Nested[r]]
  /\ solo' = [u \in Workers |-> u = w /\ \A v \in Workers : pc[v] = "idle"]
  /\ Goto(w, at) /\ UNCHANGED <<upstream, own, failures>>

Payloads(r) == [x \in {r} \union ToSet(Nested[r]) |-> upstream[x]]
\* upsert_subject and its like fetch the payload, and commit it as the latest revision.
Upsert(w, r) ==
  /\ r \in Split /\ Begin(w, r, "record", Payloads(r)) /\ UNCHANGED graph
Record(w) ==
  /\ pc[w] = "record" /\ revision' = [revision EXCEPT ![NextOf(w)] = fetched[w][NextOf(w)]]
  /\ Goto(w, "take") /\ UNCHANGED <<upstream, current, entity, decision, fetched, todo, own, solo, imports, failures>>

\* provide_subject and its like: what the record holds, or a placeholder, unless it has
\* an entity; looked up in a second transaction, and not again.
Provide(w, r) ==
  /\ r \in Split
  /\ Begin(w, r, "check", [x \in {r} |-> IF revision[x] = Unseen THEN Placeholder ELSE revision[x]])
  /\ UNCHANGED graph
Check(w) ==
  /\ pc[w] = "check" /\ UNCHANGED <<upstream, graph, imports, failures>>
  /\ IF entity[NextOf(w)] # {} THEN Leave(w) ELSE Goto(w, "take") /\ UNCHANGED <<fetched, todo, own, solo>>

\* import_work, import_media, import_anime: a batch is fetched, and written in one transaction.
ImportBatch(w, r) ==
  /\ r \notin Split /\ Begin(w, r, "take", Payloads(r)) /\ UNCHANGED graph

-----------------------------------------------------------------------------
(***************************************************************************)
(* The transaction, one record after the other.                            *)
(***************************************************************************)
Write(w, r, row) == own' = [own EXCEPT ![w] = [x \in Rows(w) \union {r} |-> IF x = r THEN row ELSE @[x]]]

\* Faulty: an observation is selected only where there is none.
SelectOnce(w, r, latest) ==
  /\ Write(w, r, [revision |-> latest, entity |-> {}, decision |-> decision[r],
                  current |-> IF current[r] = Unseen THEN fetched[w][r] ELSE current[r]])
  /\ Goto(w, "resolve") /\ UNCHANGED <<upstream, graph, fetched, todo, solo, imports, failures>>
\* record_observation: the observation of the payload in hand becomes the current one.
Select(w, r, latest) ==
  /\ Write(w, r, [revision |-> latest, current |-> fetched[w][r], entity |-> {}, decision |-> decision[r]])
  /\ Goto(w, "resolve") /\ UNCHANGED <<upstream, graph, fetched, todo, solo, imports, failures>>
\* Its row, or the row of the record that a batch writes first, is locked until the end.
Free(w, r) == Holders(r) \subseteq {w}
\* Faulty: the row of a record is not locked.
TakeProjectionUnlocked(w) ==
  /\ pc[w] = "take" /\ NextOf(w) \in Split
  /\ LET r == NextOf(w) IN Select(w, r, revision[r])
TakeProjection(w) ==
  /\ pc[w] = "take" /\ NextOf(w) \in Split /\ Free(w, NextOf(w))
  /\ LET r == NextOf(w) IN Select(w, r, revision[r])
TakeBatch(w) ==
  /\ pc[w] = "take" /\ NextOf(w) \in Works \ Split /\ Free(w, NextOf(w))
  /\ LET r == NextOf(w) IN Select(w, r, fetched[w][r])
TakeNested(w) ==
  /\ pc[w] = "take" /\ NextOf(w) \in Records \ Works /\ Free(w, NextOf(w))
  /\ LET r == NextOf(w) IN Select(w, r, fetched[w][r])

\* The entity of an active representation, or a new one.
Resolve(w) ==
  /\ pc[w] = "resolve"
  /\ LET r == NextOf(w) IN
     own' = [own EXCEPT ![w][r].entity = IF entity[r] = {} THEN {w} ELSE {}]
  /\ Goto(w, "facts") /\ UNCHANGED <<upstream, graph, fetched, todo, solo, imports, failures>>

\* record_fact, for a value that the payload has; the decision is made again from the facts
\* that the current observation supports.
AnswerOf(v) == IF v \in Versions THEN Answer[v] ELSE 0
\* Faulty: an earlier decision is kept.
DecidedOnce(old, v) == IF old = 0 THEN AnswerOf(v) ELSE old
Decided(old, v) == IF AnswerOf(v) = 0 THEN old ELSE AnswerOf(v)
Facts(w) ==
  /\ pc[w] = "facts"
  /\ own' = [own EXCEPT ![w][NextOf(w)].decision = Decided(@, own[w][NextOf(w)].current)]
  /\ todo' = [todo EXCEPT ![w] = Tail(@)] /\ Goto(w, IF Len(todo[w]) = 1 THEN "commit" ELSE "take")
  /\ UNCHANGED <<upstream, graph, fetched, solo, imports, failures>>

Committed(w, f, old) == [r \in Records |-> IF r \in Rows(w) THEN f[r] ELSE old[r]]
Commit(w) ==
  /\ pc[w] = "commit"
  /\ revision' = Committed(w, [r \in Rows(w) |-> IF r \in Split THEN revision[r] ELSE own[w][r].revision], revision)
  /\ current' = Committed(w, [r \in Rows(w) |-> own[w][r].current], current)
  /\ entity' = Committed(w, [r \in Rows(w) |-> entity[r] \union own[w][r].entity], entity)
  /\ decision' = Committed(w, [r \in Rows(w) |-> own[w][r].decision], decision)
  /\ Leave(w) /\ UNCHANGED <<upstream, imports, failures>>

\* Two batches that nest the same records in another order wait for each other: the
\* database rolls one of them back.
Waiting(w) == IF pc[w] = "take" THEN Holders(NextOf(w)) \ {w} ELSE {}
InCycle(w) == \E S \in SUBSET Workers : w \in S /\ \A u \in S : Waiting(u) # {} /\ Waiting(u) \subseteq S
RollBack(w) == Leave(w) /\ UNCHANGED <<upstream, graph, imports>>
Victim(w) == InCycle(w) /\ RollBack(w) /\ UNCHANGED failures
\* Faulty: every record is a transaction of its own, and a crash keeps the first ones.
FailHalfway(w) ==
  /\ pc[w] = "resolve" /\ failures < MaxFailures /\ failures' = failures + 1
  /\ current' = Committed(w, [r \in Rows(w) |-> own[w][r].current], current)
  /\ Leave(w) /\ UNCHANGED <<upstream, revision, entity, decision, imports>>
\* The process dies, or an exception leaves the transaction.
Fail(w) == pc[w] # "idle" /\ failures < MaxFailures /\ failures' = failures + 1 /\ RollBack(w)

Step(w) == Record(w) \/ Check(w) \/ TakeProjection(w) \/ TakeBatch(w) \/ TakeNested(w) \/ Resolve(w) \/ Facts(w) \/ Commit(w)
Next ==
  \/ \E r \in Records : Change(r)
  \/ \E w \in Workers :
       \/ Step(w) \/ Victim(w) \/ Fail(w)
       \/ \E r \in Works : Upsert(w, r) \/ Provide(w, r) \/ ImportBatch(w, r)

Spec == Init /\ [][Next]_vars

-----------------------------------------------------------------------------
(***************************************************************************)
(* Properties.                                                             *)
(***************************************************************************)
\* A provider record never comes to be represented by two entities, however many imports
\* and mentions of it run at once.
OneEntity == \A r \in Records : \A e, f \in entity[r] : e = f

\* What the graph shows of a record is what the current observation says: it has an entity,
\* and the fact that answers is the one of that observation, if it has one; and where
\* revision and projection are one transaction, it is the latest revision.
ShownAsObserved ==
  \A r \in Records : current[r] # Unseen =>
    /\ entity[r] # {}
    /\ AnswerOf(current[r]) # 0 => decision[r] = AnswerOf(current[r])
    /\ r \notin Split => current[r] = revision[r]

\* What a work nests is in the graph whenever the work is.
NestedInGraph == \A r \in Works : current[r] # Unseen => \A n \in ToSet(Nested[r]) : entity[n] # {}

\* An import that nobody overtook leaves the latest revision on show, whatever earlier
\* ones, which others had overtaken, left there.
Shown(version) == IF version = Unseen THEN Placeholder ELSE version
SoloImportShows ==
  [][\A w \in Workers : Commit(w) /\ solo[w] =>
       \A r \in Rows(w) : current'[r] = Shown(revision'[r])]_vars
=============================================================================
