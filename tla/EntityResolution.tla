-------------------------- MODULE EntityResolution --------------------------
(***************************************************************************)
(* Which entities of the index are one and the same                        *)
(* (apps/index/services/resolution.py): match candidates are decided, a    *)
(* BIND merges two clusters by redirecting one root to the other, a split  *)
(* takes a merge back.  The callers are the matchers of                    *)
(* apps/ai/services/matching.py, the admin batch of                        *)
(* apps/sync/services/match_apply_service.py, the admin endpoint           *)
(* (apps/sync/api/views/matching.py) and the official identifiers of       *)
(* apps/index/services/identity.py.                                        *)
(*                                                                         *)
(* A decision is one transaction of PostgreSQL at READ COMMITTED: each of  *)
(* its statements is a step that sees what is committed by then, and its   *)
(* own writes.  Between two of them other transactions commit.  Where the  *)
(* caller has opened the transaction (an import, the refresh of a season), *)
(* Commit is the caller's commit, and Abort its rollback: the locks are    *)
(* kept until then.  A transaction that decides several candidates counts  *)
(* as several that decide one each.                                        *)
(***************************************************************************)
EXTENDS Integers, FiniteSets

CONSTANTS
  Workers, Candidates,
  Oldest,        \* bound: the entities are the numbers 1 .. Oldest, in order of creation
  Aliases,       \* the redirects that exist at first
  Reviewed,      \* bound: the candidates that the AI and the admins look at
  Pair,          \* the two entities of a candidate
  Levels,        \* how strict a safety classification can be: _safety_rank
  FirstRank,     \* the one each entity was created with
  MaxImports,    \* bound: imports that change a classification
  Shelf,         \* bound: the entities that a user may add to the library, one of them
  MaxSplits      \* bound: merges that are taken back

Entities == 1 .. Oldest

ASSUME ResolutionAssumption ==
  /\ Oldest \in Nat \ {0} /\ MaxSplits \in Nat /\ Reviewed \subseteq Candidates
  /\ Aliases \in [Entities -> Entities \union {0}]
  /\ Pair \in [Candidates -> {p \in SUBSET Entities : Cardinality(p) = 2}]
  /\ Levels \subseteq Nat /\ FirstRank \in [Entities -> Levels]
  /\ Shelf \subseteq Entities /\ MaxImports \in Nat

VARIABLES
  redirect,      \* the active EntityRedirect of each source, 0 without one (committed)
  merged,        \* the entities whose lifecycle is MERGED (committed)
  unlocked,      \* history: the sources whose redirect goes to a row its writer had not locked
  rank,          \* _safety_rank of each entity
  imports,       \* history: what the bound counts
  library,       \* the entities that the user of the instance has in the library
  status,        \* of each candidate: "absent", "pending" or what was decided
  event,         \* the MergeEvent of each candidate's BIND
  proposal,      \* the status of the AI's proposal on each candidate
  listed,        \* the candidates whose proposals the admin batch has read
  run            \* the transaction of each worker

vars == <<redirect, merged, unlocked, rank, imports, library, status, event, proposal, listed, run>>
base == <<redirect, merged, unlocked, rank, imports, library, status, event, proposal, listed>>

None    == [of |-> <<0, 0>>, state |-> "none"]
Idle    == [pc |-> "idle", by |-> "none", of |-> "none", asked |-> <<0, 0>>, roots |-> <<0, 0>>,
            ranks |-> <<0, 0>>]
Outcome == {"accepted", "grouped", "rejected", "abstained"}
Callers == {"policy", "batch", "admin", "identity"}

-----------------------------------------------------------------------------
(***************************************************************************)
(* Redirect chains.                                                        *)
(***************************************************************************)
\* What the chain of e passes: it has e and, with an entity, what that is redirected to, and
\* nothing that could be left out.
Chain(map, e) ==
  LET reached == {e} \union ({map[x] : x \in Entities} \ {0})
      closed  == {S \in SUBSET reached : e \in S /\ \A y \in S : map[y] # 0 => map[y] \in S}
  IN  {x \in reached : \A S \in closed : x \in S}
Roots(map, e) == {x \in Chain(map, e) : map[x] = 0}
\* resolve(): e without a redirect, or the root that its chain ends in; 0 when it runs into
\* a cycle.
Resolve(map, e) ==
  IF map[e] = 0 THEN e
  ELSE LET roots == Roots(map, e) IN IF roots = {} THEN 0 ELSE CHOOSE x \in roots : TRUE

\* The redirects that exist at first were made by merges one at a time: they end in a root.
ASSUME AliasAssumption == \A e \in Entities : Resolve(Aliases, e) # 0

\* A transaction that has written its redirect sees it, the others do not.
Wrote(w) == run[w].pc \in {"rebuild", "commit"}
View(w)  == IF Wrote(w) THEN [redirect EXCEPT ![run[w].roots[1]] = run[w].roots[2]] ELSE redirect

\* Row locks: FOR UPDATE on what merge() was asked for; the writes lock the roots.
ForUpdate(w) ==
  CASE run[w].pc = "target" -> {run[w].asked[1]}
    [] run[w].pc \in {"check", "write", "rebuild", "commit"} -> {run[w].asked[1], run[w].asked[2]}
    [] OTHER -> {}
KeyShare(w) == IF Wrote(w) THEN {run[w].roots[1], run[w].roots[2]} ELSE {}
HeldByOthers(w) == UNION {ForUpdate(v) \union KeyShare(v) : v \in Workers \ {w}}
Updated(w)      == UNION {ForUpdate(v) : v \in Workers \ {w}}

\* decide_candidate has the row of the candidate FOR UPDATE.
Locked(c) == \E w \in Workers : run[w].of = c /\ run[w].pc # "label"

Step(w, r) == run' = [run EXCEPT ![w] = r]
Goto(w, l) == Step(w, [run[w] EXCEPT !.pc = l])

-----------------------------------------------------------------------------
Init ==
  /\ redirect = Aliases /\ merged = {e \in Entities : Aliases[e] # 0}
  /\ library = {} /\ unlocked = {} /\ rank = FirstRank /\ imports = 0
  /\ status = [c \in Candidates |-> IF c \in Reviewed THEN "absent" ELSE "pending"]
  /\ event = [c \in Candidates |-> None]
  /\ proposal = [c \in Candidates |-> "none"] /\ listed = {}
  /\ run = [w \in Workers |-> Idle]

\* get_or_create per pair and policy: a candidate is created once.
CreateCandidate(c) ==
  /\ status[c] = "absent" /\ status' = [status EXCEPT ![c] = "pending"]
  /\ UNCHANGED <<redirect, merged, unlocked, rank, imports, library, event, proposal, listed, run>>

\* A proposal that decides nothing: submit(), whatever the candidate's status, a policy
\* in shadow mode, or a policy that finds the candidate decided.
Submit(c) ==
  /\ c \in Reviewed /\ status[c] # "absent" /\ proposal[c] = "none" /\ ~ Locked(c)
  /\ \/ proposal' = [proposal EXCEPT ![c] = "pending"]
     \/ status[c] # "pending" /\ proposal' = [proposal EXCEPT ![c] = "abstained"]
  /\ UNCHANGED <<redirect, merged, unlocked, rank, imports, library, status, event, listed, run>>

\* The batch lists the pending proposals of pending candidates.
ListBatch(c) ==
  /\ proposal[c] = "pending" /\ status[c] = "pending" /\ c \notin listed
  /\ listed' = listed \union {c}
  /\ UNCHANGED <<redirect, merged, unlocked, rank, imports, library, status, event, proposal, run>>

\* A user adds an entity to the library, under the id the page had: not resolved.  The
\* insert waits for a merge that has the entity FOR UPDATE.
AddToLibrary(e) ==
  /\ e \in Shelf /\ library = {}
  /\ \A w \in Workers : e \notin ForUpdate(w)
  /\ library' = {e}
  /\ UNCHANGED <<redirect, merged, unlocked, rank, imports, status, event, proposal, listed, run>>

\* An import of a record that has its entity writes the audience again, whether the entity
\* is MERGED or not (_resolve_or_create_entity).  The update waits for locks.
Reimport(e) ==
  /\ imports < MaxImports /\ imports' = imports + 1
  /\ \A w \in Workers : e \notin ForUpdate(w) /\ (Wrote(w) => run[w].roots[1] # e)
  /\ \E l \in Levels \ {rank[e]} : rank' = [rank EXCEPT ![e] = l]
  /\ UNCHANGED <<redirect, merged, unlocked, library, status, event, proposal, listed, run>>

-----------------------------------------------------------------------------
(***************************************************************************)
(* decide_candidate.                                                       *)
(***************************************************************************)
\* What a caller writes on the proposal in the transaction of the decision.
Labelled(c, by, outcome) ==
  IF by \in {"policy", "batch"} THEN [proposal EXCEPT ![c] = outcome] ELSE proposal
\* The policy makes its proposal, the batch has listed one.
MayDecide(c, by) ==
  CASE by = "policy" -> c \in Reviewed /\ proposal[c] = "none"
    [] by = "batch"  -> c \in listed
    [] by = "admin"  -> c \in Reviewed
    [] OTHER         -> TRUE
Taken(c, by) == IF by = "batch" THEN listed \ {c} ELSE listed

\* Every outcome but BIND is written at once.  The admin's answer for the proposal comes
\* in a transaction of its own.
Decide(w, c, by, outcome) ==
  /\ run[w].pc = "idle" /\ ~ Locked(c) /\ status[c] = "pending" /\ MayDecide(c, by)
  /\ outcome = "abstained" \/ (by = "admin" /\ outcome \in {"grouped", "rejected"})
  /\ status' = [status EXCEPT ![c] = outcome]
  /\ proposal' = Labelled(c, by, outcome)
  /\ IF by = "admin" THEN Step(w, [Idle EXCEPT !.pc = "label", !.of = c, !.by = outcome]) ELSE UNCHANGED run
  /\ listed' = Taken(c, by) /\ UNCHANGED <<redirect, merged, unlocked, rank, imports, library, event>>

\* A BIND locks the candidate first.
Bind(w, c, by) ==
  /\ run[w].pc = "idle" /\ ~ Locked(c) /\ status[c] = "pending" /\ MayDecide(c, by)
  /\ Step(w, [Idle EXCEPT !.pc = "pair", !.by = by, !.of = c])
  /\ listed' = Taken(c, by) /\ UNCHANGED <<redirect, merged, unlocked, rank, imports, library, status, event, proposal>>

\* The batch finds the candidate of its proposal decided.
TooLate(c) ==
  /\ c \in listed /\ listed' = listed \ {c} /\ status[c] # "pending" /\ ~ Locked(c)
  /\ proposal' = [proposal EXCEPT ![c] = "abstained"]
  /\ UNCHANGED <<redirect, merged, unlocked, rank, imports, library, status, event, run>>

\* An error rolls everything back; the identity service then abstains, if it still may.
Refuse(w) ==
  /\ IF run[w].by = "identity" THEN Step(w, [Idle EXCEPT !.pc = "abstain", !.by = run[w].of]) ELSE Step(w, Idle)
  /\ UNCHANGED base
Abstain(w) ==
  /\ run[w].pc = "abstain" /\ ~ Locked(run[w].by)
  /\ status' = IF status[run[w].by] = "pending" THEN [status EXCEPT ![run[w].by] = "abstained"] ELSE status
  /\ Step(w, Idle) /\ UNCHANGED <<redirect, merged, unlocked, rank, imports, library, event, proposal, listed>>

\* The database ends the transaction: deadlock, time-out, or the worker dies.
Abort(w) ==
  /\ run[w].pc \notin {"idle"} /\ Step(w, Idle) /\ UNCHANGED base

-----------------------------------------------------------------------------
(***************************************************************************)
(* _canonical_pair and merge.                                              *)
(***************************************************************************)
\* The library has an entity of the cluster (cluster_ids()).
Owned(e) == \E x \in library : Resolve(redirect, x) = Resolve(redirect, e)
\* The stricter classification is canonical, then the cluster of the library, then the
\* older entity.
Prefer(e, f) ==
  IF rank[e] # rank[f] THEN rank[e] > rank[f]
  ELSE IF Owned(e) # Owned(f) THEN Owned(e) ELSE e < f

ReadPair(w) ==
  /\ run[w].pc = "pair"
  /\ LET roots == {Resolve(redirect, e) : e \in Pair[run[w].of]} IN
     IF Cardinality(roots) = 1 \/ 0 \in roots THEN Refuse(w)
     ELSE \E t \in roots : \E s \in roots \ {t} :
            /\ Prefer(t, s) /\ Step(w, [run[w] EXCEPT !.pc = "source", !.asked = <<s, t>>])
            /\ UNCHANGED base

\* Each row is locked, then resolved; the root may be a row that nobody has locked.  Its
\* classification is read with it.
LockSource(w) ==
  /\ run[w].pc = "source" /\ run[w].asked[1] \notin HeldByOthers(w)
  /\ LET root == Resolve(redirect, run[w].asked[1]) IN
     IF root = 0 THEN Refuse(w)
     ELSE /\ Step(w, [run[w] EXCEPT !.pc = "target", !.roots[1] = root, !.ranks[1] = rank[root]])
          /\ UNCHANGED base
LockTarget(w) ==
  /\ run[w].pc = "target" /\ run[w].asked[2] \notin HeldByOthers(w)
  /\ LET root == Resolve(redirect, run[w].asked[2]) IN
     IF root = 0 THEN Refuse(w)
     ELSE /\ Step(w, [run[w] EXCEPT !.pc = "check", !.roots[2] = root, !.ranks[2] = rank[root]])
          /\ UNCHANGED base

\* The library of one user: a merge of two clusters that both hold an entry is refused.
Conflict(s, t) == Owned(s) /\ Owned(t)
\* Faulty: the order of the pair is taken for granted.
CheckPairUnranked(w) ==
  /\ run[w].pc = "check"
  /\ LET s == run[w].roots[1] t == run[w].roots[2] IN
     IF s = t \/ Conflict(s, t) THEN Refuse(w) ELSE Goto(w, "write") /\ UNCHANGED base
CheckPair(w) ==
  /\ run[w].pc = "check"
  /\ LET s == run[w].roots[1] t == run[w].roots[2] IN
     IF s = t \/ run[w].ranks[1] > run[w].ranks[2] \/ Conflict(s, t) THEN Refuse(w)
     ELSE Goto(w, "write") /\ UNCHANGED base

\* Faulty: an active redirect of the source is replaced.
WriteOver(w) ==
  /\ run[w].pc = "write"
  /\ LET s == run[w].roots[1] t == run[w].roots[2] IN
     /\ {s, t} \intersect Updated(w) = {}
     /\ \A v \in Workers \ {w} : Wrote(v) => run[v].roots[1] # s
     /\ Goto(w, "rebuild")
  /\ UNCHANGED base
\* The event, the redirect and the lifecycle: nobody sees them yet.  The insert waits for
\* locks, and for another insert on the same source; a second active redirect of one
\* source is an IntegrityError.
Write(w) ==
  /\ run[w].pc = "write"
  /\ LET s == run[w].roots[1] t == run[w].roots[2] IN
     /\ {s, t} \intersect Updated(w) = {}
     /\ \A v \in Workers \ {w} : Wrote(v) => run[v].roots[1] # s
     /\ IF redirect[s] # 0 THEN Step(w, Idle) ELSE Goto(w, "rebuild")
  /\ UNCHANGED base

\* Faulty: the facts are rebuilt under the target as it was given.
RebuildUnresolved(w) == run[w].pc = "rebuild" /\ Goto(w, "commit") /\ UNCHANGED base
\* rebuild_entity resolves the target once more, and would see a cycle.
Rebuild(w) ==
  /\ run[w].pc = "rebuild"
  /\ IF Resolve(View(w), run[w].roots[2]) = 0 THEN Refuse(w) ELSE Goto(w, "commit") /\ UNCHANGED base

Commit(w) ==
  /\ run[w].pc = "commit"
  /\ LET c == run[w].of IN
     /\ redirect' = View(w) /\ merged' = merged \union {run[w].roots[1]}
     /\ unlocked' = IF run[w].roots[2] # run[w].asked[2] THEN unlocked \union {run[w].roots[1]} ELSE unlocked
     /\ event' = [event EXCEPT ![c] = [of |-> run[w].roots, state |-> "active"]]
     /\ status' = [status EXCEPT ![c] = "accepted"]
     /\ proposal' = Labelled(c, run[w].by, "accepted")
     /\ IF run[w].by = "admin" THEN Step(w, [Idle EXCEPT !.pc = "label", !.of = c, !.by = "accepted"])
        ELSE Step(w, Idle)
  /\ UNCHANGED <<library, rank, imports, listed>>

\* The endpoint's second transaction: the latest proposal, if it still waits.
Label(w) ==
  /\ run[w].pc = "label"
  /\ LET c == run[w].of IN
     proposal' = IF proposal[c] # "pending" THEN proposal
                 ELSE [proposal EXCEPT ![c] = IF run[w].by \in {"accepted", "grouped"} THEN "accepted" ELSE "rejected"]
  /\ Step(w, Idle) /\ UNCHANGED <<redirect, merged, unlocked, rank, imports, library, status, event, listed>>

Reversed == {c \in Candidates : event[c].state = "reversed"}
\* split(): one event is taken back, whatever was merged into or out of it since.
Split(c) ==
  /\ event[c].state = "active" /\ Cardinality(Reversed) < MaxSplits
  /\ event' = [event EXCEPT ![c].state = "reversed"]
  /\ LET s == event[c].of[1] IN
     /\ \A w \in Workers : s \notin ForUpdate(w)
     /\ redirect' = [redirect EXCEPT ![s] = 0] /\ merged' = merged \ {s}
     /\ unlocked' = unlocked \ {s}
  /\ UNCHANGED <<library, rank, imports, status, proposal, listed, run>>

Merge(w) ==
  ReadPair(w) \/ LockSource(w) \/ LockTarget(w) \/ CheckPair(w) \/ Write(w) \/ Rebuild(w) \/ Commit(w)
Next ==
  \/ \E c \in Candidates : CreateCandidate(c) \/ Submit(c) \/ ListBatch(c) \/ TooLate(c) \/ Split(c)
  \/ \E e \in Entities : AddToLibrary(e) \/ Reimport(e)
  \/ \E w \in Workers :
       \/ Merge(w) \/ Label(w) \/ Abstain(w) \/ Abort(w)
       \/ \E c \in Candidates, by \in Callers :
            Bind(w, c, by) \/ \E o \in Outcome : Decide(w, c, by, o)

Spec == Init /\ [][Next]_vars

-----------------------------------------------------------------------------
(***************************************************************************)
(* Properties.                                                             *)
(***************************************************************************)

\* Every circle of redirects takes two merges, each of which found the target that it had
\* locked redirected, and wrote to a row that it had not locked: one such merge is not
\* enough, whatever is merged or split around it, and locked targets make none.  MERGED are
\* exactly the entities that have a redirect.
CirclesTakeTwo ==
  /\ \A e \in Entities : redirect[e] # 0 /\ e \in Chain(redirect, redirect[e]) =>
       \E x, y \in Chain(redirect, e) : x # y /\ {x, y} \subseteq unlocked
  /\ merged = {e \in Entities : redirect[e] # 0}

\* Does not hold: that there is no circle at all (resolve() raises for every entity on one).
RedirectForest == \A e \in Entities : Resolve(redirect, e) # 0

\* Although _canonical_pair orders rows that nobody has locked, a merge of the two rows
\* that it has locked keeps the stricter one canonical, as they are when it commits.
CommittedInOrder ==
  \A w \in Workers :
    run[w].pc \in {"write", "rebuild", "commit"} /\ run[w].roots = run[w].asked =>
      rank[run[w].roots[1]] <= rank[run[w].roots[2]]

\* Does not hold: that a canonical entity is at least as strict as everything merged into
\* it ("Canonical entity must preserve the strictest safety classification.").
StrictestIsCanonical ==
  \A e \in Entities : LET root == Resolve(redirect, e) IN root # 0 => rank[e] <= rank[root]

\* As long as nothing was split, an ACCEPTED candidate has its two entities in one cluster;
\* a proposal is ACCEPTED only for a candidate that was bound or grouped.
AcceptedIsMerged ==
  /\ Reversed = {} =>
       \A c \in Candidates : status[c] = "accepted" =>
         \A e, f \in Pair[c] : e < f => Resolve(redirect, e) = Resolve(redirect, f)
  /\ \A c \in Candidates : proposal[c] = "accepted" => status[c] \in {"accepted", "grouped"}
=============================================================================
