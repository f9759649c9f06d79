----------------------- MODULE EntityResolutionProofs -----------------------
(***************************************************************************)
(* Theorems about EntityResolution for any number of workers, entities,    *)
(* candidates and splits.                                                  *)
(***************************************************************************)
EXTENDS EntityResolution, FiniteSetTheorems, TLAPS

Places  == {"idle", "pair", "source", "target", "check", "write", "rebuild", "commit", "label", "abstain"}
Binding(w) == run[w].pc \in {"pair", "source", "target", "check", "write", "rebuild", "commit"}
Ends    == Entities \union {0}
Maps    == [Entities -> Ends]
Event   == [of : Ends \X Ends, state : {"none", "active", "reversed"}]
Run     ==
  [pc : Places, by : Callers \union Outcome \union Candidates \union {"none"},
   of : Candidates \union {"none"}, asked : Ends \X Ends, roots : Ends \X Ends,
   ranks : Nat \X Nat]

TypeOK ==
  /\ redirect \in Maps
  /\ merged \in SUBSET Entities /\ unlocked \in SUBSET Entities
  /\ rank \in [Entities -> Levels]
  /\ status \in [Candidates -> Outcome \union {"absent", "pending"}]
  /\ event \in [Candidates -> Event]
  /\ DOMAIN proposal = Candidates
  /\ run \in [Workers -> Run]

\* What a transaction has read so far is there.
InPlace(w) ==
  /\ Binding(w) \/ run[w].pc = "label" => run[w].of \in Candidates
  /\ run[w].pc = "abstain" => run[w].by \in Candidates
  /\ Binding(w) /\ run[w].pc # "pair" => run[w].asked \in Entities \X Entities
  /\ Binding(w) /\ run[w].pc \notin {"pair", "source"} => run[w].roots[1] \in Entities
  /\ Binding(w) /\ run[w].pc \notin {"pair", "source", "target"} => run[w].roots[2] \in Entities

\* A candidate that is being bound is pending; a label says what was decided.
Undecided(w) ==
  /\ Binding(w) => status[run[w].of] = "pending" /\ run[w].by \in Callers
  /\ run[w].pc = "label" => status[run[w].of] = run[w].by /\ run[w].by \in Outcome

\* A redirect that is written and not yet committed has a source that is a root.
SourceIsRoot(w) == Wrote(w) => redirect[run[w].roots[1]] = 0
\* The classification of a root that is the locked row itself is still what was read of it,
\* and what was read goes up.
RankRead(w) ==
  /\ run[w].pc \in {"target", "check", "write", "rebuild", "commit"}
       /\ run[w].roots[1] = run[w].asked[1] => run[w].ranks[1] = rank[run[w].roots[1]]
  /\ run[w].pc \in {"check", "write", "rebuild", "commit"}
       /\ run[w].roots[2] = run[w].asked[2] => run[w].ranks[2] = rank[run[w].roots[2]]
  /\ run[w].pc \in {"write", "rebuild", "commit"} => run[w].ranks[1] <= run[w].ranks[2]

\* What a merge was asked for lies on the chains of its pair, what it found on the chains
\* of that.
Trail(w) ==
  /\ Binding(w) /\ run[w].pc # "pair" =>
       \E e, f \in Entities :
         /\ Pair[run[w].of] = {e, f}
         /\ run[w].asked[1] \in Chain(redirect, e) /\ run[w].asked[2] \in Chain(redirect, f)
  /\ Binding(w) /\ run[w].pc \notin {"pair", "source"} =>
       run[w].roots[1] \in Chain(redirect, run[w].asked[1])
  /\ Binding(w) /\ run[w].pc \notin {"pair", "source", "target"} =>
       run[w].roots[2] \in Chain(redirect, run[w].asked[2])

\* All that holds of one transaction, and of two.
Own(w) ==
  InPlace(w) /\ Undecided(w) /\ SourceIsRoot(w) /\ RankRead(w) /\ (Reversed = {} => Trail(w))
Apart(v, w) ==
  /\ Binding(v) /\ Binding(w) => run[v].of # run[w].of
  /\ Wrote(v) /\ Wrote(w) => run[v].roots[1] # run[w].roots[1]

\* An event belongs to an accepted candidate.
Decided ==
  /\ \A c \in Candidates :
       event[c].state # "none" => status[c] = "accepted" /\ event[c].of[1] \in Entities
  /\ \A c \in Candidates : proposal[c] = "accepted" => status[c] \in {"accepted", "grouped"}
MergedRedirected == merged = {e \in Entities : redirect[e] # 0}
\* Two entities whose chains meet.
Joined(map, e, f) == Chain(map, e) \cap Chain(map, f) # {}
Accepted ==
  Reversed = {} =>
    \A c \in Candidates : status[c] = "accepted" => \A e, f \in Pair[c] : Joined(redirect, e, f)
Committed == Decided /\ MergedRedirected /\ Accepted

ResolutionInv ==
  /\ TypeOK
  /\ \A w \in Workers : Own(w)
  /\ \A v, w \in Workers : v # w => Apart(v, w)
  /\ Committed

\* An entity on a circle; two sources among S that redirect to a row that was not locked.
OnCircle(map, e) == map[e] # 0 /\ e \in Chain(map, map[e])
Two(S) == \E x, y \in S : x # y /\ {x, y} \subseteq unlocked
Circled == \A e \in Entities : OnCircle(redirect, e) => Two(Chain(redirect, e))

\* Row locks exclude each other; a target that is locked stays a root; where the redirect
\* that is committed next would close a circle, another one on it went to a row that was
\* not locked.
Exclusive(v, w) == ForUpdate(v) \cap (ForUpdate(w) \cup KeyShare(w)) = {}
TargetIsRoot(w) ==
  run[w].pc \in {"check", "write", "rebuild", "commit"} /\ run[w].roots[2] = run[w].asked[2] =>
    redirect[run[w].roots[2]] = 0
OtherRoot(w) == run[w].pc \in {"write", "rebuild", "commit"} => run[w].roots[1] # run[w].roots[2]
NoWayBack(w) ==
  run[w].pc = "commit" /\ run[w].roots[1] \in Chain(redirect, run[w].roots[2]) =>
    \E x \in Chain(redirect, run[w].roots[2]) : x # run[w].roots[1] /\ x \in unlocked
Safe(w)      == TargetIsRoot(w) /\ OtherRoot(w) /\ NoWayBack(w)
CircleInv ==
  /\ ResolutionInv /\ Circled
  /\ \A v, w \in Workers : v # w => Exclusive(v, w)
  /\ \A w \in Workers : Safe(w)

-----------------------------------------------------------------------------
(***************************************************************************)
(* Chains of redirects.                                                    *)
(***************************************************************************)
LEMMA Constants ==
  /\ 0 \notin Entities
  /\ Aliases \in Maps /\ FirstRank \in [Entities -> Levels] /\ Levels \subseteq Nat
  /\ \A c \in Candidates : Pair[c] \subseteq Entities /\ Cardinality(Pair[c]) = 2
BY ResolutionAssumption DEF ResolutionAssumption, Entities, Maps, Ends

Closed(map, S) == \A y \in S : map[y] # 0 => map[y] \in S

\* A chain is the least set that has its start and is closed under the redirects.
LEMMA ChainLeast ==
  ASSUME NEW map, NEW e, NEW S \in SUBSET Entities, e \in S, Closed(map, S)
  PROVE  Chain(map, e) \subseteq S
<1> DEFINE reached == {e} \union ({map[x] : x \in Entities} \ {0})
           T == S \cap reached
<1>1. T \in SUBSET reached /\ e \in T
  OBVIOUS
<1>2. \A y \in T : map[y] # 0 => map[y] \in T
  BY DEF Closed
<1>3. Chain(map, e) \subseteq T
  BY <1>1, <1>2 DEF Chain
<1>4. QED BY <1>3

LEMMA ChainClosed ==
  ASSUME NEW map \in Maps, NEW e \in Entities
  PROVE  /\ e \in Chain(map, e) /\ Chain(map, e) \subseteq Entities
         /\ Closed(map, Chain(map, e))
<1> DEFINE reached == {e} \union ({map[x] : x \in Entities} \ {0})
           closed  == {S \in SUBSET reached : e \in S /\ \A y \in S : map[y] # 0 => map[y] \in S}
<1>1. Chain(map, e) = {x \in reached : \A S \in closed : x \in S}
  BY DEF Chain
<1>2. reached \subseteq Entities
  BY DEF Maps, Ends
<1>3. e \in Chain(map, e) /\ Chain(map, e) \subseteq Entities
  BY <1>1, <1>2
<1>4. ASSUME NEW x \in Chain(map, e), map[x] # 0
      PROVE  map[x] \in Chain(map, e)
  <2>1. map[x] \in reached
    BY <1>3, <1>4
  <2>2. ASSUME NEW S \in closed
        PROVE  map[x] \in S
    BY <1>1, <1>4, <2>2
  <2>3. QED BY <1>1, <2>1, <2>2
<1>5. QED BY <1>3, <1>4 DEF Closed

\* Whoever is on a chain has a part of it.
LEMMA ChainPart ==
  ASSUME NEW map \in Maps, NEW e \in Entities, NEW x \in Chain(map, e)
  PROVE  Chain(map, x) \subseteq Chain(map, e)
<1>1. Chain(map, e) \in SUBSET Entities /\ Closed(map, Chain(map, e))
  BY ChainClosed
<1>2. QED BY <1>1, ChainLeast

LEMMA ChainStep ==
  ASSUME NEW map \in Maps, NEW e \in Entities
  PROVE  /\ map[e] = 0 => Chain(map, e) = {e}
         /\ map[e] # 0 => map[e] \in Entities /\ Chain(map, e) \subseteq {e} \cup Chain(map, map[e])
<1>1. e \in Chain(map, e)
  BY ChainClosed
<1>2. ASSUME map[e] = 0
      PROVE  Chain(map, e) = {e}
  <2>1. {e} \in SUBSET Entities /\ Closed(map, {e})
    BY <1>2 DEF Closed
  <2>2. Chain(map, e) \subseteq {e}
    BY <2>1, ChainLeast
  <2>3. QED BY <2>2, <1>1
<1>3. ASSUME map[e] # 0
      PROVE  map[e] \in Entities /\ Chain(map, e) \subseteq {e} \cup Chain(map, map[e])
  <2>1. map[e] \in Entities
    BY <1>3 DEF Maps, Ends
  <2>2. /\ map[e] \in Chain(map, map[e]) /\ Chain(map, map[e]) \subseteq Entities
        /\ Closed(map, Chain(map, map[e]))
    BY <2>1, ChainClosed
  <2>3. {e} \cup Chain(map, map[e]) \in SUBSET Entities /\ Closed(map, {e} \cup Chain(map, map[e]))
    BY <2>2 DEF Closed
  <2>4. Chain(map, e) \subseteq {e} \cup Chain(map, map[e])
    BY <2>3, ChainLeast
  <2>5. QED BY <2>1, <2>4
<1>4. QED BY <1>2, <1>3

\* A root of a chain is on the chain of everyone on it, and so the only one.
LEMMA RootOfAll ==
  ASSUME NEW map \in Maps, NEW e \in Entities, NEW r \in Roots(map, e), NEW x \in Chain(map, e)
  PROVE  r \in Chain(map, x)
<1> DEFINE S == {y \in Chain(map, e) : r \in Chain(map, y)}
<1>1. r \in Chain(map, e) /\ map[r] = 0
  BY DEF Roots
<1>2. Chain(map, e) \subseteq Entities /\ e \in Chain(map, e) /\ Closed(map, Chain(map, e))
  BY ChainClosed
<1>3. e \in S /\ S \in SUBSET Entities
  BY <1>1, <1>2
<1>4. Closed(map, S)
  <2>1. SUFFICES ASSUME NEW y \in S, map[y] # 0
                 PROVE  map[y] \in S
    BY DEF Closed
  <2>2. y # r /\ y \in Entities /\ r \in Chain(map, y)
    BY <2>1, <1>1, <1>2
  <2>3. r \in Chain(map, map[y])
    BY <2>1, <2>2, ChainStep
  <2>4. QED BY <2>1, <2>3, <1>2 DEF Closed
<1>5. Chain(map, e) \subseteq S
  BY <1>3, <1>4, ChainLeast
<1>6. QED BY <1>5

LEMMA OneRoot ==
  ASSUME NEW map \in Maps, NEW e \in Entities, NEW r \in Roots(map, e)
  PROVE  Roots(map, e) = {r}
<1>1. ASSUME NEW q \in Roots(map, e)
      PROVE  q = r
  <2>1. q \in Chain(map, e) /\ q \in Entities /\ map[q] = 0
    BY ChainClosed DEF Roots
  <2>2. r \in Chain(map, q) /\ Chain(map, q) = {q}
    BY <2>1, RootOfAll, ChainStep
  <2>3. QED BY <2>2
<1>2. QED BY <1>1

\* What resolve() answers.
LEMMA ResolveValue ==
  ASSUME NEW map \in Maps, NEW e \in Entities
  PROVE  /\ Resolve(map, e) \in Ends
         /\ Resolve(map, e) = 0 <=> Roots(map, e) = {}
         /\ Resolve(map, e) # 0 =>
              /\ Resolve(map, e) \in Entities /\ Resolve(map, e) \in Chain(map, e)
              /\ map[Resolve(map, e)] = 0 /\ Roots(map, e) = {Resolve(map, e)}
<1>1. Roots(map, e) \subseteq Entities
  BY ChainClosed DEF Roots
<1>2. CASE Roots(map, e) = {}
  BY <1>2, ChainClosed DEF Resolve, Roots, Ends
<1>3. CASE Roots(map, e) # {}
  <2>1. Resolve(map, e) \in Roots(map, e)
    BY <1>3, ChainClosed DEF Resolve, Roots
  <2>2. Roots(map, e) = {Resolve(map, e)}
    BY <2>1, OneRoot
  <2>3. QED BY <2>1, <2>2, <1>1, <1>3, Constants DEF Roots, Ends
<1>4. QED BY <1>2, <1>3

\* Everyone on a chain resolves to what its start resolves to.
LEMMA SameRoot ==
  ASSUME NEW map \in Maps, NEW e \in Entities, NEW x \in Chain(map, e)
  PROVE  Resolve(map, x) = Resolve(map, e)
<1>1. x \in Entities /\ Chain(map, x) \subseteq Chain(map, e)
  BY ChainClosed, ChainPart
<1>2. CASE Roots(map, e) = {}
  <2>1. Roots(map, x) = {}
    BY <1>1, <1>2 DEF Roots
  <2>2. QED BY <2>1, <1>1, <1>2, ResolveValue
<1>3. CASE Roots(map, e) # {}
  <2>1. PICK r \in Roots(map, e) : TRUE
    BY <1>3
  <2>2. r \in Roots(map, x)
    BY <2>1, RootOfAll DEF Roots
  <2>3. Roots(map, e) = {r} /\ Roots(map, x) = {r}
    BY <2>1, <2>2, <1>1, OneRoot
  <2>4. QED BY <2>3, <1>1, ResolveValue
<1>4. QED BY <1>2, <1>3

\* New redirects of roots only make chains longer.
LEMMA ChainGrows ==
  ASSUME NEW map \in Maps, NEW map2 \in Maps, \A x \in Entities : map[x] # 0 => map2[x] = map[x],
         NEW e \in Entities
  PROVE  Chain(map, e) \subseteq Chain(map2, e)
<1>1. e \in Chain(map2, e) /\ Chain(map2, e) \subseteq Entities /\ Closed(map2, Chain(map2, e))
  BY ChainClosed
<1>2. Closed(map, Chain(map2, e))
  BY <1>1 DEF Closed
<1>3. QED BY <1>1, <1>2, ChainLeast

LEMMA JoinedResolve ==
  ASSUME NEW map \in Maps, NEW e \in Entities, NEW f \in Entities, Joined(map, e, f)
  PROVE  Resolve(map, e) = Resolve(map, f)
BY SameRoot DEF Joined

-----------------------------------------------------------------------------
(***************************************************************************)
(* Steps of one transaction.                                               *)
(***************************************************************************)
LEMMA PairOfTwo ==
  ASSUME NEW c \in Candidates, NEW e \in Pair[c], NEW f \in Pair[c], e # f
  PROVE  Pair[c] = {e, f}
<1>1. IsFiniteSet(Entities) /\ Pair[c] \in SUBSET Entities /\ Cardinality(Pair[c]) = 2
  <2>1. IsFiniteSet(1 .. Oldest)
    BY ResolutionAssumption, FS_Interval DEF ResolutionAssumption
  <2>2. QED BY <2>1, Constants DEF Entities
<1>2. IsFiniteSet(Pair[c])
  BY <1>1, FS_Subset
<1>3. Cardinality({e, f}) = 2
  <2>1. IsFiniteSet({e}) /\ Cardinality({e}) = 1
    BY FS_Singleton
  <2>2. {e} \cup {f} = {e, f}
    OBVIOUS
  <2>3. Cardinality({e} \cup {f}) = 1 + 1
    BY <2>1, FS_AddElement
  <2>4. QED BY <2>2, <2>3
<1>4. {e, f} \in SUBSET Pair[c]
  OBVIOUS
<1>5. QED BY <1>1, <1>2, <1>3, <1>4, FS_Subset

LEMMA IdleType == Idle \in Run /\ Idle.pc = "idle"
BY DEF Idle, Run, Places, Ends

LEMMA StepShape ==
  ASSUME TypeOK, NEW w \in Workers, NEW r \in Run, Step(w, r)
  PROVE  /\ run' \in [Workers -> Run] /\ run'[w] = r
         /\ \A v \in Workers \ {w} : run'[v] = run[v]
BY DEF TypeOK, Step

\* The committed rows stay, and what the transaction becomes is in order.
LEMMA QuietStep ==
  ASSUME ResolutionInv, NEW w \in Workers, NEW r \in Run, Step(w, r),
         UNCHANGED <<redirect, merged, unlocked, rank, status, event, proposal>>,
         Own(w)', \A v \in Workers \ {w} : Apart(v, w)' /\ Apart(w, v)'
  PROVE  ResolutionInv'
<1>1. /\ run' \in [Workers -> Run]
      /\ \A v \in Workers \ {w} : run'[v] = run[v]
  BY StepShape DEF ResolutionInv
<1>2. TypeOK'
  BY <1>1 DEF ResolutionInv, TypeOK
<1>3. Reversed' = Reversed
  BY DEF Reversed
<1>4. ASSUME NEW v \in Workers \ {w}
      PROVE  Own(v)'
  <2>1. run'[v] = run[v] /\ Own(v)
    BY <1>1, <1>4 DEF ResolutionInv
  <2>2. InPlace(v)' /\ Undecided(v)' /\ SourceIsRoot(v)' /\ RankRead(v)'
    BY <2>1 DEF Own, InPlace, Undecided, SourceIsRoot, RankRead, Binding, Wrote
  <2>3. ASSUME Trail(v)
        PROVE  Trail(v)'
    BY <2>1, <2>3 DEF Trail, Binding
  <2>4. QED BY <1>3, <2>1, <2>2, <2>3 DEF Own
<1>5. ASSUME NEW u \in Workers \ {w}, NEW v \in Workers \ {w}, u # v
      PROVE  Apart(u, v)'
  BY <1>1, <1>5 DEF ResolutionInv, Apart, Binding, Wrote
<1>6. Committed'
  BY <1>3 DEF ResolutionInv, Committed, Decided, MergedRedirected, Accepted
<1>7. QED BY <1>2, <1>4, <1>5, <1>6 DEF ResolutionInv

\* A transaction that ends, or that only wants to abstain, keeps nothing.
LEMMA EndStep ==
  ASSUME ResolutionInv, NEW w \in Workers, NEW r \in Run, Step(w, r),
         \/ r.pc = "idle"
         \/ r.pc = "abstain" /\ r.by \in Candidates,
         UNCHANGED <<redirect, merged, unlocked, rank, status, event, proposal>>
  PROVE  ResolutionInv'
<1>1. run'[w] = r
  BY StepShape DEF ResolutionInv
<1>2. Own(w)'
  BY <1>1 DEF Own, InPlace, Undecided, SourceIsRoot, RankRead, Trail, Binding, Wrote
<1>3. \A v \in Workers \ {w} : Apart(v, w)' /\ Apart(w, v)'
  BY <1>1 DEF Apart, Binding, Wrote
<1>4. QED BY <1>2, <1>3, QuietStep

LEMMA RefuseStep ==
  ASSUME ResolutionInv, NEW w \in Workers, Binding(w), Refuse(w)
  PROVE  ResolutionInv'
<1>1. UNCHANGED <<redirect, merged, unlocked, rank, status, event, proposal>>
  BY DEF Refuse, base
<1>2. CASE Step(w, Idle)
  BY <1>1, <1>2, IdleType, EndStep
<1>3. CASE Step(w, [Idle EXCEPT !.pc = "abstain", !.by = run[w].of])
  <2>1. run[w].of \in Candidates
    BY DEF ResolutionInv, Own, InPlace
  <2>2. PICK r : r = [Idle EXCEPT !.pc = "abstain", !.by = run[w].of]
    OBVIOUS
  <2>3. r \in Run /\ r.pc = "abstain" /\ r.by \in Candidates
    BY <2>1, <2>2 DEF Idle, Run, Places, Ends
  <2>4. QED BY <1>1, <1>3, <2>2, <2>3, EndStep
<1>4. QED BY <1>2, <1>3 DEF Refuse

\* A merge that goes on with its candidate.
LEMMA MergeStep ==
  ASSUME ResolutionInv, NEW w \in Workers, Binding(w), NEW r \in Run, Step(w, r),
         r.of = run[w].of, r.by = run[w].by, r.pc \in Places \ {"idle", "label", "abstain"},
         UNCHANGED base,
         InPlace(w)', SourceIsRoot(w)', RankRead(w)', Reversed = {} => Trail(w)',
         r.pc \in {"rebuild", "commit"} =>
           \A v \in Workers \ {w} : Wrote(v) => run[v].roots[1] # r.roots[1]
  PROVE  ResolutionInv'
<1>1. run'[w] = r /\ \A v \in Workers \ {w} : run'[v] = run[v]
  BY StepShape DEF ResolutionInv
<1>2. UNCHANGED <<redirect, merged, unlocked, rank, status, event, proposal>>
  BY DEF base
<1>3. Binding(w)'
  BY <1>1 DEF Binding, Places
<1>4. Undecided(w)'
  BY <1>1, <1>2 DEF Binding, ResolutionInv, Own, Undecided
<1>5. Own(w)'
  BY <1>2, <1>4 DEF Own, Reversed
<1>6. \A v \in Workers \ {w} : Apart(v, w)' /\ Apart(w, v)'
  BY <1>1 DEF ResolutionInv, Apart, Binding, Wrote
<1>7. QED BY <1>2, <1>5, <1>6, QuietStep

LEMMA ReadPairStep ==
  ASSUME ResolutionInv, NEW w \in Workers, ReadPair(w)
  PROVE  ResolutionInv'
<1>1. Binding(w) /\ run[w] \in Run /\ redirect \in Maps
  BY DEF ReadPair, Binding, ResolutionInv, TypeOK
<1>2. PICK c \in Candidates : c = run[w].of
  BY <1>1 DEF ResolutionInv, Own, InPlace
<1>3. CASE Refuse(w)
  BY <1>1, <1>3, RefuseStep
<1>4. ASSUME NEW e \in Pair[c], NEW f \in Pair[c], NEW s, NEW t,
             s = Resolve(redirect, e), t = Resolve(redirect, f), s # t, s # 0, t # 0,
             Step(w, [run[w] EXCEPT !.pc = "source", !.asked = <<s, t>>]), UNCHANGED base
      PROVE  ResolutionInv'
  <2>1. e \in Entities /\ f \in Entities /\ Pair[c] = {e, f}
    BY <1>4, Constants, PairOfTwo
  <2>2. s \in Chain(redirect, e) /\ t \in Chain(redirect, f) /\ s \in Entities /\ t \in Entities
    BY <1>1, <1>4, <2>1, ResolveValue
  <2>3. PICK r : r = [run[w] EXCEPT !.pc = "source", !.asked = <<s, t>>]
    OBVIOUS
  <2>4. /\ r \in Run /\ r.pc = "source" /\ r.of = c /\ r.by = run[w].by
        /\ r.asked = <<s, t>>
    BY <1>1, <1>2, <2>2, <2>3 DEF Run, Places, Ends
  <2>5. run'[w] = r
    BY <1>4, <2>3, <2>4, StepShape DEF ResolutionInv
  <2>6. InPlace(w)' /\ SourceIsRoot(w)' /\ RankRead(w)'
    BY <2>2, <2>4, <2>5 DEF InPlace, SourceIsRoot, RankRead, Binding, Wrote
  <2>7. Trail(w)'
    BY <1>4, <2>1, <2>2, <2>4, <2>5 DEF Trail, Binding, base
  <2>8. r.pc \in Places \ {"idle", "label", "abstain"} /\ r.pc \notin {"rebuild", "commit"}
    BY <2>4 DEF Places
  <2>9. QED BY <1>1, <1>2, <1>4, <2>3, <2>4, <2>6, <2>7, <2>8, MergeStep
<1>5. QED BY <1>2, <1>3, <1>4 DEF ReadPair

LEMMA LockStep ==
  ASSUME ResolutionInv, NEW w \in Workers, LockSource(w) \/ LockTarget(w)
  PROVE  ResolutionInv'
<1>1. Binding(w) /\ run[w] \in Run /\ redirect \in Maps
  BY DEF LockSource, LockTarget, Binding, ResolutionInv, TypeOK
<1>2. InPlace(w) /\ SourceIsRoot(w) /\ RankRead(w) /\ (Reversed = {} => Trail(w))
  BY DEF ResolutionInv, Own
<1>3. run[w].asked[1] \in Entities /\ run[w].asked[2] \in Entities
  BY <1>1, <1>2 DEF LockSource, LockTarget, InPlace
<1>4. CASE Refuse(w)
  BY <1>1, <1>4, RefuseStep
<1>5. ASSUME NEW root, root = Resolve(redirect, run[w].asked[1]), root # 0, run[w].pc = "source",
             Step(w, [run[w] EXCEPT !.pc = "target", !.roots[1] = root, !.ranks[1] = rank[root]]), UNCHANGED base
      PROVE  ResolutionInv'
  <2>1. root \in Entities /\ root \in Chain(redirect, run[w].asked[1])
    BY <1>1, <1>3, <1>5, ResolveValue
  <2>2. PICK r : r = [run[w] EXCEPT !.pc = "target", !.roots[1] = root, !.ranks[1] = rank[root]]
    OBVIOUS
  <2>3. /\ r \in Run /\ r.pc = "target" /\ r.of = run[w].of /\ r.by = run[w].by
        /\ r.asked = run[w].asked /\ r.roots[1] = root
        /\ r.ranks[1] = rank[root]
    <3>1. run[w].roots \in Ends \X Ends /\ root \in Ends /\ run[w].ranks \in Nat \X Nat
          /\ rank[root] \in Nat
      BY <1>1, <2>1, Constants DEF Run, Ends, ResolutionInv, TypeOK
    <3>2. PICK m, n : m = [run[w].roots EXCEPT ![1] = root] /\ n = [run[w].ranks EXCEPT ![1] = rank[root]]
      OBVIOUS
    <3>3. /\ m \in Ends \X Ends /\ m[1] = root /\ m[2] = run[w].roots[2]
          /\ n \in Nat \X Nat /\ n[1] = rank[root] /\ n[2] = run[w].ranks[2]
      BY <3>1, <3>2
    <3>4. r = [run[w] EXCEPT !.pc = "target", !.roots = m, !.ranks = n]
      BY <2>2, <3>2
    <3>5. QED BY <1>1, <3>3, <3>4 DEF Run, Places
  <2>4. run'[w] = r
    BY <1>5, <2>2, <2>3, StepShape DEF ResolutionInv
  <2>5. InPlace(w)' /\ SourceIsRoot(w)' /\ RankRead(w)'
    BY <1>1, <1>2, <1>5, <2>1, <2>3, <2>4 DEF InPlace, SourceIsRoot, RankRead, Binding, Wrote, base
  <2>6. Reversed = {} => Trail(w)'
    BY <1>1, <1>2, <1>5, <2>1, <2>3, <2>4 DEF Trail, Binding, base
  <2>7. r.pc \in Places \ {"idle", "label", "abstain"} /\ r.pc \notin {"rebuild", "commit"}
    BY <2>3 DEF Places
  <2>8. QED BY <1>1, <1>5, <2>2, <2>3, <2>5, <2>6, <2>7, MergeStep
<1>6. ASSUME NEW root, root = Resolve(redirect, run[w].asked[2]), root # 0, run[w].pc = "target",
             Step(w, [run[w] EXCEPT !.pc = "check", !.roots[2] = root, !.ranks[2] = rank[root]]), UNCHANGED base
      PROVE  ResolutionInv'
  <2>1. root \in Entities /\ root \in Chain(redirect, run[w].asked[2])
    BY <1>1, <1>3, <1>6, ResolveValue
  <2>2. PICK r : r = [run[w] EXCEPT !.pc = "check", !.roots[2] = root, !.ranks[2] = rank[root]]
    OBVIOUS
  <2>3. /\ r \in Run /\ r.pc = "check" /\ r.of = run[w].of /\ r.by = run[w].by
        /\ r.asked = run[w].asked /\ r.roots[1] = run[w].roots[1] /\ r.roots[2] = root
        /\ r.ranks[2] = rank[root] /\ r.ranks[1] = run[w].ranks[1]
    <3>1. run[w].roots \in Ends \X Ends /\ root \in Ends /\ run[w].ranks \in Nat \X Nat
          /\ rank[root] \in Nat
      BY <1>1, <2>1, Constants DEF Run, Ends, ResolutionInv, TypeOK
    <3>2. PICK m, n : m = [run[w].roots EXCEPT ![2] = root] /\ n = [run[w].ranks EXCEPT ![2] = rank[root]]
      OBVIOUS
    <3>3. /\ m \in Ends \X Ends /\ m[2] = root /\ m[1] = run[w].roots[1]
          /\ n \in Nat \X Nat /\ n[2] = rank[root] /\ n[1] = run[w].ranks[1]
      BY <3>1, <3>2
    <3>4. r = [run[w] EXCEPT !.pc = "check", !.roots = m, !.ranks = n]
      BY <2>2, <3>2
    <3>5. QED BY <1>1, <3>3, <3>4 DEF Run, Places
  <2>4. run'[w] = r
    BY <1>6, <2>2, <2>3, StepShape DEF ResolutionInv
  <2>5. InPlace(w)' /\ SourceIsRoot(w)' /\ RankRead(w)'
    BY <1>1, <1>2, <1>6, <2>1, <2>3, <2>4 DEF InPlace, SourceIsRoot, RankRead, Binding, Wrote, base
  <2>6. Reversed = {} => Trail(w)'
    BY <1>1, <1>2, <1>6, <2>1, <2>3, <2>4 DEF Trail, Binding, base
  <2>7. r.pc \in Places \ {"idle", "label", "abstain"} /\ r.pc \notin {"rebuild", "commit"}
    BY <2>3 DEF Places
  <2>8. QED BY <1>1, <1>6, <2>2, <2>3, <2>5, <2>6, <2>7, MergeStep
<1>7. QED BY <1>4, <1>5, <1>6 DEF LockSource, LockTarget

\* A place further, with what was read before.
LEMMA GotoStep ==
  ASSUME ResolutionInv, NEW w \in Workers, NEW l,
         \/ /\ run[w].pc = "check" /\ l = "write"
            /\ run[w].ranks[1] <= run[w].ranks[2]
         \/ /\ run[w].pc = "write" /\ l = "rebuild" /\ redirect[run[w].roots[1]] = 0
            /\ \A v \in Workers \ {w} : Wrote(v) => run[v].roots[1] # run[w].roots[1]
         \/ run[w].pc = "rebuild" /\ l = "commit",
         Goto(w, l), UNCHANGED base
  PROVE  ResolutionInv'
<1>1. Binding(w) /\ run[w] \in Run
  BY DEF Binding, ResolutionInv, TypeOK
<1>2. InPlace(w) /\ SourceIsRoot(w) /\ RankRead(w) /\ (Reversed = {} => Trail(w))
  BY DEF ResolutionInv, Own
<1>3. PICK r : r = [run[w] EXCEPT !.pc = l]
  OBVIOUS
<1>4. /\ r \in Run /\ r.pc = l /\ r.of = run[w].of /\ r.by = run[w].by
      /\ r.asked = run[w].asked /\ r.roots = run[w].roots /\ r.ranks = run[w].ranks /\ Step(w, r)
  BY <1>1, <1>3 DEF Run, Places, Goto
<1>5. run'[w] = r
  BY <1>4, StepShape DEF ResolutionInv
<1>6. InPlace(w)' /\ SourceIsRoot(w)' /\ RankRead(w)'
  BY <1>1, <1>2, <1>4, <1>5 DEF InPlace, SourceIsRoot, RankRead, Binding, Wrote, base
<1>7. Reversed = {} => Trail(w)'
  BY <1>1, <1>2, <1>4, <1>5 DEF Trail, Binding, base
<1>8. r.pc \in Places \ {"idle", "label", "abstain"}
  BY <1>4 DEF Places
<1>9. r.pc \in {"rebuild", "commit"} =>
        \A v \in Workers \ {w} : Wrote(v) => run[v].roots[1] # r.roots[1]
  BY <1>4 DEF ResolutionInv, Apart, Wrote
<1>10. QED BY <1>1, <1>4, <1>6, <1>7, <1>8, <1>9, MergeStep

LEMMA OnwardStep ==
  ASSUME ResolutionInv, NEW w \in Workers, CheckPair(w) \/ Write(w) \/ Rebuild(w)
  PROVE  ResolutionInv'
<1>1. Binding(w)
  BY DEF CheckPair, Write, Rebuild, Binding
<1>2. CASE Refuse(w)
  BY <1>1, <1>2, RefuseStep
<1>3. CASE CheckPair(w) /\ Goto(w, "write")
  <2>1. ASSUME Refuse(w) \/ ~(run[w].ranks[1] > run[w].ranks[2])
        PROVE  ResolutionInv'
    <3>1. CASE ~(run[w].ranks[1] > run[w].ranks[2])
      <4>1. run[w].ranks \in Nat \X Nat /\ run[w].pc = "check"
        BY <1>3 DEF CheckPair, ResolutionInv, TypeOK, Run
      <4>2. run[w].ranks[1] \in Nat /\ run[w].ranks[2] \in Nat
        BY <4>1
      <4>3. run[w].ranks[1] <= run[w].ranks[2]
        BY <3>1, <4>2
      <4>4. UNCHANGED base
        BY <1>3 DEF CheckPair, Refuse
      <4>5. QED BY <4>1, <4>3, <4>4, <1>3, GotoStep
    <3>2. QED BY <2>1, <3>1, <1>2
  <2>2. QED BY <2>1, <1>3 DEF CheckPair
<1>4. CASE Write(w)
  <2>1. CASE Step(w, Idle)
    BY <2>1, <1>4, IdleType, EndStep DEF Write, base
  <2>2. CASE redirect[run[w].roots[1]] = 0 /\ Goto(w, "rebuild")
    BY <2>2, <1>4, GotoStep DEF Write
  <2>3. QED BY <2>1, <2>2, <1>4 DEF Write
<1>5. CASE Rebuild(w) /\ Goto(w, "commit")
  BY <1>5, GotoStep DEF Rebuild, Refuse
<1>6. QED BY <1>2, <1>3, <1>4, <1>5 DEF CheckPair, Rebuild

-----------------------------------------------------------------------------
(***************************************************************************)
(* Steps that decide a candidate, or write a proposal.                     *)
(***************************************************************************)
\* A transaction is not disturbed by a decision about a candidate that it has not locked.
LEMMA Undisturbed ==
  ASSUME ResolutionInv, NEW v \in Workers, run'[v] = run[v], redirect' = redirect,
         rank' = rank, Reversed' = Reversed,
         \A c \in Candidates : status'[c] = status[c] \/ status[c] = "absent"
                                 \/ (status[c] = "pending" /\ ~(Binding(v) /\ run[v].of = c))
  PROVE  Own(v)'
<1>1. InPlace(v) /\ Undecided(v) /\ SourceIsRoot(v) /\ RankRead(v) /\ (Reversed = {} => Trail(v))
  BY DEF ResolutionInv, Own
<1>2. InPlace(v)' /\ SourceIsRoot(v)' /\ RankRead(v)'
  BY <1>1 DEF InPlace, SourceIsRoot, RankRead, Binding, Wrote
<1>3. Undecided(v)'
  <2>1. CASE Binding(v)
    <3>1. /\ run[v].of \in Candidates /\ status[run[v].of] = "pending"
          /\ run[v].by \in Callers /\ run[v].pc # "label"
      BY <1>1, <2>1 DEF InPlace, Undecided, Binding
    <3>2. status'[run[v].of] = "pending"
      BY <3>1, <2>1
    <3>3. QED BY <3>1, <3>2 DEF Undecided
  <2>2. CASE run[v].pc = "label"
    <3>1. run[v].of \in Candidates /\ status[run[v].of] = run[v].by /\ run[v].by \in Outcome
      BY <1>1, <2>2 DEF InPlace, Undecided
    <3>2. status[run[v].of] \notin {"absent", "pending"}
      BY <3>1 DEF Outcome
    <3>3. status'[run[v].of] = run[v].by /\ ~Binding(v)'
      BY <3>1, <3>2, <2>2 DEF Binding
    <3>4. QED BY <3>1, <3>3 DEF Undecided
  <2>3. CASE ~Binding(v) /\ run[v].pc # "label"
    BY <2>3 DEF Undecided, Binding
  <2>4. QED BY <2>1, <2>2, <2>3
<1>4. ASSUME Trail(v)
      PROVE  Trail(v)'
  BY <1>4 DEF Trail, Binding
<1>5. QED BY <1>1, <1>2, <1>3, <1>4 DEF Own

\* Nothing that is committed changes but the status of an open candidate, and proposals
\* that do not say more than the statuses do.
LEMMA StaysCommitted ==
  ASSUME ResolutionInv, UNCHANGED <<redirect, merged, unlocked, rank, event>>,
         \A c \in Candidates :
           status'[c] = status[c] \/ (status[c] \in {"absent", "pending"} /\ status'[c] # "accepted"),
         \A c \in Candidates : proposal'[c] = "accepted" =>
           proposal[c] = "accepted" \/ status'[c] \in {"accepted", "grouped"}
  PROVE  Committed'
<1>1. Decided /\ MergedRedirected /\ Accepted
  BY DEF ResolutionInv, Committed
<1>2. Decided'
  BY <1>1 DEF Decided
<1>3. MergedRedirected'
  BY <1>1 DEF MergedRedirected
<1>4. Accepted'
  <2>1. SUFFICES ASSUME Reversed = {}, NEW c \in Candidates, status'[c] = "accepted",
                        NEW e \in Pair[c], NEW f \in Pair[c]
                 PROVE  Joined(redirect, e, f)
    BY DEF Accepted, Reversed, Joined
  <2>2. status[c] = "accepted"
    BY <2>1
  <2>3. QED BY <1>1, <2>1, <2>2 DEF Accepted
<1>5. QED BY <1>2, <1>3, <1>4 DEF Committed

LEMMA ProposalStep ==
  ASSUME ResolutionInv, UNCHANGED <<redirect, merged, unlocked, rank, event, status, run>>,
         DOMAIN proposal' = Candidates,
         \A c \in Candidates : proposal'[c] = "accepted" =>
           proposal[c] = "accepted" \/ status'[c] \in {"accepted", "grouped"}
  PROVE  ResolutionInv'
<1>1. TypeOK'
  BY DEF ResolutionInv, TypeOK
<1>2. \A w \in Workers : Own(w)'
  BY Undisturbed DEF Reversed
<1>3. \A v, w \in Workers : v # w => Apart(v, w)'
  BY DEF ResolutionInv, Apart, Binding, Wrote
<1>4. Committed'
  BY StaysCommitted
<1>5. QED BY <1>1, <1>2, <1>3, <1>4 DEF ResolutionInv

\* One transaction decides a candidate that no other has locked.
LEMMA DecisionStep ==
  ASSUME ResolutionInv, NEW w \in Workers, NEW r \in Run, Step(w, r),
         NEW c \in Candidates, NEW o \in Outcome,
         status' = [status EXCEPT ![c] = o], status[c] = "pending", o # "accepted",
         ~Locked(c),
         UNCHANGED <<redirect, merged, unlocked, rank, event>>, DOMAIN proposal' = Candidates,
         \A d \in Candidates : proposal'[d] = "accepted" => proposal[d] = "accepted",
         Own(w)', \A v \in Workers \ {w} : Apart(v, w)' /\ Apart(w, v)'
  PROVE  ResolutionInv'
<1>1. /\ run' \in [Workers -> Run]
      /\ \A v \in Workers \ {w} : run'[v] = run[v]
  BY StepShape DEF ResolutionInv
<1>2. TypeOK
  BY DEF ResolutionInv
<1>3. TypeOK'
  BY <1>1, <1>2 DEF TypeOK
<1>4. ASSUME NEW v \in Workers \ {w}
      PROVE  Own(v)'
  <2>1. Binding(v) => run[v].pc # "label"
    BY DEF Binding
  <2>2. \A d \in Candidates : status'[d] = status[d] \/ (status[d] = "pending" /\ d = c)
    BY <1>2 DEF TypeOK
  <2>3. QED BY <1>1, <2>1, <2>2, Undisturbed DEF Locked, Reversed
<1>5. ASSUME NEW u \in Workers \ {w}, NEW v \in Workers \ {w}, u # v
      PROVE  Apart(u, v)'
  BY <1>1, <1>5 DEF ResolutionInv, Apart, Binding, Wrote
<1>6. Committed'
  BY <1>2, StaysCommitted DEF TypeOK
<1>7. QED BY <1>3, <1>4, <1>5, <1>6 DEF ResolutionInv

LEMMA CandidateSteps ==
  ASSUME ResolutionInv, NEW c \in Candidates,
         CreateCandidate(c) \/ Submit(c) \/ ListBatch(c) \/ TooLate(c)
  PROVE  ResolutionInv'
<1>1. TypeOK
  BY DEF ResolutionInv
<1>2. CASE CreateCandidate(c)
  <2>1. TypeOK'
    BY <1>1, <1>2 DEF TypeOK, CreateCandidate
  <2>2. \A d \in Candidates : status'[d] = status[d] \/ (status[d] = "absent" /\ status'[d] # "accepted")
    BY <1>1, <1>2 DEF TypeOK, CreateCandidate
  <2>3. \A w \in Workers : Own(w)'
    BY <1>2, <2>2, Undisturbed DEF CreateCandidate, Reversed
  <2>4. \A v, w \in Workers : v # w => Apart(v, w)'
    BY <1>2 DEF CreateCandidate, ResolutionInv, Apart, Binding, Wrote
  <2>5. Committed'
    BY <1>2, <2>2, StaysCommitted DEF CreateCandidate
  <2>6. QED BY <2>1, <2>3, <2>4, <2>5 DEF ResolutionInv
<1>3. CASE Submit(c)
  BY <1>1, <1>3, ProposalStep DEF Submit, TypeOK
<1>4. CASE ListBatch(c)
  BY <1>1, <1>4, ProposalStep DEF ListBatch, TypeOK
<1>5. CASE TooLate(c)
  BY <1>1, <1>5, ProposalStep DEF TooLate, TypeOK
<1>6. QED BY <1>2, <1>3, <1>4, <1>5

LEMMA BindStep ==
  ASSUME ResolutionInv, NEW w \in Workers, NEW c \in Candidates, NEW by \in Callers, Bind(w, c, by)
  PROVE  ResolutionInv'
<1>1. PICK r : r = [Idle EXCEPT !.pc = "pair", !.by = by, !.of = c]
  OBVIOUS
<1>2. r \in Run /\ r.pc = "pair" /\ r.by = by /\ r.of = c
  BY <1>1 DEF Idle, Run, Places, Ends
<1>3. run'[w] = r /\ \A v \in Workers \ {w} : run'[v] = run[v]
  BY <1>1, <1>2, StepShape DEF Bind, ResolutionInv
<1>4. status[c] = "pending" /\ UNCHANGED <<redirect, merged, unlocked, rank, status, event, proposal>>
  BY DEF Bind
<1>5. Own(w)'
  BY <1>2, <1>3, <1>4 DEF Own, InPlace, Undecided, SourceIsRoot, RankRead, Trail, Binding, Wrote
<1>6. \A v \in Workers \ {w} : Apart(v, w)' /\ Apart(w, v)'
  BY <1>2, <1>3 DEF Bind, Locked, Apart, Binding, Wrote
<1>7. QED BY <1>1, <1>2, <1>4, <1>5, <1>6, QuietStep DEF Bind

LEMMA DecideStep ==
  ASSUME ResolutionInv, NEW w \in Workers, NEW c \in Candidates, NEW by \in Callers,
         NEW o \in Outcome, Decide(w, c, by, o)
  PROVE  ResolutionInv'
<1>1. TypeOK
  BY DEF ResolutionInv
<1>2. /\ status[c] = "pending" /\ ~Locked(c) /\ run[w].pc = "idle" /\ o # "accepted"
      /\ status' = [status EXCEPT ![c] = o] /\ UNCHANGED <<redirect, merged, unlocked, rank, event>>
      /\ by \in {"policy", "batch"} => o = "abstained"
      /\ proposal' = Labelled(c, by, o)
  BY DEF Decide
<1>3. status'[c] = o
  BY <1>1, <1>2 DEF TypeOK
<1>4. /\ DOMAIN proposal' = Candidates
      /\ \A d \in Candidates : proposal'[d] = "accepted" => proposal[d] = "accepted"
  BY <1>1, <1>2 DEF TypeOK, Labelled
<1>5. PICK r : r = IF by = "admin" THEN [Idle EXCEPT !.pc = "label", !.of = c, !.by = o] ELSE run[w]
  OBVIOUS
<1>6. r \in Run /\ (r.pc = "idle" \/ (r.pc = "label" /\ r.of = c /\ r.by = o))
  BY <1>1, <1>2, <1>5 DEF TypeOK, Idle, Run, Places, Ends
<1>7. Step(w, r)
  BY <1>1, <1>5 DEF Decide, Step, TypeOK
<1>8. run'[w] = r
  BY <1>1, <1>6, <1>7, StepShape
<1>9. Own(w)'
  BY <1>3, <1>6, <1>8 DEF Own, InPlace, Undecided, SourceIsRoot, RankRead, Trail, Binding, Wrote
<1>10. \A v \in Workers \ {w} : Apart(v, w)' /\ Apart(w, v)'
  BY <1>6, <1>8 DEF Apart, Binding, Wrote
<1>11. QED BY <1>2, <1>4, <1>6, <1>7, <1>9, <1>10, DecisionStep

LEMMA AbstainStep ==
  ASSUME ResolutionInv, NEW w \in Workers, Abstain(w)
  PROVE  ResolutionInv'
<1>1. run[w].pc = "abstain" /\ run[w].by \in Candidates /\ Step(w, Idle)
  BY DEF Abstain, ResolutionInv, Own, InPlace
<1>2. UNCHANGED <<redirect, merged, unlocked, rank, event, proposal>> /\ DOMAIN proposal = Candidates
  BY DEF Abstain, ResolutionInv, TypeOK
<1>3. CASE status[run[w].by] = "pending"
  <2>1. run'[w] = Idle
    BY <1>1, IdleType, StepShape DEF ResolutionInv
  <2>2. Own(w)'
    BY <2>1, IdleType DEF Own, InPlace, Undecided, SourceIsRoot, RankRead, Trail, Binding, Wrote
  <2>3. \A v \in Workers \ {w} : Apart(v, w)' /\ Apart(w, v)'
    BY <2>1, IdleType DEF Apart, Binding, Wrote
  <2>4. PICK o \in Outcome : o = "abstained"
    BY DEF Outcome
  <2>5. status' = [status EXCEPT ![run[w].by] = o] /\ ~Locked(run[w].by)
    BY <1>3, <2>4 DEF Abstain
  <2>6. QED BY <1>1, <1>2, <1>3, <2>2, <2>3, <2>4, <2>5, IdleType, DecisionStep
<1>4. CASE status[run[w].by] # "pending"
  BY <1>1, <1>2, <1>4, IdleType, EndStep DEF Abstain
<1>5. QED BY <1>3, <1>4

\* An import waits for the rows that a merge has locked.
LEMMA ReimportStep ==
  ASSUME ResolutionInv, NEW e \in Entities, Reimport(e)
  PROVE  ResolutionInv'
<1>1. /\ UNCHANGED <<redirect, merged, unlocked, event, status, proposal, run>>
      /\ rank' \in [Entities -> Levels] /\ \A x \in Entities \ {e} : rank'[x] = rank[x]
  BY DEF Reimport, ResolutionInv, TypeOK
<1>2. TypeOK'
  BY <1>1 DEF ResolutionInv, TypeOK
<1>3. ASSUME NEW w \in Workers
      PROVE  Own(w)'
  <2>1. InPlace(w) /\ Undecided(w) /\ SourceIsRoot(w) /\ RankRead(w) /\ (Reversed = {} => Trail(w))
    BY DEF ResolutionInv, Own
  <2>2. InPlace(w)' /\ Undecided(w)' /\ SourceIsRoot(w)'
    BY <1>1, <2>1 DEF InPlace, Undecided, SourceIsRoot, Binding, Wrote
  <2>3. e \notin ForUpdate(w)
    BY DEF Reimport
  <2>4. run[w].pc \in {"target", "check", "write", "rebuild", "commit"} =>
          run[w].asked[1] # e /\ run[w].asked[1] \in Entities
    BY <2>1, <2>3 DEF ForUpdate, InPlace, Binding
  <2>5. run[w].pc \in {"check", "write", "rebuild", "commit"} =>
          run[w].asked[2] # e /\ run[w].asked[2] \in Entities
    BY <2>1, <2>3 DEF ForUpdate, InPlace, Binding
  <2>6. RankRead(w)'
    BY <1>1, <2>1, <2>4, <2>5 DEF RankRead
  <2>7. ASSUME Trail(w)
        PROVE  Trail(w)'
    BY <1>1, <2>7 DEF Trail, Binding
  <2>8. QED BY <1>1, <2>1, <2>2, <2>6, <2>7 DEF Own, Reversed
<1>4. \A v, w \in Workers : v # w => Apart(v, w)'
  BY <1>1 DEF ResolutionInv, Apart, Binding, Wrote
<1>5. Committed'
  BY <1>1 DEF ResolutionInv, Committed, Decided, MergedRedirected, Accepted, Reversed, Joined
<1>6. QED BY <1>2, <1>3, <1>4, <1>5 DEF ResolutionInv

\* The endpoint's second transaction says of the proposal what was decided.
LEMMA LabelStep ==
  ASSUME ResolutionInv, NEW w \in Workers, Label(w)
  PROVE  ResolutionInv'
<1>1. /\ run[w].pc = "label" /\ run[w].of \in Candidates /\ status[run[w].of] = run[w].by
      /\ Step(w, Idle) /\ UNCHANGED <<redirect, merged, unlocked, rank, event, status>>
  BY DEF Label, ResolutionInv, Own, InPlace, Undecided
<1>2. /\ run' \in [Workers -> Run] /\ run'[w] = Idle
      /\ \A v \in Workers \ {w} : run'[v] = run[v]
  BY <1>1, IdleType, StepShape DEF ResolutionInv
<1>3. /\ DOMAIN proposal' = Candidates
      /\ \A c \in Candidates : proposal'[c] = "accepted" =>
           proposal[c] = "accepted" \/ status'[c] \in {"accepted", "grouped"}
  BY <1>1 DEF Label, ResolutionInv, TypeOK
<1>4. TypeOK'
  BY <1>1, <1>2, <1>3 DEF ResolutionInv, TypeOK
<1>5. Own(w)'
  BY <1>2, IdleType DEF Own, InPlace, Undecided, SourceIsRoot, RankRead, Trail, Binding, Wrote
<1>6. \A v \in Workers \ {w} : Own(v)'
  BY <1>1, <1>2, Undisturbed DEF Reversed
<1>7. \A u, v \in Workers : u # v => Apart(u, v)'
  BY <1>2, IdleType DEF ResolutionInv, Apart, Binding, Wrote
<1>8. Committed'
  BY <1>1, <1>3, StaysCommitted
<1>9. QED BY <1>4, <1>5, <1>6, <1>7, <1>8 DEF ResolutionInv

-----------------------------------------------------------------------------
(***************************************************************************)
(* The two steps that change the redirects.                                *)
(***************************************************************************)
\* What a merge commits: a redirect of a root, that joins the chains of the pair.
LEMMA Committing ==
  ASSUME ResolutionInv, NEW w \in Workers, Commit(w)
  PROVE  LET c == run[w].of  s == run[w].roots[1]  t == run[w].roots[2] IN
         /\ c \in Candidates /\ s \in Entities /\ t \in Entities
         /\ status[c] = "pending" /\ event[c].state = "none"
         /\ redirect \in Maps /\ redirect' \in Maps
         /\ redirect[s] = 0 /\ redirect' = [redirect EXCEPT ![s] = t]
         /\ Reversed' = Reversed
         /\ \A e \in Entities : Chain(redirect, e) \subseteq Chain(redirect', e)
         /\ Reversed = {} => \A e, f \in Pair[c] : Joined(redirect', e, f)
<1> DEFINE c == run[w].of
           s == run[w].roots[1]
           t == run[w].roots[2]
<1>1. Binding(w) /\ run[w].pc = "commit" /\ Wrote(w)
  BY DEF Commit, Binding, Wrote
<1>2. InPlace(w) /\ Undecided(w) /\ SourceIsRoot(w) /\ RankRead(w) /\ (Reversed = {} => Trail(w))
  BY DEF ResolutionInv, Own
<1>3. c \in Candidates /\ s \in Entities /\ t \in Entities /\ run[w].asked \in Entities \X Entities
  BY <1>1, <1>2 DEF InPlace
<1>4. status[c] = "pending" /\ redirect[s] = 0
  BY <1>1, <1>2 DEF Undecided, SourceIsRoot, RankRead
<1>5. event[c] \in Event /\ event[c].state = "none"
  BY <1>3, <1>4 DEF ResolutionInv, TypeOK, Committed, Decided
<1>6. redirect \in Maps /\ redirect' = [redirect EXCEPT ![s] = t] /\ redirect' \in Maps
  BY <1>1, <1>3 DEF ResolutionInv, TypeOK, Commit, View, Maps, Ends
<1>7. Reversed' = Reversed
  <2>1. event \in [Candidates -> Event]
    BY DEF ResolutionInv, TypeOK
  <2>2. /\ event'[c].state = "active"
        /\ \A d \in Candidates \ {c} : event'[d] = event[d]
    BY <2>1, <1>3 DEF Commit
  <2>3. QED BY <2>2, <1>5 DEF Reversed
<1>8. ASSUME NEW e \in Entities
      PROVE  Chain(redirect, e) \subseteq Chain(redirect', e)
  <2>1. \A x \in Entities : redirect[x] # 0 => redirect'[x] = redirect[x]
    BY <1>4, <1>6 DEF Maps
  <2>2. QED BY <2>1, <1>6, ChainGrows
<1>9. ASSUME Reversed = {}, NEW e \in Pair[c], NEW f \in Pair[c]
      PROVE  Joined(redirect', e, f)
  <2>1. PICK x \in Entities, y \in Entities :
          /\ Pair[c] = {x, y}
          /\ run[w].asked[1] \in Chain(redirect, x) /\ run[w].asked[2] \in Chain(redirect, y)
    BY <1>1, <1>2, <1>9 DEF Trail
  <2>2. s \in Chain(redirect, run[w].asked[1]) /\ t \in Chain(redirect, run[w].asked[2])
    BY <1>1, <1>2, <1>9 DEF Trail
  <2>3. s \in Chain(redirect, x) /\ t \in Chain(redirect, y)
    BY <1>3, <1>6, <2>1, <2>2, ChainPart
  <2>4. s \in Chain(redirect', x) /\ t \in Chain(redirect', y)
    BY <1>8, <2>3
  <2>5. redirect'[s] = t /\ t # 0
    BY <1>3, <1>6, Constants DEF Maps
  <2>6. Closed(redirect', Chain(redirect', x)) /\ x \in Chain(redirect', x) /\ y \in Chain(redirect', y)
    BY <1>6, ChainClosed
  <2>7. t \in Chain(redirect', x)
    BY <2>4, <2>5, <2>6 DEF Closed
  <2>8. QED BY <1>9, <2>1, <2>4, <2>6, <2>7 DEF Joined
<1>10. QED BY <1>3, <1>4, <1>5, <1>6, <1>7, <1>8, <1>9

LEMMA CommitStep ==
  ASSUME ResolutionInv, NEW w \in Workers, Commit(w)
  PROVE  ResolutionInv'
<1> DEFINE c == run[w].of
           s == run[w].roots[1]
           t == run[w].roots[2]
<1>1. /\ c \in Candidates /\ s \in Entities /\ t \in Entities
      /\ status[c] = "pending" /\ event[c].state = "none"
      /\ redirect \in Maps /\ redirect' \in Maps
      /\ redirect[s] = 0 /\ redirect' = [redirect EXCEPT ![s] = t]
      /\ Reversed' = Reversed
      /\ \A e \in Entities : Chain(redirect, e) \subseteq Chain(redirect', e)
      /\ Reversed = {} => \A e, f \in Pair[c] : Joined(redirect', e, f)
  BY Committing
<1>2. /\ Binding(w) /\ Wrote(w) /\ TypeOK
      /\ run[w].by \in Callers /\ run[w].roots \in Ends \X Ends
  BY DEF Commit, Binding, Wrote, ResolutionInv, TypeOK, Run, Own, Undecided
<1>3. PICK r : r = IF run[w].by = "admin" THEN [Idle EXCEPT !.pc = "label", !.of = c, !.by = "accepted"]
                   ELSE Idle
  OBVIOUS
<1>4. /\ r \in Run /\ Step(w, r)
      /\ r.pc = "idle" \/ (r.pc = "label" /\ r.of = c /\ r.by = "accepted")
  BY <1>1, <1>3 DEF Commit, Idle, Run, Places, Ends, Outcome
<1>5. /\ run' \in [Workers -> Run] /\ run'[w] = r
      /\ \A v \in Workers \ {w} : run'[v] = run[v]
  BY <1>2, <1>4, StepShape
<1>6. /\ status'[c] = "accepted" /\ \A d \in Candidates \ {c} : status'[d] = status[d]
      /\ \A d \in Candidates \ {c} : event'[d] = event[d]
      /\ event'[c] = [of |-> run[w].roots, state |-> "active"]
      /\ \A d \in Candidates \ {c} : proposal'[d] = proposal[d]
      /\ DOMAIN proposal' = Candidates
  BY <1>1, <1>2 DEF Commit, TypeOK, Labelled
<1>7. TypeOK'
  <2>1. status' \in [Candidates -> Outcome \union {"absent", "pending"}]
    BY <1>2 DEF Commit, TypeOK, Outcome
  <2>2. event' \in [Candidates -> Event]
    BY <1>2 DEF Commit, TypeOK, Event
  <2>3. merged' \in SUBSET Entities /\ unlocked' \in SUBSET Entities /\ rank' = rank
    BY <1>1, <1>2 DEF Commit, TypeOK
  <2>4. QED BY <1>1, <1>2, <1>5, <1>6, <2>1, <2>2, <2>3 DEF TypeOK
<1>8. Own(w)'
  BY <1>1, <1>4, <1>5, <1>6 DEF Own, InPlace, Undecided, SourceIsRoot, RankRead, Trail, Binding, Wrote, Outcome
<1>9. ASSUME NEW v \in Workers \ {w}
      PROVE  Own(v)'
  <2>1. /\ InPlace(v) /\ Undecided(v) /\ SourceIsRoot(v) /\ RankRead(v) /\ (Reversed = {} => Trail(v))
        /\ Apart(v, w) /\ run'[v] = run[v] /\ rank' = rank
    BY <1>5 DEF ResolutionInv, Own, Commit
  <2>2. InPlace(v)' /\ RankRead(v)'
    BY <2>1 DEF InPlace, RankRead, Binding
  <2>3. Undecided(v)'
    BY <1>1, <1>2, <1>6, <2>1 DEF Undecided, InPlace, Apart, Binding, Outcome
  <2>4. SourceIsRoot(v)'
    <3>1. SUFFICES ASSUME Wrote(v)
                   PROVE  redirect'[run[v].roots[1]] = 0
      BY <2>1 DEF SourceIsRoot, Wrote
    <3>2. run[v].roots[1] \in Entities
      BY <2>1, <3>1 DEF InPlace, Binding, Wrote
    <3>3. run[v].roots[1] # s /\ redirect[run[v].roots[1]] = 0
      BY <1>2, <2>1, <3>1 DEF Apart, SourceIsRoot
    <3>4. QED BY <1>1, <3>2, <3>3 DEF Maps
  <2>5. ASSUME Trail(v)
        PROVE  Trail(v)'
    <3>1. Binding(v)' = Binding(v)
      BY <2>1 DEF Binding
    <3>2. Binding(v) /\ run[v].pc # "pair" => run[v].asked[1] \in Entities /\ run[v].asked[2] \in Entities
      BY <2>1 DEF InPlace
    <3>3. QED BY <1>1, <2>1, <2>5, <3>1, <3>2 DEF Trail
  <2>6. QED BY <1>1, <2>1, <2>2, <2>3, <2>4, <2>5 DEF Own
<1>10. ASSUME NEW u \in Workers, NEW v \in Workers, u # v
       PROVE  Apart(u, v)'
  BY <1>4, <1>5, <1>10 DEF ResolutionInv, Apart, Binding, Wrote
<1>11. Committed'
  <2>1. Decided /\ MergedRedirected /\ Accepted
    BY DEF ResolutionInv, Committed
  <2>2. Decided'
    BY <1>1, <1>6, <2>1 DEF Decided
  <2>3. MergedRedirected'
    BY <1>1, <2>1, Constants DEF Commit, MergedRedirected, Maps
  <2>4. Accepted'
    <3>1. SUFFICES ASSUME Reversed = {}, NEW d \in Candidates, status'[d] = "accepted",
                          NEW e \in Pair[d], NEW f \in Pair[d]
                   PROVE  Joined(redirect', e, f)
      BY <1>1 DEF Accepted, Joined
    <3>2. CASE d = c
      BY <1>1, <3>1, <3>2
    <3>3. CASE d # c
      <4>1. Joined(redirect, e, f)
        BY <1>6, <2>1, <3>1, <3>3 DEF Accepted
      <4>2. e \in Entities /\ f \in Entities
        BY Constants
      <4>3. QED BY <1>1, <4>1, <4>2 DEF Joined
    <3>4. QED BY <3>2, <3>3
  <2>5. QED BY <2>2, <2>3, <2>4 DEF Committed
<1>12. QED BY <1>7, <1>8, <1>9, <1>10, <1>11 DEF ResolutionInv

\* A merge that is taken back only lets chains end sooner.
LEMMA SplitStep ==
  ASSUME ResolutionInv, NEW c \in Candidates, Split(c)
  PROVE  ResolutionInv'
<1> DEFINE s == event[c].of[1]
<1>1. TypeOK /\ Decided /\ MergedRedirected 
  BY DEF ResolutionInv, Committed
<1>2. s \in Entities /\ event[c].state = "active"
  BY <1>1 DEF Split, Decided
<1>3. /\ redirect' = [redirect EXCEPT ![s] = 0] /\ merged' = merged \ {s}
      /\ unlocked' = unlocked \ {s} /\ UNCHANGED <<rank, status, proposal, run>>
  BY DEF Split
<1>4. event' \in [Candidates -> Event] /\ event'[c].state = "reversed" /\ event'[c].of = event[c].of
  BY <1>1, <1>2 DEF Split, TypeOK, Event
<1>5. \A d \in Candidates \ {c} : event'[d] = event[d]
  BY <1>1 DEF Split, TypeOK
<1>6. Reversed' # {}
  BY <1>4 DEF Reversed
<1>7. TypeOK'
  BY <1>1, <1>3, <1>4 DEF TypeOK, Maps, Ends
<1>8. ASSUME NEW w \in Workers
      PROVE  Own(w)'
  <2>1. InPlace(w) /\ Undecided(w) /\ SourceIsRoot(w) /\ RankRead(w)
    BY DEF ResolutionInv, Own
  <2>2. InPlace(w)' /\ Undecided(w)' /\ RankRead(w)'
    BY <1>3, <2>1 DEF InPlace, Undecided, RankRead, Binding
  <2>3. SourceIsRoot(w)'
    <3>1. SUFFICES ASSUME Wrote(w)
                   PROVE  redirect'[run[w].roots[1]] = 0
      BY <1>3 DEF SourceIsRoot, Wrote
    <3>2. run[w].roots[1] \in Entities /\ redirect[run[w].roots[1]] = 0
      BY <2>1, <3>1 DEF InPlace, SourceIsRoot, Binding, Wrote
    <3>3. QED BY <1>1, <1>3, <3>2 DEF TypeOK, Maps
  <2>4. QED BY <1>6, <2>2, <2>3 DEF Own
<1>9. \A v, w \in Workers : v # w => Apart(v, w)'
  BY <1>3 DEF ResolutionInv, Apart, Binding, Wrote
<1>10. Committed'
  <2>1. Decided'
    BY <1>1, <1>2, <1>3, <1>4, <1>5 DEF Decided
  <2>2. MergedRedirected'
    BY <1>1, <1>2, <1>3 DEF MergedRedirected, TypeOK, Maps
  <2>3. QED BY <1>6, <2>1, <2>2 DEF Committed, Accepted
<1>11. QED BY <1>7, <1>8, <1>9, <1>10 DEF ResolutionInv

-----------------------------------------------------------------------------
(***************************************************************************)
(* The invariant, and what follows from it.                                *)
(***************************************************************************)
LEMMA InitInv == Init => ResolutionInv
<1>1. SUFFICES ASSUME Init
               PROVE  ResolutionInv
  OBVIOUS
<1>2. /\ redirect \in Maps /\ merged \in SUBSET Entities /\ unlocked \in SUBSET Entities
      /\ rank \in [Entities -> Levels]
  BY <1>1, Constants DEF Init
<1>3. \A c \in Candidates : event[c] = None /\ status[c] \in {"absent", "pending"} /\ proposal[c] = "none"
  BY <1>1 DEF Init
<1>4. \A w \in Workers : run[w] = Idle
  BY <1>1 DEF Init
<1>5. event \in [Candidates -> Event]
  <2>1. None \in Event
    BY DEF None, Event, Ends
  <2>2. QED BY <1>1, <2>1 DEF Init
<1>6. TypeOK
  BY <1>1, <1>2, <1>5, IdleType DEF Init, TypeOK
<1>7. \A w \in Workers : Own(w)
  BY <1>4, IdleType DEF Own, InPlace, Undecided, SourceIsRoot, RankRead, Trail, Binding, Wrote
<1>8. \A v, w \in Workers : v # w => Apart(v, w)
  BY <1>4, IdleType DEF Apart, Binding, Wrote
<1>9. MergedRedirected
  BY <1>1 DEF MergedRedirected, Init
<1>10. Decided /\ Accepted
  BY <1>3 DEF Decided, Accepted, None
<1>11. QED BY <1>6, <1>7, <1>8, <1>9, <1>10 DEF ResolutionInv, Committed

LEMMA NextInv ==
  ASSUME ResolutionInv, [Next]_vars
  PROVE  ResolutionInv'
<1>1. CASE UNCHANGED vars
  <2>1. UNCHANGED <<redirect, merged, unlocked, rank, event, status, proposal, run>>
    BY <1>1 DEF vars
  <2>2. QED BY <2>1, ProposalStep DEF ResolutionInv, TypeOK
<1>2. ASSUME NEW c \in Candidates,
             CreateCandidate(c) \/ Submit(c) \/ ListBatch(c) \/ TooLate(c) \/ Split(c)
      PROVE  ResolutionInv'
  BY <1>2, CandidateSteps, SplitStep
<1>3. ASSUME NEW e \in Entities, AddToLibrary(e) \/ Reimport(e)
      PROVE  ResolutionInv'
  BY <1>3, ProposalStep, ReimportStep DEF AddToLibrary, ResolutionInv, TypeOK
<1>4. ASSUME NEW w \in Workers, Merge(w)
      PROVE  ResolutionInv'
  BY <1>4, ReadPairStep, LockStep, OnwardStep, CommitStep DEF Merge
<1>5. ASSUME NEW w \in Workers, Label(w) \/ Abstain(w) \/ Abort(w)
      PROVE  ResolutionInv'
  <2>1. CASE Abort(w)
    BY <2>1, IdleType, EndStep DEF Abort, base
  <2>2. QED BY <1>5, <2>1, LabelStep, AbstainStep
<1>6. ASSUME NEW w \in Workers, NEW c \in Candidates, NEW by \in Callers,
             Bind(w, c, by) \/ \E o \in Outcome : Decide(w, c, by, o)
      PROVE  ResolutionInv'
  BY <1>6, BindStep, DecideStep
<1>7. QED BY <1>1, <1>2, <1>3, <1>4, <1>5, <1>6 DEF Next

\* The inductive invariant: what each transaction has read and written, and how it fits
\* what is committed.
THEOREM ResolutionInvariant == Spec => []ResolutionInv
<1>1. QED BY InitInv, NextInv, PTL DEF Spec

\* Every variable keeps its type.
THEOREM TypeCorrect == Spec => []TypeOK
<1>1. ResolutionInv => TypeOK
  BY DEF ResolutionInv
<1>2. QED BY <1>1, ResolutionInvariant, PTL

\* A merge of the two rows that it has locked writes the stricter one as canonical, as both
\* are classified when it commits: _canonical_pair may have ordered rows that were
\* redirected or imported again since, and merge() compares what it reads under the locks.
THEOREM MergedInOrder == Spec => []CommittedInOrder
<1>1. ResolutionInv => CommittedInOrder
  BY DEF ResolutionInv, Own, RankRead, CommittedInOrder
<1>2. QED BY <1>1, ResolutionInvariant, PTL

\* An accepted candidate has its pair in one cluster until something is split, and an
\* accepted proposal belongs to a candidate that was bound or grouped.
THEOREM AcceptedMerged == Spec => []AcceptedIsMerged
<1>1. ASSUME ResolutionInv
      PROVE  AcceptedIsMerged
  <2>1. redirect \in Maps /\ Accepted /\ Decided
    BY <1>1 DEF ResolutionInv, TypeOK, Committed
  <2>2. ASSUME Reversed = {}, NEW c \in Candidates, status[c] = "accepted",
               NEW e \in Pair[c], NEW f \in Pair[c]
        PROVE  Resolve(redirect, e) = Resolve(redirect, f)
    <3>1. e \in Entities /\ f \in Entities
      BY Constants
    <3>2. Joined(redirect, e, f)
      BY <2>1, <2>2 DEF Accepted
    <3>3. QED BY <2>1, <3>1, <3>2, JoinedResolve
  <2>3. QED BY <2>1, <2>2 DEF AcceptedIsMerged, Decided
<1>2. QED BY <1>1, ResolutionInvariant, PTL

-----------------------------------------------------------------------------
(***************************************************************************)
(* Every circle takes two redirects to rows that were not locked.          *)
(***************************************************************************)
\* Everyone on the chain of an entity that is on a circle comes back to it.
LEMMA ComesBack ==
  ASSUME NEW map \in Maps, NEW e \in Entities, OnCircle(map, e), NEW x \in Chain(map, e)
  PROVE  e \in Chain(map, x)
<1> DEFINE S == {y \in Chain(map, e) : e \in Chain(map, y)}
<1>1. e \in Chain(map, e) /\ Chain(map, e) \subseteq Entities /\ Closed(map, Chain(map, e))
  BY ChainClosed
<1>2. e \in S /\ S \in SUBSET Entities
  BY <1>1
<1>3. Closed(map, S)
  <2>1. SUFFICES ASSUME NEW y \in S, map[y] # 0
                 PROVE  map[y] \in S
    BY DEF Closed
  <2>2. y \in Entities /\ map[y] \in Chain(map, e)
    BY <1>1, <2>1 DEF Closed
  <2>3. e \in Chain(map, map[y])
    BY <2>1, <2>2, ChainStep DEF OnCircle
  <2>4. QED BY <2>2, <2>3
<1>4. Chain(map, e) \subseteq S
  BY <1>2, <1>3, ChainLeast
<1>5. QED BY <1>4

\* A chain that ends runs into no circle.
LEMMA NoCircleEnds ==
  ASSUME NEW map \in Maps, NEW e \in Entities, OnCircle(map, e), NEW r \in Chain(map, e)
  PROVE  map[r] # 0
<1>1. SUFFICES ASSUME map[r] = 0
               PROVE  FALSE
  OBVIOUS
<1>2. e \in Chain(map, r) /\ r \in Entities
  BY ComesBack, ChainClosed
<1>3. Chain(map, r) = {r}
  BY <1>1, <1>2, ChainStep
<1>4. QED BY <1>1, <1>2, <1>3 DEF OnCircle

\* Redirects of nobody on a chain leave the chain as it is.
LEMMA SameChain ==
  ASSUME NEW map \in Maps, NEW map2 \in Maps, NEW e \in Entities,
         \A x \in Chain(map, e) : map2[x] = map[x]
  PROVE  Chain(map2, e) = Chain(map, e)
<1>1. e \in Chain(map, e) /\ Chain(map, e) \subseteq Entities /\ Closed(map, Chain(map, e))
  BY ChainClosed
<1>2. Closed(map2, Chain(map, e))
  BY <1>1 DEF Closed
<1>3. Chain(map2, e) \subseteq Chain(map, e)
  BY <1>1, <1>2, ChainLeast
<1>4. e \in Chain(map2, e) /\ Chain(map2, e) \in SUBSET Entities /\ Closed(map, Chain(map2, e))
  BY <1>3, ChainClosed DEF Closed
<1>5. Chain(map, e) \subseteq Chain(map2, e)
  BY <1>4, ChainLeast
<1>6. QED BY <1>3, <1>5

LEMMA SameCircle ==
  ASSUME NEW map \in Maps, NEW map2 \in Maps, NEW e \in Entities, OnCircle(map, e),
         \A x \in Chain(map, e) : map2[x] = map[x]
  PROVE  OnCircle(map2, e)
<1>1. e \in Chain(map, e) /\ Closed(map, Chain(map, e))
  BY ChainClosed
<1>2. map[e] # 0 /\ map2[e] = map[e] /\ map[e] \in Entities /\ map[e] \in Chain(map, e)
  BY <1>1 DEF OnCircle, Closed, Maps, Ends
<1>3. Chain(map, map[e]) \subseteq Chain(map, e)
  BY <1>2, ChainPart
<1>4. Chain(map2, map[e]) = Chain(map, map[e])
  BY <1>2, <1>3, SameChain
<1>5. QED BY <1>2, <1>4 DEF OnCircle

\* A redirect of a root closes a circle only if it goes to somebody whose chain has it.
LEMMA ClosesCircle ==
  ASSUME NEW map \in Maps, NEW map2 \in Maps, NEW s \in Entities, NEW t \in Entities,
         map[s] = 0, map2[s] = t, \A x \in Entities : x # s => map2[x] = map[x],
         NEW e \in Entities, OnCircle(map2, e), s \in Chain(map2, e)
  PROVE  s \in Chain(map, t)
<1>1. SUFFICES ASSUME s \notin Chain(map, t)
               PROVE  FALSE
  OBVIOUS
<1>2. Chain(map, t) \subseteq Entities
  BY ChainClosed
<1>3. \A x \in Chain(map, t) : map2[x] = map[x]
  BY <1>1, <1>2
<1>4. s \notin Chain(map2, t)
  BY <1>1, <1>3, SameChain
<1>5. e \in Chain(map2, s)
  BY ComesBack
<1>6. t # 0
  BY Constants
<1>7. Chain(map2, s) \subseteq {s} \cup Chain(map2, t)
  BY <1>6, ChainStep
<1>8. CASE e = s
  BY <1>4, <1>8 DEF OnCircle
<1>9. CASE e \in Chain(map2, t)
  <2>1. Chain(map2, e) \subseteq Chain(map2, t)
    BY <1>9, ChainPart
  <2>2. QED BY <1>4, <2>1
<1>10. QED BY <1>5, <1>7, <1>8, <1>9

\* The redirects that a merge sees, its own included.
LEMMA ViewValue ==
  ASSUME ResolutionInv, NEW w \in Workers, Wrote(w)
  PROVE  LET s == run[w].roots[1]  t == run[w].roots[2] IN
         /\ s \in Entities /\ t \in Entities
         /\ redirect \in Maps /\ View(w) \in Maps
         /\ View(w) = [redirect EXCEPT ![s] = t]
         /\ View(w)[s] = t /\ \A x \in Entities : x # s => View(w)[x] = redirect[x]
<1>1. run[w].roots[1] \in Entities /\ run[w].roots[2] \in Entities /\ redirect \in Maps
  BY DEF ResolutionInv, TypeOK, Own, InPlace, Binding, Wrote
<1>2. View(w) = [redirect EXCEPT ![run[w].roots[1]] = run[w].roots[2]]
  BY DEF View
<1>3. QED BY <1>1, <1>2 DEF Maps, Ends

\* A transaction changes its place, and nothing is committed.
LEMMA PlaceCircle ==
  ASSUME CircleInv, ResolutionInv', NEW w \in Workers,
         \A v \in Workers \ {w} : run'[v] = run[v], UNCHANGED <<redirect, unlocked>>,
         Safe(w)', \A v \in Workers \ {w} : Exclusive(v, w)' /\ Exclusive(w, v)'
  PROVE  CircleInv'
<1>1. ASSUME NEW v \in Workers \ {w}
      PROVE  Safe(v)'
  <2>1. Safe(v) /\ run'[v] = run[v]
    BY DEF CircleInv
  <2>2. QED BY <2>1 DEF Safe, TargetIsRoot, OtherRoot, NoWayBack
<1>2. ASSUME NEW u \in Workers \ {w}, NEW v \in Workers \ {w}, u # v
      PROVE  Exclusive(u, v)'
  <2>1. Exclusive(u, v) /\ run'[u] = run[u] /\ run'[v] = run[v]
    BY <1>2 DEF CircleInv
  <2>2. ForUpdate(u)' = ForUpdate(u) /\ ForUpdate(v)' = ForUpdate(v)
    BY <2>1 DEF ForUpdate
  <2>3. KeyShare(v)' = KeyShare(v)
    BY <2>1 DEF KeyShare, Wrote
  <2>4. QED BY <2>1, <2>2, <2>3 DEF Exclusive
<1>3. Circled'
  BY DEF CircleInv, Circled, Two
<1>4. QED BY <1>1, <1>2, <1>3 DEF CircleInv

\* It holds no lock any more, or not yet.
LEMMA FreeCircle ==
  ASSUME CircleInv, ResolutionInv', NEW w \in Workers,
         \A v \in Workers \ {w} : run'[v] = run[v], UNCHANGED <<redirect, unlocked>>,
         run'[w].pc \in {"idle", "pair", "source", "label", "abstain"}
  PROVE  CircleInv'
<1>1. Safe(w)'
  BY DEF Safe, TargetIsRoot, OtherRoot, NoWayBack
<1>2. ForUpdate(w)' = {} /\ KeyShare(w)' = {}
  BY DEF ForUpdate, KeyShare, Wrote
<1>3. \A v \in Workers \ {w} : Exclusive(v, w)' /\ Exclusive(w, v)'
  BY <1>2 DEF Exclusive, CircleInv
<1>4. QED BY <1>1, <1>3, PlaceCircle

\* Locking: the row is free, and its root is a root.
LEMMA LockCircle ==
  ASSUME CircleInv, ResolutionInv', NEW w \in Workers, NEW l \in {"target", "check"},
         run' = [run EXCEPT ![w] = run'[w]], UNCHANGED <<redirect, unlocked>>, run'[w].pc = l,
         run'[w].asked = run[w].asked,
         l = "target" => run[w].pc = "source" /\ run[w].asked[1] \notin HeldByOthers(w),
         l = "check" => /\ run[w].pc = "target" /\ run[w].asked[2] \notin HeldByOthers(w)
                        /\ redirect[run'[w].roots[2]] = 0
  PROVE  CircleInv'
<1>1. \A v \in Workers \ {w} : run'[v] = run[v]
  BY DEF CircleInv, ResolutionInv, TypeOK
<1>2. Safe(w)'
  BY DEF Safe, TargetIsRoot, OtherRoot, NoWayBack
<1>3. PICK a : a = IF l = "target" THEN run[w].asked[1] ELSE run[w].asked[2]
  OBVIOUS
<1>4. ForUpdate(w)' = ForUpdate(w) \cup {a} /\ KeyShare(w) = {} /\ KeyShare(w)' = {}
  BY <1>3 DEF ForUpdate, KeyShare, Wrote
<1>5. ASSUME NEW v \in Workers \ {w}
      PROVE  Exclusive(v, w)' /\ Exclusive(w, v)'
  <2>1. Exclusive(v, w) /\ Exclusive(w, v)
    BY DEF CircleInv
  <2>2. a \notin ForUpdate(v) /\ a \notin KeyShare(v)
    BY <1>3 DEF HeldByOthers
  <2>3. ForUpdate(v)' = ForUpdate(v) /\ KeyShare(v)' = KeyShare(v)
    BY <1>1 DEF ForUpdate, KeyShare, Wrote
  <2>4. QED BY <1>4, <2>1, <2>2, <2>3 DEF Exclusive
<1>6. QED BY <1>1, <1>2, <1>5, PlaceCircle

\* The chain of the target ends in what the merge sees: without its own redirect it passes
\* no source.
LEMMA RebuildSees ==
  ASSUME ResolutionInv, NEW w \in Workers, Wrote(w), Resolve(View(w), run[w].roots[2]) # 0
  PROVE  run[w].roots[1] \notin Chain(redirect, run[w].roots[2])
<1> DEFINE s == run[w].roots[1]
           t == run[w].roots[2]
<1>1. SUFFICES ASSUME s \in Chain(redirect, t)
               PROVE  FALSE
  OBVIOUS
<1>2. PICK m, n : m = redirect /\ n = View(w)
  OBVIOUS
<1>3. /\ s \in Entities /\ t \in Entities /\ m \in Maps /\ n \in Maps /\ m[s] = 0
      /\ n[s] = t /\ \A x \in Entities : x # s => n[x] = m[x]
  BY <1>2, ViewValue DEF ResolutionInv, Own, SourceIsRoot
<1>4. t \in Chain(m, t) /\ Chain(m, t) \subseteq Entities /\ Closed(m, Chain(m, t))
  BY <1>3, ChainClosed
<1>5. Closed(n, Chain(m, t))
  BY <1>3, <1>4 DEF Closed
<1>6. Chain(n, t) \subseteq Chain(m, t)
  BY <1>4, <1>5, ChainLeast
<1>7. PICK r \in Chain(m, t) : n[r] = 0
  BY <1>2, <1>3, <1>6, ResolveValue
<1>8. r # s /\ m[r] = 0
  BY <1>3, <1>4, <1>7, Constants
<1>9. r \in Roots(m, t) /\ s \in Roots(m, t)
  BY <1>1, <1>2, <1>3, <1>7, <1>8 DEF Roots
<1>10. QED BY <1>3, <1>8, <1>9, OneRoot

\* The merge goes on: its source is not its target, nobody has locked the rows that it
\* writes, and the chain of the target was followed to its
\* end before the commit.
LEMMA GotoCircle ==
  ASSUME CircleInv, ResolutionInv', NEW w \in Workers, NEW l,
         run' = [run EXCEPT ![w].pc = l], UNCHANGED <<redirect, unlocked>>,
         \/ /\ run[w].pc = "check" /\ l = "write" /\ run[w].roots[1] # run[w].roots[2]
         \/ /\ run[w].pc = "write" /\ l = "rebuild"
            /\ {run[w].roots[1], run[w].roots[2]} \cap Updated(w) = {}
         \/ /\ run[w].pc = "rebuild" /\ l = "commit" /\ Resolve(View(w), run[w].roots[2]) # 0
  PROVE  CircleInv'
<1>1. run \in [Workers -> Run] /\ run[w] \in Run
  BY DEF CircleInv, ResolutionInv, TypeOK
<1>2. /\ run'[w].pc = l /\ run'[w].asked = run[w].asked /\ run'[w].roots = run[w].roots
      /\ \A v \in Workers \ {w} : run'[v] = run[v]
  BY <1>1 DEF Run
<1>3. Safe(w)'
  <2>1. Safe(w)
    BY DEF CircleInv
  <2>2. TargetIsRoot(w)' /\ OtherRoot(w)'
    BY <1>2, <2>1 DEF Safe, TargetIsRoot, OtherRoot
  <2>3. ASSUME l = "commit"
        PROVE  run[w].roots[1] \notin Chain(redirect, run[w].roots[2])
    <3>1. ResolutionInv /\ Wrote(w) /\ Resolve(View(w), run[w].roots[2]) # 0
      BY <2>3 DEF CircleInv, Wrote
    <3>2. QED BY <3>1, RebuildSees
  <2>4. NoWayBack(w)'
    BY <1>2, <2>3 DEF NoWayBack
  <2>5. QED BY <2>2, <2>4 DEF Safe
<1>4. run[w].pc # "write" => KeyShare(w)' = KeyShare(w)
  BY <1>2 DEF ForUpdate, KeyShare, Wrote
<1>5. KeyShare(w)' \subseteq {run[w].roots[1], run[w].roots[2]}
  BY <1>2 DEF KeyShare
<1>6. ASSUME NEW v \in Workers \ {w}
      PROVE  Exclusive(v, w)' /\ Exclusive(w, v)'
  <2>1. Exclusive(v, w) /\ Exclusive(w, v)
    BY DEF CircleInv
  <2>2. ForUpdate(v)' = ForUpdate(v) /\ KeyShare(v)' = KeyShare(v)
    BY <1>2 DEF ForUpdate, KeyShare, Wrote
  <2>3. run[w].pc = "write" => {run[w].roots[1], run[w].roots[2]} \cap ForUpdate(v) = {}
    BY DEF Updated
  <2>4. ForUpdate(w)' = ForUpdate(w)
    BY <1>2 DEF ForUpdate
  <2>5. KeyShare(w)' \cap ForUpdate(v) = {}
    BY <1>2, <1>4, <1>5, <2>1, <2>3 DEF Exclusive, KeyShare, Wrote
  <2>6. QED BY <2>1, <2>2, <2>4, <2>5 DEF Exclusive
<1>7. QED BY <1>2, <1>3, <1>6, PlaceCircle

\* A merge commits.  If its redirect closes a circle, it goes to a row that was not locked,
\* and there was another such row on the way.  A target that was locked ends every chain
\* that comes to it, and no source of another merge is there.
LEMMA CommitCircle ==
  ASSUME CircleInv, ResolutionInv', NEW w \in Workers, Commit(w)
  PROVE  CircleInv'
<1> DEFINE s == run[w].roots[1]
           t == run[w].roots[2]
<1>1. PICK m, n : m = redirect /\ n = redirect'
  OBVIOUS
<1>2. /\ Wrote(w) /\ ResolutionInv /\ s \in Entities /\ t \in Entities /\ t # 0
      /\ m \in Maps /\ n \in Maps /\ m[s] = 0 /\ n[s] = t
      /\ \A x \in Entities : x # s => n[x] = m[x]
  BY <1>1, ViewValue, Constants DEF Commit, Wrote, CircleInv, ResolutionInv, Own, SourceIsRoot
<1>3. /\ run'[w].pc \in {"idle", "label"}
      /\ \A v \in Workers \ {w} : run'[v] = run[v]
  <2>1. PICK r : Step(w, r) /\ r.pc \in {"idle", "label"}
    <3>1. PICK a : a = [Idle EXCEPT !.pc = "label", !.of = run[w].of, !.by = "accepted"]
      OBVIOUS
    <3>2. a.pc = "label"
      BY <3>1 DEF Idle
    <3>3. Step(w, a) \/ Step(w, Idle)
      BY <3>1 DEF Commit
    <3>4. QED BY <3>2, <3>3, IdleType
  <2>2. run \in [Workers -> Run]
    BY <1>2 DEF ResolutionInv, TypeOK
  <2>3. QED BY <2>1, <2>2 DEF Step
<1>4. /\ unlocked \subseteq unlocked' /\ (t # run[w].asked[2] => s \in unlocked')
      /\ t = run[w].asked[2] => unlocked' = unlocked
  BY DEF Commit
<1>5. t = run[w].asked[2] => m[t] = 0 /\ n[t] = 0 /\ t # s
  BY <1>1, <1>2 DEF CircleInv, Safe, TargetIsRoot, OtherRoot, Wrote
<1>6. \A e \in Entities : Chain(m, e) \subseteq Chain(n, e)
  BY <1>2, ChainGrows
<1>7. ASSUME NEW e \in Entities, s \notin Chain(n, e)
      PROVE  Chain(m, e) = Chain(n, e) /\ \A x \in Chain(n, e) : m[x] = n[x]
  <2>1. \A x \in Chain(n, e) : m[x] = n[x]
    BY <1>2, <1>7, ChainClosed
  <2>2. QED BY <1>2, <2>1, SameChain
<1>8. Circled'
  <2>1. SUFFICES ASSUME NEW e \in Entities, OnCircle(n, e)
                 PROVE  \E x, y \in Chain(n, e) : x # y /\ {x, y} \subseteq unlocked'
    BY <1>1 DEF Circled, Two, OnCircle
  <2>2. CASE s \notin Chain(n, e)
    <3>1. Chain(m, e) = Chain(n, e) /\ OnCircle(m, e)
      BY <1>2, <1>7, <2>1, <2>2, SameCircle
    <3>2. Two(Chain(m, e))
      BY <1>1, <3>1 DEF CircleInv, Circled
    <3>3. QED BY <1>4, <3>1, <3>2 DEF Two
  <2>3. CASE s \in Chain(n, e)
    <3>1. s \in Chain(m, t)
      BY <1>2, <2>1, <2>3, ClosesCircle
    <3>2. t # run[w].asked[2]
      BY <1>2, <1>5, <3>1, ChainStep
    <3>3. PICK x \in Chain(m, t) : x # s /\ x \in unlocked
      BY <1>1, <3>1 DEF CircleInv, Safe, NoWayBack, Commit
    <3>4. t \in Chain(n, e)
      BY <1>2, <2>3, ChainClosed DEF Closed
    <3>5. x \in Chain(n, e)
      BY <1>2, <1>6, <3>3, <3>4, ChainPart
    <3>6. QED BY <1>4, <2>3, <3>2, <3>3, <3>5
  <2>4. QED BY <2>2, <2>3
<1>9. ASSUME NEW v \in Workers \ {w}
      PROVE  Exclusive(v, w)' /\ Exclusive(w, v)'
  <2>1. ForUpdate(w)' = {} /\ KeyShare(w)' = {}
    BY <1>3 DEF ForUpdate, KeyShare, Wrote
  <2>2. QED BY <2>1 DEF Exclusive
<1>10. ASSUME NEW u \in Workers \ {w}, NEW v \in Workers \ {w}, u # v
       PROVE  Exclusive(u, v)'
  <2>1. Exclusive(u, v) /\ run'[u] = run[u] /\ run'[v] = run[v]
    BY <1>3, <1>10 DEF CircleInv
  <2>2. ForUpdate(u)' = ForUpdate(u) /\ ForUpdate(v)' = ForUpdate(v) /\ KeyShare(v)' = KeyShare(v)
    BY <2>1 DEF ForUpdate, KeyShare, Wrote
  <2>3. QED BY <2>1, <2>2 DEF Exclusive
<1>11. Safe(w)'
  BY <1>3 DEF Safe, TargetIsRoot, OtherRoot, NoWayBack
<1>12. ASSUME NEW v \in Workers \ {w}
       PROVE  Safe(v)'
  <2>1. /\ Safe(v) /\ Exclusive(v, w) /\ Exclusive(w, v) /\ Apart(v, w)
        /\ InPlace(v) /\ SourceIsRoot(v) /\ run'[v] = run[v]
    BY <1>2, <1>3 DEF CircleInv, ResolutionInv, Own
  <2>2. TargetIsRoot(v)'
    <3>1. SUFFICES ASSUME run[v].pc \in {"check", "write", "rebuild", "commit"},
                          run[v].roots[2] = run[v].asked[2]
                   PROVE  redirect'[run[v].roots[2]] = 0
      BY <2>1 DEF TargetIsRoot
    <3>2. run[v].roots[2] \in Entities /\ redirect[run[v].roots[2]] = 0
      BY <2>1, <3>1 DEF InPlace, Binding, Safe, TargetIsRoot
    <3>3. run[v].roots[2] \in ForUpdate(v)
      BY <3>1 DEF ForUpdate
    <3>4. s \in KeyShare(w)
      BY <1>2 DEF KeyShare
    <3>5. run[v].roots[2] # s
      BY <2>1, <3>3, <3>4 DEF Exclusive
    <3>6. QED BY <1>1, <1>2, <3>2, <3>5
  <2>3. OtherRoot(v)'
    BY <2>1 DEF Safe, OtherRoot
  <2>4. NoWayBack(v)'
    <3> DEFINE p == run[v].roots[1]
               q == run[v].roots[2]
    <3>1. SUFFICES ASSUME run[v].pc = "commit", p \in Chain(n, q)
                   PROVE  \E x \in Chain(n, q) : x # p /\ x \in unlocked'
      BY <1>1, <2>1 DEF NoWayBack
    <3>2. /\ Wrote(v) /\ p \in Entities /\ q \in Entities /\ m[p] = 0
          /\ p # s /\ p \in KeyShare(v)
      BY <1>1, <1>2, <2>1, <3>1 DEF Wrote, InPlace, Binding, SourceIsRoot, Apart, KeyShare
    <3>3. CASE s \notin Chain(n, q)
      <4>1. Chain(m, q) = Chain(n, q)
        BY <1>7, <3>2, <3>3
      <4>2. PICK x \in Chain(m, q) : x # p /\ x \in unlocked
        BY <1>1, <2>1, <3>1, <4>1 DEF Safe, NoWayBack
      <4>3. QED BY <1>4, <4>1, <4>2
    <3>4. CASE s \in Chain(n, q) /\ t # run[w].asked[2]
      BY <1>4, <3>2, <3>4
    <3>5. CASE s \in Chain(n, q) /\ t = run[w].asked[2]
      <4>1. t \in ForUpdate(w) /\ n[t] = 0
        BY <1>2, <1>5, <3>5 DEF ForUpdate, Wrote
      <4>2. t # p
        BY <2>1, <3>2, <4>1 DEF Exclusive
      <4>3. t \in Roots(n, q)
        BY <1>2, <3>2, <3>5, <4>1, ChainClosed DEF Closed, Roots
      <4>4. p \in Roots(n, q)
        BY <1>2, <3>1, <3>2 DEF Roots
      <4>5. QED BY <1>2, <3>2, <4>2, <4>3, <4>4, OneRoot
    <3>6. QED BY <3>3, <3>4, <3>5
  <2>5. QED BY <2>2, <2>3, <2>4 DEF Safe
<1>13. QED BY <1>8, <1>9, <1>10, <1>11, <1>12 DEF CircleInv

\* A redirect that is taken back was on no circle that is left, and on no way to a source
\* that is committed next.
LEMMA SplitCircle ==
  ASSUME CircleInv, ResolutionInv', NEW c \in Candidates, Split(c)
  PROVE  CircleInv'
<1> DEFINE s == event[c].of[1]
<1>1. PICK m, n : m = redirect /\ n = redirect'
  OBVIOUS
<1>2. /\ ResolutionInv /\ s \in Entities /\ m \in Maps /\ n \in Maps /\ run' = run
      /\ n[s] = 0 /\ \A x \in Entities : x # s => n[x] = m[x]
      /\ unlocked' = unlocked \ {s}
  BY <1>1 DEF Split, CircleInv, ResolutionInv, TypeOK, Committed, Decided, Maps
<1>3. Circled'
  <2>1. SUFFICES ASSUME NEW e \in Entities, OnCircle(n, e)
                 PROVE  \E x, y \in Chain(n, e) : x # y /\ {x, y} \subseteq unlocked'
    BY <1>1 DEF Circled, Two, OnCircle
  <2>2. s \notin Chain(n, e)
    BY <1>2, <2>1, NoCircleEnds
  <2>3. \A x \in Chain(n, e) : m[x] = n[x]
    BY <1>2, <2>2, ChainClosed
  <2>4. Chain(m, e) = Chain(n, e) /\ OnCircle(m, e)
    BY <1>2, <2>1, <2>3, SameChain, SameCircle
  <2>5. Two(Chain(m, e))
    BY <1>1, <2>4 DEF CircleInv, Circled
  <2>6. QED BY <1>2, <2>2, <2>4, <2>5 DEF Two
<1>4. \A v, w \in Workers : v # w => Exclusive(v, w)'
  <2>1. SUFFICES ASSUME NEW v \in Workers, NEW w \in Workers, v # w
                 PROVE  Exclusive(v, w)'
    OBVIOUS
  <2>2. Exclusive(v, w)
    BY <2>1 DEF CircleInv
  <2>3. ForUpdate(v)' = ForUpdate(v) /\ ForUpdate(w)' = ForUpdate(w) /\ KeyShare(w)' = KeyShare(w)
    BY <1>2 DEF ForUpdate, KeyShare, Wrote
  <2>4. QED BY <2>2, <2>3 DEF Exclusive
<1>5. ASSUME NEW w \in Workers
      PROVE  Safe(w)'
  <2>1. Safe(w) /\ InPlace(w) /\ SourceIsRoot(w)
    BY DEF CircleInv, ResolutionInv, Own
  <2>2. TargetIsRoot(w)'
    BY <1>1, <1>2, <2>1 DEF Safe, TargetIsRoot, InPlace, Binding
  <2>3. OtherRoot(w)'
    BY <1>2, <2>1 DEF Safe, OtherRoot
  <2>4. NoWayBack(w)'
    <3> DEFINE p == run[w].roots[1]
               q == run[w].roots[2]
    <3>1. SUFFICES ASSUME run[w].pc = "commit", p \in Chain(n, q)
                   PROVE  \E x \in Chain(n, q) : x # p /\ x \in unlocked'
      BY <1>1, <1>2 DEF NoWayBack
    <3>2. p \in Entities /\ q \in Entities /\ m[p] = 0
      BY <1>1, <2>1, <3>1 DEF InPlace, Binding, SourceIsRoot, Wrote
    <3>3. s \in Chain(n, q) => s = p
      <4>1. n[p] = 0
        BY <1>2, <3>2
      <4>2. p \in Roots(n, q)
        BY <3>1, <4>1 DEF Roots
      <4>3. s \in Chain(n, q) => s \in Roots(n, q)
        BY <1>2 DEF Roots
      <4>4. QED BY <1>2, <3>2, <4>2, <4>3, OneRoot
    <3>4. \A x \in Chain(n, q) : m[x] = n[x]
      BY <1>2, <3>2, <3>3, ChainClosed
    <3>5. Chain(m, q) = Chain(n, q)
      BY <1>2, <3>2, <3>4, SameChain
    <3>6. PICK x \in Chain(m, q) : x # p /\ x \in unlocked
      BY <1>1, <2>1, <3>1, <3>5 DEF Safe, NoWayBack
    <3>7. QED BY <1>2, <3>3, <3>5, <3>6
  <2>5. QED BY <2>2, <2>3, <2>4 DEF Safe
<1>6. QED BY <1>3, <1>4, <1>5 DEF CircleInv

LEMMA CircleInit == Init => CircleInv
<1>1. SUFFICES ASSUME Init
               PROVE  CircleInv
  OBVIOUS
<1>2. ResolutionInv /\ redirect \in Maps
  BY <1>1, InitInv DEF ResolutionInv, TypeOK
<1>3. \A w \in Workers : run[w].pc = "idle"
  BY <1>1, IdleType DEF Init
<1>4. Circled
  <2>1. SUFFICES ASSUME NEW e \in Entities, OnCircle(redirect, e)
                 PROVE  FALSE
    BY DEF Circled
  <2>2. Resolve(redirect, e) # 0
    BY <1>1, AliasAssumption DEF AliasAssumption, Init
  <2>3. QED BY <1>2, <2>1, <2>2, ResolveValue, NoCircleEnds
<1>5. \A v, w \in Workers : Exclusive(v, w)
  BY <1>3 DEF Exclusive, ForUpdate, KeyShare, Wrote
<1>6. \A w \in Workers : Safe(w)
  BY <1>3 DEF Safe, TargetIsRoot, OtherRoot, NoWayBack
<1>7. QED BY <1>2, <1>4, <1>5, <1>6 DEF CircleInv

LEMMA CircleMerge ==
  ASSUME CircleInv, ResolutionInv', NEW w \in Workers, Merge(w)
  PROVE  CircleInv'
<1>1. run \in [Workers -> Run] /\ run[w] \in Run /\ redirect \in Maps /\ InPlace(w)
  BY DEF CircleInv, ResolutionInv, TypeOK, Own
<1>2. ASSUME NEW r, Step(w, r), r.pc \in {"idle", "pair", "source", "label", "abstain"},
             UNCHANGED <<redirect, unlocked>>
      PROVE  CircleInv'
  BY <1>1, <1>2, FreeCircle DEF Step
<1>3. CASE Refuse(w)
  BY <1>2, <1>3, IdleType DEF Refuse, base, Idle
<1>4. CASE ReadPair(w)
  BY <1>1, <1>2, <1>3, <1>4 DEF ReadPair, base, Run
<1>5. CASE LockSource(w) /\ ~Refuse(w)
  <2>1. PICK root : Step(w, [run[w] EXCEPT !.pc = "target", !.roots[1] = root, !.ranks[1] = rank[root]])
    BY <1>5 DEF LockSource
  <2>2. run'[w].pc = "target" /\ run'[w].asked = run[w].asked /\ run' = [run EXCEPT ![w] = run'[w]]
    BY <1>1, <2>1 DEF Step, Run
  <2>3. run[w].pc = "source" /\ run[w].asked[1] \notin HeldByOthers(w) /\ UNCHANGED <<redirect, unlocked>>
    BY <1>5 DEF LockSource, base
  <2>4. QED BY <2>2, <2>3, LockCircle
<1>6. CASE LockTarget(w) /\ ~Refuse(w)
  <2>1. PICK root : /\ root = Resolve(redirect, run[w].asked[2]) /\ root # 0
                    /\ Step(w, [run[w] EXCEPT !.pc = "check", !.roots[2] = root, !.ranks[2] = rank[root]])
    BY <1>6 DEF LockTarget
  <2>2. run[w].asked[2] \in Entities
    BY <1>1, <1>6 DEF LockTarget, InPlace, Binding
  <2>3. redirect[root] = 0
    BY <1>1, <2>1, <2>2, ResolveValue
  <2>4. run[w].roots \in Ends \X Ends
    BY <1>1 DEF Run
  <2>5. /\ run'[w].pc = "check" /\ run'[w].asked = run[w].asked /\ run' = [run EXCEPT ![w] = run'[w]]
        /\ run'[w].roots = [run[w].roots EXCEPT ![2] = root]
    BY <1>1, <2>1 DEF Step, Run
  <2>6. run'[w].roots[2] = root
    BY <2>4, <2>5
  <2>7. QED BY <1>6, <2>3, <2>5, <2>6, LockCircle DEF LockTarget, base
<1>7. CASE CheckPair(w) /\ ~Refuse(w)
  BY <1>7, GotoCircle DEF CheckPair, Goto, Step, base
<1>8. CASE Write(w)
  <2>1. CASE Step(w, Idle)
    BY <1>2, <1>8, <2>1, IdleType DEF Write, base
  <2>2. CASE Goto(w, "rebuild")
    <3>1. run' = [run EXCEPT ![w].pc = "rebuild"] /\ UNCHANGED <<redirect, unlocked>>
      BY <1>8, <2>2 DEF Write, Goto, Step, base
    <3>2. run[w].pc = "write" /\ {run[w].roots[1], run[w].roots[2]} \cap Updated(w) = {}
      BY <1>8 DEF Write
    <3>3. QED BY <3>1, <3>2, GotoCircle
  <2>3. QED BY <1>8, <2>1, <2>2 DEF Write
<1>9. CASE Rebuild(w) /\ ~Refuse(w)
  BY <1>9, GotoCircle DEF Rebuild, Goto, Step, base
<1>10. CASE Commit(w)
  BY <1>10, CommitCircle
<1>11. QED BY <1>3, <1>4, <1>5, <1>6, <1>7, <1>8, <1>9, <1>10 DEF Merge

LEMMA CircleNext ==
  ASSUME CircleInv, ResolutionInv', [Next]_vars
  PROVE  CircleInv'
<1>1. run \in [Workers -> Run]
  BY DEF CircleInv, ResolutionInv, TypeOK
<1>2. ASSUME UNCHANGED <<redirect, unlocked, run>>
      PROVE  CircleInv'
  <2>1. \A w \in Workers : Safe(w)'
    <3>1. SUFFICES ASSUME NEW w \in Workers, Safe(w)
                   PROVE  Safe(w)'
      BY DEF CircleInv
    <3>2. QED BY <1>2, <3>1 DEF Safe, TargetIsRoot, OtherRoot, NoWayBack
  <2>2. \A v, w \in Workers : v # w => Exclusive(v, w)'
    BY <1>2 DEF CircleInv, Exclusive, ForUpdate, KeyShare, Wrote
  <2>3. Circled'
    BY <1>2 DEF CircleInv, Circled, Two
  <2>4. QED BY <2>1, <2>2, <2>3 DEF CircleInv
<1>3. ASSUME NEW w \in Workers, NEW r, Step(w, r), UNCHANGED <<redirect, unlocked>>,
             r.pc \in {"idle", "pair", "source", "label", "abstain"}
      PROVE  CircleInv'
  BY <1>1, <1>3, FreeCircle DEF Step
<1>4. CASE UNCHANGED vars
  BY <1>2, <1>4 DEF vars
<1>5. ASSUME NEW c \in Candidates,
             CreateCandidate(c) \/ Submit(c) \/ ListBatch(c) \/ TooLate(c) \/ Split(c)
      PROVE  CircleInv'
  BY <1>2, <1>5, SplitCircle DEF CreateCandidate, Submit, ListBatch, TooLate
<1>6. ASSUME NEW e \in Entities, AddToLibrary(e) \/ Reimport(e)
      PROVE  CircleInv'
  BY <1>2, <1>6 DEF AddToLibrary, Reimport
<1>7. ASSUME NEW w \in Workers, Merge(w)
      PROVE  CircleInv'
  BY <1>7, CircleMerge
<1>8. ASSUME NEW w \in Workers, Label(w) \/ Abstain(w) \/ Abort(w)
      PROVE  CircleInv'
  BY <1>3, <1>8, IdleType DEF Label, Abstain, Abort, base
<1>9. ASSUME NEW w \in Workers, NEW c \in Candidates, NEW by \in Callers, Bind(w, c, by)
      PROVE  CircleInv'
  <2>1. Step(w, [Idle EXCEPT !.pc = "pair", !.by = by, !.of = c]) /\ UNCHANGED <<redirect, unlocked>>
    BY <1>9 DEF Bind
  <2>2. [Idle EXCEPT !.pc = "pair", !.by = by, !.of = c].pc = "pair"
    BY DEF Idle
  <2>3. QED BY <1>3, <2>1, <2>2
<1>10. ASSUME NEW w \in Workers, NEW c \in Candidates, NEW by \in Callers, NEW o \in Outcome,
              Decide(w, c, by, o)
       PROVE  CircleInv'
  <2>1. UNCHANGED <<redirect, unlocked>>
    BY <1>10 DEF Decide
  <2>2. CASE UNCHANGED run
    BY <1>2, <2>1, <2>2
  <2>3. CASE Step(w, [Idle EXCEPT !.pc = "label", !.of = c, !.by = o])
    <3>1. [Idle EXCEPT !.pc = "label", !.of = c, !.by = o].pc = "label"
      BY DEF Idle
    <3>2. QED BY <1>3, <2>1, <2>3, <3>1
  <2>4. QED BY <1>10, <2>2, <2>3 DEF Decide
<1>11. QED BY <1>4, <1>5, <1>6, <1>7, <1>8, <1>9, <1>10 DEF Next

\* However many decisions and splits run side by side, a circle of redirects takes two
\* merges that wrote to rows that they had not locked, because the rows that they did lock
\* had been redirected: it never comes from one such merge, and where every merge finds
\* its locked target a root, resolve() ends for every entity.
THEOREM CirclesNeedTwo == Spec => []CirclesTakeTwo
<1>1. CircleInv => CirclesTakeTwo
  BY DEF CircleInv, ResolutionInv, Committed, MergedRedirected, Circled, Two, OnCircle, CirclesTakeTwo
<1>2. CircleInv /\ ResolutionInv' /\ [Next]_vars => CircleInv'
  BY CircleNext
<1>3. QED BY <1>1, <1>2, CircleInit, ResolutionInvariant, PTL DEF Spec
=============================================================================
