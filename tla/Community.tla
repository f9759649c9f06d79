----------------------------- MODULE Community -----------------------------
(***************************************************************************)
(* A post, its comments and reactions, and the follows and blocks between  *)
(* users (apps/community/services).  A call is one database transaction:   *)
(* it reads what it needs without a lock, then waits for the rows it       *)
(* changes and keeps them until it commits.  Row 0 is the post, row c the  *)
(* comment c.                                                              *)
(***************************************************************************)
EXTENDS Naturals, FiniteSets

CONSTANTS
  Workers,       \* requests served at once
  Users, Author, \* the users, and the one who wrote the post
  MaxComments,   \* bound: comments ever written
  MaxCalls,      \* bound: calls that change the post, its comments or reactions
  MaxSocial      \* bound: calls that change follows or blocks

ASSUME CommunityAssumption ==
  /\ Author \in Users /\ IsFiniteSet(Users)
  /\ MaxComments \in Nat /\ MaxCalls \in Nat /\ MaxSocial \in Nat

VARIABLES
  post,            \* the CommunityPost row
  comment,         \* the CommunityComment rows with the feed policy of their activities
  reactors,        \* users with a CommunityReaction on the post
  follows, blocks, \* the UserFollow and UserBlock rows
  call, held, cut, \* per worker: the call in hand, the rows it has locked, the follows it deletes
  late,            \* history: comments committed after their post was hidden
  raced,           \* history: follows whose call overlapped a block of the pair
  calls, social    \* history: what MaxCalls and MaxSocial count

content   == <<post, comment, reactors, late, calls>>
relations == <<follows, blocks, raced, social>>
inHand    == <<call, held, cut>>
vars      == <<content, relations, inHand>>

Comments == 1 .. MaxComments
Unwritten == [state |-> "none", locked |-> FALSE, by |-> Author, parent |-> 0, replies |-> 0, feed |-> "none"]
Idle == [op |-> "none", by |-> Author, on |-> 0, at |-> "idle"]

Init ==
  /\ post = [there |-> TRUE, hidden |-> FALSE, locked |-> FALSE, replies |-> 0, reactions |-> 0]
  /\ comment = [c \in Comments |-> Unwritten] /\ reactors = {}
  /\ follows = {} /\ blocks = {}
  /\ call = [w \in Workers |-> Idle] /\ held = [w \in Workers |-> {}] /\ cut = [w \in Workers |-> {}]
  /\ late = {} /\ raced = {} /\ calls = 0 /\ social = 0

Exists(c) == comment[c].state \in {"shown", "hidden"}
Children(c) == {d \in Comments : Exists(d) /\ comment[d].parent = c}
\* is_blocked_between
Blocked(u, v) == <<u, v>> \in blocks \/ <<v, u>> \in blocks
\* get_target_or_raise for the post, nothing locked
Visible(u) == post.there /\ ~post.hidden /\ ~Blocked(u, Author)
Free(w, r) == \A v \in Workers \ {w} : r \notin held[v]

Call(w, op, u, on, at) ==
  /\ call[w] = Idle /\ calls < MaxCalls /\ calls' = calls + 1
  /\ call' = [call EXCEPT ![w] = [op |-> op, by |-> u, on |-> on, at |-> at]]
  /\ UNCHANGED <<post, comment, reactors, late, relations, held, cut>>
At(w, op, at) == call[w].op = op /\ call[w].at = at
Lock(w, r, next) ==
  /\ held' = [held EXCEPT ![w] = @ \cup {r}] /\ call' = [call EXCEPT ![w].at = next]
  /\ UNCHANGED cut
\* Commit, or roll back: the rows are free.
Return(w) ==
  /\ call' = [call EXCEPT ![w] = Idle] /\ held' = [held EXCEPT ![w] = {}] /\ cut' = [cut EXCEPT ![w] = {}]

-----------------------------------------------------------------------------
(***************************************************************************)
(* Comments.                                                               *)
(***************************************************************************)
Written == Cardinality({c \in Comments : comment[c].state # "none"})
Reply(w, u, p) ==
  /\ p # 0 => comment[p].state # "none"
  /\ Written + Cardinality({v \in Workers : call[v].op = "reply"}) < MaxComments
  /\ Visible(u) /\ ~post.locked /\ Call(w, "reply", u, p, IF p = 0 THEN "insert" ELSE "parent")

Open(u, p) == comment[p].state = "shown" /\ ~comment[p].locked /\ ~Blocked(u, comment[p].by)
\* Faulty: the parent is read without its lock.
PeekParent(w) ==
  /\ At(w, "reply", "parent") /\ Free(w, call[w].on)
  /\ IF Open(call[w].by, call[w].on) THEN call' = [call EXCEPT ![w].at = "insert"] /\ UNCHANGED <<held, cut>>
     ELSE Return(w)
  /\ UNCHANGED <<content, relations>>
TakeParent(w) ==
  /\ At(w, "reply", "parent") /\ Free(w, call[w].on)
  /\ IF Open(call[w].by, call[w].on) THEN Lock(w, call[w].on, "insert") ELSE Return(w)
  /\ UNCHANGED <<content, relations>>

Write(w, p) == \E c \in Comments :
  /\ post.there /\ c = Written + 1
  /\ comment' = [d \in Comments |->
       IF d = c THEN [Unwritten EXCEPT !.state = "shown", !.by = call[w].by, !.parent = p, !.feed = "normal"]
       ELSE [comment[d] EXCEPT !.replies = IF d = p THEN @ + 1 ELSE @]]
  /\ post' = [post EXCEPT !.replies = @ + 1]
  /\ late' = IF post.hidden THEN late \cup {c} ELSE late
\* Faulty: the insert is tried until the post is there.
InsertAgain(w) ==
  /\ At(w, "reply", "insert") /\ Free(w, 0) /\ Return(w) /\ Write(w, call[w].on)
  /\ UNCHANGED <<reactors, calls, relations>>
\* The insert waits for whoever locked the post; a post deleted meanwhile fails the call.
Insert(w) ==
  /\ At(w, "reply", "insert") /\ Free(w, 0) /\ Return(w)
  /\ Write(w, call[w].on) \/ (~post.there /\ UNCHANGED <<post, comment, late>>)
  /\ UNCHANGED <<reactors, calls, relations>>

\* delete_comment, by its author
Delete(w, c) == Exists(c) /\ Call(w, "delete", comment[c].by, c, "own")

Hide(c) == comment' = [comment EXCEPT ![c].state = "hidden", ![c].feed = "hidden"]
\* Faulty: whether there are replies is asked without the lock, which comes too late.
PeekOwn(w) ==
  /\ At(w, "delete", "own") /\ Free(w, call[w].on) /\ LET c == call[w].on IN
     IF ~(comment[c].state = "shown" /\ ~comment[c].locked) THEN Return(w) /\ UNCHANGED comment
     ELSE IF Children(c) # {} THEN Hide(c) /\ Return(w)
     ELSE call' = [call EXCEPT ![w].at = "post"] /\ UNCHANGED <<held, cut, comment>>
  /\ UNCHANGED <<post, reactors, late, calls, relations>>
\* A comment with replies is only hidden.
TakeOwn(w) ==
  /\ At(w, "delete", "own") /\ Free(w, call[w].on) /\ LET c == call[w].on IN
     IF ~(comment[c].state = "shown" /\ ~comment[c].locked) THEN Return(w) /\ UNCHANGED comment
     ELSE IF Children(c) # {} THEN Hide(c) /\ Return(w)
     ELSE Lock(w, c, "post") /\ UNCHANGED comment
  /\ UNCHANGED <<post, reactors, late, calls, relations>>
\* The counter of the post, then the one of the parent: the other way round than a reply.
TakePost(w) ==
  /\ At(w, "delete", "post") /\ Free(w, 0) /\ Lock(w, 0, "remove") /\ UNCHANGED <<content, relations>>
Less(n) == IF n > 0 THEN n - 1 ELSE 0
Remove(w) ==
  /\ At(w, "delete", "remove") /\ LET c == call[w].on  p == comment[c].parent IN
     /\ p # 0 => Free(w, p)
     /\ post' = [post EXCEPT !.replies = Less(@)]
     /\ comment' = [d \in Comments |->
          IF d = c THEN [Unwritten EXCEPT !.state = "gone"]
          ELSE [comment[d] EXCEPT !.replies = IF d = p THEN Less(@) ELSE @]]
  /\ Return(w) /\ UNCHANGED <<reactors, late, calls, relations>>

-----------------------------------------------------------------------------
(***************************************************************************)
(* The post, moderation, reactions.                                        *)
(***************************************************************************)
\* delete_post: the post, then all that hangs on it.
DeletePost(w) == post.there /\ Call(w, "delete post", Author, 0, "own post")
TakeOwnPost(w) ==
  /\ At(w, "delete post", "own post") /\ Free(w, 0)
  /\ IF post.there /\ ~post.hidden /\ ~post.locked THEN Lock(w, 0, "cascade") ELSE Return(w)
  /\ UNCHANGED <<content, relations>>
Cascade(w) ==
  /\ At(w, "delete post", "cascade") /\ \A c \in Comments : Exists(c) => Free(w, c)
  /\ post' = [post EXCEPT !.there = FALSE, !.replies = 0, !.reactions = 0] /\ reactors' = {}
  /\ comment' = [c \in Comments |-> IF Exists(c) THEN [Unwritten EXCEPT !.state = "gone"] ELSE comment[c]]
  /\ Return(w) /\ UNCHANGED <<late, calls, relations>>

\* A moderator's transaction is one step.  resolve_report also keeps the report while it waits
\* for the post or comment, and hide_post the post while it waits for activities; delete_post's
\* cascade may wait for either.  Who loses that deadlock is a RollBack, or a Moderate not taken.
Moderate(r) ==
  /\ calls < MaxCalls /\ calls' = calls + 1 /\ \A w \in Workers : r \notin held[w]
  /\ UNCHANGED <<reactors, late, relations, inHand>>
\* Faulty: the activities of the post stay in the feed.
HidePostOnly ==
  /\ post.there /\ Moderate(0) /\ post' = [post EXCEPT !.hidden = TRUE] /\ UNCHANGED comment
HidePost ==
  /\ post.there /\ Moderate(0) /\ post' = [post EXCEPT !.hidden = TRUE]
  /\ comment' = [c \in Comments |-> IF Exists(c) THEN [comment[c] EXCEPT !.feed = "hidden"] ELSE comment[c]]
LockPost == post.there /\ Moderate(0) /\ post' = [post EXCEPT !.locked = TRUE] /\ UNCHANGED comment
HideComment(c) == Exists(c) /\ Moderate(c) /\ Hide(c) /\ UNCHANGED post
LockComment(c) == Exists(c) /\ Moderate(c) /\ comment' = [comment EXCEPT ![c].locked = TRUE] /\ UNCHANGED post

\* get_or_create looks for the reaction, and again when its insert has waited.
React(w, u) == Visible(u) /\ u \notin reactors /\ Call(w, "react", u, 0, "count")
Unreact(w, u) == Visible(u) /\ Call(w, "unreact", u, 0, "count")
Count(w) ==
  /\ call[w].at = "count" /\ Free(w, 0) /\ Return(w) /\ LET u == call[w].by IN
     \/ /\ ~post.there \/ (call[w].op = "react" <=> u \in reactors)
        /\ UNCHANGED <<post, reactors>>
     \/ /\ post.there /\ call[w].op = "react" /\ u \notin reactors
        /\ reactors' = reactors \cup {u} /\ post' = [post EXCEPT !.reactions = @ + 1]
     \/ /\ post.there /\ call[w].op = "unreact" /\ u \in reactors
        /\ reactors' = reactors \ {u} /\ post' = [post EXCEPT !.reactions = Less(@)]
  /\ UNCHANGED <<comment, late, calls, relations>>

-----------------------------------------------------------------------------
(***************************************************************************)
(* Follows and blocks: rows of their own, no lock between the two.         *)
(***************************************************************************)
Relate(w, op, u, v) ==
  /\ call[w] = Idle /\ social < MaxSocial /\ social' = social + 1 /\ u # v
  /\ call' = [call EXCEPT ![w] = [op |-> op, by |-> u, on |-> v, at |-> "commit"]]
  /\ UNCHANGED <<content, follows, blocks, raced, held>>
Pair(u, v) == {<<u, v>>, <<v, u>>}
Blocking(u, v) == \E w \in Workers : call[w].op = "block" /\ <<call[w].by, call[w].on>> \in Pair(u, v)

Follow(w, u, v) == ~Blocked(u, v) /\ Relate(w, "follow", u, v) /\ UNCHANGED cut
InsertFollow(w) ==
  /\ At(w, "follow", "commit") /\ Return(w) /\ LET u == call[w].by  v == call[w].on IN
     /\ follows' = follows \cup {<<u, v>>}
     /\ raced' = IF <<u, v>> \notin follows /\ (Blocked(u, v) \/ Blocking(u, v))
                 THEN raced \cup {<<u, v>>} ELSE raced
  /\ UNCHANGED <<content, blocks, social>>
\* It waits for a block that deletes the same row.
Unfollow(u, v) ==
  /\ <<u, v>> \in follows /\ \A w \in Workers : <<u, v>> \notin cut[w]
  /\ social < MaxSocial /\ social' = social + 1
  /\ follows' = follows \ {<<u, v>>} /\ raced' = raced \ {<<u, v>>}
  /\ UNCHANGED <<content, blocks, inHand>>

\* Faulty: only the follow of the blocking user goes.
BlockOneWay(w, u, v) ==
  Relate(w, "block", u, v) /\ cut' = [cut EXCEPT ![w] = {<<u, v>>} \cap follows]
\* The follows both ways that are visible now go with the commit.
Block(w, u, v) == Relate(w, "block", u, v) /\ cut' = [cut EXCEPT ![w] = Pair(u, v) \cap follows]
CommitBlock(w) ==
  /\ At(w, "block", "commit") /\ Return(w)
  /\ blocks' = blocks \cup {<<call[w].by, call[w].on>>}
  /\ follows' = follows \ cut[w] /\ raced' = raced \ cut[w]
  /\ UNCHANGED <<content, social>>
Unblock(u, v) ==
  /\ <<u, v>> \in blocks /\ social < MaxSocial /\ social' = social + 1
  /\ blocks' = blocks \ {<<u, v>>} /\ UNCHANGED <<content, follows, raced, inHand>>

-----------------------------------------------------------------------------
(***************************************************************************)
(* The database rolls one of two calls back that wait for each other, and  *)
(* any call whose process dies.                                            *)
(***************************************************************************)
Wants(w) ==
  CASE call[w].at \in {"insert", "post", "own post", "count"} -> {0}
    [] call[w].at \in {"parent", "own"} -> {call[w].on}
    [] call[w].at = "remove"  -> {comment[call[w].on].parent} \ {0}
    [] call[w].at = "cascade" -> {c \in Comments : Exists(c)}
    [] OTHER -> {}
WaitsFor(w, v) == v # w /\ Wants(w) \cap held[v] # {}
RollBack(w) == call[w] # Idle /\ Return(w) /\ UNCHANGED <<content, relations>>
\* Whoever keeps a comment and waits, waits for the post: no longer cycle is possible.
Victim(w) == (\E v \in Workers : WaitsFor(w, v) /\ WaitsFor(v, w)) /\ RollBack(w)

Step(w) ==
  \/ TakeParent(w) \/ Insert(w) \/ TakeOwn(w) \/ TakePost(w) \/ Remove(w)
  \/ TakeOwnPost(w) \/ Cascade(w) \/ Count(w) \/ InsertFollow(w) \/ CommitBlock(w)
Request(w) ==
  \/ \E u \in Users : (\E p \in Comments \cup {0} : Reply(w, u, p)) \/ React(w, u) \/ Unreact(w, u)
  \/ (\E c \in Comments : Delete(w, c)) \/ DeletePost(w)
  \/ \E u, v \in Users : Follow(w, u, v) \/ Block(w, u, v)
Next ==
  \/ \E w \in Workers : Request(w) \/ Step(w) \/ Victim(w) \/ RollBack(w)
  \/ HidePost \/ LockPost \/ \E c \in Comments : HideComment(c) \/ LockComment(c)
  \/ \E u, v \in Users : Unfollow(u, v) \/ Unblock(u, v)

\* A request that can go on does, and the database finds deadlocks.
Fairness == \A w \in Workers : WF_vars(Step(w)) /\ WF_vars(Victim(w))
Safety == Init /\ [][Next]_vars
Spec == Safety /\ Fairness

-----------------------------------------------------------------------------
(***************************************************************************)
(* Properties.                                                             *)
(***************************************************************************)
\* The counters the lists are sorted and tombstones are shown by agree with the rows,
\* whatever replies, deletions and reactions crossed; no comment loses its parent.
RepliesCounted ==
  /\ post.replies = Cardinality({c \in Comments : Exists(c)})
  /\ post.reactions = Cardinality(reactors)
  /\ \A c \in Comments : comment[c].replies = Cardinality(Children(c))

\* What is hidden is out of the feed: only a comment that was being written while its post
\* was hidden still shows there.
HiddenOutOfFeed ==
  \A c \in Comments : comment[c].feed = "normal" /\ (post.hidden \/ comment[c].state = "hidden") => c \in late

\* A follow and a block of the same two users stand together only if the calls overlapped.
BlockStopsFollow == \A f \in follows : Blocked(f[1], f[2]) => f \in raced

\* A reply is committed under a parent that is at that moment shown and open.
NoReplyUnderHidden ==
  [][\A c \in Comments : comment[c].state = "none" /\ comment'[c].parent # 0 =>
       LET p == comment'[c].parent IN comment[p].state = "shown" /\ ~comment[p].locked]_vars

\* Does not hold (community_late.cfg): what is hidden is out of the feed without exception.
AllHiddenOutOfFeed ==
  \A c \in Comments : comment[c].feed = "normal" => ~post.hidden /\ comment[c].state # "hidden"

\* Does not hold (community_raced.cfg): nobody follows whom they block or are blocked by.
NoFollowAcrossBlock == \A f \in follows : ~Blocked(f[1], f[2])

\* Every call returns, also when two wait for each other: the database finds the cycle, and
\* whoever is rolled back does not come again on its own.
CallsReturn == \A w \in Workers : []<>(call[w] = Idle)
=============================================================================
