-------------------------- MODULE CommunityProofs --------------------------
(***************************************************************************)
(* Theorems about Community for any number of requests, users, comments    *)
(* and calls.                                                              *)
(***************************************************************************)
EXTENDS Community, FiniteSetTheorems, TLAPS

Rows  == Comments \union {0}
Pairs == Users \X Users

\* A call, by the operation it is in.
Calls ==
  [op : {"none"}, by : {Author}, on : {0}, at : {"idle"}]
    \union [op : {"reply"}, by : Users, on : Rows, at : {"insert"}]
    \union [op : {"reply"}, by : Users, on : Comments, at : {"parent"}]
    \union [op : {"delete"}, by : Users, on : Comments, at : {"own", "post", "remove"}]
    \union [op : {"delete post"}, by : {Author}, on : {0}, at : {"own post", "cascade"}]
    \union [op : {"react", "unreact"}, by : Users, on : {0}, at : {"count"}]
    \union [op : {"follow", "block"}, by : Users, on : Users, at : {"commit"}]

Post == [there : BOOLEAN, hidden : BOOLEAN, locked : BOOLEAN, replies : Nat, reactions : Nat]
Comment ==
  [state : {"none", "shown", "hidden", "gone"}, locked : BOOLEAN, by : Users, parent : Rows,
   replies : Nat, feed : {"none", "normal", "hidden"}]

TypeOK ==
  /\ post \in Post
  /\ comment \in [Comments -> Comment]
  /\ reactors \in SUBSET Users
  /\ follows \in SUBSET Pairs /\ blocks \in SUBSET Pairs
  /\ call \in [Workers -> Calls]
  /\ held \in [Workers -> SUBSET Rows]
  /\ cut \in [Workers -> SUBSET Pairs]
  /\ late \in SUBSET Comments /\ raced \in SUBSET Pairs
  /\ calls \in Nat /\ social \in Nat

\* A follow of a pair that is being blocked goes with the block, or came after it.
CutOrRaced ==
  \A w \in Workers : call[w].op = "block" =>
    \A f \in follows : f \in Pair(call[w].by, call[w].on) => f \in cut[w] \/ f \in raced

\* No two calls keep the lock of one row.
LocksApart == \A v, w \in Workers : v # w => held[v] \cap held[w] = {}

\* A reply that is about to be inserted keeps its parent, shown and open.
ParentKept(w) ==
  At(w, "reply", "insert") /\ call[w].on # 0 =>
    call[w].on \in held[w] /\ comment[call[w].on].state = "shown" /\ ~comment[call[w].on].locked
\* A deletion that goes on keeps its comment, which has no replies.
OwnKept(w) ==
  call[w].op = "delete" /\ call[w].at \in {"post", "remove"} =>
    call[w].on \in held[w] /\ Exists(call[w].on) /\ Children(call[w].on) = {}

\* Comments are numbered as they are written.
WrittenInOrder == \A c \in Comments : comment[c].state # "none" <=> c <= Written
\* Nothing is left of a comment that is not there.
NothingLeft ==
  \A c \in Comments : ~Exists(c) =>
    comment[c].feed = "none" /\ comment[c].parent = 0 /\ comment[c].replies = 0
\* A comment that is there has its parent.
ParentThere ==
  \A c \in Comments : Exists(c) /\ comment[c].parent # 0 =>
    comment[c].parent # c /\ Exists(comment[c].parent)
\* A hidden comment is not in the feed.
HiddenGone == \A c \in Comments : comment[c].state = "hidden" => comment[c].feed # "normal"

Tree == WrittenInOrder /\ NothingLeft /\ ParentThere
Feed == HiddenGone /\ HiddenOutOfFeed
Kept == \A w \in Workers : ParentKept(w) /\ OwnKept(w)

CommunityInv ==
  /\ TypeOK
  /\ CutOrRaced /\ BlockStopsFollow
  /\ LocksApart /\ Kept
  /\ Tree /\ Feed
  /\ RepliesCounted

-----------------------------------------------------------------------------
(***************************************************************************)
(* Types.                                                                  *)
(***************************************************************************)
LEMMA Constants ==
  /\ Author \in Users /\ IsFiniteSet(Users)
  /\ MaxComments \in Nat /\ MaxCalls \in Nat /\ MaxSocial \in Nat
  /\ Comments \subseteq Nat /\ 0 \notin Comments /\ IsFiniteSet(Comments)
<1>1. IsFiniteSet(1 .. MaxComments)
  BY CommunityAssumption, FS_Interval
<1>2. QED BY <1>1, CommunityAssumption DEF CommunityAssumption, Comments

LEMMA InitType == Init => TypeOK
<1>1. Unwritten \in Comment
  BY Constants DEF Unwritten, Comment, Rows
<1>2. Idle \in Calls
  BY Constants DEF Idle, Calls
<1>3. QED BY <1>1, <1>2, Constants DEF Init, TypeOK, Post

\* What a call may become.
LEMMA CallTypes ==
  ASSUME TypeOK, NEW w \in Workers
  PROVE  /\ Idle \in Calls
         /\ call[w].by \in Users
         /\ call[w].op = "reply" => call[w].on \in Rows
         /\ At(w, "reply", "parent") => call[w].on \in Comments
         /\ call[w].op = "delete" => call[w].on \in Comments
         /\ call[w].op \in {"follow", "block"} => call[w].on \in Users
         /\ call[w].op \in {"react", "unreact"} <=> call[w].at = "count"
<1>1. call[w] \in Calls
  BY DEF TypeOK
<1>2. Idle \in Calls
  BY Constants DEF Idle, Calls
<1>3. QED BY <1>1, <1>2, Constants DEF Calls, At, Rows

LEMMA MovedCall ==
  ASSUME TypeOK, NEW w \in Workers, NEW l,
         \/ At(w, "reply", "parent") /\ l = "insert"
         \/ At(w, "delete", "own") /\ l = "post"
         \/ At(w, "delete", "post") /\ l = "remove"
         \/ At(w, "delete post", "own post") /\ l = "cascade"
  PROVE  [call[w] EXCEPT !.at = l] \in Calls
<1>1. call[w] \in Calls
  BY DEF TypeOK
<1>2. QED BY <1>1, Constants DEF Calls, At, Rows

LEMMA LockType ==
  ASSUME TypeOK, NEW w \in Workers, NEW r \in Rows, NEW l, Lock(w, r, l),
         [call[w] EXCEPT !.at = l] \in Calls, UNCHANGED <<content, relations>>
  PROVE  TypeOK'
BY DEF TypeOK, Lock, content, relations

LEMMA ReturnType ==
  ASSUME TypeOK, NEW w \in Workers, Return(w)
  PROVE  /\ call' \in [Workers -> Calls]
         /\ held' \in [Workers -> SUBSET Rows]
         /\ cut' \in [Workers -> SUBSET Pairs]
BY CallTypes DEF TypeOK, Return

LEMMA RequestType ==
  ASSUME TypeOK, NEW w \in Workers, Request(w)
  PROVE  TypeOK'
<1>1. ASSUME NEW op, NEW u, NEW o, NEW l, Call(w, op, u, o, l),
             [op |-> op, by |-> u, on |-> o, at |-> l] \in Calls
      PROVE  TypeOK'
  BY <1>1 DEF TypeOK, Call, relations
<1>2. ASSUME NEW u \in Users, NEW p \in Comments \union {0}, Reply(w, u, p)
      PROVE  TypeOK'
  BY <1>2, <1>1 DEF Reply, Calls, Rows
<1>3. ASSUME NEW u \in Users, React(w, u) \/ Unreact(w, u)
      PROVE  TypeOK'
  BY <1>3, <1>1 DEF React, Unreact, Calls
<1>4. ASSUME NEW c \in Comments, Delete(w, c)
      PROVE  TypeOK'
  <2>1. comment[c].by \in Users
    BY DEF TypeOK, Comment
  <2>2. QED BY <2>1, <1>4, <1>1 DEF Delete, Calls
<1>5. CASE DeletePost(w)
  BY <1>5, <1>1 DEF DeletePost, Calls
<1>6. ASSUME NEW u \in Users, NEW v \in Users, Follow(w, u, v) \/ Block(w, u, v)
      PROVE  TypeOK'
  <2>1. /\ \E op \in {"follow", "block"} : Relate(w, op, u, v)
        /\ cut' = cut \/ cut' = [cut EXCEPT ![w] = Pair(u, v) \cap follows]
    BY <1>6 DEF Follow, Block
  <2>2. PICK op \in {"follow", "block"} : Relate(w, op, u, v)
    BY <2>1
  <2>3. [op |-> op, by |-> u, on |-> v, at |-> "commit"] \in Calls
    BY DEF Calls
  <2>4. cut' \in [Workers -> SUBSET Pairs]
    BY <2>1 DEF TypeOK
  <2>5. call' \in [Workers -> Calls] /\ social' \in Nat
    BY <2>2, <2>3 DEF TypeOK, Relate
  <2>6. UNCHANGED <<post, comment, reactors, late, calls, follows, blocks, raced, held>>
    BY <2>2 DEF Relate, content
  <2>7. QED BY <2>4, <2>5, <2>6 DEF TypeOK
<1>7. QED BY <1>2, <1>3, <1>4, <1>5, <1>6 DEF Request

LEMMA HideType ==
  ASSUME TypeOK, NEW c \in Comments, Hide(c)
  PROVE  comment' \in [Comments -> Comment]
BY DEF TypeOK, Hide, Comment

LEMMA LessType == \A n \in Nat : Less(n) \in Nat
BY DEF Less

LEMMA StepType ==
  ASSUME TypeOK, NEW w \in Workers, Step(w)
  PROVE  TypeOK'
<1>0. Author \in Users /\ 0 \in Rows /\ Comments \subseteq Rows
  BY Constants DEF Rows
<1>a. ASSUME Return(w), UNCHANGED <<content, relations>>
      PROVE  TypeOK'
  BY <1>a, ReturnType DEF TypeOK, content, relations
<1>b. ASSUME Return(w), UNCHANGED relations, calls' \in Nat, late' \in SUBSET Comments,
             post' \in Post, comment' \in [Comments -> Comment], reactors' \in SUBSET Users
      PROVE  TypeOK'
  BY <1>b, ReturnType DEF TypeOK, relations
<1>1. CASE TakeParent(w)
  <2>1. call[w].on \in Rows
    BY <1>1, <1>0, CallTypes DEF TakeParent
  <2>2. [call[w] EXCEPT !.at = "insert"] \in Calls
    BY <1>1, MovedCall DEF TakeParent
  <2>3. QED BY <2>1, <2>2, <1>1, <1>a, LockType DEF TakeParent
<1>2. CASE Insert(w)
  <2>1. CASE UNCHANGED <<post, comment, late>>
    BY <2>1, <1>2, <1>a DEF Insert, content, relations
  <2>2. CASE Write(w, call[w].on)
    <3>1. call[w].on \in Rows /\ call[w].by \in Users
      BY <1>2, CallTypes DEF Insert, At
    <3>2. [Unwritten EXCEPT !.state = "shown", !.by = call[w].by, !.parent = call[w].on, !.feed = "normal"]
            \in Comment
      BY <3>1 DEF Unwritten, Comment
    <3>3. \A d \in Comments :
            [comment[d] EXCEPT !.replies = IF d = call[w].on THEN @ + 1 ELSE @] \in Comment
      BY DEF TypeOK, Comment
    <3>4. late' \in SUBSET Comments
      BY <2>2 DEF Write, TypeOK
    <3>5. comment' \in [Comments -> Comment]
      BY <3>2, <3>3, <2>2 DEF Write
    <3>6. post' \in Post
      BY <2>2 DEF Write, TypeOK, Post
    <3>7. QED BY <3>4, <3>5, <3>6, <1>2, <1>b DEF Insert, TypeOK
  <2>3. QED BY <2>1, <2>2, <1>2 DEF Insert
<1>3. CASE TakeOwn(w)
  <2>1. call[w].on \in Comments
    BY <1>3, CallTypes DEF TakeOwn, At
  <2>2. CASE Return(w) /\ UNCHANGED comment
    BY <2>2, <1>3, <1>a DEF TakeOwn, content, relations
  <2>3. CASE Return(w) /\ Hide(call[w].on)
    BY <2>1, <2>3, <1>3, <1>b, HideType DEF TakeOwn, TypeOK
  <2>4. CASE Lock(w, call[w].on, "post") /\ UNCHANGED comment
    <3>1. [call[w] EXCEPT !.at = "post"] \in Calls
      BY <1>3, MovedCall DEF TakeOwn
    <3>2. UNCHANGED <<content, relations>>
      BY <2>4, <1>3 DEF TakeOwn, content
    <3>3. QED BY <3>1, <3>2, <2>1, <2>4, <1>0, LockType
  <2>5. QED BY <2>2, <2>3, <2>4, <1>3 DEF TakeOwn
<1>4. CASE TakePost(w)
  <2>1. [call[w] EXCEPT !.at = "remove"] \in Calls
    BY <1>4, MovedCall DEF TakePost
  <2>2. QED BY <2>1, <1>4, <1>0, LockType DEF TakePost
<1>5. CASE Remove(w)
  <2>1. [Unwritten EXCEPT !.state = "gone"] \in Comment
    BY <1>0 DEF Unwritten, Comment
  <2>2. \A d \in Comments, n \in Nat : [comment[d] EXCEPT !.replies = n] \in Comment
    BY DEF TypeOK, Comment
  <2>3. \A d \in Comments : comment[d].replies \in Nat /\ Less(comment[d].replies) \in Nat
    BY LessType DEF TypeOK, Comment
  <2>4. comment' \in [Comments -> Comment]
    BY <2>1, <2>2, <2>3, <1>5 DEF Remove, TypeOK
  <2>5. post.replies \in Nat /\ Less(post.replies) \in Nat
    BY LessType DEF TypeOK, Post
  <2>6. post' \in Post
    BY <2>5, <1>5 DEF Remove, TypeOK, Post
  <2>7. QED BY <2>4, <2>6, <1>5, <1>b DEF Remove, TypeOK
<1>6. CASE TakeOwnPost(w)
  <2>1. [call[w] EXCEPT !.at = "cascade"] \in Calls
    BY <1>6, MovedCall DEF TakeOwnPost
  <2>2. QED BY <2>1, <1>6, <1>0, <1>a, LockType DEF TakeOwnPost
<1>7. CASE Cascade(w)
  <2>1. [Unwritten EXCEPT !.state = "gone"] \in Comment
    BY <1>0 DEF Unwritten, Comment
  <2>2. comment' \in [Comments -> Comment]
    BY <2>1, <1>7 DEF Cascade, TypeOK
  <2>3. post' \in Post
    BY <1>7 DEF Cascade, TypeOK, Post
  <2>4. QED BY <2>2, <2>3, <1>7, <1>b DEF Cascade, TypeOK
<1>8. CASE Count(w)
  <2>1. post.reactions \in Nat /\ Less(post.reactions) \in Nat /\ call[w].by \in Users
    BY LessType, CallTypes DEF TypeOK, Post
  <2>2. post' \in Post /\ reactors' \in SUBSET Users
    BY <2>1, <1>8 DEF Count, TypeOK, Post
  <2>3. QED BY <2>2, <1>8, <1>b DEF Count, TypeOK
<1>9. CASE InsertFollow(w)
  <2>1. <<call[w].by, call[w].on>> \in Pairs
    BY <1>9, CallTypes DEF InsertFollow, At, Pairs
  <2>2. QED BY <2>1, <1>9, ReturnType DEF InsertFollow, TypeOK, content
<1>10. CASE CommitBlock(w)
  <2>1. <<call[w].by, call[w].on>> \in Pairs
    BY <1>10, CallTypes DEF CommitBlock, At, Pairs
  <2>2. QED BY <2>1, <1>10, ReturnType DEF CommitBlock, TypeOK, content
<1>11. QED
  BY <1>1, <1>2, <1>3, <1>4, <1>5, <1>6, <1>7, <1>8, <1>9, <1>10 DEF Step

\* The steps of moderators, and of those who unfollow and unblock.
Moderation ==
  HidePost \/ LockPost \/ \E c \in Comments : HideComment(c) \/ LockComment(c)
Undoing == \E u, v \in Users : Unfollow(u, v) \/ Unblock(u, v)

LEMMA NextCases ==
  ASSUME Next
  PROVE  \/ \E w \in Workers : Request(w) \/ Step(w) \/ RollBack(w)
         \/ Moderation \/ Undoing
BY DEF Next, Victim, Moderation, Undoing

LEMMA ModerationType ==
  ASSUME TypeOK, Moderation
  PROVE  TypeOK'
<1>1. ASSUME NEW r, Moderate(r), post' \in Post, comment' \in [Comments -> Comment]
      PROVE  TypeOK'
  BY <1>1 DEF Moderate, relations, inHand, TypeOK
<1>2. post \in Post /\ comment \in [Comments -> Comment]
  BY DEF TypeOK
<1>3. CASE HidePost
  <2>1. post' \in Post
    BY <1>2, <1>3 DEF HidePost, Post
  <2>2. comment' \in [Comments -> Comment]
    BY <1>2, <1>3 DEF HidePost, Comment
  <2>3. QED BY <2>1, <2>2, <1>1, <1>3 DEF HidePost
<1>4. CASE LockPost
  <2>1. post' \in Post
    BY <1>2, <1>4 DEF LockPost, Post
  <2>2. QED BY <2>1, <1>1, <1>2, <1>4 DEF LockPost
<1>5. ASSUME NEW c \in Comments, HideComment(c)
      PROVE  TypeOK'
  BY <1>5, <1>1, <1>2, HideType DEF HideComment
<1>6. ASSUME NEW c \in Comments, LockComment(c)
      PROVE  TypeOK'
  <2>1. comment' \in [Comments -> Comment]
    BY <1>6, <1>2 DEF LockComment, Comment
  <2>2. QED BY <2>1, <1>6, <1>1, <1>2 DEF LockComment
<1>7. QED BY <1>3, <1>4, <1>5, <1>6 DEF Moderation

LEMMA UndoingType ==
  ASSUME TypeOK, Undoing
  PROVE  TypeOK'
BY DEF Undoing, Unfollow, Unblock, TypeOK, content, inHand

LEMMA NextType == TypeOK /\ [Next]_vars => TypeOK'
<1>1. ASSUME TypeOK, NEW w \in Workers, RollBack(w)
      PROVE  TypeOK'
  BY <1>1, ReturnType DEF RollBack, TypeOK, content, relations
<1>2. ASSUME TypeOK, UNCHANGED vars
      PROVE  TypeOK'
  BY <1>2 DEF vars, content, relations, inHand, TypeOK
<1>3. QED BY <1>1, <1>2, NextCases, RequestType, StepType, ModerationType, UndoingType

\* Every reachable state of a post, its comments and the calls is well typed.
THEOREM TypeCorrect == Safety => []TypeOK
BY InitType, NextType, PTL DEF Safety

-----------------------------------------------------------------------------
(***************************************************************************)
(* Follows and blocks.                                                     *)
(***************************************************************************)
\* One call changes, and what it becomes blocks nobody.
OtherCall(w) ==
  /\ \A v \in Workers \ {w} : call'[v] = call[v] /\ cut'[v] = cut[v]
  /\ call'[w].op # "block"

LEMMA Unrelated ==
  ASSUME CutOrRaced, BlockStopsFollow, NEW w \in Workers, OtherCall(w),
         UNCHANGED <<follows, blocks, raced>>
  PROVE  CutOrRaced' /\ BlockStopsFollow'
BY DEF CutOrRaced, BlockStopsFollow, OtherCall, Blocked, Pair

LEMMA Returned ==
  ASSUME TypeOK, NEW w \in Workers, Return(w)
  PROVE  OtherCall(w)
BY DEF OtherCall, Return, Idle, TypeOK

LEMMA Locked ==
  ASSUME TypeOK, NEW w \in Workers, NEW r, NEW l, Lock(w, r, l), call[w].op # "block"
  PROVE  OtherCall(w)
BY DEF OtherCall, Lock, TypeOK

LEMMA RequestFollows ==
  ASSUME TypeOK, CutOrRaced, BlockStopsFollow, NEW w \in Workers, Request(w)
  PROVE  CutOrRaced' /\ BlockStopsFollow'
<1>1. ASSUME NEW op, NEW u, NEW o, NEW l, Call(w, op, u, o, l), op # "block"
      PROVE  CutOrRaced' /\ BlockStopsFollow'
  <2>1. OtherCall(w) /\ UNCHANGED <<follows, blocks, raced>>
    BY <1>1 DEF Call, OtherCall, relations, TypeOK
  <2>2. QED BY <2>1, Unrelated
<1>2. ASSUME NEW u \in Users, NEW v \in Users, Follow(w, u, v)
      PROVE  CutOrRaced' /\ BlockStopsFollow'
  <2>1. OtherCall(w) /\ UNCHANGED <<follows, blocks, raced>>
    BY <1>2 DEF Follow, Relate, OtherCall, TypeOK
  <2>2. QED BY <2>1, Unrelated
<1>3. ASSUME NEW u \in Users, NEW v \in Users, Block(w, u, v)
      PROVE  CutOrRaced' /\ BlockStopsFollow'
  <2>1. /\ call'[w].by = u /\ call'[w].on = v /\ cut'[w] = Pair(u, v) \cap follows
        /\ \A x \in Workers \ {w} : call'[x] = call[x] /\ cut'[x] = cut[x]
        /\ UNCHANGED <<follows, blocks, raced>>
    BY <1>3 DEF Block, Relate, TypeOK
  <2>2. QED BY <2>1 DEF CutOrRaced, BlockStopsFollow, Blocked, Pair
<1>4. QED
  BY <1>1, <1>2, <1>3 DEF Request, Reply, React, Unreact, Delete, DeletePost

LEMMA StepFollows ==
  ASSUME TypeOK, CutOrRaced, BlockStopsFollow, NEW w \in Workers, Step(w)
  PROVE  CutOrRaced' /\ BlockStopsFollow'
<1>1. CASE UNCHANGED relations
  <2>1. OtherCall(w)
    <3>1. CASE Return(w)
      BY <3>1, Returned
    <3>2. ASSUME NEW r, NEW l, Lock(w, r, l), call[w].op # "block"
          PROVE  OtherCall(w)
      BY <3>2, Locked
    <3>3. CASE InsertFollow(w) \/ CommitBlock(w)
      BY <3>1, <3>3 DEF InsertFollow, CommitBlock
    <3>4. CASE TakeParent(w) \/ Insert(w) \/ TakeOwn(w)
      BY <3>1, <3>2, <3>4 DEF TakeParent, Insert, TakeOwn, At
    <3>5. CASE TakePost(w) \/ Remove(w) \/ TakeOwnPost(w) \/ Cascade(w) \/ Count(w)
      BY <3>1, <3>2, <3>5 DEF TakePost, Remove, TakeOwnPost, Cascade, Count, At
    <3>6. QED BY <3>3, <3>4, <3>5 DEF Step
  <2>2. UNCHANGED <<follows, blocks, raced>>
    BY <1>1 DEF relations
  <2>3. QED BY <2>1, <2>2, Unrelated
<1>2. CASE InsertFollow(w)
  <2>1. OtherCall(w) /\ call[w].op = "follow"
    BY <1>2, Returned DEF InsertFollow, At
  <2>2. PICK u, v : u = call[w].by /\ v = call[w].on
    OBVIOUS
  <2>3. /\ follows' = follows \cup {<<u, v>>} /\ UNCHANGED blocks
        /\ raced \subseteq raced'
        /\ <<u, v>> \notin follows /\ (Blocked(u, v) \/ Blocking(u, v)) => <<u, v>> \in raced'
    BY <1>2, <2>2 DEF InsertFollow
  <2>4. CutOrRaced'
    <3>1. SUFFICES ASSUME NEW x \in Workers, call'[x].op = "block",
                          NEW f \in follows', f \in Pair(call'[x].by, call'[x].on)
                   PROVE  f \in cut'[x] \/ f \in raced'
      BY DEF CutOrRaced, Pair
    <3>2. x # w /\ call'[x] = call[x] /\ cut'[x] = cut[x]
      BY <2>1, <3>1 DEF OtherCall
    <3>3. CASE f \in follows
      BY <3>1, <3>2, <3>3, <2>3 DEF CutOrRaced
    <3>4. CASE f = <<u, v>> /\ f \notin follows
      <4>1. <<call[x].by, call[x].on>> \in Pair(u, v)
        BY <3>1, <3>2, <3>4 DEF Pair
      <4>2. Blocking(u, v)
        BY <4>1, <3>1, <3>2 DEF Blocking
      <4>3. QED BY <4>2, <3>4, <2>3
    <3>5. QED BY <3>3, <3>4, <2>3
  <2>5. BlockStopsFollow'
    BY <2>3 DEF BlockStopsFollow, Blocked
  <2>6. QED BY <2>4, <2>5
<1>3. CASE CommitBlock(w)
  <2>1. OtherCall(w) /\ call[w].op = "block"
    BY <1>3, Returned DEF CommitBlock, At
  <2>2. /\ blocks' = blocks \cup {<<call[w].by, call[w].on>>}
        /\ follows' = follows \ cut[w] /\ raced' = raced \ cut[w]
    BY <1>3 DEF CommitBlock
  <2>3. CutOrRaced'
    BY <2>1, <2>2 DEF CutOrRaced, OtherCall, Pair
  <2>4. BlockStopsFollow'
    <3>1. SUFFICES ASSUME NEW f \in follows', Blocked(f[1], f[2])'
                   PROVE  f \in raced'
      BY DEF BlockStopsFollow
    <3>2. f \in follows /\ f \notin cut[w] /\ f = <<f[1], f[2]>>
      BY <2>2 DEF TypeOK, Pairs
    <3>3. CASE Blocked(f[1], f[2])
      BY <3>2, <3>3, <2>2 DEF BlockStopsFollow
    <3>4. CASE ~Blocked(f[1], f[2])
      <4>1. f \in Pair(call[w].by, call[w].on)
        BY <3>1, <3>2, <3>4, <2>2 DEF Blocked, Pair
      <4>2. QED BY <4>1, <3>2, <2>1, <2>2 DEF CutOrRaced
    <3>5. QED BY <3>3, <3>4
  <2>5. QED BY <2>3, <2>4
<1>4. UNCHANGED relations \/ InsertFollow(w) \/ CommitBlock(w)
  BY DEF Step, TakeParent, Insert, TakeOwn, TakePost, Remove, TakeOwnPost, Cascade, Count
<1>5. QED BY <1>1, <1>2, <1>3, <1>4

LEMMA InitFollows == Init => CutOrRaced /\ BlockStopsFollow
BY DEF Init, CutOrRaced, BlockStopsFollow, Idle

LEMMA NextFollows ==
  TypeOK /\ CutOrRaced /\ BlockStopsFollow /\ [Next]_vars => CutOrRaced' /\ BlockStopsFollow'
<1> SUFFICES ASSUME TypeOK, CutOrRaced, BlockStopsFollow, [Next]_vars
             PROVE  CutOrRaced' /\ BlockStopsFollow'
  OBVIOUS
<1>1. CASE UNCHANGED <<call, cut, relations>>
  BY <1>1 DEF CutOrRaced, BlockStopsFollow, relations, Blocked, Pair
<1>2. ASSUME NEW w \in Workers, RollBack(w)
      PROVE  CutOrRaced' /\ BlockStopsFollow'
  BY <1>2, Returned, Unrelated DEF RollBack, relations
<1>3. CASE Moderation
  BY <1>3, <1>1 DEF Moderation, HidePost, LockPost, HideComment, LockComment, Moderate, inHand
<1>4. ASSUME NEW u \in Users, NEW v \in Users, Unfollow(u, v)
      PROVE  CutOrRaced' /\ BlockStopsFollow'
  BY <1>4 DEF Unfollow, inHand, CutOrRaced, BlockStopsFollow, Blocked, Pair
<1>5. ASSUME NEW u \in Users, NEW v \in Users, Unblock(u, v)
      PROVE  CutOrRaced' /\ BlockStopsFollow'
  BY <1>5 DEF Unblock, inHand, CutOrRaced, BlockStopsFollow, Blocked, Pair
<1>6. CASE UNCHANGED vars
  BY <1>6, <1>1 DEF vars, inHand
<1>7. QED
  BY <1>2, <1>3, <1>4, <1>5, <1>6, NextCases, RequestFollows, StepFollows DEF Undoing

\* For any number of users and calls, a follow stands beside a block of the same two users
\* only when the calls that made them overlapped.
THEOREM BlockedUnfollowed == Safety => []BlockStopsFollow
<1>1. TypeOK /\ CutOrRaced /\ BlockStopsFollow /\ [Next]_vars
        => (TypeOK /\ CutOrRaced /\ BlockStopsFollow)'
  BY NextType, NextFollows
<1>2. QED BY <1>1, InitType, InitFollows, PTL DEF Safety

-----------------------------------------------------------------------------
(***************************************************************************)
(* Locks.                                                                  *)
(***************************************************************************)
\* The comment that a call keeps stays what it is, and gets no reply.
RowKept(v) ==
  \A c \in held[v] \cap Comments : c = call[v].on /\ Exists(c) =>
    /\ comment'[c].state = comment[c].state
    /\ comment'[c].locked = comment[c].locked
    /\ Children(c)' \subseteq Children(c)
SameCall(v) == call'[v] = call[v] /\ held'[v] = held[v]

LEMMA CallKept ==
  ASSUME TypeOK, NEW v \in Workers, ParentKept(v), OwnKept(v), RowKept(v), SameCall(v)
  PROVE  ParentKept(v)' /\ OwnKept(v)'
<1>1. ASSUME At(v, "reply", "insert"), call[v].on # 0
      PROVE  call[v].on \in Comments /\ Exists(call[v].on)
  BY <1>1, CallTypes DEF ParentKept, At, Rows, Exists
<1>2. ASSUME call[v].op = "delete"
      PROVE  call[v].on \in Comments
  BY <1>2, CallTypes
<1>3. ParentKept(v)'
  BY <1>1 DEF ParentKept, RowKept, SameCall, At
<1>4. OwnKept(v)'
  <2>1. SUFFICES ASSUME call[v].op = "delete", call[v].at \in {"post", "remove"}
                 PROVE  OwnKept(v)'
    BY DEF OwnKept, SameCall
  <2>2. PICK c \in Comments : c = call[v].on
    BY <2>1, <1>2
  <2>3. c \in held[v] /\ Exists(c) /\ Children(c) = {}
    BY <2>1, <2>2 DEF OwnKept
  <2>4. comment'[c].state = comment[c].state /\ Children(c)' = {}
    BY <2>2, <2>3 DEF RowKept
  <2>5. Exists(c)'
    BY <2>3, <2>4 DEF Exists
  <2>6. call'[v].on = c /\ held'[v] = held[v]
    BY <2>2 DEF SameCall
  <2>7. QED BY <2>3, <2>4, <2>5, <2>6 DEF OwnKept
<1>5. QED BY <1>3, <1>4

LEMMA ReturnKept ==
  ASSUME TypeOK, LocksApart, Kept, NEW w \in Workers, Return(w),
         \A v \in Workers \ {w} : RowKept(v)
  PROVE  LocksApart' /\ Kept'
<1>1. /\ call'[w] = Idle /\ held'[w] = {}
      /\ \A v \in Workers \ {w} : SameCall(v)
  BY DEF Return, TypeOK, SameCall
<1>2. ParentKept(w)' /\ OwnKept(w)'
  BY <1>1 DEF ParentKept, OwnKept, At, Idle
<1>3. \A v \in Workers \ {w} : ParentKept(v)' /\ OwnKept(v)'
  BY <1>1, CallKept DEF Kept
<1>4. LocksApart'
  BY <1>1 DEF LocksApart, SameCall
<1>5. QED BY <1>2, <1>3, <1>4 DEF Kept

LEMMA LockKept ==
  ASSUME TypeOK, LocksApart, Kept, NEW w \in Workers, NEW r, NEW l, Lock(w, r, l), Free(w, r),
         UNCHANGED comment, ParentKept(w)', OwnKept(w)'
  PROVE  LocksApart' /\ Kept'
<1>1. /\ held'[w] = held[w] \cup {r}
      /\ \A v \in Workers \ {w} : SameCall(v) /\ RowKept(v)
  BY DEF Lock, TypeOK, SameCall, RowKept, Children, Exists
<1>2. \A v \in Workers \ {w} : ParentKept(v)' /\ OwnKept(v)'
  BY <1>1, CallKept DEF Kept
<1>3. LocksApart'
  BY <1>1 DEF LocksApart, Free, SameCall
<1>4. QED BY <1>2, <1>3 DEF Kept

LEMMA RequestKept ==
  ASSUME TypeOK, LocksApart, Kept, NEW w \in Workers, Request(w)
  PROVE  LocksApart' /\ Kept'
<1>1. ASSUME UNCHANGED held, UNCHANGED comment,
             \A v \in Workers \ {w} : call'[v] = call[v], ParentKept(w)', OwnKept(w)'
      PROVE  LocksApart' /\ Kept'
  <2>1. \A v \in Workers \ {w} : SameCall(v) /\ RowKept(v)
    BY <1>1 DEF SameCall, RowKept, Children, Exists
  <2>2. \A v \in Workers \ {w} : ParentKept(v)' /\ OwnKept(v)'
    BY <2>1, CallKept DEF Kept
  <2>3. QED BY <2>2, <1>1 DEF Kept, LocksApart
<1>2. ASSUME NEW op, NEW u, NEW o, NEW l, Call(w, op, u, o, l),
             op = "reply" /\ l = "insert" => o = 0, op = "delete" => l = "own"
      PROVE  LocksApart' /\ Kept'
  <2>1. /\ call'[w] = [op |-> op, by |-> u, on |-> o, at |-> l]
        /\ \A v \in Workers \ {w} : call'[v] = call[v]
        /\ UNCHANGED held /\ UNCHANGED comment
    BY <1>2 DEF Call, TypeOK
  <2>2. ParentKept(w)' /\ OwnKept(w)'
    BY <2>1, <1>2 DEF ParentKept, OwnKept, At
  <2>3. QED BY <2>1, <2>2, <1>1
<1>3. ASSUME NEW u \in Users, NEW v \in Users, NEW op \in {"follow", "block"}, Relate(w, op, u, v)
      PROVE  LocksApart' /\ Kept'
  <2>1. /\ call'[w].op = op
        /\ \A x \in Workers \ {w} : call'[x] = call[x]
        /\ UNCHANGED held /\ UNCHANGED comment
    BY <1>3 DEF Relate, TypeOK, content
  <2>2. ParentKept(w)' /\ OwnKept(w)'
    BY <2>1 DEF ParentKept, OwnKept, At
  <2>3. QED BY <2>1, <2>2, <1>1
<1>4. ASSUME NEW u \in Users, NEW p \in Comments \union {0}, Reply(w, u, p)
      PROVE  LocksApart' /\ Kept'
  BY <1>4, <1>2 DEF Reply
<1>5. QED
  BY <1>2, <1>3, <1>4 DEF Request, React, Unreact, Delete, DeletePost, Follow, Block

\* The comment that is hidden is there before and after, and keeps its place.
LEMMA HideRow ==
  ASSUME TypeOK, NEW c \in Comments, Exists(c), Hide(c)
  PROVE  /\ \A d \in Comments : Exists(d)' <=> Exists(d)
         /\ \A d \in Comments : comment'[d].parent = comment[d].parent
         /\ \A d \in Comments \ {c} : comment'[d] = comment[d]
         /\ \A d \in Comments : Children(d)' = Children(d)
<1>1. \A d \in Comments \ {c} : comment'[d] = comment[d]
  BY DEF TypeOK, Hide
<1>2. comment'[c].state = "hidden" /\ comment'[c].parent = comment[c].parent
  BY DEF TypeOK, Hide, Comment
<1>3. \A d \in Comments : (Exists(d)' <=> Exists(d)) /\ comment'[d].parent = comment[d].parent
  BY <1>1, <1>2 DEF Exists
<1>4. \A d \in Comments : Children(d)' = Children(d)
  BY <1>3 DEF Children
<1>5. QED BY <1>1, <1>3, <1>4

LEMMA StepKept ==
  ASSUME TypeOK, LocksApart, Kept, Tree, NEW w \in Workers, Step(w)
  PROVE  LocksApart' /\ Kept'
<1>a. ASSUME Return(w), UNCHANGED comment
      PROVE  LocksApart' /\ Kept'
  <2>1. \A v \in Workers \ {w} : RowKept(v)
    BY <1>a DEF RowKept, Children, Exists
  <2>2. QED BY <2>1, <1>a, ReturnKept
<1>1. CASE TakeParent(w)
  <2>1. CASE Return(w)
    BY <2>1, <1>1, <1>a DEF TakeParent, content
  <2>2. CASE Open(call[w].by, call[w].on) /\ Lock(w, call[w].on, "insert")
    <3>1. /\ call'[w].op = "reply" /\ call'[w].on = call[w].on
          /\ held'[w] = held[w] \cup {call[w].on} /\ UNCHANGED comment
      BY <2>2, <1>1 DEF TakeParent, At, Lock, TypeOK, content
    <3>2. ParentKept(w)' /\ OwnKept(w)'
      BY <3>1, <2>2 DEF ParentKept, OwnKept, At, Open
    <3>3. QED BY <3>1, <3>2, <2>2, <1>1, LockKept DEF TakeParent
  <2>3. QED BY <2>1, <2>2, <1>1 DEF TakeParent
<1>2. CASE Insert(w)
  <2>1. CASE UNCHANGED <<post, comment, late>>
    BY <2>1, <1>2, <1>a DEF Insert
  <2>2. ASSUME Write(w, call[w].on), NEW v \in Workers \ {w}, NEW x \in held[v] \cap Comments, Exists(x)
        PROVE  /\ comment'[x].state = comment[x].state /\ comment'[x].locked = comment[x].locked
               /\ Children(x)' \subseteq Children(x)
    <3>1. PICK p : p = call[w].on
      OBVIOUS
    <3>2. PICK c \in Comments :
            /\ c = Written + 1
            /\ comment' = [d \in Comments |->
                 IF d = c THEN [Unwritten EXCEPT !.state = "shown", !.by = call[w].by, !.parent = p, !.feed = "normal"]
                 ELSE [comment[d] EXCEPT !.replies = IF d = p THEN @ + 1 ELSE @]]
      BY <2>2, <3>1 DEF Write
    <3>3. comment[c].state = "none"
      <4>1. Written \in Nat
        <5>1. {d \in Comments : comment[d].state # "none"} \in SUBSET Comments
          OBVIOUS
        <5>2. QED BY <5>1, Constants, FS_Subset, FS_CardinalityType DEF Written
      <4>2. ~(c <= Written)
        BY <4>1, <3>2
      <4>3. QED BY <4>2 DEF Tree, WrittenInOrder
    <3>4. x # c
      BY <3>3, <2>2 DEF Exists
    <3>5. x # p
      <4>1. x # 0
        BY Constants
      <4>2. p # 0 => p \in held[w]
        BY <1>2, <3>1 DEF Insert, Kept, ParentKept
      <4>3. QED BY <4>1, <4>2 DEF LocksApart
    <3>6. comment'[c].parent = p
      BY <3>2 DEF Unwritten
    <3>7. \A d \in Comments \ {c} :
            /\ comment'[d].state = comment[d].state /\ comment'[d].parent = comment[d].parent
            /\ comment'[d].locked = comment[d].locked
      BY <3>2 DEF TypeOK, Comment
    <3>8. Children(x)' \subseteq Children(x)
      BY <3>5, <3>6, <3>7 DEF Children, Exists
    <3>9. QED BY <3>4, <3>7, <3>8
  <2>3. CASE Write(w, call[w].on)
    <3>1. \A v \in Workers \ {w} : RowKept(v)
      BY <2>2, <2>3 DEF RowKept
    <3>2. QED BY <3>1, <1>2, ReturnKept DEF Insert
  <2>4. QED BY <2>1, <2>3, <1>2 DEF Insert
<1>3. CASE TakeOwn(w)
  <2>1. PICK c \in Comments : c = call[w].on
    BY <1>3, CallTypes DEF TakeOwn, At
  <2>2. CASE Return(w) /\ UNCHANGED comment
    BY <2>2, <1>a
  <2>3. CASE comment[c].state = "shown" /\ Hide(c) /\ Return(w)
    <3>1. \A d \in Comments : Children(d)' = Children(d)
      BY <2>3, HideRow DEF Exists
    <3>2. \A d \in Comments \ {c} : comment'[d] = comment[d]
      BY <2>3 DEF Hide, TypeOK
    <3>3. \A v \in Workers \ {w} : c \notin held[v]
      BY <1>3, <2>1 DEF TakeOwn, Free
    <3>4. \A v \in Workers \ {w} : RowKept(v)
      BY <3>1, <3>2, <3>3 DEF RowKept
    <3>5. QED BY <3>4, <2>3, ReturnKept
  <2>4. CASE comment[c].state = "shown" /\ Children(c) = {} /\ Lock(w, c, "post") /\ UNCHANGED comment
    <3>1. call'[w].op = "delete" /\ call'[w].on = c /\ held'[w] = held[w] \cup {c}
      BY <2>1, <2>4, <1>3 DEF TakeOwn, At, Lock, TypeOK
    <3>2. Exists(c)' /\ Children(c)' = {}
      BY <2>4 DEF Exists, Children
    <3>3. ParentKept(w)' /\ OwnKept(w)'
      BY <3>1, <3>2 DEF ParentKept, OwnKept, At
    <3>4. Free(w, c)
      BY <1>3, <2>1 DEF TakeOwn
    <3>5. QED BY <3>3, <3>4, <2>4, LockKept
  <2>5. QED BY <2>1, <2>2, <2>3, <2>4, <1>3 DEF TakeOwn
<1>4. CASE TakePost(w)
  <2>1. PICK c \in Comments : c = call[w].on
    BY <1>4, CallTypes DEF TakePost, At
  <2>2. /\ call'[w].op = "delete" /\ call'[w].on = c /\ held'[w] = held[w] \cup {0}
        /\ UNCHANGED comment /\ Lock(w, 0, "remove") /\ Free(w, 0)
    BY <1>4, <2>1 DEF TakePost, At, Lock, TypeOK, content
  <2>3. c \in held[w] /\ Exists(c) /\ Children(c) = {}
    BY <1>4, <2>1 DEF TakePost, At, Kept, OwnKept
  <2>4. Exists(c)' /\ Children(c)' = {}
    BY <2>2, <2>3 DEF Exists, Children
  <2>5. ParentKept(w)' /\ OwnKept(w)'
    BY <2>2, <2>3, <2>4 DEF ParentKept, OwnKept, At
  <2>6. QED BY <2>2, <2>5, LockKept
<1>5. CASE Remove(w)
  <2>1. PICK c \in Comments : c = call[w].on
    BY <1>5, CallTypes DEF Remove, At
  <2>2. c \in held[w] /\ Exists(c)
    BY <1>5, <2>1 DEF Remove, At, Kept, OwnKept
  <2>3. /\ comment'[c].state = "gone"
        /\ \A d \in Comments \ {c} :
             /\ comment'[d].state = comment[d].state /\ comment'[d].parent = comment[d].parent
             /\ comment'[d].locked = comment[d].locked
    BY <1>5, <2>1 DEF Remove, TypeOK, Comment, Unwritten
  <2>4. \A d \in Comments : Children(d)' \subseteq Children(d)
    BY <2>3 DEF Children, Exists
  <2>5. \A v \in Workers \ {w} : c \notin held[v]
    BY <2>2 DEF LocksApart
  <2>6. \A v \in Workers \ {w} : RowKept(v)
    BY <2>3, <2>4, <2>5 DEF RowKept
  <2>7. QED BY <2>6, <1>5, ReturnKept DEF Remove
<1>6. CASE TakeOwnPost(w)
  <2>1. CASE Return(w)
    BY <2>1, <1>6, <1>a DEF TakeOwnPost, content
  <2>2. CASE Lock(w, 0, "cascade")
    <3>0. call[w].op = "delete post" /\ UNCHANGED comment
      BY <1>6 DEF TakeOwnPost, At, content
    <3>1. call'[w].op = "delete post"
      BY <3>0, <2>2, CallTypes DEF Lock, TypeOK, Calls
    <3>2. ParentKept(w)' /\ OwnKept(w)'
      BY <3>1 DEF ParentKept, OwnKept, At
    <3>3. QED BY <3>0, <3>2, <2>2, <1>6, LockKept DEF TakeOwnPost
  <2>3. QED BY <2>1, <2>2, <1>6 DEF TakeOwnPost
<1>7. CASE Cascade(w)
  <2>1. \A v \in Workers \ {w} : RowKept(v)
    BY <1>7 DEF Cascade, Free, RowKept
  <2>2. QED BY <2>1, <1>7, ReturnKept DEF Cascade
<1>8. CASE Count(w) \/ InsertFollow(w) \/ CommitBlock(w)
  BY <1>8, <1>a DEF Count, InsertFollow, CommitBlock, content
<1>9. QED
  BY <1>1, <1>2, <1>3, <1>4, <1>5, <1>6, <1>7, <1>8 DEF Step

LEMMA OutsideKept ==
  ASSUME TypeOK, LocksApart, Kept, UNCHANGED <<call, held>>, \A v \in Workers : RowKept(v)
  PROVE  LocksApart' /\ Kept'
BY CallKept DEF LocksApart, Kept, SameCall

\* What moderation leaves of the comments: who is there, where, and how many replies each has.
SamePlaces ==
  \A d \in Comments :
    /\ Exists(d)' <=> Exists(d)
    /\ comment'[d].state = "none" <=> comment[d].state = "none"
    /\ comment'[d].parent = comment[d].parent /\ comment'[d].replies = comment[d].replies
    /\ ~Exists(d) => comment'[d] = comment[d]

LEMMA ModeratedPlaces ==
  ASSUME TypeOK, Moderation
  PROVE  SamePlaces
<1>1. CASE HidePost
  BY <1>1 DEF HidePost, TypeOK, Comment, Exists, SamePlaces
<1>2. CASE LockPost
  BY <1>2 DEF LockPost, Exists, SamePlaces
<1>3. ASSUME NEW c \in Comments, HideComment(c)
      PROVE  SamePlaces
  BY <1>3 DEF HideComment, Hide, TypeOK, Comment, Exists, SamePlaces
<1>4. ASSUME NEW c \in Comments, LockComment(c)
      PROVE  SamePlaces
  BY <1>4 DEF LockComment, TypeOK, Comment, Exists, SamePlaces
<1>5. QED BY <1>1, <1>2, <1>3, <1>4 DEF Moderation

LEMMA SameChildren ==
  ASSUME SamePlaces
  PROVE  /\ \A d \in Comments : Children(d)' = Children(d)
         /\ {d \in Comments : Exists(d)}' = {d \in Comments : Exists(d)}
         /\ Written' = Written
BY DEF SamePlaces, Children, Written

LEMMA ModerationKept ==
  ASSUME TypeOK, LocksApart, Kept, Moderation
  PROVE  LocksApart' /\ Kept'
<1>1. \A d \in Comments : Children(d)' = Children(d)
  BY ModeratedPlaces, SameChildren
<1>2. UNCHANGED <<call, held>>
  BY DEF Moderation, HidePost, LockPost, HideComment, LockComment, Moderate, inHand
<1>3. ASSUME NEW v \in Workers, NEW c \in held[v] \cap Comments
      PROVE  comment'[c].state = comment[c].state /\ comment'[c].locked = comment[c].locked
  <2>1. CASE HidePost
    BY <2>1 DEF HidePost, TypeOK, Comment
  <2>2. CASE LockPost
    BY <2>2 DEF LockPost
  <2>3. ASSUME NEW d \in Comments, HideComment(d)
        PROVE  comment'[c] = comment[c]
    BY <2>3 DEF HideComment, Hide, Moderate, TypeOK
  <2>4. ASSUME NEW d \in Comments, LockComment(d)
        PROVE  comment'[c] = comment[c]
    BY <2>4 DEF LockComment, Moderate, TypeOK
  <2>5. QED BY <2>1, <2>2, <2>3, <2>4 DEF Moderation
<1>4. QED BY <1>1, <1>2, <1>3, OutsideKept DEF RowKept

LEMMA InitKept == Init => LocksApart /\ Kept
BY DEF Init, LocksApart, Kept, ParentKept, OwnKept, At, Idle

LEMMA NextKept ==
  ASSUME TypeOK, LocksApart, Kept, Tree, [Next]_vars
  PROVE  LocksApart' /\ Kept'
<1>1. ASSUME UNCHANGED <<call, held, comment>>
      PROVE  LocksApart' /\ Kept'
  <2>1. \A v \in Workers : RowKept(v)
    BY <1>1 DEF RowKept, Children, Exists
  <2>2. QED BY <2>1, <1>1, OutsideKept
<1>2. CASE Undoing \/ UNCHANGED vars
  BY <1>2, <1>1 DEF Undoing, Unfollow, Unblock, vars, content, inHand
<1>3. ASSUME NEW w \in Workers, RollBack(w)
      PROVE  LocksApart' /\ Kept'
  <2>1. \A v \in Workers \ {w} : RowKept(v)
    BY <1>3 DEF RollBack, content, RowKept, Children, Exists
  <2>2. QED BY <2>1, <1>3, ReturnKept DEF RollBack
<1>4. QED BY <1>2, <1>3, NextCases, RequestKept, StepKept, ModerationKept

-----------------------------------------------------------------------------
(***************************************************************************)
(* The comments, their places and their counters.                          *)
(***************************************************************************)
LEMMA FiniteRows ==
  /\ IsFiniteSet({c \in Comments : comment[c].state # "none"}) /\ Written \in Nat
  /\ IsFiniteSet({c \in Comments : Exists(c)})
  /\ Cardinality({c \in Comments : Exists(c)}) \in Nat
  /\ \A c \in Comments : IsFiniteSet(Children(c)) /\ Cardinality(Children(c)) \in Nat
<1>1. \A S \in SUBSET Comments : IsFiniteSet(S) /\ Cardinality(S) \in Nat
  BY Constants, FS_Subset, FS_CardinalityType
<1>2. {c \in Comments : comment[c].state # "none"} \in SUBSET Comments
  OBVIOUS
<1>3. {c \in Comments : Exists(c)} \in SUBSET Comments
  OBVIOUS
<1>4. \A c \in Comments : Children(c) \in SUBSET Comments
  BY DEF Children
<1>5. QED BY <1>1, <1>2, <1>3, <1>4 DEF Written

\* One comment more, and one less.
LEMMA AddOne ==
  ASSUME NEW S, NEW x, IsFiniteSet(S), x \notin S
  PROVE  Cardinality(S \cup {x}) = Cardinality(S) + 1
BY FS_AddElement
LEMMA TakeOne ==
  ASSUME NEW S, NEW x \in S, IsFiniteSet(S)
  PROVE  Cardinality(S \ {x}) = Less(Cardinality(S))
<1>1. Cardinality(S \ {x}) = Cardinality(S) - 1
  BY FS_RemoveElement
<1>2. Cardinality(S \ {x}) \in Nat /\ Cardinality(S) \in Nat
  BY FS_RemoveElement, FS_CardinalityType
<1>3. QED BY <1>1, <1>2 DEF Less

LEMMA SameTree ==
  ASSUME TypeOK, Tree, RepliesCounted, SamePlaces,
         post'.replies = post.replies, post'.reactions = post.reactions, UNCHANGED reactors
  PROVE  Tree' /\ RepliesCounted'
<1>0. \A d \in Comments : Exists(d)' <=> Exists(d)
  BY DEF SamePlaces
<1>1. /\ \A d \in Comments : Children(d)' = Children(d)
      /\ {d \in Comments : Exists(d)}' = {d \in Comments : Exists(d)}
      /\ Written' = Written
  BY SameChildren
<1>2. WrittenInOrder' /\ NothingLeft'
  BY <1>1 DEF Tree, WrittenInOrder, NothingLeft, SamePlaces
<1>3. ParentThere'
  <2>1. SUFFICES ASSUME NEW c \in Comments, Exists(c)', comment'[c].parent # 0
                 PROVE  comment'[c].parent # c /\ Exists(comment[c].parent)'
    BY DEF ParentThere, SamePlaces, Exists
  <2>2. Exists(c) /\ comment[c].parent # 0
    BY <2>1 DEF SamePlaces
  <2>3. PICK q \in Comments : q = comment[c].parent
    BY <2>2 DEF TypeOK, Comment, Rows
  <2>4. q # c /\ Exists(q)
    BY <2>2, <2>3 DEF Tree, ParentThere
  <2>5. QED BY <2>3, <2>4, <1>0 DEF SamePlaces
<1>4. RepliesCounted'
  BY <1>1 DEF RepliesCounted, SamePlaces
<1>5. QED BY <1>2, <1>3, <1>4 DEF Tree

\* An insert adds a comment that was not there, under a parent that is.
LEMMA WriteTree ==
  ASSUME TypeOK, Tree, RepliesCounted, NEW w \in Workers, At(w, "reply", "insert"), ParentKept(w),
         Write(w, call[w].on), UNCHANGED reactors
  PROVE  Tree' /\ RepliesCounted'
<1>1. PICK p \in Rows : p = call[w].on
  BY CallTypes DEF At
<1>2. p # 0 => p \in Comments /\ comment[p].state = "shown"
  BY <1>1 DEF ParentKept, Rows
<1>3. PICK c \in Comments :
        /\ c = Written + 1
        /\ comment' = [d \in Comments |->
             IF d = c THEN [Unwritten EXCEPT !.state = "shown", !.by = call[w].by, !.parent = p, !.feed = "normal"]
             ELSE [comment[d] EXCEPT !.replies = IF d = p THEN @ + 1 ELSE @]]
        /\ post' = [post EXCEPT !.replies = @ + 1]
  BY <1>1 DEF Write
<1>4. comment[c].state = "none"
  <2>1. ~(c <= Written)
    BY <1>3, FiniteRows
  <2>2. QED BY <2>1 DEF Tree, WrittenInOrder
<1>5. ~Exists(c) /\ p # c /\ c # 0
  BY <1>2, <1>4, Constants DEF Exists
<1>6. /\ comment'[c].state = "shown" /\ comment'[c].parent = p /\ comment'[c].replies = 0
      /\ comment'[c].feed = "normal"
  BY <1>3 DEF Unwritten
<1>7. \A d \in Comments \ {c} :
        /\ comment'[d].state = comment[d].state /\ comment'[d].parent = comment[d].parent
        /\ comment'[d].feed = comment[d].feed
        /\ comment'[d].replies = IF d = p THEN comment[d].replies + 1 ELSE comment[d].replies
  BY <1>3 DEF TypeOK, Comment
<1>8. /\ \A d \in Comments : Exists(d)' <=> d = c \/ Exists(d)
      /\ \A d \in Comments : comment'[d].state # "none" <=> d = c \/ comment[d].state # "none"
  BY <1>4, <1>6, <1>7 DEF Exists
<1>9. Written' = Written + 1
  <2>1. {d \in Comments : comment[d].state # "none"}' = {d \in Comments : comment[d].state # "none"} \cup {c}
    BY <1>8
  <2>2. QED BY <2>1, <1>4, FiniteRows, AddOne DEF Written
<1>10. WrittenInOrder'
  <2>1. ASSUME NEW d \in Comments
        PROVE  comment'[d].state # "none" <=> d <= Written'
    <3>1. d \in Nat /\ Written \in Nat /\ (comment[d].state # "none" <=> d <= Written)
      BY FiniteRows, Constants DEF Tree, WrittenInOrder
    <3>2. comment'[d].state # "none" <=> d = c \/ d <= Written
      BY <3>1, <1>8
    <3>3. QED BY <3>1, <3>2, <1>3, <1>9
  <2>2. QED BY <2>1 DEF WrittenInOrder
<1>11. NothingLeft'
  <2>1. SUFFICES ASSUME NEW d \in Comments, ~Exists(d)'
                 PROVE  comment'[d].feed = "none" /\ comment'[d].parent = 0 /\ comment'[d].replies = 0
    BY DEF NothingLeft
  <2>2. d # c /\ ~Exists(d) /\ d # p
    BY <2>1, <1>2, <1>8, Constants DEF Exists
  <2>3. QED BY <2>2, <1>7 DEF Tree, NothingLeft
<1>12. ParentThere'
  <2>1. SUFFICES ASSUME NEW d \in Comments, Exists(d)', comment'[d].parent # 0,
                        NEW q, q = comment'[d].parent
                 PROVE  q # d /\ comment'[q].state \in {"shown", "hidden"}
    BY DEF ParentThere, Exists
  <2>2. CASE d = c
    BY <2>1, <2>2, <1>2, <1>5, <1>6, <1>7
  <2>3. CASE d # c
    <3>1. Exists(d) /\ q = comment[d].parent
      BY <2>1, <2>3, <1>7, <1>8
    <3>2. q # d /\ Exists(q) /\ q \in Comments
      BY <3>1, <2>1, Constants DEF Tree, ParentThere, TypeOK, Comment, Rows
    <3>3. QED BY <3>2, <1>8 DEF Exists
  <2>4. QED BY <2>2, <2>3
<1>13. post'.replies = Cardinality({d \in Comments : Exists(d)}')
  <2>1. {d \in Comments : Exists(d)}' = {d \in Comments : Exists(d)} \cup {c}
    BY <1>8
  <2>2. post'.replies = post.replies + 1
    BY <1>3 DEF TypeOK, Post
  <2>3. QED BY <2>1, <2>2, <1>5, FiniteRows, AddOne DEF RepliesCounted
<1>14. ASSUME NEW d \in Comments
       PROVE  comment'[d].replies = Cardinality(Children(d)')
  <2>1. comment[d].replies = Cardinality(Children(d))
    BY DEF RepliesCounted
  <2>2. CASE d = c
    <3>1. \A x \in Comments : Exists(x) => comment[x].parent # c
      BY <1>5 DEF Tree, ParentThere
    <3>2. Children(d)' = {}
      BY <3>1, <2>2, <1>5, <1>6, <1>7, <1>8 DEF Children
    <3>3. QED BY <3>2, <2>2, <1>6, FS_EmptySet
  <2>3. CASE d # c /\ d = p
    <3>1. Children(d)' = Children(d) \cup {c} /\ c \notin Children(d)
      BY <2>3, <1>5, <1>6, <1>7, <1>8 DEF Children
    <3>2. comment'[d].replies = comment[d].replies + 1
      BY <2>3, <1>7
    <3>3. QED BY <3>1, <3>2, <2>1, FiniteRows, AddOne
  <2>4. CASE d # c /\ d # p
    <3>1. Children(d)' = Children(d)
      BY <2>4, <1>5, <1>6, <1>7, <1>8 DEF Children
    <3>2. QED BY <3>1, <2>1, <2>4, <1>7
  <2>5. QED BY <2>2, <2>3, <2>4
<1>15. post'.reactions = Cardinality(reactors')
  BY <1>3 DEF TypeOK, Post, RepliesCounted
<1>16. QED BY <1>10, <1>11, <1>12, <1>13, <1>14, <1>15 DEF Tree, RepliesCounted

\* A removal takes one comment without replies away.
LEMMA RemoveTree ==
  ASSUME TypeOK, Tree, RepliesCounted, NEW w \in Workers, Remove(w), OwnKept(w)
  PROVE  Tree' /\ RepliesCounted'
<1>1. PICK c \in Comments : c = call[w].on
  BY CallTypes DEF Remove, At
<1>2. PICK p \in Rows : p = comment[c].parent
  BY DEF TypeOK, Comment
<1>3. Exists(c) /\ Children(c) = {}
  BY <1>1 DEF Remove, At, OwnKept
<1>4. p # c
  BY <1>2, <1>3, Constants DEF Tree, ParentThere
<1>5. /\ comment' = [d \in Comments |->
           IF d = c THEN [Unwritten EXCEPT !.state = "gone"]
           ELSE [comment[d] EXCEPT !.replies = IF d = p THEN Less(@) ELSE @]]
      /\ post' = [post EXCEPT !.replies = Less(@)] /\ UNCHANGED reactors
  BY <1>1, <1>2 DEF Remove
<1>6. /\ comment'[c].state = "gone" /\ comment'[c].parent = 0 /\ comment'[c].replies = 0
      /\ comment'[c].feed = "none"
  BY <1>5 DEF Unwritten
<1>7. \A d \in Comments \ {c} :
        /\ comment'[d].state = comment[d].state /\ comment'[d].parent = comment[d].parent
        /\ comment'[d].feed = comment[d].feed
        /\ comment'[d].replies = IF d = p THEN Less(comment[d].replies) ELSE comment[d].replies
  BY <1>5 DEF TypeOK, Comment
<1>8. /\ \A d \in Comments : Exists(d)' <=> d # c /\ Exists(d)
      /\ \A d \in Comments : comment'[d].state # "none" <=> comment[d].state # "none"
  BY <1>3, <1>6, <1>7 DEF Exists
<1>9. WrittenInOrder'
  <2>1. Written' = Written
    BY <1>8 DEF Written
  <2>2. QED BY <2>1, <1>8 DEF Tree, WrittenInOrder
<1>10. NothingLeft'
  <2>1. SUFFICES ASSUME NEW d \in Comments, ~Exists(d)'
                 PROVE  comment'[d].feed = "none" /\ comment'[d].parent = 0 /\ comment'[d].replies = 0
    BY DEF NothingLeft
  <2>2. CASE d # c
    <3>1. ~Exists(d) /\ d # p
      BY <2>1, <2>2, <1>2, <1>3, <1>8, Constants DEF Tree, ParentThere
    <3>2. QED BY <3>1, <2>2, <1>7 DEF Tree, NothingLeft
  <2>3. QED BY <2>2, <1>6
<1>11. ParentThere'
  <2>1. SUFFICES ASSUME NEW d \in Comments, Exists(d)', comment'[d].parent # 0,
                        NEW q, q = comment'[d].parent
                 PROVE  q # d /\ comment'[q].state \in {"shown", "hidden"}
    BY DEF ParentThere, Exists
  <2>2. d # c /\ Exists(d) /\ q = comment[d].parent
    BY <2>1, <1>7, <1>8
  <2>3. q # d /\ Exists(q) /\ q \in Comments
    BY <2>1, <2>2, Constants DEF Tree, ParentThere, TypeOK, Comment, Rows
  <2>4. q # c
    BY <2>2, <1>3 DEF Children
  <2>5. QED BY <2>3, <2>4, <1>8 DEF Exists
<1>12. post'.replies = Cardinality({d \in Comments : Exists(d)}')
  <2>1. {d \in Comments : Exists(d)}' = {d \in Comments : Exists(d)} \ {c}
    BY <1>8
  <2>2. post'.replies = Less(post.replies)
    BY <1>5 DEF TypeOK, Post
  <2>3. c \in {d \in Comments : Exists(d)}
    BY <1>3
  <2>4. QED BY <2>1, <2>2, <2>3, FiniteRows, TakeOne DEF RepliesCounted
<1>13. ASSUME NEW d \in Comments
       PROVE  comment'[d].replies = Cardinality(Children(d)')
  <2>1. comment[d].replies = Cardinality(Children(d))
    BY DEF RepliesCounted
  <2>2. CASE d = c
    <3>1. Children(d)' = {}
      BY <2>2, <1>3, <1>6, <1>7, <1>8 DEF Children
    <3>2. QED BY <3>1, <2>2, <1>6, FS_EmptySet
  <2>3. CASE d # c /\ d = p
    <3>1. Children(d)' = Children(d) \ {c} /\ c \in Children(d)
      BY <2>3, <1>2, <1>3, <1>6, <1>7, <1>8 DEF Children
    <3>2. comment'[d].replies = Less(comment[d].replies)
      BY <2>3, <1>7
    <3>3. QED BY <3>1, <3>2, <2>1, FiniteRows, TakeOne
  <2>4. CASE d # c /\ d # p
    <3>1. Children(d)' = Children(d)
      BY <2>4, <1>2, <1>6, <1>7, <1>8 DEF Children
    <3>2. QED BY <3>1, <2>1, <2>4, <1>7
  <2>5. QED BY <2>2, <2>3, <2>4
<1>14. post'.reactions = Cardinality(reactors')
  BY <1>5 DEF TypeOK, Post, RepliesCounted
<1>15. QED BY <1>9, <1>10, <1>11, <1>12, <1>13, <1>14 DEF Tree, RepliesCounted

\* With the post goes every comment.
LEMMA CascadeTree ==
  ASSUME TypeOK, Tree, RepliesCounted, NEW w \in Workers, Cascade(w)
  PROVE  Tree' /\ RepliesCounted'
<1>1. /\ comment' = [c \in Comments |-> IF Exists(c) THEN [Unwritten EXCEPT !.state = "gone"] ELSE comment[c]]
      /\ post'.replies = 0 /\ post'.reactions = 0 /\ reactors' = {}
  BY DEF Cascade, TypeOK, Post
<1>2. \A c \in Comments :
        /\ comment'[c].state \in {"none", "gone"}
        /\ comment'[c].state # "none" <=> comment[c].state # "none"
        /\ comment'[c].parent = 0 /\ comment'[c].replies = 0 /\ comment'[c].feed = "none"
  BY <1>1 DEF Unwritten, Exists, TypeOK, Comment, Tree, NothingLeft
<1>3. \A c \in Comments : ~Exists(c)'
  BY <1>2 DEF Exists
<1>4. WrittenInOrder'
  <2>1. Written' = Written
    BY <1>2 DEF Written
  <2>2. QED BY <2>1, <1>2 DEF Tree, WrittenInOrder
<1>5. {c \in Comments : Exists(c)}' = {} /\ \A c \in Comments : Children(c)' = {}
  BY <1>3 DEF Children
<1>6. RepliesCounted'
  BY <1>1, <1>2, <1>5, FS_EmptySet DEF RepliesCounted
<1>7. QED BY <1>2, <1>3, <1>4, <1>6 DEF Tree, NothingLeft, ParentThere

LEMMA CountTree ==
  ASSUME TypeOK, Tree, RepliesCounted, NEW w \in Workers, Count(w)
  PROVE  Tree' /\ RepliesCounted'
<1>1. SamePlaces
  BY DEF Count, SamePlaces, Exists
<1>2. IsFiniteSet(reactors)
  BY Constants, FS_Subset DEF TypeOK
<1>3. post.reactions = Cardinality(reactors)
  BY DEF RepliesCounted
<1>4. post'.replies = post.replies
  BY DEF Count, TypeOK, Post
<1>5. post'.reactions = Cardinality(reactors')
  <2>1. PICK u : u = call[w].by
    OBVIOUS
  <2>2. CASE UNCHANGED <<post, reactors>>
    BY <2>2, <1>3
  <2>3. CASE u \notin reactors /\ reactors' = reactors \cup {u} /\ post' = [post EXCEPT !.reactions = @ + 1]
    <3>1. post'.reactions = post.reactions + 1
      BY <2>3 DEF TypeOK, Post
    <3>2. QED BY <3>1, <2>3, <1>2, <1>3, AddOne
  <2>4. CASE u \in reactors /\ reactors' = reactors \ {u} /\ post' = [post EXCEPT !.reactions = Less(@)]
    <3>1. post'.reactions = Less(post.reactions)
      BY <2>4 DEF TypeOK, Post
    <3>2. QED BY <3>1, <2>4, <1>2, <1>3, TakeOne
  <2>5. QED BY <2>1, <2>2, <2>3, <2>4 DEF Count
<1>7. Written' = Written /\ \A d \in Comments : Children(d)' = Children(d)
  BY <1>1, SameChildren
<1>8. {d \in Comments : Exists(d)}' = {d \in Comments : Exists(d)}
  BY <1>1, SameChildren
<1>9. RepliesCounted'
  BY <1>4, <1>5, <1>7, <1>8 DEF RepliesCounted, Count
<1>10. Tree'
  BY <1>7 DEF Count, Tree, WrittenInOrder, NothingLeft, ParentThere, Exists
<1>11. QED BY <1>9, <1>10

LEMMA InitTree == Init => Tree /\ RepliesCounted
<1> SUFFICES ASSUME Init
             PROVE  Tree /\ RepliesCounted
  OBVIOUS
<1>1. \A c \in Comments :
        /\ comment[c].state = "none" /\ comment[c].parent = 0 /\ comment[c].replies = 0 /\ comment[c].feed = "none"
  BY DEF Init, Unwritten
<1>2. \A c \in Comments : ~Exists(c)
  BY <1>1 DEF Exists
<1>3. {c \in Comments : comment[c].state # "none"} = {} /\ {c \in Comments : Exists(c)} = {}
      /\ \A c \in Comments : Children(c) = {}
  BY <1>1, <1>2 DEF Children
<1>4. Written = 0
  BY <1>3, FS_EmptySet DEF Written
<1>5. WrittenInOrder
  <2>1. \A c \in Comments : ~(c <= 0)
    BY Constants
  <2>2. QED BY <2>1, <1>1, <1>4 DEF WrittenInOrder
<1>6. RepliesCounted
  BY <1>1, <1>3, FS_EmptySet DEF Init, RepliesCounted
<1>7. QED BY <1>1, <1>2, <1>5, <1>6 DEF Tree, NothingLeft, ParentThere

LEMMA NextTree ==
  ASSUME TypeOK, Tree, Kept, RepliesCounted, [Next]_vars
  PROVE  Tree' /\ RepliesCounted'
<1>1. ASSUME UNCHANGED <<comment, post, reactors>>
      PROVE  Tree' /\ RepliesCounted'
  BY <1>1, SameTree DEF SamePlaces, Exists
<1>2. ASSUME NEW w \in Workers, Request(w)
      PROVE  UNCHANGED <<comment, post, reactors>>
  BY <1>2 DEF Request, Reply, React, Unreact, Delete, DeletePost, Follow, Block, Call, Relate, content
<1>3. ASSUME NEW w \in Workers, Step(w)
      PROVE  Tree' /\ RepliesCounted'
  <2>1. CASE TakeParent(w) \/ TakePost(w) \/ TakeOwnPost(w) \/ InsertFollow(w) \/ CommitBlock(w)
    BY <2>1, <1>1 DEF TakeParent, TakePost, TakeOwnPost, InsertFollow, CommitBlock, content
  <2>2. CASE Insert(w)
    <3>1. CASE UNCHANGED <<post, comment, late>>
      BY <3>1, <2>2, <1>1 DEF Insert
    <3>2. CASE Write(w, call[w].on)
      BY <3>2, <2>2, WriteTree DEF Insert, Kept
    <3>3. QED BY <3>1, <3>2, <2>2 DEF Insert
  <2>3. CASE TakeOwn(w)
    <3>1. PICK c \in Comments : c = call[w].on
      BY <2>3, CallTypes DEF TakeOwn, At
    <3>2. CASE comment[c].state = "shown" /\ Hide(c)
      <4>1. SamePlaces
        BY <3>2 DEF Hide, TypeOK, Comment, Exists, SamePlaces
      <4>2. QED BY <4>1, <2>3, SameTree DEF TakeOwn
    <3>3. CASE UNCHANGED comment
      BY <3>3, <2>3, <1>1 DEF TakeOwn
    <3>4. QED BY <3>1, <3>2, <3>3, <2>3 DEF TakeOwn
  <2>4. CASE Remove(w)
    BY <2>4, RemoveTree DEF Kept
  <2>5. CASE Cascade(w) \/ Count(w)
    BY <2>5, CascadeTree, CountTree
  <2>6. QED BY <1>3, <2>1, <2>2, <2>3, <2>4, <2>5 DEF Step
<1>4. ASSUME Moderation
      PROVE  Tree' /\ RepliesCounted'
  <2>1. post'.replies = post.replies /\ post'.reactions = post.reactions /\ UNCHANGED reactors
    BY <1>4 DEF Moderation, HidePost, LockPost, HideComment, LockComment, Moderate, TypeOK, Post
  <2>2. QED BY <2>1, <1>4, ModeratedPlaces, SameTree
<1>5. ASSUME NEW w \in Workers, RollBack(w)
      PROVE  UNCHANGED <<comment, post, reactors>>
  BY <1>5 DEF RollBack, content
<1>6. CASE Undoing \/ UNCHANGED vars
  BY <1>6, <1>1 DEF Undoing, Unfollow, Unblock, vars, content
<1>7. QED BY <1>1, <1>2, <1>3, <1>4, <1>5, <1>6, NextCases

(***************************************************************************)
(* The feed.                                                               *)
(***************************************************************************)
LEMMA InitFeed == Init => Feed
BY DEF Init, Feed, HiddenGone, HiddenOutOfFeed, Unwritten

LEMMA NextFeed ==
  ASSUME TypeOK, Tree, Feed, [Next]_vars
  PROVE  Feed'
<1>1. ASSUME UNCHANGED <<comment, late>>, post'.hidden = post.hidden
      PROVE  Feed'
  BY <1>1 DEF Feed, HiddenGone, HiddenOutOfFeed
<1>2. ASSUME NEW w \in Workers, Request(w) \/ RollBack(w)
      PROVE  Feed'
  BY <1>2, <1>1 DEF Request, Reply, React, Unreact, Delete, DeletePost, Follow, Block, Call, Relate,
                    RollBack, content
<1>3. ASSUME NEW c \in Comments, Hide(c), UNCHANGED late, post'.hidden = post.hidden
      PROVE  Feed'
  <2>1. comment'[c].feed = "hidden" /\ \A d \in Comments \ {c} : comment'[d] = comment[d]
    BY <1>3 DEF Hide, TypeOK, Comment
  <2>2. QED BY <2>1, <1>3 DEF Feed, HiddenGone, HiddenOutOfFeed
<1>4. ASSUME NEW w \in Workers, Step(w)
      PROVE  Feed'
  <2>1. CASE TakeParent(w) \/ TakePost(w) \/ TakeOwnPost(w) \/ InsertFollow(w) \/ CommitBlock(w)
    BY <2>1, <1>1 DEF TakeParent, TakePost, TakeOwnPost, InsertFollow, CommitBlock, content
  <2>2. CASE Count(w)
    <3>1. UNCHANGED <<comment, late>> /\ post'.hidden = post.hidden
      BY <2>2 DEF Count, TypeOK, Post
    <3>2. QED BY <3>1, <1>1
  <2>3. CASE TakeOwn(w)
    <3>1. PICK c \in Comments : c = call[w].on
      BY <2>3, CallTypes DEF TakeOwn, At
    <3>2. Hide(c) \/ UNCHANGED comment
      BY <3>1, <2>3 DEF TakeOwn
    <3>3. QED BY <3>2, <2>3, <1>1, <1>3 DEF TakeOwn
  <2>4. CASE Insert(w)
    <3>1. CASE UNCHANGED <<post, comment, late>>
      BY <3>1, <1>1
    <3>2. CASE Write(w, call[w].on)
      <4>0. PICK c \in Comments, p \in {call[w].on} :
              /\ late' = IF post.hidden THEN late \cup {c} ELSE late
              /\ comment' = [d \in Comments |->
                   IF d = c THEN [Unwritten EXCEPT !.state = "shown", !.by = call[w].by, !.parent = p, !.feed = "normal"]
                   ELSE [comment[d] EXCEPT !.replies = IF d = p THEN @ + 1 ELSE @]]
        BY <3>2 DEF Write
      <4>1. /\ \A d \in Comments \ {c} :
                 comment'[d].feed = comment[d].feed /\ comment'[d].state = comment[d].state
            /\ comment'[c].state = "shown"
        BY <4>0 DEF Unwritten, TypeOK, Comment
      <4>2. post'.hidden = post.hidden
        BY <3>2 DEF Write, TypeOK, Post
      <4>3. QED BY <4>0, <4>1, <4>2 DEF Feed, HiddenGone, HiddenOutOfFeed
    <3>3. QED BY <3>1, <3>2, <2>4 DEF Insert
  <2>5. CASE Remove(w)
    <3>1. UNCHANGED late /\ post'.hidden = post.hidden
      BY <2>5 DEF Remove, TypeOK, Post
    <3>2. \A d \in Comments :
            \/ comment'[d].feed = comment[d].feed /\ comment'[d].state = comment[d].state
            \/ comment'[d].feed = "none"
      BY <2>5 DEF Remove, Unwritten, TypeOK, Comment
    <3>3. QED BY <3>1, <3>2 DEF Feed, HiddenGone, HiddenOutOfFeed
  <2>6. CASE Cascade(w)
    <3>1. \A d \in Comments : comment'[d].feed = "none"
      BY <2>6 DEF Cascade, Unwritten, Tree, NothingLeft
    <3>2. QED BY <3>1 DEF Feed, HiddenGone, HiddenOutOfFeed
  <2>7. QED BY <1>4, <2>1, <2>2, <2>3, <2>4, <2>5, <2>6 DEF Step
<1>5. CASE HidePost
  <2>1. \A d \in Comments : comment'[d].feed # "normal"
    BY <1>5 DEF HidePost, TypeOK, Comment, Tree, NothingLeft
  <2>2. QED BY <2>1 DEF Feed, HiddenGone, HiddenOutOfFeed
<1>6. CASE LockPost
  BY <1>6, <1>1 DEF LockPost, Moderate, TypeOK, Post
<1>7. ASSUME NEW c \in Comments, HideComment(c)
      PROVE  Feed'
  BY <1>7, <1>3 DEF HideComment, Moderate
<1>8. ASSUME NEW c \in Comments, LockComment(c)
      PROVE  Feed'
  <2>1. \A d \in Comments : comment'[d].feed = comment[d].feed /\ comment'[d].state = comment[d].state
    BY <1>8 DEF LockComment, TypeOK, Comment
  <2>2. QED BY <2>1, <1>8 DEF LockComment, Moderate, Feed, HiddenGone, HiddenOutOfFeed
<1>9. CASE Undoing \/ UNCHANGED vars
  BY <1>9, <1>1 DEF Undoing, Unfollow, Unblock, vars, content
<1>10. QED
  BY <1>2, <1>4, <1>5, <1>6, <1>7, <1>8, <1>9, NextCases DEF Moderation

(***************************************************************************)
(* The theorems.                                                           *)
(***************************************************************************)
THEOREM CommunityInvariant == Safety => []CommunityInv
<1>1. Init => CommunityInv
  BY InitType, InitFollows, InitKept, InitTree, InitFeed DEF CommunityInv
<1>2. CommunityInv /\ [Next]_vars => CommunityInv'
  BY NextType, NextFollows, NextKept, NextTree, NextFeed DEF CommunityInv
<1>3. QED BY <1>1, <1>2, PTL DEF Safety

\* For any number of requests, comments and users, the counters of the post and of every
\* comment agree with the rows, whatever replies, deletions and reactions cross.
THEOREM Counted == Safety => []RepliesCounted
BY CommunityInvariant, PTL DEF CommunityInv

\* What is hidden is out of the feed, but for comments written while their post was hidden.
THEOREM OutOfFeed == Safety => []HiddenOutOfFeed
BY CommunityInvariant, PTL DEF CommunityInv, Feed

\* No step of anyone commits a reply under a comment that is hidden, deleted or locked.
THEOREM RepliesUnderShown == Safety => NoReplyUnderHidden
<1> DEFINE Good ==
      \A c \in Comments : comment[c].state = "none" /\ comment'[c].parent # 0 =>
        LET p == comment'[c].parent IN comment[p].state = "shown" /\ ~comment[p].locked
<1>1. CommunityInv /\ [Next]_vars => [Good]_vars
  <2> SUFFICES ASSUME CommunityInv, [Next]_vars, NEW c \in Comments,
                      comment[c].state = "none", comment'[c].parent # 0,
                      NEW p, p = comment'[c].parent
               PROVE  comment[p].state = "shown" /\ ~comment[p].locked
    OBVIOUS
  <2>1. TypeOK /\ Tree /\ Kept /\ ~Exists(c) /\ comment[c].parent = 0
    BY DEF CommunityInv, Tree, NothingLeft, Exists
  <2>2. comment'[c].parent # comment[c].parent
    BY <2>1
  <2>3. CASE UNCHANGED comment
    BY <2>2, <2>3
  <2>4. CASE Moderation
    BY <2>1, <2>2, <2>4, ModeratedPlaces DEF SamePlaces
  <2>5. ASSUME NEW w \in Workers, Write(w, call[w].on), Insert(w)
        PROVE  comment[p].state = "shown" /\ ~comment[p].locked
    <3>1. comment'[c].parent = call[w].on
      BY <2>1, <2>2, <2>5 DEF Write, Unwritten, TypeOK, Comment
    <3>2. QED BY <3>1, <2>1, <2>5 DEF Insert, Kept, ParentKept
  <2>6. ASSUME NEW w \in Workers, Step(w)
        PROVE  \/ UNCHANGED comment
               \/ Write(w, call[w].on) /\ Insert(w)
               \/ comment'[c].parent = comment[c].parent
    <3>1. CASE Remove(w)
      BY <3>1, <2>1 DEF Remove, Unwritten, TypeOK, Comment
    <3>2. CASE Cascade(w)
      BY <3>2, <2>1 DEF Cascade
    <3>3. CASE TakeOwn(w)
      BY <3>3, <2>1 DEF TakeOwn, Hide, TypeOK, Comment
    <3>4. CASE Insert(w)
      BY <3>4 DEF Insert
    <3>5. QED
      BY <2>6, <3>1, <3>2, <3>3, <3>4
      DEF Step, TakeParent, TakePost, TakeOwnPost, Count, InsertFollow, CommitBlock, content
  <2>7. ASSUME NEW w \in Workers, Request(w) \/ RollBack(w)
        PROVE  UNCHANGED comment
    BY <2>7 DEF Request, Reply, React, Unreact, Delete, DeletePost, Follow, Block, Call, Relate,
                RollBack, content
  <2>8. CASE Undoing \/ UNCHANGED vars
    BY <2>3, <2>8 DEF Undoing, Unfollow, Unblock, vars, content
  <2>9. QED BY <2>2, <2>3, <2>4, <2>5, <2>6, <2>7, <2>8, NextCases
<1>2. QED BY <1>1, CommunityInvariant, PTL DEF Safety, NoReplyUnderHidden
=============================================================================
