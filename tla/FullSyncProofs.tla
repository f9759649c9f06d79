--------------------------- MODULE FullSyncProofs ---------------------------
(***************************************************************************)
(* Theorems about FullSync and its RateLimiter for any number of threads,  *)
(* shards, failing ids, stalls and crashes.                                *)
(***************************************************************************)
EXTENDS FullSync, TLAPS

Gates == {"out", "asking", "read", "sleep", "set", "delete", "granted"}
Steps == {"idle", "loop", "handle", "flush", "errors", "last flush", "last errors", "finish"}

LimiterOK ==
  /\ ttl \in Nat /\ slot \in 0 .. Interval /\ since \in 0 .. Interval
  /\ gate \in [Workers -> Gates] /\ left \in [Workers -> 0 .. Interval]
  /\ burst \in BOOLEAN /\ outlived \in BOOLEAN /\ stalls \in 0 .. MaxStalls
ShardsOK ==
  /\ status \in [Numbers -> {"absent", "running", "finished", "failed"}]
  /\ current \in [Numbers -> Int] /\ queue \subseteq Numbers
  /\ phase \in {"off", "on", "done"}
  /\ pc \in [Workers -> Steps] /\ shard \in [Workers -> Nat] /\ at \in [Workers -> Int]
  /\ ledger \subseteq Ids /\ handled \subseteq Ids /\ lost \subseteq Ids
  /\ buffer \in [Workers -> SUBSET Ids]
TypeOK == LimiterOK /\ ShardsOK

-----------------------------------------------------------------------------
(***************************************************************************)
(* What the limiter keeps.                                                 *)
(***************************************************************************)
\* While no lock has run out too early, one client is between its lock and the end of it,
\* and what it sleeps, what it is about to write and what the cache holds keep the
\* distance of the last slot; a slot that is not in the cache is behind a lock.
OneInLock == \A c, d \in Workers : InLock(c) /\ InLock(d) => c = d
Locked    == \A c \in Workers : InLock(c) => ttl > 0
Distant   == \A c \in Workers : gate[c] \in {"sleep", "set"} => left[c] + since >= Interval
Guarded   == SlotUnwritten =>
  /\ ttl > 0
  /\ \A c \in Workers : gate[c] \notin {"read", "sleep", "delete"}
Timely == ~outlived => OneInLock /\ Locked /\ Distant /\ Guarded /\ ~burst

\* Only a thread that handles an id is inside the limiter.
Gated == \A t \in Workers : pc[t] # "handle" => gate[t] = "out"

LimiterInv == LimiterOK /\ Timely

-----------------------------------------------------------------------------
(***************************************************************************)
(* What the shards keep.                                                   *)
(***************************************************************************)
\* An id that was handled, or whose failure is written, about to be written, or lost.
Accounted == handled \union ledger \union lost \union UNION {Unwritten(t) : t \in Workers}

\* A shard's progress starts at its first id, and what lies behind it is accounted for.
Behind(s) ==
  status[s] # "absent" =>
    /\ IdsOf(s) # {} => current[s] >= Shards[s][1] - 1
    /\ \A id \in IdsOf(s) : id <= current[s] => id \in Accounted

\* A thread has passed the ids before the one it is at, with their failures in memory.
Passed(t, id) == id < at[t] \/ (id = at[t] /\ pc[t] \in {"flush", "errors"})
Walked(t) ==
  pc[t] # "idle" =>
    /\ shard[t] \in Numbers /\ status[shard[t]] # "absent"
    /\ IdsOf(shard[t]) # {} => at[t] >= Shards[shard[t]][1]
    /\ \A id \in IdsOf(shard[t]) : Passed(t, id) => id \in Accounted \union buffer[t]
    /\ pc[t] \in {"handle", "flush", "errors"} => at[t] \in IdsOf(shard[t])
    /\ pc[t] \in {"last flush", "last errors", "finish"} => \A id \in IdsOf(shard[t]) : id < at[t]

ShardInv == ShardsOK /\ (\A s \in Numbers : Behind(s)) /\ (\A t \in Workers : Walked(t))
SyncInv == LimiterInv /\ Gated /\ ShardInv


-----------------------------------------------------------------------------
(***************************************************************************)
(* The limiter.                                                            *)
(***************************************************************************)
LEMMA LimiterConstants ==
  /\ Interval \in Nat /\ Interval >= 1 /\ LockTtl \in Nat /\ LockTtl > Interval /\ LockTtl >= 1
  /\ MaxStalls \in Nat
BY LimiterAssumption

LEMMA LimiterStart == LimiterInit => LimiterInv
<1> SUFFICES ASSUME LimiterInit PROVE LimiterInv
  OBVIOUS
<1>0. 0 \in 0 .. Interval /\ Interval \in 0 .. Interval /\ 0 \in 0 .. MaxStalls
  BY LimiterConstants
<1>1. LimiterOK
  BY <1>0 DEF LimiterInit, LimiterOK, Gates
<1>2. \A c \in Workers : gate[c] = "out"
  BY DEF LimiterInit
<1>3. ~SlotUnwritten
  BY LimiterConstants DEF LimiterInit, SlotUnwritten
<1>4. QED
  BY <1>1, <1>2, <1>3 DEF LimiterInv, Timely, OneInLock, Locked, Distant, Guarded, InLock, LimiterInit

\* A client that has the lock is the only one, and the lock lives.
LEMMA LockStep ==
  ASSUME LimiterInv, NEW c \in Workers, TryLock(c)
  PROVE  LimiterInv'
<1>1. /\ gate[c] = "asking" /\ ttl = 0 /\ ttl' = LockTtl /\ gate' = [gate EXCEPT ![c] = "read"]
      /\ UNCHANGED <<slot, left, since, burst, outlived, stalls>>
  BY DEF TryLock, Pass
<1>2. LimiterOK'
  BY <1>1, LimiterConstants DEF LimiterInv, LimiterOK, Gates
<1>3. ASSUME ~outlived' PROVE (OneInLock /\ Locked /\ Distant /\ Guarded /\ ~burst)'
  <2>1. Timely /\ ~outlived
    BY <1>1, <1>3 DEF LimiterInv
  <2>2. \A d \in Workers : ~InLock(d)
    BY <1>1, <2>1 DEF LimiterInv, LimiterOK, Timely, Locked
  <2>3. ~SlotUnwritten
    BY <1>1, <2>1 DEF Timely, Guarded
  <2>4. /\ \A d \in Workers : d # c => gate'[d] = gate[d]
        /\ gate'[c] = "read"
    BY <1>1 DEF LimiterInv, LimiterOK
  <2>5. OneInLock'
    BY <2>2, <2>4 DEF OneInLock, InLock
  <2>6. Locked'
    BY <1>1, LimiterConstants DEF Locked
  <2>7. Distant'
    BY <1>1, <2>1, <2>4 DEF Timely, Distant
  <2>8. Guarded'
    BY <1>1, <2>3 DEF Guarded, SlotUnwritten
  <2>9. ~burst'
    BY <1>1, <2>1 DEF Timely
  <2>10. QED
    BY <2>5, <2>6, <2>7, <2>8, <2>9
<1>4. QED
  BY <1>2, <1>3 DEF LimiterInv, Timely

\* A slot is claimed when the last one is over.
LEMMA ClaimStep ==
  ASSUME LimiterInv, NEW c \in Workers, gate[c] \in {"read", "sleep"},
         ~outlived => ~(since < Interval),
         Claim(c), UNCHANGED <<ttl, slot, outlived, stalls>>
  PROVE  LimiterInv'
<1>1. /\ gate' = [gate EXCEPT ![c] = "set"] /\ left' = [left EXCEPT ![c] = Interval]
      /\ burst' = (burst \/ since < Interval) /\ since' = 0
  BY DEF Claim, Pass
<1>2. burst' \in BOOLEAN
  BY <1>1
<1>3. LimiterOK'
  BY <1>1, <1>2, LimiterConstants DEF LimiterInv, LimiterOK, Gates
<1>4. ASSUME ~outlived' PROVE (OneInLock /\ Locked /\ Distant /\ Guarded /\ ~burst)'
  <2>1. Timely /\ ~outlived
    BY <1>4 DEF LimiterInv
  <2>2. \A d \in Workers : d # c => gate'[d] = gate[d] /\ left'[d] = left[d]
    BY <1>1 DEF LimiterInv, LimiterOK
  <2>3. gate'[c] = "set" /\ left'[c] = Interval
    BY <1>1 DEF LimiterInv, LimiterOK
  <2>4. \A d \in Workers : d # c => ~InLock(d)
    BY <2>1 DEF Timely, OneInLock, InLock
  <2>5. \A d \in Workers : d # c => gate'[d] \notin {"read", "sleep", "set", "delete"}
    BY <2>2, <2>4 DEF InLock
  <2>6. OneInLock'
    BY <2>5 DEF OneInLock, InLock
  <2>7. ttl > 0
    BY <2>1 DEF Timely, Locked, InLock
  <2>8. Locked'
    BY <2>7 DEF Locked
  <2>9. Distant'
    BY <1>1, <2>3, <2>5, LimiterConstants DEF Distant
  <2>10. Guarded'
    BY <2>3, <2>5, <2>7 DEF Guarded
  <2>11. ~burst'
    BY <1>1, <2>1 DEF Timely
  <2>12. QED
    BY <2>6, <2>8, <2>9, <2>10, <2>11
<1>5. QED
  BY <1>3, <1>4 DEF LimiterInv, Timely

LEMMA ReadStep ==
  ASSUME LimiterInv, NEW c \in Workers, ReadSlot(c)
  PROVE  LimiterInv'
<1>1. ~outlived => slot + since >= Interval
  BY LimiterConstants DEF ReadSlot, LimiterInv, LimiterOK, Timely, Guarded, SlotUnwritten
<1>2. CASE slot > 0
  <2>1. /\ gate' = [gate EXCEPT ![c] = "sleep"] /\ left' = [left EXCEPT ![c] = slot]
        /\ gate[c] = "read" /\ UNCHANGED <<ttl, slot, since, burst, outlived, stalls>>
    BY <1>2 DEF ReadSlot, Pass
  <2>2. LimiterOK'
    BY <2>1 DEF LimiterInv, LimiterOK, Gates
  <2>3. ASSUME ~outlived' PROVE (OneInLock /\ Locked /\ Distant /\ Guarded /\ ~burst)'
    <3>1. Timely /\ ~outlived
      BY <2>1, <2>3 DEF LimiterInv
    <3>2. \A d \in Workers : d # c => gate'[d] = gate[d] /\ left'[d] = left[d]
      BY <2>1 DEF LimiterInv, LimiterOK
    <3>3. gate'[c] = "sleep" /\ left'[c] = slot
      BY <2>1 DEF LimiterInv, LimiterOK
    <3>4. \A d \in Workers : InLock(d)' <=> InLock(d)
      BY <2>1, <3>2, <3>3 DEF InLock
    <3>5. OneInLock' /\ Locked'
      BY <2>1, <3>1, <3>4 DEF Timely, OneInLock, Locked
    <3>6. Distant'
      BY <1>1, <2>1, <3>1, <3>2, <3>3 DEF Timely, Distant
    <3>7. ~SlotUnwritten
      BY <2>1, <3>1 DEF Timely, Guarded
    <3>8. Guarded' /\ ~burst'
      BY <2>1, <3>1, <3>7 DEF Timely, Guarded, SlotUnwritten
    <3>9. QED
      BY <3>5, <3>6, <3>8
  <2>4. QED
    BY <2>2, <2>3 DEF LimiterInv, Timely
<1>3. CASE ~(slot > 0)
  <2>1. ~outlived => ~(since < Interval)
    BY <1>1, <1>3, LimiterConstants DEF LimiterInv, LimiterOK
  <2>2. QED
    BY <1>3, <2>1, ClaimStep DEF ReadSlot
<1>4. QED
  BY <1>2, <1>3

LEMMA WakeStep ==
  ASSUME LimiterInv, NEW c \in Workers, Wake(c)
  PROVE  LimiterInv'
<1>1. ~outlived => ~(since < Interval)
  BY LimiterConstants DEF Wake, LimiterInv, LimiterOK, Timely, Distant
<1>2. QED
  BY <1>1, ClaimStep DEF Wake

LEMMA WriteStep ==
  ASSUME LimiterInv, NEW c \in Workers, TakeSlot(c)
  PROVE  LimiterInv'
<1>1. /\ gate[c] = "set" /\ slot' = left[c] /\ left' = [left EXCEPT ![c] = 0]
      /\ gate' = [gate EXCEPT ![c] = "delete"]
      /\ UNCHANGED <<ttl, since, burst, outlived, stalls>>
  BY DEF TakeSlot, Pass
<1>2. LimiterOK'
  BY <1>1, LimiterConstants DEF LimiterInv, LimiterOK, Gates
<1>3. ASSUME ~outlived' PROVE (OneInLock /\ Locked /\ Distant /\ Guarded /\ ~burst)'
  <2>1. Timely /\ ~outlived
    BY <1>1, <1>3 DEF LimiterInv
  <2>2. \A d \in Workers : d # c => gate'[d] = gate[d] /\ left'[d] = left[d]
    BY <1>1 DEF LimiterInv, LimiterOK
  <2>3. gate'[c] = "delete"
    BY <1>1 DEF LimiterInv, LimiterOK
  <2>4. \A d \in Workers : InLock(d)' <=> InLock(d)
    BY <1>1, <2>2, <2>3 DEF InLock
  <2>5. OneInLock' /\ Locked'
    BY <1>1, <2>1, <2>4 DEF Timely, OneInLock, Locked
  <2>6. Distant'
    BY <1>1, <2>1, <2>2, <2>3 DEF Timely, Distant
  <2>7. left[c] \in Int /\ since \in Int /\ left[c] + since >= Interval
    BY <1>1, <2>1 DEF Timely, Distant, LimiterInv, LimiterOK
  <2>8. ~SlotUnwritten'
    BY <1>1, <2>7, LimiterConstants DEF SlotUnwritten
  <2>9. Guarded' /\ ~burst'
    BY <1>1, <2>1, <2>8 DEF Timely, Guarded
  <2>10. QED
    BY <2>5, <2>6, <2>9
<1>4. QED
  BY <1>2, <1>3 DEF LimiterInv, Timely

LEMMA DeleteStep ==
  ASSUME LimiterInv, NEW c \in Workers, DeleteLock(c)
  PROVE  LimiterInv'
<1>1. /\ gate[c] = "delete" /\ ttl' = 0 /\ gate' = [gate EXCEPT ![c] = "granted"]
      /\ outlived' = (outlived \/ \E d \in Workers \ {c} : InLock(d))
      /\ UNCHANGED <<slot, left, since, burst, stalls>>
  BY DEF DeleteLock, Pass
<1>2. outlived' \in BOOLEAN
  BY <1>1
<1>3. LimiterOK'
  BY <1>1, <1>2 DEF LimiterInv, LimiterOK, Gates
<1>4. ASSUME ~outlived' PROVE (OneInLock /\ Locked /\ Distant /\ Guarded /\ ~burst)'
  <2>1. Timely /\ ~outlived /\ \A d \in Workers \ {c} : ~InLock(d)
    BY <1>1, <1>4 DEF LimiterInv
  <2>2. \A d \in Workers : d # c => gate'[d] = gate[d]
    BY <1>1 DEF LimiterInv, LimiterOK
  <2>3. gate'[c] = "granted"
    BY <1>1 DEF LimiterInv, LimiterOK
  <2>4. \A d \in Workers : gate'[d] \notin {"read", "sleep", "set", "delete"}
    BY <2>1, <2>2, <2>3 DEF InLock
  <2>5. ~SlotUnwritten
    BY <1>1, <2>1 DEF Timely, Guarded
  <2>6. ~SlotUnwritten' /\ ~burst'
    BY <1>1, <2>1, <2>5 DEF Timely, SlotUnwritten
  <2>7. QED
    BY <2>4, <2>6 DEF OneInLock, Locked, Distant, Guarded, InLock
<1>5. QED
  BY <1>3, <1>4 DEF LimiterInv, Timely

\* A tick brings every distance closer and lengthens the time since the last slot.
LEMMA TickStep ==
  ASSUME LimiterInv, Tick
  PROVE  LimiterInv'
<1>1. /\ ttl' = Down(ttl) /\ slot' = Down(slot) /\ left' = [c \in Workers |-> Down(left[c])]
      /\ since' = IF since < Interval THEN since + 1 ELSE since
      /\ outlived' = (outlived \/ (ttl = 1 /\ (SlotUnwritten' \/ \E c \in Workers : InLock(c))))
      /\ UNCHANGED <<gate, burst>>
  BY DEF Tick
<1>2. stalls' \in 0 .. MaxStalls
  BY LimiterConstants DEF Tick, LimiterInv, LimiterOK
<1>3. \A n \in 0 .. Interval : Down(n) \in 0 .. Interval /\ Down(n) >= n - 1
  BY LimiterConstants DEF Down
<1>4. outlived' \in BOOLEAN
  BY <1>1
<1>5. ttl' \in Nat /\ slot' \in 0 .. Interval /\ since' \in 0 .. Interval
  BY <1>1, <1>3, LimiterConstants DEF LimiterInv, LimiterOK, Down
<1>6. left' \in [Workers -> 0 .. Interval]
  BY <1>1, <1>3 DEF LimiterInv, LimiterOK
<1>7. LimiterOK'
  BY <1>1, <1>2, <1>4, <1>5, <1>6 DEF LimiterInv, LimiterOK
<1>8. \A n \in 0 .. Interval : n + since >= Interval => Down(n) + since' >= Interval
  BY <1>1, <1>3, LimiterConstants DEF LimiterInv, LimiterOK, Down
<1>9. ASSUME ~outlived' PROVE (OneInLock /\ Locked /\ Distant /\ Guarded /\ ~burst)'
  <2>1. Timely /\ ~outlived
    BY <1>1, <1>9 DEF LimiterInv
  <2>0. ttl = 1 => ~SlotUnwritten' /\ \A c \in Workers : ~InLock(c)
    BY <1>1, <1>9
  <2>2. OneInLock' /\ ~burst'
    BY <1>1, <2>1 DEF Timely, OneInLock, InLock
  <2>3. ttl > 0 /\ ttl # 1 => ttl' > 0
    BY <1>1 DEF LimiterInv, LimiterOK, Down
  <2>4. Locked'
    <3>1. ASSUME NEW c \in Workers, InLock(c)' PROVE ttl' > 0
      <4>1. InLock(c)
        BY <1>1, <3>1 DEF InLock
      <4>2. QED
        BY <2>0, <2>1, <2>3, <4>1 DEF Timely, Locked
    <3>2. QED
      BY <3>1 DEF Locked
  <2>5. Distant'
    BY <1>1, <1>8, <2>1 DEF Timely, Distant, LimiterInv, LimiterOK
  <2>6. SlotUnwritten' => SlotUnwritten
    <3>1. slot \in 0 .. Interval /\ since \in 0 .. Interval
      BY DEF LimiterInv, LimiterOK
    <3>2. ~(slot + since < Interval) => ~(slot' + since' < Interval)
      BY <1>1, <1>5, <1>8, <3>1, LimiterConstants
    <3>3. QED
      BY <3>2 DEF SlotUnwritten
  <2>7. Guarded'
    <3>1. ASSUME SlotUnwritten'
          PROVE  ttl' > 0 /\ \A c \in Workers : gate'[c] \notin {"read", "sleep", "delete"}
      BY <1>1, <2>0, <2>1, <2>3, <2>6, <3>1 DEF Timely, Guarded
    <3>2. QED
      BY <3>1 DEF Guarded
  <2>8. QED
    BY <2>2, <2>4, <2>5, <2>7
<1>10. QED
  BY <1>7, <1>9 DEF LimiterInv, Timely

\* A client asks, or takes what it was granted: the lock is not concerned.
LEMMA OutsideStep ==
  ASSUME LimiterInv, NEW c \in Workers, NEW l \in {"out", "asking"}, ~InLock(c),
         gate' = [gate EXCEPT ![c] = l],
         UNCHANGED <<ttl, slot, left, since, burst, outlived, stalls>>
  PROVE  LimiterInv'
<1>1. LimiterOK'
  BY DEF LimiterInv, LimiterOK, Gates
<1>2. \A d \in Workers : InLock(d)' <=> InLock(d)
  BY DEF LimiterInv, LimiterOK, InLock
<1>3. \A d \in Workers : InLock(d)' => gate'[d] = gate[d]
  BY DEF LimiterInv, LimiterOK, InLock
<1>4. ASSUME ~outlived' PROVE (OneInLock /\ Locked /\ Distant /\ Guarded /\ ~burst)'
  <2>1. Timely /\ ~outlived
    BY <1>4 DEF LimiterInv
  <2>2. OneInLock' /\ Locked' /\ ~burst'
    BY <1>2, <2>1 DEF Timely, OneInLock, Locked
  <2>3. Distant'
    BY <1>3, <2>1 DEF Timely, Distant, InLock
  <2>4. Guarded'
    BY <1>3, <2>1 DEF Timely, Guarded, InLock, SlotUnwritten
  <2>5. QED
    BY <2>2, <2>3, <2>4
<1>5. QED
  BY <1>1, <1>4 DEF LimiterInv, Timely

\* When the process dies, a lock it had stays in the cache.
LEMMA ClearStep ==
  ASSUME LimiterInv, gate' = [t \in Workers |-> "out"], left' = [t \in Workers |-> 0],
         UNCHANGED <<ttl, slot, since, burst, outlived, stalls>>
  PROVE  LimiterInv'
<1>1. LimiterOK'
  BY LimiterConstants DEF LimiterInv, LimiterOK, Gates
<1>2. QED
  BY <1>1 DEF LimiterInv, Timely, OneInLock, Locked, Distant, Guarded, InLock, SlotUnwritten
-----------------------------------------------------------------------------
(***************************************************************************)
(* The limiter inside the full sync.                                       *)
(***************************************************************************)
\* A step of the sync does to the limiter one of five things.
LEMMA LimiterMoves ==
  ASSUME LimiterOK, Gated, ShardsOK, [Next]_vars
  PROVE  \/ UNCHANGED limiter
         \/ Tick
         \/ \E c \in Workers : Acquire(c)
         \/ \E c \in Workers, l \in {"out", "asking"} :
              /\ ~InLock(c) /\ gate' = [gate EXCEPT ![c] = l]
              /\ UNCHANGED <<ttl, slot, left, since, burst, outlived, stalls>>
         \/ /\ gate' = [t \in Workers |-> "out"] /\ left' = [t \in Workers |-> 0]
            /\ UNCHANGED <<ttl, slot, since, burst, outlived, stalls>>
<1>1. CASE UNCHANGED vars \/ StartPhase \/ EndPhase
  BY <1>1 DEF vars, StartPhase, EndPhase
<1>2. CASE Crash \/ Wait
  BY <1>2 DEF Crash, Wait
<1>3. ASSUME NEW t \in Workers, Loop(t)
      PROVE  \/ UNCHANGED limiter
             \/ /\ ~InLock(t) /\ gate' = [gate EXCEPT ![t] = "asking"]
                /\ UNCHANGED <<ttl, slot, left, since, burst, outlived, stalls>>
  <2>1. gate[t] = "out"
    BY <1>3 DEF Loop, Gated
  <2>2. QED
    BY <1>3, <2>1 DEF Loop, InLock, limiter
<1>4. ASSUME NEW t \in Workers, Handle(t)
      PROVE  /\ ~InLock(t) /\ gate' = [gate EXCEPT ![t] = "out"]
             /\ UNCHANGED <<ttl, slot, left, since, burst, outlived, stalls>>
  BY <1>4 DEF Handle, InLock
<1>5. ASSUME NEW t \in Workers, Ask(t) PROVE Acquire(t)
  BY <1>5 DEF Ask
<1>6. ASSUME NEW t \in Workers,
             \/ StartShard(t) \/ Flush(t) \/ FlushErrors(t) \/ LastFlush(t)
             \/ LastErrors(t) \/ FinishShard(t) \/ FailShard(t)
      PROVE  UNCHANGED limiter
  BY <1>6 DEF StartShard, Flush, FlushErrors, LastFlush, LastErrors, FinishShard, FailShard
<1>7. QED
  BY <1>1, <1>2, <1>3, <1>4, <1>5, <1>6 DEF Next, Shard

LEMMA LimiterStep ==
  ASSUME LimiterInv, Gated, ShardsOK, [Next]_vars
  PROVE  LimiterInv'
<1>1. CASE UNCHANGED limiter
  BY <1>1 DEF LimiterInv, LimiterOK, limiter, Timely, OneInLock, Locked, Distant, Guarded, InLock, SlotUnwritten
<1>2. CASE Tick
  BY <1>2, TickStep
<1>3. ASSUME NEW c \in Workers, Acquire(c) PROVE LimiterInv'
  BY <1>3, LockStep, ReadStep, WakeStep, WriteStep, DeleteStep DEF Acquire
<1>4. QED
  BY <1>1, <1>2, <1>3, OutsideStep, ClearStep, LimiterMoves DEF LimiterInv

LEMMA GatedStep ==
  ASSUME LimiterOK, ShardsOK, Gated, [Next]_vars
  PROVE  Gated'
<1>1. CASE UNCHANGED <<pc, gate>>
  BY <1>1 DEF Gated
<1>2. CASE Crash
  BY <1>2 DEF Crash, Gated
<1>3. ASSUME NEW t \in Workers, Loop(t) PROVE Gated'
  BY <1>3 DEF Loop, Goto, Gated, ShardsOK, LimiterOK
<1>4. ASSUME NEW t \in Workers, Handle(t) PROVE Gated'
  BY <1>4 DEF Handle, Goto, Gated, ShardsOK, LimiterOK
<1>5. ASSUME NEW t \in Workers, Ask(t) PROVE Gated'
  <2>1. pc[t] = "handle" /\ UNCHANGED pc /\ \A d \in Workers : d # t => gate'[d] = gate[d]
    BY <1>5 DEF Ask, Acquire, TryLock, ReadSlot, Wake, Claim, TakeSlot, DeleteLock, Pass, LimiterOK, work
  <2>2. QED
    BY <2>1 DEF Gated
<1>6. ASSUME NEW t \in Workers,
             \/ StartShard(t) \/ Flush(t) \/ FlushErrors(t) \/ LastFlush(t)
             \/ LastErrors(t) \/ FinishShard(t) \/ FailShard(t)
      PROVE  Gated'
  <2>1. pc[t] # "handle" /\ UNCHANGED gate /\ \A d \in Workers : d # t => pc'[d] = pc[d]
    BY <1>6 DEF StartShard, Flush, FlushErrors, LastFlush, LastErrors, FinishShard, FailShard, Goto, ShardsOK, limiter
  <2>2. QED
    BY <2>1 DEF Gated
<1>7. QED
  <2>1. UNCHANGED vars \/ StartPhase \/ EndPhase \/ Wait => UNCHANGED <<pc, gate>>
    BY DEF vars, work, limiter, StartPhase, EndPhase, Wait, Tick
  <2>2. QED
    BY <1>1, <1>2, <1>3, <1>4, <1>5, <1>6, <2>1 DEF Next, Shard

-----------------------------------------------------------------------------
(***************************************************************************)
(* What is accounted for stays accounted for.                              *)
(***************************************************************************)
LEMMA UnwrittenStays ==
  ASSUME ShardsOK, NEW t \in Workers, pc'[t] = pc[t], buffer'[t] = buffer[t]
  PROVE  Unwritten(t)' = Unwritten(t)
BY DEF Unwritten

\* A step of one thread: what it is about to write is still that, or is written, or lost.
LEMMA AccountedKept ==
  ASSUME handled \subseteq handled', ledger \subseteq ledger', lost \subseteq lost',
         \A t \in Workers : Unwritten(t) \subseteq Unwritten(t)' \union ledger' \union lost'
  PROVE  Accounted \subseteq Accounted'
BY DEF Accounted

LEMMA AccountedStep ==
  ASSUME ShardsOK, [Next]_vars
  PROVE  Accounted \subseteq Accounted'
<1>1. CASE UNCHANGED <<handled, ledger, lost, pc, buffer>>
  BY <1>1, AccountedKept DEF Unwritten
<1>2. CASE Crash
  <2>1. /\ lost' = lost \union UNION {Unwritten(t) : t \in Workers}
        /\ UNCHANGED <<handled, ledger>>
    BY <1>2 DEF Crash, rows
  <2>2. QED
    BY <2>1 DEF Accounted
<1>3. ASSUME NEW t \in Workers, Shard(t) \/ FailShard(t)
      PROVE  Accounted \subseteq Accounted'
  <2>1. \A u \in Workers : u # t => Unwritten(u)' = Unwritten(u)
    BY <1>3 DEF Shard, StartShard, Loop, Handle, Flush, FlushErrors, LastFlush, LastErrors, FinishShard,
      FailShard, Goto, Unwritten, ShardsOK
  <2>2. handled \subseteq handled' /\ ledger \subseteq ledger' /\ lost \subseteq lost'
    BY <1>3 DEF Shard, StartShard, Loop, Handle, Flush, FlushErrors, LastFlush, LastErrors, FinishShard,
      FailShard, rows
  <2>3. Unwritten(t) \subseteq Unwritten(t)' \union ledger' \union lost'
    <3>1. CASE StartShard(t) \/ Loop(t) \/ Handle(t) \/ Flush(t) \/ LastFlush(t) \/ FinishShard(t)
      BY <3>1 DEF StartShard, Loop, Handle, Flush, LastFlush, FinishShard, Unwritten
    <3>2. CASE FlushErrors(t) \/ LastErrors(t)
      BY <3>2 DEF FlushErrors, LastErrors, Unwritten
    <3>3. CASE FailShard(t)
      BY <3>3 DEF FailShard
    <3>4. QED
      BY <1>3, <3>1, <3>2, <3>3 DEF Shard
  <2>4. QED
    BY <2>1, <2>2, <2>3, AccountedKept
<1>4. QED
  <2>1. UNCHANGED vars \/ StartPhase \/ EndPhase \/ Wait \/ (\E t \in Workers : Ask(t))
        => UNCHANGED <<handled, ledger, lost, pc, buffer>>
    BY DEF vars, rows, work, StartPhase, EndPhase, Wait, Ask
  <2>2. QED
    BY <1>1, <1>2, <1>3, <2>1 DEF Next

-----------------------------------------------------------------------------
(***************************************************************************)
(* Shards and threads are well typed.                                      *)
(***************************************************************************)
LEMMA ShardConstants ==
  /\ Numbers \subseteq Nat /\ Bad \subseteq Ids
  /\ \A s \in Numbers : Shards[s][1] \in Nat /\ Shards[s][2] \in Nat /\ IdsOf(s) \subseteq Ids
  /\ \A s \in Numbers : \A id \in IdsOf(s) : id \in Nat /\ Shards[s][1] <= id /\ id <= Shards[s][2]
  /\ \A s \in Numbers : \A id \in Int : Shards[s][1] <= id /\ id <= Shards[s][2] => id \in IdsOf(s)
<1>1. \A s \in Numbers : Shards[s][1] \in Nat /\ Shards[s][2] \in Nat
  BY FullSyncAssumption
<1>2. \A s \in Numbers : IdsOf(s) \subseteq Ids
  BY DEF Ids
<1>3. \A s \in Numbers : \A id \in IdsOf(s) : id \in Nat /\ Shards[s][1] <= id /\ id <= Shards[s][2]
  BY <1>1 DEF IdsOf
<1>4. \A s \in Numbers : \A id \in Int : Shards[s][1] <= id /\ id <= Shards[s][2] => id \in IdsOf(s)
  BY <1>1 DEF IdsOf
<1>5. QED
  BY <1>1, <1>2, <1>3, <1>4, FullSyncAssumption

LEMMA ShardsOKStep ==
  ASSUME ShardInv, [Next]_vars
  PROVE  ShardsOK'
<1>0. ShardsOK
  BY DEF ShardInv
<1>1. CASE UNCHANGED <<rows, work>>
  BY <1>0, <1>1 DEF rows, work, ShardsOK
<1>2. CASE StartPhase \/ EndPhase
  <2>1. queue' \subseteq Numbers /\ phase' \in {"off", "on", "done"}
    BY <1>0, <1>2 DEF StartPhase, EndPhase, ShardsOK
  <2>2. QED
    BY <1>0, <1>2, <2>1 DEF StartPhase, EndPhase, ShardsOK, rows
<1>3. CASE Crash
  <2>1. lost' \subseteq Ids
    BY <1>0, <1>3 DEF Crash, Unwritten, ShardsOK
  <2>2. /\ phase' = "off" /\ queue' = {} /\ pc' \in [Workers -> Steps]
        /\ shard' \in [Workers -> Nat] /\ at' \in [Workers -> Int]
    BY <1>3 DEF Crash, Steps
  <2>3. buffer' \in [Workers -> SUBSET Ids]
    BY <1>3 DEF Crash
  <2>4. UNCHANGED <<status, current, ledger, handled>>
    BY <1>3 DEF Crash, rows
  <2>5. QED
    BY <1>0, <2>1, <2>2, <2>3, <2>4 DEF ShardsOK
<1>4. ASSUME NEW t \in Workers, StartShard(t) PROVE ShardsOK'
  <2>1. PICK s \in queue :
          /\ queue' = queue \ {s} /\ status' = [status EXCEPT ![s] = "running"]
          /\ LET from == IF status[s] = "absent" THEN Shards[s][1] - 1 ELSE current[s] IN
             /\ current' = [current EXCEPT ![s] = from]
             /\ at' = [at EXCEPT ![t] = from + 1] /\ shard' = [shard EXCEPT ![t] = s]
    BY <1>4 DEF StartShard
  <2>2. s \in Numbers /\ s \in Nat /\ Shards[s][1] \in Nat /\ current[s] \in Int
    BY <1>0, ShardConstants DEF ShardsOK
  <2>3. /\ queue' \subseteq Numbers /\ status' \in [Numbers -> {"absent", "running", "finished", "failed"}]
        /\ shard' \in [Workers -> Nat]
    BY <1>0, <2>1, <2>2 DEF ShardsOK
  <2>4. current' \in [Numbers -> Int] /\ at' \in [Workers -> Int]
    BY <1>0, <2>1, <2>2 DEF ShardsOK
  <2>5. pc' \in [Workers -> Steps] /\ UNCHANGED <<ledger, phase, buffer, handled, lost>>
    BY <1>0, <1>4 DEF StartShard, Goto, ShardsOK, Steps
  <2>6. QED
    BY <1>0, <2>3, <2>4, <2>5 DEF ShardsOK
<1>5. ASSUME NEW t \in Workers, Loop(t) \/ Flush(t) \/ FlushErrors(t) PROVE ShardsOK'
  <2>1. pc' \in [Workers -> Steps] /\ current' \in [Numbers -> Int] /\ at' \in [Workers -> Int]
    <3>1. pc' \in [Workers -> Steps]
      BY <1>0, <1>5 DEF Loop, Flush, FlushErrors, Goto, ShardsOK, Steps
    <3>2. at' = at \/ at' = [at EXCEPT ![t] = @ + 1]
      BY <1>5 DEF Loop, Flush, FlushErrors
    <3>3. at' \in [Workers -> Int]
      BY <1>0, <3>2 DEF ShardsOK
    <3>4. current' = current \/ current' = [current EXCEPT ![shard[t]] = at[t]]
      BY <1>5 DEF Loop, Flush, FlushErrors, rows
    <3>5. at[t] \in Int
      BY <1>0 DEF ShardsOK
    <3>6. current' \in [Numbers -> Int]
      BY <1>0, <3>4, <3>5 DEF ShardsOK
    <3>7. QED
      BY <3>1, <3>3, <3>6
  <2>2. ledger' \subseteq Ids /\ buffer' \in [Workers -> SUBSET Ids]
    BY <1>0, <1>5 DEF Loop, Flush, FlushErrors, ShardsOK, rows
  <2>3. UNCHANGED <<status, phase, queue, shard, handled, lost>>
    BY <1>5 DEF Loop, Flush, FlushErrors, rows
  <2>4. QED
    BY <1>0, <2>1, <2>2, <2>3 DEF ShardsOK
<1>6. ASSUME NEW t \in Workers, Handle(t) PROVE ShardsOK'
  <2>1. at[t] \in Ids
    BY <1>6, ShardConstants DEF Handle, ShardInv, Walked
  <2>2. handled' \subseteq Ids /\ buffer' \in [Workers -> SUBSET Ids]
    BY <1>0, <1>6, <2>1 DEF Handle, ShardsOK
  <2>3. pc' \in [Workers -> Steps] /\ UNCHANGED <<rows, phase, queue, shard, at, lost>>
    BY <1>0, <1>6 DEF Handle, Goto, ShardsOK, Steps
  <2>4. QED
    BY <1>0, <2>2, <2>3 DEF ShardsOK, rows
<1>7. ASSUME NEW t \in Workers, LastFlush(t) \/ LastErrors(t) \/ FinishShard(t) PROVE ShardsOK'
  <2>1. shard[t] \in Numbers /\ Shards[shard[t]][2] \in Nat
    BY <1>7, ShardConstants DEF ShardInv, Walked, LastFlush, LastErrors, FinishShard
  <2>2. pc' \in [Workers -> Steps] /\ current' \in [Numbers -> Int]
    <3>1. pc' \in [Workers -> Steps]
      BY <1>0, <1>7 DEF LastFlush, LastErrors, FinishShard, Goto, ShardsOK, Steps
    <3>2. current' = current \/ current' = [current EXCEPT ![shard[t]] = Shards[shard[t]][2]]
      BY <1>7 DEF LastFlush, LastErrors, FinishShard
    <3>3. Shards[shard[t]][2] \in Int
      BY <2>1
    <3>4. current' \in [Numbers -> Int]
      BY <1>0, <3>2, <3>3 DEF ShardsOK
    <3>5. QED
      BY <3>1, <3>4
  <2>3. ledger' \subseteq Ids /\ buffer' \in [Workers -> SUBSET Ids]
    BY <1>0, <1>7 DEF LastFlush, LastErrors, FinishShard, ShardsOK
  <2>4. status' \in [Numbers -> {"absent", "running", "finished", "failed"}]
    BY <1>0, <1>7 DEF LastFlush, LastErrors, FinishShard, ShardsOK
  <2>5. UNCHANGED <<phase, queue, shard, at, handled, lost>>
    BY <1>7 DEF LastFlush, LastErrors, FinishShard
  <2>6. QED
    BY <1>0, <2>2, <2>3, <2>4, <2>5 DEF ShardsOK
<1>8. ASSUME NEW t \in Workers, FailShard(t) PROVE ShardsOK'
  <2>1. pc' \in [Workers -> Steps] /\ status' \in [Numbers -> {"absent", "running", "finished", "failed"}]
    BY <1>0, <1>8 DEF FailShard, Goto, ShardsOK, Steps
  <2>2. lost' \subseteq Ids /\ buffer' \in [Workers -> SUBSET Ids]
    BY <1>0, <1>8 DEF FailShard, Unwritten, ShardsOK
  <2>3. QED
    BY <1>0, <1>8, <2>1, <2>2 DEF FailShard, ShardsOK
<1>9. QED
  <2>1. UNCHANGED vars \/ Wait \/ (\E t \in Workers : Ask(t)) => UNCHANGED <<rows, work>>
    BY DEF vars, Wait, Ask
  <2>2. QED
    BY <1>1, <1>2, <1>3, <1>4, <1>5, <1>6, <1>7, <1>8, <2>1 DEF Next, Shard

-----------------------------------------------------------------------------
(***************************************************************************)
(* Nothing behind the progress of a shard, or of its thread, is forgotten. *)
(***************************************************************************)
\* A row that exists stays.
LEMMA RowStays ==
  ASSUME ShardsOK, [Next]_vars, NEW s \in Numbers, status[s] # "absent"
  PROVE  status'[s] # "absent"
<1>1. ASSUME NEW t \in Workers, StartShard(t) PROVE status'[s] # "absent"
  BY <1>1 DEF StartShard, ShardsOK
<1>2. ASSUME NEW t \in Workers, FinishShard(t) \/ FailShard(t) PROVE status'[s] # "absent"
  BY <1>2 DEF FinishShard, FailShard, ShardsOK
<1>3. ASSUME NEW t \in Workers,
             \/ Loop(t) \/ Handle(t) \/ Flush(t) \/ FlushErrors(t) \/ LastFlush(t)
             \/ LastErrors(t) \/ Ask(t)
      PROVE  status' = status
  BY <1>3 DEF Loop, Handle, Flush, FlushErrors, LastFlush, LastErrors, Ask, rows
<1>4. UNCHANGED vars \/ StartPhase \/ EndPhase \/ Crash \/ Wait => status' = status
  BY DEF vars, rows, StartPhase, EndPhase, Crash, Wait
<1>5. QED
  BY <1>1, <1>2, <1>3, <1>4 DEF Next, Shard

LEMMA BehindKept ==
  ASSUME NEW s \in Numbers, Behind(s), status[s] # "absent", current'[s] = current[s],
         Accounted \subseteq Accounted'
  PROVE  Behind(s)'
BY DEF Behind

LEMMA WalkedKept ==
  ASSUME NEW t \in Workers, Walked(t),
         pc'[t] = pc[t], shard'[t] = shard[t], at'[t] = at[t], buffer'[t] = buffer[t],
         Accounted \subseteq Accounted',
         \A s \in Numbers : status[s] # "absent" => status'[s] # "absent"
  PROVE  Walked(t)'
<1>1. SUFFICES ASSUME pc'[t] # "idle" PROVE Walked(t)'
  BY DEF Walked
<1>2. /\ shard[t] \in Numbers /\ status[shard[t]] # "absent"
      /\ IdsOf(shard[t]) # {} => at[t] >= Shards[shard[t]][1]
      /\ \A id \in IdsOf(shard[t]) : Passed(t, id) => id \in Accounted \union buffer[t]
      /\ pc[t] \in {"handle", "flush", "errors"} => at[t] \in IdsOf(shard[t])
      /\ pc[t] \in {"last flush", "last errors", "finish"} => \A id \in IdsOf(shard[t]) : id < at[t]
  BY <1>1 DEF Walked
<1>3. \A id : Passed(t, id)' <=> Passed(t, id)
  BY DEF Passed
<1>4. QED
  BY <1>2, <1>3 DEF Walked

\* A thread takes a step: what of the other threads and shards is left alone.
LEMMA OthersKept ==
  ASSUME ShardInv, [Next]_vars, NEW t \in Workers, Shard(t) \/ FailShard(t), NEW u \in Workers, u # t
  PROVE  Walked(u)'
<1>1. pc'[u] = pc[u] /\ shard'[u] = shard[u] /\ at'[u] = at[u] /\ buffer'[u] = buffer[u]
  BY DEF ShardInv, ShardsOK, Shard, StartShard, Loop, Handle, Flush, FlushErrors, LastFlush, LastErrors,
    FinishShard, FailShard, Goto
<1>2. Accounted \subseteq Accounted' /\ \A s \in Numbers : status[s] # "absent" => status'[s] # "absent"
  BY AccountedStep, RowStays DEF ShardInv
<1>3. QED
  BY <1>1, <1>2, WalkedKept DEF ShardInv

\* A shard is resumed behind what was written of it.
LEMMA StartKeeps ==
  ASSUME ShardInv, [Next]_vars, NEW t \in Workers, StartShard(t)
  PROVE  Walked(t)' /\ \A s \in Numbers : Behind(s)'
<1>0. ShardsOK /\ Accounted \subseteq Accounted'
  BY AccountedStep DEF ShardInv
<1>1. PICK n \in queue :
        /\ status' = [status EXCEPT ![n] = "running"]
        /\ LET from == IF status[n] = "absent" THEN Shards[n][1] - 1 ELSE current[n] IN
           /\ current' = [current EXCEPT ![n] = from]
           /\ at' = [at EXCEPT ![t] = from + 1] /\ shard' = [shard EXCEPT ![t] = n]
  BY DEF StartShard
<1> DEFINE from == IF status[n] = "absent" THEN Shards[n][1] - 1 ELSE current[n]
<1>2. n \in Numbers /\ Shards[n][1] \in Nat /\ current[n] \in Int /\ from \in Int
  BY <1>0, ShardConstants DEF ShardsOK
<1>3. /\ current'[n] = from /\ at'[t] = from + 1 /\ shard'[t] = n /\ status'[n] = "running"
      /\ pc'[t] = "loop"
  BY <1>0, <1>1, <1>2 DEF StartShard, Goto, ShardsOK
<1>4. IdsOf(n) # {} => from >= Shards[n][1] - 1
  BY <1>2 DEF ShardInv, Behind
<1>5. ASSUME NEW id \in IdsOf(n), id <= from PROVE id \in Accounted
  <2>1. CASE status[n] = "absent"
    BY <1>2, <1>5, <2>1, ShardConstants
  <2>2. CASE status[n] # "absent"
    BY <1>2, <1>5, <2>2 DEF ShardInv, Behind
  <2>3. QED
    BY <2>1, <2>2
<1> HIDE DEF from
<1>6. Behind(n)'
  BY <1>0, <1>3, <1>4, <1>5 DEF Behind
<1>7. ASSUME NEW s \in Numbers, s # n PROVE Behind(s)'
  <2>1. status'[s] = status[s] /\ current'[s] = current[s]
    BY <1>0, <1>1, <1>7 DEF ShardsOK
  <2>2. QED
    BY <1>0, <2>1 DEF ShardInv, Behind
<1>8. ASSUME NEW id \in IdsOf(n), Passed(t, id)' PROVE id \in Accounted'
  <2>1. id < from + 1 /\ id \in Int
    BY <1>2, <1>3, <1>8, ShardConstants DEF Passed
  <2>2. QED
    BY <1>0, <1>2, <1>5, <2>1
<1>9. Walked(t)'
  <2>1. IdsOf(n) # {} => from + 1 >= Shards[n][1]
    BY <1>2, <1>4
  <2>2. QED
    BY <1>2, <1>3, <1>8, <2>1 DEF Walked
<1>10. QED
  BY <1>6, <1>7, <1>9

\* One id after the other: the next is asked for, handled or kept in memory, and passed.
LEMMA LoopKeeps ==
  ASSUME ShardInv, [Next]_vars, NEW t \in Workers, Loop(t)
  PROVE  Walked(t)' /\ \A s \in Numbers : Behind(s)'
<1>0. ShardsOK /\ Accounted \subseteq Accounted'
  BY AccountedStep DEF ShardInv
<1>s. PICK n : n = shard[t]
  OBVIOUS
<1>1. /\ pc[t] = "loop" /\ UNCHANGED <<status, current, shard, at, buffer>>
      /\ pc'[t] = IF at[t] \in IdsOf(n) THEN "handle" ELSE "last flush"
  BY <1>0, <1>s DEF Loop, Goto, ShardsOK, rows
<1>2. /\ n \in Numbers /\ status[n] # "absent" /\ at[t] \in Int
      /\ IdsOf(n) # {} => at[t] >= Shards[n][1]
      /\ \A id \in IdsOf(n) : Passed(t, id) => id \in Accounted \union buffer[t]
  BY <1>0, <1>1, <1>s DEF ShardInv, Walked, ShardsOK
<1>3. \A s \in Numbers : Behind(s)'
  BY <1>0, <1>1 DEF ShardInv, Behind
<1>4. \A id : Passed(t, id)' => Passed(t, id)
  BY <1>1 DEF Passed
<1>5. ASSUME at[t] \notin IdsOf(n), NEW id \in IdsOf(n) PROVE id < at[t]
  <2>1. Shards[n][1] \in Nat /\ Shards[n][2] \in Nat
    BY <1>2, ShardConstants
  <2>2. IdsOf(n) = Shards[n][1] .. Shards[n][2]
    BY DEF IdsOf
  <2>3. QED
    BY <1>2, <1>5, <2>1, <2>2
<1>6. Walked(t)'
  BY <1>0, <1>1, <1>2, <1>4, <1>5, <1>s DEF Walked
<1>7. QED
  BY <1>3, <1>6

LEMMA HandleKeeps ==
  ASSUME ShardInv, [Next]_vars, NEW t \in Workers, Handle(t)
  PROVE  Walked(t)' /\ \A s \in Numbers : Behind(s)'
<1>0. ShardsOK /\ Accounted \subseteq Accounted'
  BY AccountedStep DEF ShardInv
<1>s. PICK n : n = shard[t]
  OBVIOUS
<1>1. /\ pc[t] = "handle" /\ pc'[t] = "flush" /\ UNCHANGED <<status, current, shard, at>>
      /\ at[t] \in handled' \/ at[t] \in buffer'[t]
      /\ buffer[t] \subseteq buffer'[t]
  BY <1>0 DEF Handle, Goto, ShardsOK, rows
<1>2. /\ n \in Numbers /\ status[n] # "absent" /\ at[t] \in IdsOf(n)
      /\ IdsOf(n) # {} => at[t] >= Shards[n][1]
      /\ \A id \in IdsOf(n) : Passed(t, id) => id \in Accounted \union buffer[t]
  BY <1>1, <1>s DEF ShardInv, Walked
<1>3. \A s \in Numbers : Behind(s)'
  BY <1>0, <1>1 DEF ShardInv, Behind
<1>4. at[t] \in Accounted' \union buffer'[t]
  BY <1>1 DEF Accounted
<1>5. \A id : Passed(t, id)' => Passed(t, id) \/ id = at[t]
  BY <1>1 DEF Passed
<1>6. \A id \in IdsOf(n) : Passed(t, id)' => id \in Accounted' \union buffer'[t]
  BY <1>0, <1>1, <1>2, <1>4, <1>5
<1>7. Walked(t)'
  BY <1>1, <1>2, <1>6, <1>s DEF Walked
<1>8. QED
  BY <1>3, <1>7

LEMMA FlushKeeps ==
  ASSUME ShardInv, [Next]_vars, NEW t \in Workers, Flush(t)
  PROVE  Walked(t)' /\ \A s \in Numbers : Behind(s)'
<1>0. ShardsOK /\ Accounted \subseteq Accounted'
  BY AccountedStep DEF ShardInv
<1>s. PICK n : n = shard[t]
  OBVIOUS
<1>1. pc[t] = "flush" /\ UNCHANGED <<status, shard, buffer>>
  BY DEF Flush
<1>2. /\ n \in Numbers /\ status[n] # "absent" /\ at[t] \in IdsOf(n) /\ at[t] \in Int
      /\ at[t] >= Shards[n][1] /\ Shards[n][1] \in Nat
      /\ \A id \in IdsOf(n) : Passed(t, id) => id \in Accounted \union buffer[t]
  BY <1>0, <1>1, <1>s, ShardConstants DEF ShardInv, Walked, ShardsOK
<1>3. \A id \in IdsOf(n) : id <= at[t] => id \in Accounted \union buffer[t]
  BY <1>1, <1>2, ShardConstants DEF Passed
<1>4. CASE current' = [current EXCEPT ![shard[t]] = at[t]] /\ Goto(t, "errors") /\ UNCHANGED at
  <2>1. pc'[t] = "errors" /\ current'[n] = at[t]
    BY <1>0, <1>2, <1>4, <1>s DEF Goto, ShardsOK
  <2>2. buffer[t] \subseteq Accounted'
    BY <1>1, <2>1 DEF Accounted, Unwritten
  <2>3. Behind(n)'
    BY <1>0, <1>1, <1>2, <1>3, <2>1, <2>2 DEF Behind
  <2>4. ASSUME NEW s \in Numbers, s # n PROVE Behind(s)'
    <3>1. current'[s] = current[s]
      BY <1>0, <1>4, <1>s, <2>4 DEF ShardsOK
    <3>2. QED
      BY <1>0, <1>1, <3>1 DEF ShardInv, Behind
  <2>5. \A id : Passed(t, id)' => Passed(t, id)
    BY <1>1, <1>4 DEF Passed
  <2>6. Walked(t)'
    BY <1>0, <1>1, <1>2, <1>4, <2>1, <2>5, <1>s DEF Walked
  <2>7. QED
    BY <2>3, <2>4, <2>6
<1>5. CASE Goto(t, "loop") /\ at' = [at EXCEPT ![t] = @ + 1] /\ UNCHANGED current
  <2>1. pc'[t] = "loop" /\ at'[t] = at[t] + 1
    BY <1>0, <1>5 DEF Goto, ShardsOK
  <2>2. \A s \in Numbers : Behind(s)'
    BY <1>0, <1>1, <1>5 DEF ShardInv, Behind
  <2>3. \A id \in IdsOf(n) : Passed(t, id)' => id <= at[t]
    BY <1>2, <2>1, ShardConstants DEF Passed
  <2>4. at'[t] >= Shards[n][1]
    BY <1>2, <2>1
  <2>5. Walked(t)'
    BY <1>0, <1>1, <1>2, <1>3, <2>1, <2>3, <2>4, <1>s DEF Walked
  <2>6. QED
    BY <2>2, <2>5
<1>6. QED
  BY <1>4, <1>5 DEF Flush

LEMMA FlushErrorsKeeps ==
  ASSUME ShardInv, [Next]_vars, NEW t \in Workers, FlushErrors(t)
  PROVE  Walked(t)' /\ \A s \in Numbers : Behind(s)'
<1>0. ShardsOK /\ Accounted \subseteq Accounted'
  BY AccountedStep DEF ShardInv
<1>s. PICK n : n = shard[t]
  OBVIOUS
<1>1. /\ pc[t] = "errors" /\ UNCHANGED <<status, current, shard>> /\ ledger' = ledger \union buffer[t]
      /\ pc'[t] = "loop" /\ at'[t] = at[t] + 1
  BY <1>0 DEF FlushErrors, Goto, ShardsOK
<1>2. /\ n \in Numbers /\ status[n] # "absent" /\ at[t] \in IdsOf(n) /\ at[t] \in Int
      /\ at[t] >= Shards[n][1] /\ Shards[n][1] \in Nat
      /\ \A id \in IdsOf(n) : Passed(t, id) => id \in Accounted \union buffer[t]
  BY <1>0, <1>1, <1>s, ShardConstants DEF ShardInv, Walked, ShardsOK
<1>3. \A s \in Numbers : Behind(s)'
  BY <1>0, <1>1 DEF ShardInv, Behind
<1>4. \A id \in IdsOf(n) : Passed(t, id)' => Passed(t, id)
  BY <1>1, <1>2, ShardConstants DEF Passed
<1>5. buffer[t] \subseteq Accounted'
  BY <1>1 DEF Accounted
<1>6. at'[t] >= Shards[n][1]
  BY <1>1, <1>2
<1>7. Walked(t)'
  BY <1>0, <1>1, <1>2, <1>4, <1>5, <1>6, <1>s DEF Walked
<1>8. QED
  BY <1>3, <1>7

LEMMA LastKeeps ==
  ASSUME ShardInv, [Next]_vars, NEW t \in Workers,
         LastFlush(t) \/ LastErrors(t) \/ FinishShard(t) \/ FailShard(t)
  PROVE  Walked(t)' /\ \A s \in Numbers : Behind(s)'
<1>0. ShardsOK /\ Accounted \subseteq Accounted'
  BY AccountedStep DEF ShardInv
<1>s. PICK n : n = shard[t]
  OBVIOUS
<1>1. /\ n \in Numbers /\ status[n] # "absent" /\ Shards[n][1] \in Nat /\ Shards[n][2] \in Nat
      /\ IdsOf(n) # {} => at[t] >= Shards[n][1]
      /\ \A id \in IdsOf(n) : Passed(t, id) => id \in Accounted \union buffer[t]
  BY <1>s, ShardConstants DEF ShardInv, Walked, LastFlush, LastErrors, FinishShard, FailShard
<1>2. CASE LastFlush(t)
  <2>1. /\ pc[t] = "last flush" /\ pc'[t] = "last errors" /\ current'[n] = Shards[n][2]
        /\ UNCHANGED <<status, shard, at, buffer>>
    BY <1>0, <1>1, <1>2, <1>s DEF LastFlush, Goto, ShardsOK
  <2>2. \A id \in IdsOf(n) : id < at[t]
    BY <2>1, <1>s DEF ShardInv, Walked
  <2>3. \A id \in IdsOf(n) : id \in Accounted'
    <3>1. buffer[t] \subseteq Accounted'
      BY <2>1 DEF Accounted, Unwritten
    <3>2. QED
      BY <1>0, <1>1, <2>2, <3>1 DEF Passed
  <2>4. IdsOf(n) # {} => Shards[n][2] >= Shards[n][1] - 1
    BY <1>1, ShardConstants
  <2>5. Behind(n)'
    BY <2>1, <2>3, <2>4 DEF Behind
  <2>6. ASSUME NEW s \in Numbers, s # n PROVE Behind(s)'
    <3>1. current'[s] = current[s]
      BY <1>0, <1>2, <1>s, <2>6 DEF LastFlush, ShardsOK
    <3>2. QED
      BY <1>0, <2>1, <3>1 DEF ShardInv, Behind
  <2>7. Walked(t)'
    BY <1>1, <2>1, <2>2, <2>3, <1>s DEF Walked
  <2>8. QED
    BY <2>5, <2>6, <2>7
<1>3. CASE LastErrors(t)
  <2>1. /\ pc[t] = "last errors" /\ pc'[t] = "finish" /\ ledger' = ledger \union buffer[t]
        /\ UNCHANGED <<status, current, shard, at>>
    BY <1>0, <1>3 DEF LastErrors, Goto, ShardsOK
  <2>2. \A id \in IdsOf(n) : id < at[t]
    BY <2>1, <1>s DEF ShardInv, Walked
  <2>3. \A id \in IdsOf(n) : id \in Accounted'
    <3>1. buffer[t] \subseteq Accounted'
      BY <2>1 DEF Accounted
    <3>2. QED
      BY <1>0, <1>1, <2>2, <3>1 DEF Passed
  <2>4. \A s \in Numbers : Behind(s)'
    BY <1>0, <2>1 DEF ShardInv, Behind
  <2>5. Walked(t)'
    BY <1>1, <2>1, <2>2, <2>3, <1>s DEF Walked
  <2>6. QED
    BY <2>4, <2>5
<1>4. CASE FinishShard(t) \/ FailShard(t)
  <2>1. pc'[t] = "idle" /\ current' = current
    BY <1>0, <1>4 DEF FinishShard, FailShard, Goto, ShardsOK
  <2>2. ASSUME NEW s \in Numbers PROVE Behind(s)'
    <3>1. CASE s = n
      BY <1>0, <1>1, <2>1, <3>1, BehindKept DEF ShardInv
    <3>2. CASE s # n
      <4>1. status'[s] = status[s]
        BY <1>0, <1>4, <1>s, <3>2 DEF FinishShard, FailShard, ShardsOK
      <4>2. QED
        BY <1>0, <2>1, <4>1 DEF ShardInv, Behind
    <3>3. QED
      BY <3>1, <3>2
  <2>3. QED
    BY <2>1, <2>2, <1>s DEF Walked
<1>5. QED
  BY <1>2, <1>3, <1>4

LEMMA ShardStep ==
  ASSUME ShardInv, [Next]_vars
  PROVE  ShardInv'
<1>1. ShardsOK' /\ Accounted \subseteq Accounted'
  BY ShardsOKStep, AccountedStep DEF ShardInv
<1>2. CASE UNCHANGED <<rows, pc, shard, at, buffer>>
  <2>1. \A s \in Numbers : Behind(s)'
    BY <1>1, <1>2 DEF rows, ShardInv, Behind
  <2>2. \A t \in Workers : Walked(t)'
    BY <1>1, <1>2, WalkedKept DEF rows, ShardInv
  <2>3. QED
    BY <1>1, <2>1, <2>2 DEF ShardInv
<1>3. CASE Crash
  <2>1. \A s \in Numbers : Behind(s)'
    BY <1>1, <1>3 DEF Crash, rows, ShardInv, Behind
  <2>2. \A t \in Workers : Walked(t)'
    BY <1>3 DEF Crash, Walked
  <2>3. QED
    BY <1>1, <2>1, <2>2 DEF ShardInv
<1>4. ASSUME NEW t \in Workers, Shard(t) \/ FailShard(t) PROVE ShardInv'
  <2>1. Walked(t)' /\ \A s \in Numbers : Behind(s)'
    BY <1>4, StartKeeps, LoopKeeps, HandleKeeps, FlushKeeps, FlushErrorsKeeps, LastKeeps DEF Shard
  <2>2. \A u \in Workers : u # t => Walked(u)'
    BY <1>4, OthersKept
  <2>3. QED
    BY <1>1, <2>1, <2>2 DEF ShardInv
<1>5. QED
  <2>1. UNCHANGED vars \/ StartPhase \/ EndPhase \/ Wait \/ (\E t \in Workers : Ask(t))
        => UNCHANGED <<rows, pc, shard, at, buffer>>
    BY DEF vars, rows, work, StartPhase, EndPhase, Wait, Ask
  <2>2. QED
    BY <1>2, <1>3, <1>4, <2>1 DEF Next

LEMMA SyncInit == Init => SyncInv
<1> SUFFICES ASSUME Init PROVE SyncInv
  OBVIOUS
<1>1. LimiterInv
  BY LimiterStart DEF Init
<1>2. Gated
  BY DEF Init, LimiterInit, Gated
<1>3. ShardsOK
  BY DEF Init, ShardsOK, Steps
<1>4. \A s \in Numbers : Behind(s)
  BY DEF Init, Behind
<1>5. \A t \in Workers : Walked(t)
  BY DEF Init, Walked
<1>6. QED
  BY <1>1, <1>2, <1>3, <1>4, <1>5 DEF SyncInv, ShardInv

THEOREM SyncInvariant == Safety => []SyncInv
<1>1. SyncInv /\ [Next]_vars => SyncInv'
  BY LimiterStep, GatedStep, ShardStep DEF SyncInv, LimiterInv, ShardInv
<1>2. QED
  BY SyncInit, <1>1, PTL DEF Safety

\* Every reachable state of a phase and of its limiter is well typed.
THEOREM TypeCorrect == Safety => []TypeOK
<1>1. SyncInv => TypeOK
  BY DEF SyncInv, LimiterInv, ShardInv, TypeOK
<1>2. QED
  BY <1>1, SyncInvariant, PTL

\* For any number of threads, crashes and stalls, two requests come closer than the interval
\* only where a lock ran out too early.
THEOREM Spaced == Safety => []NoBurst
<1>1. SyncInv => NoBurst
  BY DEF SyncInv, LimiterInv, LimiterOK, Timely, NoBurst
<1>2. QED
  BY <1>1, SyncInvariant, PTL

\* For any shards, overlapping ones included, an id behind a shard's progress was handled,
\* or its failure is written, about to be written, or was taken by a crash.
THEOREM Remembered == Safety => []NothingForgotten
<1>1. ASSUME SyncInv PROVE NothingForgotten
  <2>1. ASSUME NEW s \in Numbers, status[s] # "absent", NEW id \in IdsOf(s), id <= current[s]
        PROVE  id \in handled \union ledger \union lost \/ \E t \in Workers : id \in Unwritten(t)
    BY <1>1, <2>1 DEF SyncInv, ShardInv, Behind, Accounted
  <2>2. QED
    BY <2>1 DEF NothingForgotten
<1>2. QED
  BY <1>1, SyncInvariant, PTL

-----------------------------------------------------------------------------
(***************************************************************************)
(* A lock that lives long enough.                                          *)
(***************************************************************************)
\* A lock that lives for a sleep, all stalls and one interval more: what is left of it.
LongLock == LockTtl >= 2 * Interval + MaxStalls
PatientAt(c) ==
  /\ gate[c] = "read" => ttl + stalls >= LockTtl
  /\ gate[c] = "sleep" => ttl + stalls + Interval >= LockTtl + left[c]
  /\ gate[c] \in {"set", "delete"} => ttl + stalls + Interval >= LockTtl
Lasting == (SlotUnwritten => ttl + since >= Interval) /\ \A c \in Workers : PatientAt(c)
LongInv == SyncInv /\ ~outlived /\ Lasting

LEMMA PatientStep ==
  ASSUME LongLock, SyncInv, ~outlived, Lasting, NEW c \in Workers, Acquire(c)
  PROVE  ~outlived' /\ Lasting'
<1>0. /\ ttl \in Nat /\ slot \in 0 .. Interval /\ since \in 0 .. Interval /\ stalls \in 0 .. MaxStalls
      /\ left[c] \in 0 .. Interval /\ slot \in Int /\ since \in Int /\ stalls \in Int /\ left[c] \in Int
      /\ Interval \in Nat /\ LockTtl \in Nat /\ MaxStalls \in Nat
      /\ LockTtl >= 2 * Interval + MaxStalls /\ stalls <= MaxStalls
  BY LimiterConstants DEF SyncInv, LimiterInv, LimiterOK, LongLock
<1>1. /\ \A d \in Workers : d # c => gate'[d] = gate[d] /\ left'[d] = left[d]
      /\ UNCHANGED stalls
  BY DEF SyncInv, LimiterInv, LimiterOK, Acquire, TryLock, ReadSlot, Wake, Claim, TakeSlot, DeleteLock, Pass
<1>2. OneInLock /\ Locked /\ Distant /\ Guarded
  BY DEF SyncInv, LimiterInv, Timely
<1>3. CASE TryLock(c)
  <2>1. /\ ttl = 0 /\ ttl' = LockTtl /\ gate'[c] = "read" /\ UNCHANGED <<slot, since, outlived>>
    BY <1>3 DEF TryLock, Pass, SyncInv, LimiterInv, LimiterOK
  <2>2. \A d \in Workers : ~InLock(d)
    BY <2>1 DEF SyncInv, LimiterInv, LimiterOK, Timely, Locked
  <2>3. ASSUME NEW d \in Workers PROVE PatientAt(d)'
    BY <1>0, <1>1, <2>1, <2>2 DEF PatientAt, InLock
  <2>4. ~SlotUnwritten
    BY <1>2, <2>1 DEF Guarded
  <2>5. ~SlotUnwritten'
    BY <2>1, <2>4 DEF SlotUnwritten
  <2>6. QED
    BY <2>1, <2>3, <2>5 DEF Lasting
<1>4. ASSUME gate[c] \in {"read", "sleep", "set", "delete"}
      PROVE  \A d \in Workers : d # c => ~InLock(d) /\ PatientAt(d)'
  <2>1. \A d \in Workers : d # c => ~InLock(d)
    BY <1>2, <1>4 DEF OneInLock, InLock
  <2>2. QED
    BY <1>1, <2>1 DEF InLock, PatientAt
<1>5. CASE ReadSlot(c) \/ Wake(c)
  <2>1. CASE gate'[c] = "sleep"
    <3>1. /\ gate[c] = "read" /\ left'[c] = slot /\ UNCHANGED <<ttl, slot, since, outlived>>
      BY <1>5, <2>1 DEF ReadSlot, Wake, Claim, Pass, SyncInv, LimiterInv, LimiterOK
    <3>2. ttl + stalls >= LockTtl
      BY <3>1 DEF Lasting, PatientAt
    <3>3. PatientAt(c)'
      BY <1>0, <1>1, <2>1, <3>1, <3>2 DEF PatientAt
    <3>4. SlotUnwritten' => ttl' + since' >= Interval
      BY <3>1 DEF Lasting, SlotUnwritten
    <3>5. QED
      BY <1>4, <3>1, <3>3, <3>4 DEF Lasting
  <2>2. CASE gate'[c] # "sleep"
    <3>1. /\ gate[c] \in {"read", "sleep"} /\ gate'[c] = "set" /\ since' = 0 /\ UNCHANGED <<ttl, slot, outlived>>
      BY <1>5, <2>2 DEF ReadSlot, Wake, Claim, Pass, SyncInv, LimiterInv, LimiterOK
    <3>2. ttl + stalls + Interval >= LockTtl
      BY <1>0, <3>1 DEF Lasting, PatientAt
    <3>3. PatientAt(c)'
      BY <1>1, <3>1, <3>2 DEF PatientAt
    <3>4. ttl' + since' >= Interval
      BY <1>0, <3>1, <3>2
    <3>5. QED
      BY <1>4, <3>1, <3>3, <3>4 DEF Lasting
  <2>3. QED
    BY <2>1, <2>2
<1>6. CASE TakeSlot(c)
  <2>1. /\ gate[c] = "set" /\ gate'[c] = "delete" /\ slot' = left[c] /\ UNCHANGED <<ttl, since, outlived>>
    BY <1>6 DEF TakeSlot, Pass, SyncInv, LimiterInv, LimiterOK
  <2>2. left[c] + since >= Interval
    BY <1>2, <2>1 DEF Distant
  <2>3. ~SlotUnwritten'
    BY <1>0, <2>1, <2>2 DEF SlotUnwritten
  <2>4. PatientAt(c)'
    BY <1>1, <2>1 DEF Lasting, PatientAt
  <2>5. QED
    BY <1>4, <2>1, <2>3, <2>4 DEF Lasting
<1>7. CASE DeleteLock(c)
  <2>1. /\ gate[c] = "delete" /\ gate'[c] = "granted" /\ UNCHANGED <<slot, since>>
        /\ outlived' = (outlived \/ \E d \in Workers \ {c} : InLock(d))
    BY <1>7 DEF DeleteLock, Pass, SyncInv, LimiterInv, LimiterOK
  <2>2. ~outlived'
    BY <1>4, <2>1
  <2>3. ~SlotUnwritten
    BY <1>2, <2>1 DEF Guarded
  <2>4. ~SlotUnwritten' /\ PatientAt(c)'
    BY <2>1, <2>3 DEF SlotUnwritten, PatientAt
  <2>5. QED
    BY <1>4, <2>1, <2>2, <2>4 DEF Lasting
<1>8. QED
  BY <1>3, <1>5, <1>6, <1>7 DEF Acquire

LEMMA PatientTick ==
  ASSUME LongLock, SyncInv, ~outlived, Lasting, Tick
  PROVE  ~outlived' /\ Lasting'
<1>0. /\ ttl \in Nat /\ slot \in 0 .. Interval /\ since \in 0 .. Interval /\ stalls \in 0 .. MaxStalls
      /\ slot \in Int /\ since \in Int /\ stalls \in Int
      /\ Interval \in Nat /\ Interval >= 1 /\ LockTtl \in Nat /\ MaxStalls \in Nat
      /\ LockTtl >= 2 * Interval + MaxStalls /\ stalls <= MaxStalls
  BY LimiterConstants DEF SyncInv, LimiterInv, LimiterOK, LongLock
<1>1. /\ ttl' = Down(ttl) /\ slot' = Down(slot) /\ UNCHANGED gate
      /\ since' = (IF since < Interval THEN since + 1 ELSE since)
      /\ outlived' = (outlived \/ (ttl = 1 /\ (SlotUnwritten' \/ \E c \in Workers : InLock(c))))
      /\ IF Prompt THEN UNCHANGED stalls ELSE stalls < MaxStalls /\ stalls' = stalls + 1
  BY DEF Tick
<1>2. ttl >= 1 => ttl' = ttl - 1
  BY <1>0, <1>1 DEF Down
<1>3. ASSUME NEW c \in Workers, InLock(c)
      PROVE  PatientAt(c)' /\ ttl >= 2
  <2>1. /\ left[c] \in 0 .. Interval /\ left[c] \in Int /\ left'[c] = Down(left[c])
        /\ ttl >= 1 /\ PatientAt(c)
    BY <1>0, <1>3 DEF SyncInv, LimiterInv, LimiterOK, Timely, Locked, Lasting, Tick
  <2>2. CASE Prompt
    <3>1. gate[c] = "sleep" /\ left[c] # 0 /\ UNCHANGED stalls
      BY <1>1, <1>3, <2>2 DEF Prompt, InLock
    <3>2. ttl + stalls + Interval >= LockTtl + left[c] /\ left'[c] = left[c] - 1
      BY <2>1, <3>1 DEF PatientAt, Down
    <3>3. ttl >= 2 /\ ttl' + stalls' + Interval >= LockTtl + left'[c]
      BY <1>0, <1>2, <2>1, <3>1, <3>2
    <3>4. QED
      BY <1>1, <3>1, <3>3 DEF PatientAt
  <2>3. CASE ~Prompt
    <3>1. stalls' = stalls + 1 /\ stalls + 1 <= MaxStalls
      BY <1>0, <1>1, <2>3
    <3>2. ttl' + stalls' = ttl + stalls /\ left'[c] <= left[c] /\ left'[c] \in Int
      BY <1>0, <1>2, <2>1, <3>1 DEF Down
    <3>3. PatientAt(c)'
      <4>1. gate[c] = "read" => ttl' + stalls' >= LockTtl
        BY <2>1, <3>2 DEF PatientAt
      <4>2. gate[c] = "sleep" => ttl' + stalls' + Interval >= LockTtl + left'[c]
        BY <1>0, <2>1, <3>2 DEF PatientAt
      <4>3. gate[c] \in {"set", "delete"} => ttl' + stalls' + Interval >= LockTtl
        BY <2>1, <3>2 DEF PatientAt
      <4>4. QED
        BY <1>1, <4>1, <4>2, <4>3 DEF PatientAt
    <3>4. ttl >= 2
      BY <1>0, <1>3, <2>1, <3>1 DEF InLock, PatientAt
    <3>5. QED
      BY <3>3, <3>4
  <2>4. QED
    BY <2>2, <2>3
<1>4. ASSUME NEW c \in Workers, ~InLock(c) PROVE PatientAt(c)'
  BY <1>1, <1>4 DEF InLock, PatientAt
<1>5. since' \in Int /\ slot' \in Int /\ slot' + 1 >= slot /\ slot' >= 0
  BY <1>0, <1>1 DEF Down
<1>s. PICK x \in Int, y \in Int : x = slot' /\ y = since'
  BY <1>5
<1>6. ASSUME x + y < Interval
      PROVE  ttl' + y >= Interval /\ ttl # 1
  <2>1. x + 1 >= slot /\ x >= 0
    BY <1>5, <1>s
  <2>2. y = since + 1
    BY <1>0, <1>1, <1>6, <1>s, <2>1
  <2>3. slot + since < Interval
    BY <1>0, <1>6, <2>1, <2>2
  <2>4. ttl + since >= Interval /\ ttl >= 1
    BY <1>0, <2>3 DEF SyncInv, LimiterInv, Timely, Guarded, Lasting, SlotUnwritten
  <2>5. ttl' + y >= Interval
    BY <1>0, <1>2, <2>2, <2>4
  <2>6. ttl # 1
    BY <1>0, <1>6, <2>1, <2>2, <2>4
  <2>7. QED
    BY <2>5, <2>6
<1>7. ~outlived'
  <2>1. ttl = 1 => ~SlotUnwritten'
    BY <1>6, <1>s DEF SlotUnwritten
  <2>2. ttl = 1 => \A c \in Workers : ~InLock(c)
    BY <1>3
  <2>3. QED
    BY <1>1, <2>1, <2>2
<1>8. Lasting'
  BY <1>3, <1>4, <1>6, <1>s DEF Lasting, SlotUnwritten
<1>9. QED
  BY <1>7, <1>8

LEMMA LongStep ==
  ASSUME LongLock, LongInv, [Next]_vars
  PROVE  LongInv'
<1>1. SyncInv'
  BY LimiterStep, GatedStep, ShardStep DEF LongInv, SyncInv, LimiterInv, ShardInv
<1>2. CASE UNCHANGED limiter
  BY <1>1, <1>2 DEF LongInv, Lasting, PatientAt, SlotUnwritten, limiter
<1>3. CASE Tick
  BY <1>1, <1>3, PatientTick DEF LongInv
<1>4. ASSUME NEW c \in Workers, Acquire(c) PROVE LongInv'
  BY <1>1, <1>4, PatientStep DEF LongInv
<1>5. ASSUME NEW c \in Workers, NEW l \in {"out", "asking"},
             ~InLock(c), gate' = [gate EXCEPT ![c] = l],
             UNCHANGED <<ttl, slot, left, since, burst, outlived, stalls>>
      PROVE  LongInv'
  <2>1. \A d \in Workers : PatientAt(d)'
    BY <1>5 DEF LongInv, Lasting, PatientAt, SyncInv, LimiterInv, LimiterOK
  <2>2. QED
    BY <1>1, <1>5, <2>1 DEF LongInv, Lasting, SlotUnwritten
<1>6. CASE /\ gate' = [t \in Workers |-> "out"] /\ left' = [t \in Workers |-> 0]
           /\ UNCHANGED <<ttl, slot, since, burst, outlived, stalls>>
  BY <1>1, <1>6 DEF LongInv, Lasting, PatientAt, SlotUnwritten
<1>7. QED
  BY <1>2, <1>3, <1>4, <1>5, <1>6, LimiterMoves DEF LongInv, SyncInv, LimiterInv, ShardInv

\* Where the lock lives for two intervals and as long as clients stall, no two requests ever
\* come closer than the interval, whoever dies.
THEOREM NeverBurst == ASSUME LongLock PROVE Safety => [](~burst)
<1>1. Init => LongInv
  <2>1. ASSUME Init PROVE LongInv
    <3>1. ~outlived /\ \A c \in Workers : gate[c] = "out"
      BY <2>1 DEF Init, LimiterInit
    <3>2. ~SlotUnwritten
      BY <2>1, LimiterConstants DEF Init, LimiterInit, SlotUnwritten
    <3>3. QED
      BY <2>1, <3>1, <3>2, SyncInit DEF LongInv, Lasting, PatientAt
  <2>2. QED
    BY <2>1
<1>2. LongInv /\ [Next]_vars => LongInv'
  BY LongStep
<1>3. LongInv => ~burst
  BY DEF LongInv, SyncInv, LimiterInv, Timely
<1>4. QED
  BY <1>1, <1>2, <1>3, PTL DEF Safety
=============================================================================
