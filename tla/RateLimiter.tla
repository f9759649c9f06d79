---------------------------- MODULE RateLimiter ----------------------------
(***************************************************************************)
(* DistributedRateLimiter (apps/sync/providers/rate_limiter.py): the       *)
(* workers of one provider share a lock and the time of the next slot in   *)
(* the cache.  Time is counted in ticks and relative: what is left of a    *)
(* sleep, of the lock's time to live, and until the next slot.             *)
(***************************************************************************)
EXTENDS Integers

CONSTANTS
  Workers,
  Interval,      \* ticks between two requests
  LockTtl,       \* ticks that the lock lives without its holder
  MaxStalls      \* bound: ticks that pass while a client is between two calls of the cache

ASSUME LimiterAssumption ==
  Interval \in Nat \ {0} /\ LockTtl \in Nat /\ LockTtl > Interval /\ MaxStalls \in Nat

VARIABLES
  ttl,           \* of the lock in the cache, 0 when the key does not exist
  slot,          \* ticks until next_at
  gate,          \* where each client is in acquire()
  left,          \* what is left of its sleep, and then of the interval it claimed
  since,         \* history: ticks since the last slot was taken
  burst,         \* history: two slots were taken within one interval
  outlived,      \* history: the lock went away under a client that had it, or before the slot
                 \* that a client had taken before it died was over
  stalls         \* history: what MaxStalls counts

limiter == <<ttl, slot, gate, left, since, burst, outlived, stalls>>

InLock(c) == gate[c] \in {"read", "sleep", "set", "delete"}

LimiterInit ==
  /\ ttl = 0 /\ slot = 0 /\ since = Interval
  /\ gate = [c \in Workers |-> "out"] /\ left = [c \in Workers |-> 0]
  /\ burst = FALSE /\ outlived = FALSE /\ stalls = 0

Pass(c, l) == gate' = [gate EXCEPT ![c] = l]

\* cache.add: only if the key does not exist; otherwise sleep and try again.
TryLock(c) ==
  /\ gate[c] = "asking" /\ ttl = 0 /\ ttl' = LockTtl /\ Pass(c, "read")
  /\ UNCHANGED <<slot, left, since, burst, outlived, stalls>>

\* now is read once: it is the slot of this request and what the next slot is counted from.
Claim(c) ==
  /\ Pass(c, "set") /\ left' = [left EXCEPT ![c] = Interval]
  /\ burst' = (burst \/ since < Interval) /\ since' = 0
\* Read next_at; a slot that lies behind is taken at once.
ReadSlot(c) ==
  /\ gate[c] = "read"
  /\ IF slot > 0
     THEN left' = [left EXCEPT ![c] = slot] /\ Pass(c, "sleep") /\ UNCHANGED <<since, burst>>
     ELSE Claim(c)
  /\ UNCHANGED <<ttl, slot, outlived, stalls>>

\* Sleep until the slot, and read the clock again.
Wake(c) ==
  /\ gate[c] = "sleep" /\ left[c] = 0 /\ Claim(c)
  /\ UNCHANGED <<ttl, slot, outlived, stalls>>
\* Faulty: what is written is the slot just taken, not the next one.
TakeSlotAgain(c) ==
  /\ gate[c] = "set" /\ slot' = 0 /\ left' = [left EXCEPT ![c] = 0] /\ Pass(c, "delete")
  /\ UNCHANGED <<ttl, since, burst, outlived, stalls>>
TakeSlot(c) ==
  /\ gate[c] = "set" /\ slot' = left[c] /\ left' = [left EXCEPT ![c] = 0] /\ Pass(c, "delete")
  /\ UNCHANGED <<ttl, since, burst, outlived, stalls>>

\* finally: the lock is deleted, whoever has it by now.
DeleteLock(c) ==
  /\ gate[c] = "delete" /\ ttl' = 0 /\ Pass(c, "granted")
  /\ outlived' = (outlived \/ \E d \in Workers \ {c} : InLock(d))
  /\ UNCHANGED <<slot, left, since, burst, stalls>>

\* A tick.  Workers are between two calls of the cache for longer only when they stall.
Prompt == \A c \in Workers : gate[c] \notin {"read", "set", "delete"} /\ ~ (gate[c] = "sleep" /\ left[c] = 0)
Down(n) == IF n > 0 THEN n - 1 ELSE 0
\* The last slot that was taken is not in the cache: its client has still to write it, or died.
SlotUnwritten == slot + since < Interval
\* Faulty: the lock is added without a time to live.
TickLocked ==
  /\ ~ Prompt \/ slot > 0 \/ since < Interval
  /\ IF Prompt THEN UNCHANGED stalls ELSE stalls < MaxStalls /\ stalls' = stalls + 1
  /\ slot' = Down(slot) /\ left' = [c \in Workers |-> Down(left[c])]
  /\ since' = IF since < Interval THEN since + 1 ELSE since
  /\ UNCHANGED <<ttl, gate, burst, outlived>>
Tick ==
  /\ ~ Prompt \/ ttl > 0 \/ slot > 0 \/ since < Interval
  /\ IF Prompt THEN UNCHANGED stalls ELSE stalls < MaxStalls /\ stalls' = stalls + 1
  /\ ttl' = Down(ttl) /\ slot' = Down(slot)
  /\ left' = [c \in Workers |-> Down(left[c])]
  /\ since' = IF since < Interval THEN since + 1 ELSE since
  /\ outlived' = (outlived \/ (ttl = 1 /\ (SlotUnwritten' \/ \E c \in Workers : InLock(c))))
  /\ UNCHANGED <<gate, burst>>

Acquire(c) == TryLock(c) \/ ReadSlot(c) \/ Wake(c) \/ TakeSlot(c) \/ DeleteLock(c)

-----------------------------------------------------------------------------
\* Two requests never share an interval unless a lock ran out under its holder, or before
\* the slot of a holder that died was over: the lock, the slot and the sleep fit together.
NoBurst == burst => outlived
=============================================================================
