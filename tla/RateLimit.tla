------------------------------- MODULE RateLimit -------------------------------
(***************************************************************************)
(* The per-IP limiters, for one IP: the in-memory buckets                  *)
(* (internal/ratelimit/memory.go) and the sliding window in Redis that     *)
(* replicas share (internal/ratelimit/ratelimit.go).  Both look at a       *)
(* counter and add to it in two steps, and several requests of the IP are  *)
(* served at the same time.                                                *)
(*                                                                         *)
(* A counter (an atomic integer) outlives its map entry for as long as     *)
(* a request or the refill holds its pointer.  Time advances in ticks; a   *)
(* nanosecond stamp is a tick and a member of Nanos.                       *)
(***************************************************************************)
EXTENDS Integers, FiniteSets

CONSTANTS Requesters,    \* requests of the IP served at the same time
          Counters,      \* counter objects
          NoCounter,     \* the map has no entry for the IP
          MaxTokens,     \* maxTokens, and limit * BurstMultiplier
          PerInterval,   \* tokensPerInterval
          WindowSize,    \* in ticks
          Nanos,
          MaxTicks,      \* bound: the clock
          MaxRefills     \* bound: passes of the refill

ASSUME RateLimitAssumption ==
  /\ IsFiniteSet(Requesters) /\ Requesters # {}
  /\ NoCounter \notin Counters
  /\ MaxTokens \in Nat \ {0} /\ PerInterval \in Nat \ {0}
  /\ WindowSize \in Nat \ {0} /\ MaxTicks \in Nat /\ MaxRefills \in Nat

VARIABLES
  distributed, \* Redis and RATE_LIMIT_DISTRIBUTED: which of the two limiters is used
  bucket,    \* buckets: the counter of the IP
  spent,     \* the value of each counter
  spender,   \* in-memory requests: the counter found below max, not added to yet
  refilling, \* the refill: the counter it has brought to 0 or less, to be deleted
  refills,
  clock,
  window,    \* the sorted set: members (and scores) are nanosecond stamps
  counted    \* distributed requests: admitted by ZCARD, their ZADD to come

LimitVars == <<distributed, bucket, spent, spender, refilling, refills, clock, window, counted>>
memoryVars == <<bucket, spent, spender, refilling, refills>>
redisVars == <<clock, window, counted>>

LimitInit ==
  /\ distributed \in BOOLEAN
  /\ bucket = NoCounter /\ spent = [k \in Counters |-> 0]
  /\ spender = [q \in Requesters |-> NoCounter]
  /\ refilling = NoCounter /\ refills = 0
  /\ clock = 0 /\ window = {} /\ counted = {}

--------------------------------------------------------------------------------
(* newMemoryBuckets *)

Held == {bucket, refilling} \union {spender[q] : q \in Requesters}
\* Slip: one too many.
MutExhausted(k) == spent[k] > MaxTokens
Exhausted(k) == spent[k] >= MaxTokens

\* LoadOrStore and spent.Load() < max: the request will spend a token.
Check(q) ==
  /\ spender[q] = NoCounter
  /\ \E k \in IF bucket = NoCounter THEN Counters \ Held ELSE {bucket} :
       /\ bucket' = k
       /\ spent' = IF bucket = NoCounter THEN [spent EXCEPT ![k] = 0] ELSE spent
       /\ spender' = IF bucket # NoCounter /\ Exhausted(k) THEN spender
                     ELSE [spender EXCEPT ![q] = k]
  /\ UNCHANGED <<refilling, refills, redisVars>>

\* spent.Add(1): the request passes.
Spend(q) ==
  /\ spender[q] # NoCounter
  /\ spent' = [spent EXCEPT ![spender[q]] = @ + 1]
  /\ spender' = [spender EXCEPT ![q] = NoCounter]
  /\ UNCHANGED <<bucket, refilling, refills, redisVars>>

\* buckets.Range, after each interval: Add(-tokensPerInterval) ...
Refill ==
  /\ refilling = NoCounter /\ bucket # NoCounter /\ refills < MaxRefills
  /\ refills' = refills + 1
  /\ spent' = [spent EXCEPT ![bucket] = @ - PerInterval]
  /\ refilling' = IF spent'[bucket] <= 0 THEN bucket ELSE NoCounter
  /\ UNCHANGED <<bucket, spender, redisVars>>

\* ... <= 0: buckets.Delete, in a step of its own.
DeleteBucket ==
  /\ refilling # NoCounter
  /\ bucket' = NoCounter /\ refilling' = NoCounter
  /\ UNCHANGED <<spent, spender, refills, redisVars>>

--------------------------------------------------------------------------------
(* Limiter.Allow *)

AdvanceClock ==
  /\ clock < MaxTicks
  /\ clock' = clock + 1
  /\ UNCHANGED <<window, counted, memoryVars>>

InWindow == {m \in window : m[1] > clock - WindowSize}

\* ZREMRANGEBYSCORE and ZCARD; a full window refuses the request.
Allow(q) ==
  /\ q \notin counted
  /\ window' = InWindow
  /\ counted' = IF Cardinality(InWindow) >= MaxTokens THEN counted
                ELSE counted \union {q}
  /\ UNCHANGED <<clock, memoryVars>>

\* ZADD; a Redis error is logged and the request passes all the same.
Record(q) ==
  /\ q \in counted
  /\ counted' = counted \ {q}
  /\ window' \in {window} \union {window \union {<<clock, n>>} : n \in Nanos}
  /\ UNCHANGED <<clock, memoryVars>>

LimitNext ==
  /\ UNCHANGED distributed
  /\ \/ /\ ~distributed
        /\ Refill \/ DeleteBucket \/ \E q \in Requesters : Check(q) \/ Spend(q)
     \/ /\ distributed
        /\ AdvanceClock \/ \E q \in Requesters : Allow(q) \/ Record(q)

LimitSpec == LimitInit /\ [][LimitNext]_LimitVars

--------------------------------------------------------------------------------
LimitTypeOK ==
  /\ distributed \in BOOLEAN
  /\ bucket \in Counters \union {NoCounter}
  /\ spent \in [Counters -> Int]
  /\ spender \in [Requesters -> Counters \union {NoCounter}]
  /\ refilling \in Counters \union {NoCounter}
  /\ refills \in 0..MaxRefills /\ clock \in 0..MaxTicks
  /\ window \subseteq (0..MaxTicks) \X Nanos
  /\ counted \subseteq Requesters

\* The check and the spending are two steps (memory.go:37, ratelimit.go:104):
\* requests that overlap may pass the limit together, but never by more than
\* their number less one, on a counter or in the window replicas share.
OvershootIsBounded ==
  /\ \A k \in Counters :
       spent[k] + Cardinality({q \in Requesters : spender[q] = k})
         <= MaxTokens - 1 + Cardinality(Requesters)
  /\ Cardinality(window) + Cardinality(counted) <= MaxTokens - 1 + Cardinality(Requesters)
================================================================================
