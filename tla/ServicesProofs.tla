---------------------------- MODULE ServicesProofs ----------------------------
(***************************************************************************)
(* The services of a pod, for every number of replicas, callers, requests, *)
(* relays and rows: the lookup slots are never overdrawn and no deletion   *)
(* is forgotten; the limiters overshoot by less than the requests under    *)
(* way; a ban that has returned holds and no list goes back; an instance   *)
(* that serves search misses no row; no note and no post disappears without *)
(* a known reason.                                                         *)
(***************************************************************************)
EXTENDS MCServices, FiniteSetTheorems, WellFoundedInduction, TLAPS

-----------------------------------------------------------------------------
(* The lookup slots and the rate limiters                                    *)

Looking == {e \in Checks : check[e] = "looks"}

\* The slots and the deletions need to know that a check which began on a
\* tombstoned event still finds the tombstone: rows are only added.
LookupInv == LookupTypeOK /\ SlotsTaken <= Slots /\ since \subseteq deleted
             /\ \A e \in since : check[e] # "admitted"

LEMMA LookingFinite == IsFiniteSet(Looking) /\ Cardinality(Looking) \in Nat
BY LookupAssumption, FS_Subset, FS_CardinalityType DEF Looking

\* A check that leaves its lookup gives one slot back; one that was not looking
\* leaves the count as it is.
LEMMA StopsLooking ==
  ASSUME LookupTypeOK, NEW e \in Checks, check'[e] # "looks",
         check' = [check EXCEPT ![e] = check'[e]]
  PROVE  Cardinality(Looking') =
           IF check[e] = "looks" THEN Cardinality(Looking) - 1 ELSE Cardinality(Looking)
<1>1. Looking' = Looking \ {e}
  BY DEF Looking, LookupTypeOK
<1>2. e \in Looking <=> check[e] = "looks"
  BY DEF Looking
<1> QED
  BY <1>1, <1>2, LookingFinite, FS_RemoveElement

LEMMA LookupTypeStep ==
  ASSUME LookupTypeOK, [LookupNext]_LookupVars
  PROVE  LookupTypeOK'
<1>1. CASE UNCHANGED LookupVars
  BY <1>1 DEF LookupTypeOK, LookupVars
<1>2. CASE SocketDies
  BY <1>2 DEF LookupTypeOK, SocketDies
<1>3. ASSUME NEW e \in Checks,
             RecordTombstone(e) \/ Begin(e) \/ TakeSlot(e) \/ Answered(e) \/ QueryError(e) \/ Again(e)
      PROVE  LookupTypeOK'
  BY <1>3 DEF LookupTypeOK, RecordTombstone, Begin, TakeSlot, Answered, QueryError, Again, Verdicts
<1>4. ASSUME NEW e \in Checks, ConnError(e) \/ Deadline(e) \/ ClientGone(e)
      PROVE  LookupTypeOK'
  BY <1>4 DEF LookupTypeOK, ConnError, Deadline, ClientGone, GiveUpAttempt, AfterFailure, Verdicts
<1> QED
  BY <1>1, <1>2, <1>3, <1>4 DEF LookupNext

\* A slot changes hands, from a check to an abandoned lookup or back to the
\* pool, but no step takes one that is not free.
LEMMA SlotsStep ==
  ASSUME LookupInv, [LookupNext]_LookupVars
  PROVE  SlotsTaken' <= Slots
<1> USE DEF LookupInv
<1>0. /\ SlotsTaken = abandoned + Cardinality(Looking) /\ SlotsTaken' = abandoned' + Cardinality(Looking')
      /\ abandoned \in Nat /\ Slots \in Nat /\ Cardinality(Looking) \in Nat
  BY LookingFinite, LookupAssumption DEF SlotsTaken, Looking, LookupTypeOK
<1>1. CASE UNCHANGED LookupVars
  <2>1. Looking' = Looking /\ abandoned' = abandoned
    BY <1>1 DEF Looking, LookupVars
  <2> QED
    BY <1>0, <2>1
<1>2. CASE SocketDies
  <2>1. Looking' = Looking
    BY <1>2 DEF Looking, SocketDies
  <2> QED
    BY <1>0, <1>2, <2>1 DEF SocketDies
<1>3. ASSUME NEW e \in Checks, RecordTombstone(e)
      PROVE  SlotsTaken' <= Slots
  <2>1. Looking' = Looking /\ abandoned' = abandoned
    BY <1>3 DEF Looking, RecordTombstone
  <2> QED
    BY <1>0, <2>1
<1>4. ASSUME NEW e \in Checks, TakeSlot(e)
      PROVE  SlotsTaken' <= Slots
  <2>1. Looking' = Looking \union {e} /\ e \notin Looking
    BY <1>4 DEF Looking, TakeSlot, LookupTypeOK
  <2>2. Cardinality(Looking') = Cardinality(Looking) + 1
    BY <2>1, LookingFinite, FS_AddElement
  <2> QED
    BY <1>0, <1>4, <2>2 DEF TakeSlot
<1>5. ASSUME NEW e \in Checks, check'[e] # "looks", check' = [check EXCEPT ![e] = check'[e]],
             abandoned' = abandoned \/ (check[e] = "looks" /\ abandoned' = abandoned + 1)
      PROVE  SlotsTaken' <= Slots
  <2>1. Cardinality(Looking') =
          IF check[e] = "looks" THEN Cardinality(Looking) - 1 ELSE Cardinality(Looking)
    BY <1>5, StopsLooking
  <2> QED
    BY <1>0, <1>5, <2>1
<1>6. ASSUME NEW e \in Checks, Begin(e) \/ Again(e) \/ QueryError(e)
      PROVE  SlotsTaken' <= Slots
  BY <1>5, <1>6 DEF Begin, Again, QueryError, LookupTypeOK
<1>7. ASSUME NEW e \in Checks, Answered(e)
      PROVE  SlotsTaken' <= Slots
  BY <1>5, <1>7 DEF Answered, LookupTypeOK
<1>8. ASSUME NEW e \in Checks, ConnError(e) \/ Deadline(e)
      PROVE  SlotsTaken' <= Slots
  <2>1. AfterFailure(e) # "looks"
    BY DEF AfterFailure
  <2> QED
    BY <1>5, <1>8, <2>1 DEF ConnError, Deadline, GiveUpAttempt, LookupTypeOK
<1>9. ASSUME NEW e \in Checks, ClientGone(e)
      PROVE  SlotsTaken' <= Slots
  BY <1>5, <1>9 DEF ClientGone, LookupTypeOK
<1> QED
  BY <1>1, <1>2, <1>3, <1>4, <1>6, <1>7, <1>8, <1>9 DEF LookupNext

\* No verdict but that of a lookup which found no row admits an event.
LEMMA DeletionsStep ==
  ASSUME LookupInv, [LookupNext]_LookupVars
  PROVE  since' \subseteq deleted' /\ \A e \in since' : check'[e] # "admitted"
<1> USE DEF LookupInv
<1>1. CASE UNCHANGED LookupVars \/ SocketDies
  BY <1>1 DEF LookupVars, SocketDies
<1>2. ASSUME NEW e \in Checks, RecordTombstone(e) \/ Begin(e) \/ TakeSlot(e) \/ Answered(e)
      PROVE  since' \subseteq deleted' /\ \A d \in since' : check'[d] # "admitted"
  BY <1>2 DEF LookupTypeOK, RecordTombstone, Begin, TakeSlot, Answered
<1>3. ASSUME NEW e \in Checks,
             ConnError(e) \/ QueryError(e) \/ Deadline(e) \/ ClientGone(e) \/ Again(e)
      PROVE  since' \subseteq deleted' /\ \A d \in since' : check'[d] # "admitted"
  BY <1>3 DEF LookupTypeOK, ConnError, QueryError, Deadline, ClientGone, Again, GiveUpAttempt, AfterFailure
<1> QED
  BY <1>1, <1>2, <1>3 DEF LookupNext

LEMMA LookupInitInv == LookupInit => LookupInv
<1> SUFFICES ASSUME LookupInit PROVE LookupInv
  OBVIOUS
<1>1. Looking = {}
  BY DEF Looking, LookupInit
<1>2. SlotsTaken <= Slots
  BY <1>1, FS_EmptySet, LookupAssumption DEF SlotsTaken, Looking, LookupInit
<1> QED
  BY <1>2 DEF LookupInit, LookupInv, LookupTypeOK

LEMMA LookupInvariant == LookupInit /\ [][LookupNext]_LookupVars => []LookupInv
<1>1. LookupInv /\ [LookupNext]_LookupVars => LookupInv'
  <2> SUFFICES ASSUME LookupInv, [LookupNext]_LookupVars PROVE LookupInv'
    OBVIOUS
  <2> QED
    BY LookupTypeStep, SlotsStep, DeletionsStep DEF LookupInv
<1> QED
  BY <1>1, LookupInitInv, PTL

\* The checks, their attempts and the abandoned lookups stay well typed.
THEOREM LookupTypeCorrect == LookupSpec => []LookupTypeOK
<1>1. LookupInv => LookupTypeOK
  BY DEF LookupInv
<1> QED
  BY <1>1, LookupInvariant, PTL DEF LookupSpec

\* With any number of checks and slots, and a database that fails or hangs as
\* it likes: lookups never exceed the slots, and an event deleted before its
\* check began is not admitted (tombstone.go:159, 229).
THEOREM PoolAndDeletionsHold == LookupSpec => []SlotsAndDeletionsHold
<1>1. LookupInv => SlotsAndDeletionsHold
  BY DEF LookupInv, SlotsAndDeletionsHold
<1> QED
  BY <1>1, LookupInvariant, PTL DEF LookupSpec

--------------------------------------------------------------------------------
(* RateLimit *)

LEMMA LimitTypeStep ==
  ASSUME LimitTypeOK, [LimitNext]_LimitVars
  PROVE  LimitTypeOK'
<1> USE RateLimitAssumption DEF memoryVars, redisVars
<1>1. CASE UNCHANGED LimitVars
  BY <1>1 DEF LimitTypeOK, LimitVars
<1>2. CASE distributed' = distributed /\ (Refill \/ DeleteBucket)
  BY <1>2 DEF LimitTypeOK, Refill, DeleteBucket
<1>3. ASSUME distributed' = distributed, NEW q \in Requesters, Check(q)
      PROVE  LimitTypeOK'
  BY <1>3 DEF LimitTypeOK, Check
<1>4. ASSUME distributed' = distributed, NEW q \in Requesters, Spend(q)
      PROVE  LimitTypeOK'
  BY <1>4 DEF LimitTypeOK, Spend
<1>5. CASE distributed' = distributed /\ AdvanceClock
  BY <1>5 DEF LimitTypeOK, AdvanceClock
<1>6. ASSUME distributed' = distributed, NEW q \in Requesters, Allow(q) \/ Record(q)
      PROVE  LimitTypeOK'
  BY <1>6 DEF LimitTypeOK, Allow, Record, InWindow
<1> QED
  BY <1>1, <1>2, <1>3, <1>4, <1>5, <1>6 DEF LimitNext

\* The requests between the check and the spending of counter k.
Spenders(k) == {q \in Requesters : spender[q] = k}
Overshoot == MaxTokens - 1 + Cardinality(Requesters)
CountersBounded == \A k \in Counters : spent[k] + Cardinality(Spenders(k)) <= Overshoot
WindowBounded == IsFiniteSet(window) /\ Cardinality(window) + Cardinality(counted) <= Overshoot
LimitInv == LimitTypeOK /\ CountersBounded /\ WindowBounded

LEMMA RequestersFinite ==
  /\ IsFiniteSet(Requesters) /\ Cardinality(Requesters) \in Nat \ {0}
  /\ MaxTokens \in Nat \ {0} /\ Overshoot \in Nat
  /\ \A S \in SUBSET Requesters :
       IsFiniteSet(S) /\ Cardinality(S) \in Nat /\ Cardinality(S) <= Cardinality(Requesters)
<1>1. Cardinality(Requesters) \in Nat /\ Cardinality(Requesters) # 0
  BY RateLimitAssumption, FS_CardinalityType, FS_EmptySet
<1> QED
  BY <1>1, RateLimitAssumption, FS_Subset, FS_CardinalityType DEF Overshoot

LEMMA SpendersFinite ==
  /\ \A k : IsFiniteSet(Spenders(k)) /\ Cardinality(Spenders(k)) \in Nat
            /\ Cardinality(Spenders(k)) <= Cardinality(Requesters)
  /\ \A k : IsFiniteSet(Spenders(k)') /\ Cardinality(Spenders(k)') \in Nat
            /\ Cardinality(Spenders(k)') <= Cardinality(Requesters)
BY RequestersFinite DEF Spenders

\* A request that finds tokens on a counter joins its spenders: the counter is
\* below the limit then, and the spenders are at most all requests.
LEMMA CheckBounded ==
  ASSUME LimitTypeOK, CountersBounded, NEW q \in Requesters, Check(q)
  PROVE  CountersBounded'
<1>0. Overshoot' = Overshoot /\ Overshoot \in Nat
  BY RequestersFinite DEF Overshoot
<1>1. PICK j \in Counters :
        /\ j \in IF bucket = NoCounter THEN Counters \ Held ELSE {bucket}
        /\ spent' = IF bucket = NoCounter THEN [spent EXCEPT ![j] = 0] ELSE spent
        /\ spender' = IF bucket # NoCounter /\ Exhausted(j) THEN spender
                      ELSE [spender EXCEPT ![q] = j]
  BY DEF Check, LimitTypeOK
<1> SUFFICES ASSUME NEW k \in Counters
             PROVE  spent'[k] + Cardinality(Spenders(k)') <= Overshoot
  BY <1>0 DEF CountersBounded
<1>2. spent[k] \in Int /\ spent[k] + Cardinality(Spenders(k)) <= Overshoot
  BY DEF LimitTypeOK, CountersBounded
<1>3. CASE bucket # NoCounter /\ Exhausted(j)
  <2>1. Spenders(k)' = Spenders(k) /\ spent' = spent
    BY <1>1, <1>3 DEF Spenders
  <2> QED
    BY <1>2, <2>1
<1>4. CASE ~(bucket # NoCounter /\ Exhausted(j))
  <2>1. CASE k = j
    <3>1. spent'[k] \in Int /\ spent'[k] <= MaxTokens - 1
      BY <1>1, <1>4, <2>1, RequestersFinite DEF LimitTypeOK, Exhausted
    <3> QED
      BY <3>1, SpendersFinite, RequestersFinite DEF Overshoot
  <2>2. CASE k # j
    <3>1. spent'[k] = spent[k] /\ Spenders(k)' \subseteq Spenders(k)
      BY <1>1, <1>4, <2>2 DEF LimitTypeOK, Spenders
    <3>2. Cardinality(Spenders(k)') <= Cardinality(Spenders(k))
      BY <3>1, SpendersFinite, FS_Subset
    <3> QED
      BY <1>0, <1>2, <3>1, <3>2, SpendersFinite
  <2> QED
    BY <2>1, <2>2
<1> QED
  BY <1>3, <1>4

\* Spending moves one request from the spenders to the counter.
LEMMA SpendBounded ==
  ASSUME LimitTypeOK, CountersBounded, NEW q \in Requesters, Spend(q)
  PROVE  CountersBounded'
<1>0. Overshoot' = Overshoot /\ Overshoot \in Nat
  BY RequestersFinite DEF Overshoot
<1> SUFFICES ASSUME NEW k \in Counters
             PROVE  spent'[k] + Cardinality(Spenders(k)') <= Overshoot
  BY <1>0 DEF CountersBounded
<1>2. spent[k] \in Int /\ spent[k] + Cardinality(Spenders(k)) <= Overshoot
  BY DEF LimitTypeOK, CountersBounded
<1>3. CASE spender[q] = k
  <2>1. Spenders(k)' = Spenders(k) \ {q} /\ q \in Spenders(k)
    BY <1>3, RateLimitAssumption DEF Spend, LimitTypeOK, Spenders
  <2>2. Cardinality(Spenders(k)') = Cardinality(Spenders(k)) - 1
    BY <2>1, SpendersFinite, FS_RemoveElement
  <2>3. spent'[k] = spent[k] + 1
    BY <1>3 DEF Spend, LimitTypeOK
  <2> QED
    BY <1>0, <1>2, <2>2, <2>3, SpendersFinite
<1>4. CASE spender[q] # k
  <2>1. Spenders(k)' = Spenders(k) /\ spent'[k] = spent[k]
    BY <1>4, RateLimitAssumption DEF Spend, LimitTypeOK, Spenders
  <2> QED
    BY <1>2, <2>1
<1> QED
  BY <1>3, <1>4

\* The refill only lowers a counter.
LEMMA RefillBounded ==
  ASSUME LimitTypeOK, CountersBounded, Refill \/ DeleteBucket
  PROVE  CountersBounded'
<1>0. Overshoot' = Overshoot /\ Overshoot \in Nat
  BY RequestersFinite DEF Overshoot
<1> SUFFICES ASSUME NEW k \in Counters
             PROVE  spent'[k] + Cardinality(Spenders(k)') <= Overshoot
  BY <1>0 DEF CountersBounded
<1>1. Spenders(k)' = Spenders(k)
  BY DEF Spenders, Refill, DeleteBucket
<1>2. spent[k] \in Int /\ spent'[k] \in Int /\ spent'[k] <= spent[k]
      /\ spent[k] + Cardinality(Spenders(k)) <= Overshoot
  BY RateLimitAssumption DEF Refill, DeleteBucket, LimitTypeOK, CountersBounded
<1> QED
  BY <1>0, <1>1, <1>2, SpendersFinite

\* The window: a request is counted before it is a member, never as both.
LEMMA WindowStep ==
  ASSUME LimitTypeOK, WindowBounded, NEW q \in Requesters, Allow(q) \/ Record(q)
  PROVE  WindowBounded'
<1>0. Overshoot' = Overshoot /\ Overshoot \in Nat
  BY RequestersFinite DEF Overshoot
<1>1. /\ IsFiniteSet(window) /\ Cardinality(window) \in Nat
      /\ IsFiniteSet(counted) /\ Cardinality(counted) \in Nat
      /\ Cardinality(window) + Cardinality(counted) <= Overshoot
  BY RequestersFinite, FS_CardinalityType DEF WindowBounded, LimitTypeOK
<1>2. CASE Allow(q)
  <2>1. IsFiniteSet(window') /\ window' = InWindow
        /\ Cardinality(window') \in Nat /\ Cardinality(window') <= Cardinality(window)
    <3>1. window' = InWindow /\ InWindow \subseteq window
      BY <1>2 DEF Allow, InWindow
    <3> QED
      BY <1>1, <3>1, FS_Subset, FS_CardinalityType
  <2>2. CASE counted' = counted
    BY <1>0, <1>1, <2>1, <2>2 DEF WindowBounded
  <2>3. CASE counted' # counted
    <3>1. Cardinality(window') <= MaxTokens - 1
      BY <1>2, <2>1, <2>3, RequestersFinite DEF Allow
    <3>2. Cardinality(counted') \in Nat /\ Cardinality(counted') <= Cardinality(Requesters)
      BY <1>2, RequestersFinite DEF Allow, LimitTypeOK
    <3> QED
      BY <1>0, <2>1, <3>1, <3>2, RequestersFinite DEF WindowBounded, Overshoot
  <2> QED
    BY <2>2, <2>3
<1>3. CASE Record(q)
  <2>1. Cardinality(counted') = Cardinality(counted) - 1
    BY <1>1, <1>3, FS_RemoveElement DEF Record
  <2>2. IsFiniteSet(window') /\ Cardinality(window') \in Nat
        /\ Cardinality(window') <= Cardinality(window) + 1
    <3>1. CASE window' = window
      BY <1>1, <3>1
    <3>2. CASE window' # window
      <4>1. PICK m : window' = window \union {m}
        BY <1>3, <3>2 DEF Record
      <4> DEFINE added == window \union {m}
      <4>2. IsFiniteSet(added) /\ Cardinality(added) =
              IF m \in window THEN Cardinality(window) ELSE Cardinality(window) + 1
        BY <1>1, FS_AddElement
      <4> QED
        BY <1>1, <4>1, <4>2
    <3> QED
      BY <3>1, <3>2
  <2> QED
    BY <1>0, <1>1, <2>1, <2>2 DEF WindowBounded
<1> QED
  BY <1>2, <1>3

LEMMA LimitStep == LimitInv /\ [LimitNext]_LimitVars => LimitInv'
<1> SUFFICES ASSUME LimitInv, [LimitNext]_LimitVars PROVE LimitInv'
  OBVIOUS
<1>1. LimitTypeOK /\ CountersBounded /\ WindowBounded
  BY DEF LimitInv
<1>2. LimitTypeOK'
  BY <1>1, LimitTypeStep
<1>3. UNCHANGED redisVars => (WindowBounded' <=> WindowBounded)
  BY DEF redisVars, WindowBounded, Overshoot
<1>4. UNCHANGED memoryVars => (CountersBounded' <=> CountersBounded)
  BY DEF memoryVars, CountersBounded, Spenders, Overshoot
<1>5. CASE UNCHANGED LimitVars
  BY <1>1, <1>2, <1>3, <1>4, <1>5 DEF LimitInv, LimitVars, redisVars, memoryVars
<1>6. CASE Refill \/ DeleteBucket
  <2>1. UNCHANGED redisVars
    BY <1>6 DEF Refill, DeleteBucket
  <2> QED
    BY <1>1, <1>2, <1>3, <1>6, <2>1, RefillBounded DEF LimitInv
<1>7. ASSUME NEW q \in Requesters, Check(q) \/ Spend(q)
      PROVE  LimitInv'
  <2>1. UNCHANGED redisVars
    BY <1>7 DEF Check, Spend
  <2> QED
    BY <1>1, <1>2, <1>3, <1>7, <2>1, CheckBounded, SpendBounded DEF LimitInv
<1>8. CASE AdvanceClock
  <2>1. UNCHANGED memoryVars /\ window' = window /\ counted' = counted
    BY <1>8 DEF AdvanceClock
  <2>2. WindowBounded'
    BY <1>1, <2>1 DEF WindowBounded, Overshoot
  <2> QED
    BY <1>1, <1>2, <1>4, <2>1, <2>2 DEF LimitInv
<1>9. ASSUME NEW q \in Requesters, Allow(q) \/ Record(q)
      PROVE  LimitInv'
  <2>1. UNCHANGED memoryVars
    BY <1>9 DEF Allow, Record
  <2> QED
    BY <1>1, <1>2, <1>4, <1>9, <2>1, WindowStep DEF LimitInv
<1> QED
  BY <1>5, <1>6, <1>7, <1>8, <1>9 DEF LimitNext

LEMMA LimitInitInv == LimitInit => LimitInv
<1> SUFFICES ASSUME LimitInit PROVE LimitInv
  OBVIOUS
<1>1. LimitTypeOK
  BY RateLimitAssumption DEF LimitInit, LimitTypeOK
<1>2. \A k \in Counters : Spenders(k) = {}
  BY RateLimitAssumption DEF LimitInit, Spenders
<1>3. CountersBounded
  BY <1>2, FS_EmptySet, RequestersFinite DEF LimitInit, CountersBounded
<1>4. WindowBounded
  BY FS_EmptySet, RequestersFinite DEF LimitInit, WindowBounded
<1> QED
  BY <1>1, <1>3, <1>4 DEF LimitInv

LEMMA LimitInvariant == LimitInit /\ [][LimitNext]_LimitVars => []LimitInv
BY LimitInitInv, LimitStep, PTL

\* The counters, the window and the requests under way stay well typed.
THEOREM LimitTypeCorrect == LimitSpec => []LimitTypeOK
<1>1. LimitInv => LimitTypeOK
  BY DEF LimitInv
<1> QED
  BY <1>1, LimitInvariant, PTL DEF LimitSpec

\* However many requests of one IP overlap, on one replica or on several, they
\* pass a limit by at most their number less one (memory.go:37, ratelimit.go:104).
THEOREM OvershootBounded == LimitSpec => []OvershootIsBounded
<1>1. LimitInv => OvershootIsBounded
  BY DEF LimitInv, CountersBounded, WindowBounded, Spenders, Overshoot, OvershootIsBounded
<1> QED
  BY <1>1, LimitInvariant, PTL DEF LimitSpec

-----------------------------------------------------------------------------
(* The snapshots of the NIP-86 lists                                         *)

\* No snapshot, and no promise, is ahead of the tables; a serving replica keeps
\* its promises.
SnapshotsOK ==
  \A r \in AccessReplicas, l \in Cached :
    /\ snap[r][l] <= Latest(l) /\ due[r][l] <= Latest(l)
    /\ r \in serving => snap[r][l] >= due[r][l]

\* What a call has written is in its table.
CallersOK ==
  \A r \in AccessReplicas, c \in AccessCallers :
    caller[r][c].list # "none" =>
      caller[r][c].list \in Cached /\ caller[r][c].ver <= Latest(caller[r][c].list)

\* The reload under way, of which there is one per replica, has read versions
\* that are neither behind the snapshot it will replace, nor behind what the
\* replica has promised, nor behind the write of the call it belongs to.
ReloadOK(r) ==
  LET c == refreshMu[r] IN
  c # "none" =>
    /\ caller[r][c].at = "loads" /\ Len(next[r]) <= 4
    /\ \A i \in 1..Len(next[r]) :
         LET l == CachedLists[i] IN
         /\ next[r][i] <= Latest(l) /\ next[r][i] >= snap[r][l] /\ next[r][i] >= due[r][l]
         /\ caller[r][c].list = l => next[r][i] >= caller[r][c].ver
ReloadsOK == \A r \in AccessReplicas : ReloadOK(r)

AccessInv == AccessTypeOK /\ SnapshotsOK /\ CallersOK /\ ReloadsOK

LEMMA ListsFacts ==
  /\ Cached \subseteq Lists /\ "none" \notin Lists
  /\ \A i \in 1..4 : CachedLists[i] \in Cached
  /\ \A l \in Cached : \E i \in 1..4 : CachedLists[i] = l
  /\ "bannedPubkeys" \in Cached
<1>1. CachedLists[1] = "bannedPubkeys" /\ CachedLists[2] = "bannedEvents"
      /\ CachedLists[3] = "exemptPubkeys" /\ CachedLists[4] = "allowedKinds"
  BY DEF CachedLists
<1>2. 1..4 = {1, 2, 3, 4}
  OBVIOUS
<1>3. Cached = {"bannedPubkeys", "bannedEvents", "exemptPubkeys", "allowedKinds"}
  BY <1>1, <1>2 DEF Cached
<1> QED
  BY <1>1, <1>2, <1>3 DEF Lists, DbLists, Cached

LEMMA CallersFacts == "timer" \in AccessCallers /\ "boot" \in AccessCallers /\ "none" \notin AccessCallers
BY AccessAssumption DEF AccessCallers

LEMMA VersionsFacts ==
  ASSUME AccessTypeOK
  PROVE  /\ \A l \in Lists : Latest(l) \in Nat \ {0}
         /\ \A r \in AccessReplicas, l \in Cached : snap[r][l] \in Nat \ {0} /\ due[r][l] \in Nat \ {0}
BY DEF AccessTypeOK, Latest

LEMMA AccessInitInv == AccessInit => AccessInv
<1> SUFFICES ASSUME AccessInit PROVE AccessInv
  OBVIOUS
<1>1. \A l \in Lists : table[l] = <<{}>> /\ Latest(l) = 1
  BY DEF AccessInit, Latest
<1>2. AccessTypeOK
  <2>1. caller \in [AccessReplicas -> [AccessCallers -> CallerState]]
    BY DEF AccessInit, Idle, CallerState
  <2>2. table \in [Lists -> Seq(SUBSET {Pubkey, EventId, Kind, Ip})]
    BY DEF AccessInit
  <2>3. writes \in 0..MaxWrites /\ loadFaults \in 0..MaxLoadFaults
    BY AccessAssumption DEF AccessInit
  <2> QED
    BY <1>1, <2>1, <2>2, <2>3 DEF AccessInit, AccessTypeOK, Latest
<1>3. SnapshotsOK
  BY <1>1, ListsFacts DEF AccessInit, SnapshotsOK
<1>4. CallersOK /\ ReloadsOK
  BY DEF AccessInit, CallersOK, ReloadsOK, ReloadOK, Idle
<1> QED
  BY <1>2, <1>3, <1>4 DEF AccessInv

--------------------------------------------------------------------------------
(* Writes *)

\* A statement adds a content; no version that is known becomes another one.
LEMMA TableGrows ==
  ASSUME AccessTypeOK, NEW l \in Lists, NEW content \in SUBSET {Pubkey, EventId, Kind, Ip},
         table' = [table EXCEPT ![l] = Append(@, content)]
  PROVE  /\ table' \in [Lists -> Seq(SUBSET {Pubkey, EventId, Kind, Ip})]
         /\ \A k \in Lists : Len(table'[k]) \in Nat /\ Len(table'[k]) >= Len(table[k]) /\ Len(table'[k]) >= 1
         /\ Len(table'[l]) = Len(table[l]) + 1
<1>1. table[l] \in Seq(SUBSET {Pubkey, EventId, Kind, Ip}) /\ table[l] # <<>>
  BY DEF AccessTypeOK
<1>2. Append(table[l], content) \in Seq(SUBSET {Pubkey, EventId, Kind, Ip})
      /\ Len(Append(table[l], content)) = Len(table[l]) + 1
  BY <1>1
<1>3. table'[l] = Append(table[l], content) /\ \A k \in Lists \ {l} : table'[k] = table[k]
  BY DEF AccessTypeOK
<1>4. \A k \in Lists : Len(table[k]) \in Nat /\ Len(table[k]) >= 1
  BY DEF AccessTypeOK
<1> QED
  BY <1>1, <1>2, <1>3, <1>4 DEF AccessTypeOK, Latest

\* A step that only grows the tables and gives an idle call its turn.
LEMMA GrowthKeeps ==
  ASSUME AccessInv, AccessTypeOK',
         \A k \in Lists : Len(table'[k]) >= Len(table[k]),
         UNCHANGED <<snap, serving, refreshMu, next, due>>,
         \A r \in AccessReplicas, c \in AccessCallers :
           caller'[r][c] = caller[r][c]
           \/ /\ caller[r][c] = Idle
              /\ caller'[r][c].list # "none" =>
                   caller'[r][c].list \in Cached /\ caller'[r][c].ver <= Len(table'[caller'[r][c].list])
  PROVE  AccessInv'
<1> USE DEF AccessInv
<1> USE DEF Latest
<1>0. \A k \in Lists : Len(table[k]) \in Nat /\ Len(table'[k]) \in Nat /\ Len(table'[k]) >= Len(table[k])
  BY DEF AccessTypeOK
<1>1. SnapshotsOK'
  <2> SUFFICES ASSUME NEW r \in AccessReplicas, NEW l \in Cached
               PROVE  /\ snap[r][l] <= Len(table'[l]) /\ due[r][l] <= Len(table'[l])
                      /\ r \in serving => snap[r][l] >= due[r][l]
    BY DEF SnapshotsOK
  <2>1. snap[r][l] \in Nat /\ due[r][l] \in Nat /\ l \in Lists
    BY VersionsFacts, ListsFacts
  <2>2. /\ snap[r][l] <= Len(table[l]) /\ due[r][l] <= Len(table[l])
        /\ r \in serving => snap[r][l] >= due[r][l]
    BY DEF SnapshotsOK
  <2> QED
    BY <1>0, <2>1, <2>2
<1>2. CallersOK'
  <2>1. ASSUME NEW r \in AccessReplicas, NEW c \in AccessCallers, caller'[r][c] = caller[r][c],
               caller'[r][c].list # "none"
        PROVE  caller'[r][c].list \in Cached /\ caller'[r][c].ver <= Len(table'[caller'[r][c].list])
    <3>1. caller[r][c].list \in Cached /\ caller[r][c].ver <= Latest(caller[r][c].list)
          /\ caller[r][c].ver \in Nat
      BY <2>1 DEF CallersOK, AccessTypeOK, CallerState
    <3> QED
      BY <1>0, <2>1, <3>1, ListsFacts
  <2> QED
    BY <2>1 DEF CallersOK
<1>3. ReloadsOK'
  <2> SUFFICES ASSUME NEW r \in AccessReplicas, refreshMu[r] # "none"
               PROVE  ReloadOK(r)'
    BY DEF ReloadsOK, ReloadOK
  <2>1. refreshMu[r] \in AccessCallers /\ ReloadOK(r)
    BY DEF AccessTypeOK, ReloadsOK
  <2>2. caller'[r][refreshMu[r]] = caller[r][refreshMu[r]]
    BY <2>1 DEF ReloadOK, Idle
  <2>3. \A i \in 1..Len(next[r]) : CachedLists[i] \in Lists /\ next[r][i] \in Nat
    <3>1. next[r] \in Seq(Nat \ {0}) /\ Len(next[r]) \in Nat /\ Len(next[r]) <= 4
      BY <2>1 DEF ReloadOK, AccessTypeOK
    <3> QED
      BY <3>1, ListsFacts
  <2>4. \A i \in 1..Len(next[r]) : next[r][i] <= Len(table'[CachedLists[i]])
    BY <1>0, <2>1, <2>3 DEF ReloadOK
  <2> QED
    BY <2>1, <2>2, <2>4 DEF ReloadOK
<1> QED
  BY <1>1, <1>2, <1>3

LEMMA WriteStep ==
  ASSUME AccessInv, NEW r \in AccessReplicas, NEW c \in AccessAdmins, NEW l \in Lists,
         NEW x \in {Pubkey, EventId, Kind, Ip},
         InsertItem(r, c, l, x) \/ RemoveItem(r, c, l, x)
  PROVE  AccessInv'
<1> USE DEF AccessInv
<1>1. table[l][Latest(l)] \in SUBSET {Pubkey, EventId, Kind, Ip}
  <2>1. Latest(l) \in 1..Len(table[l]) /\ table[l] \in Seq(SUBSET {Pubkey, EventId, Kind, Ip})
    BY DEF AccessTypeOK, Latest
  <2> QED
    BY <2>1
<1>2. PICK content \in SUBSET {Pubkey, EventId, Kind, Ip} : Write(r, c, l, content)
  <2>1. CASE InsertItem(r, c, l, x)
    BY <1>1, <2>1 DEF InsertItem
  <2>2. CASE RemoveItem(r, c, l, x)
    BY <1>1, <2>2 DEF RemoveItem
  <2> QED
    BY <2>1, <2>2
<1>3. /\ table' \in [Lists -> Seq(SUBSET {Pubkey, EventId, Kind, Ip})]
      /\ \A k \in Lists : Len(table'[k]) \in Nat /\ Len(table'[k]) >= Len(table[k]) /\ Len(table'[k]) >= 1
      /\ Len(table'[l]) = Len(table[l]) + 1 /\ Len(table[l]) \in Nat
  BY <1>2, TableGrows DEF Write, AccessTypeOK, Latest
<1>4. c \in AccessCallers /\ Waits(l, Latest(l) + 1) \in CallerState
  BY <1>3 DEF AccessCallers, Waits, CallerState, Latest
<1>5. AccessTypeOK'
  <2>1. caller' \in [AccessReplicas -> [AccessCallers -> CallerState]]
    BY <1>2, <1>4 DEF Write, AccessTypeOK
  <2>2. writes' \in 0..MaxWrites
    BY <1>2, AccessAssumption DEF Write, AccessTypeOK
  <2> QED
    BY <1>2, <1>3, <2>1, <2>2 DEF Write, AccessTypeOK
<1>6. ASSUME NEW q \in AccessReplicas, NEW d \in AccessCallers
      PROVE  caller'[q][d] = caller[q][d]
             \/ /\ caller[q][d] = Idle
                /\ caller'[q][d].list # "none" =>
                     caller'[q][d].list \in Cached /\ caller'[q][d].ver <= Len(table'[caller'[q][d].list])
  <2>1. CASE q = r /\ d = c /\ l \in Cached
    BY <1>2, <1>3, <2>1 DEF Write, AccessTypeOK, Waits, Latest
  <2>2. CASE ~(q = r /\ d = c /\ l \in Cached)
    BY <1>2, <2>2 DEF Write, AccessTypeOK
  <2> QED
    BY <2>1, <2>2
<1> QED
  BY <1>2, <1>3, <1>5, <1>6, GrowthKeeps DEF Write

LEMMA DispatchStep ==
  ASSUME AccessInv, NEW r \in AccessReplicas, NEW c \in AccessAdmins, Dispatch(r, c)
  PROVE  AccessInv'
<1>1. \A l \in {"bannedPubkeys", "bannedEvents", "exemptPubkeys", "allowedKinds",
                "allowedPubkeys", "blockedIps"} : l \in Lists
  <2>1. CachedLists[1] = "bannedPubkeys" /\ CachedLists[2] = "bannedEvents"
        /\ CachedLists[3] = "exemptPubkeys" /\ CachedLists[4] = "allowedKinds"
    BY DEF CachedLists
  <2> QED
    BY <2>1, ListsFacts DEF Lists, DbLists
<1>2. \E l \in Lists, x \in {Pubkey, EventId, Kind, Ip} :
        InsertItem(r, c, l, x) \/ RemoveItem(r, c, l, x)
  BY <1>1 DEF Dispatch, BanPubkey, UnbanPubkey, BanEvent, UnbanEvent, AllowKind, DisallowKind,
              ExemptPubkeyFromRateLimit, RemoveExemptPubkey, AllowPubkey, BlockIP, UnblockIP
<1> QED
  BY <1>2, WriteStep

LEMMA WriteUnseenStep ==
  ASSUME AccessInv, NEW content \in {{}, {Pubkey}}, WriteUnseen("bannedPubkeys", content)
  PROVE  AccessInv'
<1> USE DEF AccessInv, WriteUnseen
<1>1. /\ table' \in [Lists -> Seq(SUBSET {Pubkey, EventId, Kind, Ip})]
      /\ \A k \in Lists : Len(table'[k]) \in Nat /\ Len(table'[k]) >= Len(table[k]) /\ Len(table'[k]) >= 1
  BY TableGrows, ListsFacts
<1>2. AccessTypeOK'
  BY <1>1, AccessAssumption DEF AccessTypeOK
<1> QED
  BY <1>1, <1>2, GrowthKeeps

--------------------------------------------------------------------------------
(* Reloads *)

LEMMA TickStep ==
  ASSUME AccessInv, NEW r \in AccessReplicas, Tick(r)
  PROVE  AccessInv'
<1> DEFINE w == Waits("none", 0)
<1>1. "timer" \in AccessCallers /\ w \in CallerState /\ w.list = "none"
  BY CallersFacts DEF Waits, CallerState
<1>2. caller' = [caller EXCEPT ![r]["timer"] = w] /\ caller[r]["timer"] = Idle
      /\ UNCHANGED <<table, snap, serving, refreshMu, next, due, writes, loadFaults>>
  BY DEF Tick
<1>3. AccessTypeOK
  BY DEF AccessInv
<1> HIDE DEF w
<1>4. \A q \in AccessReplicas, d \in AccessCallers :
        caller'[q][d] = IF q = r /\ d = "timer" THEN w ELSE caller[q][d]
  BY <1>1, <1>2, <1>3 DEF AccessTypeOK
<1>5. AccessTypeOK'
  BY <1>1, <1>2, <1>3 DEF AccessTypeOK
<1>6. \A k \in Lists : Len(table'[k]) >= Len(table[k])
  BY <1>2, <1>3 DEF AccessTypeOK
<1> QED
  BY <1>1, <1>2, <1>4, <1>5, <1>6, GrowthKeeps

LEMMA TakeMutexStep ==
  ASSUME AccessInv, NEW r \in AccessReplicas, NEW c \in AccessCallers, TakeMutex(r, c)
  PROVE  AccessInv'
<1> USE DEF AccessInv, TakeMutex
<1>1. /\ caller' = [caller EXCEPT ![r][c].at = "loads"]
      /\ caller[r][c] \in CallerState /\ caller'[r][c] = [caller[r][c] EXCEPT !.at = "loads"]
      /\ \A q \in AccessReplicas, d \in AccessCallers :
           caller'[q][d].list = caller[q][d].list /\ caller'[q][d].ver = caller[q][d].ver
           /\ (q # r => caller'[q] = caller[q])
  <2>1. caller[r][c] \in CallerState /\ caller' = [caller EXCEPT ![r][c].at = "loads"]
    BY DEF AccessTypeOK
  <2>2. caller'[r][c] = [caller[r][c] EXCEPT !.at = "loads"]
    BY DEF AccessTypeOK
  <2>3. caller'[r][c].list = caller[r][c].list /\ caller'[r][c].ver = caller[r][c].ver
    BY <2>1, <2>2 DEF CallerState
  <2>4. \A q \in AccessReplicas, d \in AccessCallers :
          q # r \/ d # c => caller'[q][d] = caller[q][d] /\ (q # r => caller'[q] = caller[q])
    BY DEF AccessTypeOK
  <2> QED
    BY <2>1, <2>2, <2>3, <2>4
<1>2. AccessTypeOK'
  <2>1. caller'[r][c] \in CallerState
    BY <1>1 DEF CallerState
  <2>2. caller' = [caller EXCEPT ![r][c] = caller'[r][c]]
    BY <1>1 DEF AccessTypeOK
  <2>3. caller' \in [AccessReplicas -> [AccessCallers -> CallerState]]
    BY <2>1, <2>2 DEF AccessTypeOK
  <2> QED
    BY <2>3 DEF AccessTypeOK
<1>3. SnapshotsOK' /\ CallersOK'
  BY <1>1 DEF SnapshotsOK, CallersOK, Latest
<1>4. ReloadsOK'
  <2>1. ReloadOK(r)'
    <3>1. refreshMu'[r] = c /\ caller'[r][c].at = "loads" /\ next'[r] = <<>>
      BY <1>1 DEF AccessTypeOK, CallerState
    <3> QED
      BY <3>1 DEF ReloadOK
  <2>2. ASSUME NEW q \in AccessReplicas, q # r
        PROVE  ReloadOK(q)'
    BY <1>1, <2>2 DEF ReloadsOK, ReloadOK, AccessTypeOK, Latest
  <2> QED
    BY <2>1, <2>2 DEF ReloadsOK
<1> QED
  BY <1>2, <1>3, <1>4

LEMMA LoadListStep ==
  ASSUME AccessInv, NEW r \in AccessReplicas, LoadList(r)
  PROVE  AccessInv'
<1> USE DEF AccessInv, LoadList
<1> DEFINE n == Len(next[r]) + 1
           l == CachedLists[n]
           c == refreshMu[r]
<1>1. next[r] \in Seq(Nat \ {0}) /\ Len(next[r]) \in Nat /\ n \in 1..4 /\ l \in Cached /\ l \in Lists
      /\ c \in AccessCallers
  <2>1. next[r] \in Seq(Nat \ {0}) /\ c \in AccessCallers
    BY DEF AccessTypeOK
  <2>2. Len(next[r]) \in Nat
    BY <2>1
  <2>3. n \in 1..4
    BY <2>2
  <2> QED
    BY <2>1, <2>2, <2>3, ListsFacts
<1>2. Latest(l) \in Nat \ {0}
  BY <1>1, VersionsFacts
<1>3. /\ next' = [next EXCEPT ![r] = Append(next[r], Latest(l))]
      /\ next'[r] = Append(next[r], Latest(l))
      /\ next'[r] \in Seq(Nat \ {0}) /\ Len(next'[r]) = n /\ next'[r][n] = Latest(l)
      /\ \A i \in 1..Len(next[r]) : next'[r][i] = next[r][i]
  BY <1>1, <1>2 DEF AccessTypeOK
<1>4. AccessTypeOK'
  BY <1>1, <1>2, <1>3 DEF AccessTypeOK
<1>5. SnapshotsOK' /\ CallersOK'
  BY DEF SnapshotsOK, CallersOK, Latest
<1>6. ReloadsOK'
  <2>1. snap[r][l] <= Latest(l) /\ due[r][l] <= Latest(l)
    BY <1>1 DEF SnapshotsOK
  <2>2. caller[r][c].list = l => caller[r][c].ver <= Latest(l)
    BY <1>1, ListsFacts DEF CallersOK
  <2>3. caller[r][c].list = l => Latest(l) >= caller[r][c].ver
    BY <1>1, <1>2, <2>2 DEF AccessTypeOK, CallerState
  <2>4. Latest(l) >= snap[r][l] /\ Latest(l) >= due[r][l] /\ Latest(l) <= Latest(l)
    BY <1>1, <1>2, <2>1, VersionsFacts
  <2>5. ReloadOK(r)'
    <3>1. ASSUME NEW i \in 1..Len(next'[r])
          PROVE  /\ next'[r][i] <= Latest(CachedLists[i])
                 /\ next'[r][i] >= snap[r][CachedLists[i]] /\ next'[r][i] >= due[r][CachedLists[i]]
                 /\ caller[r][c].list = CachedLists[i] => next'[r][i] >= caller[r][c].ver
      <4>1. CASE i = n
        BY <1>3, <2>3, <2>4, <4>1
      <4>2. CASE i # n
        <5>1. i \in 1..Len(next[r])
          BY <1>1, <1>3, <4>2
        <5> QED
          BY <1>3, <5>1 DEF ReloadsOK, ReloadOK
      <4> QED
        BY <4>1, <4>2
    <3>2. caller[r][c].at = "loads" /\ Len(next'[r]) <= 4
      BY <1>1, <1>3 DEF ReloadsOK, ReloadOK
    <3> QED
      BY <3>1, <3>2 DEF ReloadOK, Latest
  <2>6. ASSUME NEW q \in AccessReplicas, q # r
        PROVE  ReloadOK(q)'
    BY <2>6 DEF ReloadsOK, ReloadOK, AccessTypeOK, Latest
  <2> QED
    BY <2>5, <2>6 DEF ReloadsOK
<1> QED
  BY <1>4, <1>5, <1>6

\* A complete reload is as new as the snapshot it replaces, as what the replica
\* has promised, and as the write of its call.
LEMMA LoadedFacts ==
  ASSUME AccessInv, NEW r \in AccessReplicas, refreshMu[r] # "none", Len(next[r]) = 4,
         NEW l \in Cached
  PROVE  /\ Loaded(r)[l] \in Nat \ {0} /\ Loaded(r)[l] <= Latest(l)
         /\ Loaded(r)[l] >= snap[r][l] /\ Loaded(r)[l] >= due[r][l]
         /\ caller[r][refreshMu[r]].list = l => Loaded(r)[l] >= caller[r][refreshMu[r]].ver
<1> DEFINE i == CHOOSE j \in 1..4 : CachedLists[j] = l
<1>1. i \in 1..4 /\ CachedLists[i] = l
  BY ListsFacts
<1>2. Loaded(r)[l] = next[r][i]
  BY DEF Loaded
<1>3. next[r] \in Seq(Nat \ {0})
  BY DEF AccessInv, AccessTypeOK
<1>5. ReloadOK(r)
  BY DEF AccessInv, ReloadsOK
<1> HIDE DEF i
<1>4. next[r][i] \in Nat \ {0} /\ i \in 1..Len(next[r])
  BY <1>1, <1>3
<1> QED
  BY <1>1, <1>2, <1>4, <1>5 DEF ReloadOK

LEMMA StoreSnapshotStep ==
  ASSUME AccessInv, NEW r \in AccessReplicas, StoreSnapshot(r)
  PROVE  /\ AccessInv'
         /\ \A q \in AccessReplicas, l \in Cached : snap'[q][l] >= snap[q][l]
<1> USE DEF AccessInv, StoreSnapshot
<1> DEFINE c == refreshMu[r]
<1>1. c \in AccessCallers /\ c # "none" /\ caller[r][c] \in CallerState
  BY DEF AccessTypeOK
<1>2. \A l \in Cached :
        /\ Loaded(r)[l] \in Nat \ {0} /\ Loaded(r)[l] <= Latest(l)
        /\ Loaded(r)[l] >= snap[r][l] /\ Loaded(r)[l] >= due[r][l]
        /\ caller[r][c].list = l => Loaded(r)[l] >= caller[r][c].ver
  BY LoadedFacts
<1>3. Loaded(r) \in [Cached -> Nat \ {0}]
  BY <1>2 DEF Loaded
<1>4. snap' = [snap EXCEPT ![r] = Loaded(r)]
  OBVIOUS
<1>5. \A q \in AccessReplicas, l \in Cached :
        snap'[q][l] = IF q = r THEN Loaded(r)[l] ELSE snap[q][l]
  BY <1>4 DEF AccessTypeOK
<1>6. \A q \in AccessReplicas, l \in Cached :
        \/ due'[q][l] = due[q][l]
        \/ q = r /\ caller[r][c].list = l /\ due'[q][l] = caller[r][c].ver
  BY <1>1 DEF AccessTypeOK
<1>7. due' \in [AccessReplicas -> [Cached -> Nat \ {0}]]
  <2>1. CASE caller[r][c].list = "none"
    BY <2>1 DEF AccessTypeOK
  <2>2. CASE caller[r][c].list # "none"
    <3>1. caller[r][c].list \in Cached /\ caller[r][c].ver \in Nat
      BY <1>1, <2>2 DEF CallersOK, CallerState
    <3> DEFINE k == caller[r][c].list
               v == IF caller[r][c].ver > due[r][k] THEN caller[r][c].ver ELSE due[r][k]
    <3>2. due[r][k] \in Nat \ {0}
      BY <3>1 DEF AccessTypeOK
    <3>3. v \in Nat \ {0}
      BY <3>1, <3>2
    <3>4. due' = [due EXCEPT ![r][k] = v]
      BY <2>2
    <3> HIDE DEF v
    <3> QED
      BY <3>1, <3>3, <3>4 DEF AccessTypeOK
  <2> QED
    BY <2>1, <2>2
<1>8. Idle \in CallerState /\ Idle.list = "none"
  BY DEF Idle, CallerState
<1>9. AccessTypeOK'
  BY <1>1, <1>3, <1>4, <1>7, <1>8 DEF AccessTypeOK
<1>10. SnapshotsOK'
  <2> SUFFICES ASSUME NEW q \in AccessReplicas, NEW l \in Cached
               PROVE  /\ snap'[q][l] <= Latest(l) /\ due'[q][l] <= Latest(l)
                      /\ q \in serving' => snap'[q][l] >= due'[q][l]
    BY DEF SnapshotsOK, Latest
  <2>1. /\ snap[q][l] <= Latest(l) /\ due[q][l] <= Latest(l)
        /\ q \in serving => snap[q][l] >= due[q][l]
    BY DEF SnapshotsOK
  <2>2. q # r => (q \in serving' => q \in serving)
    OBVIOUS
  <2>3. caller[r][c].list = l => caller[r][c].ver <= Latest(l)
    BY <1>1, ListsFacts DEF CallersOK
  <2> QED
    BY <1>2, <1>5, <1>6, <2>1, <2>2, <2>3
<1>11. CallersOK'
  BY <1>1, <1>8 DEF CallersOK, AccessTypeOK, Latest
<1>12. ReloadsOK'
  <2>1. ReloadOK(r)'
    BY DEF ReloadOK, AccessTypeOK
  <2>2. ASSUME NEW q \in AccessReplicas, q # r
        PROVE  ReloadOK(q)'
    <3>1. /\ refreshMu'[q] = refreshMu[q] /\ next'[q] = next[q] /\ caller'[q] = caller[q]
          /\ snap'[q] = snap[q] /\ due'[q] = due[q] /\ table' = table
      BY <1>4, <2>2 DEF AccessTypeOK
    <3> QED
      BY <3>1 DEF ReloadsOK, ReloadOK, Latest
  <2> QED
    BY <2>1, <2>2 DEF ReloadsOK
<1>13. \A q \in AccessReplicas, l \in Cached : snap'[q][l] >= snap[q][l]
  BY <1>2, <1>5, VersionsFacts
<1> QED
  BY <1>9, <1>10, <1>11, <1>12, <1>13

(* Faults *)

LEMMA FreshCallers ==
  /\ Idle \in CallerState /\ Idle.list = "none"
  /\ Waits("none", 0) \in CallerState /\ Waits("none", 0).list = "none"
BY DEF Idle, Waits, CallerState

\* A reload that fails changes no snapshot and ends.
LEMMA LoadFailsStep ==
  ASSUME AccessInv, NEW r \in AccessReplicas, LoadFails(r)
  PROVE  AccessInv'
<1>0. AccessTypeOK /\ SnapshotsOK /\ CallersOK /\ ReloadsOK
  BY DEF AccessInv
<1>1. /\ UNCHANGED <<table, snap, serving, due, writes>>
      /\ loadFaults < MaxLoadFaults /\ loadFaults' = loadFaults + 1
      /\ refreshMu' = [refreshMu EXCEPT ![r] = "none"]
      /\ next' = [next EXCEPT ![r] = <<>>]
      /\ refreshMu[r] # "none"
  BY DEF LoadFails
<1>2. refreshMu[r] \in AccessCallers
  BY <1>0, <1>1 DEF AccessTypeOK
<1>3. PICK s \in CallerState : s.list = "none" /\ caller' = [caller EXCEPT ![r][refreshMu[r]] = s]
  BY FreshCallers DEF LoadFails
<1>4. caller' \in [AccessReplicas -> [AccessCallers -> CallerState]]
  BY <1>0, <1>2, <1>3 DEF AccessTypeOK
<1>5. \A q \in AccessReplicas, d \in AccessCallers :
        caller'[q][d] = IF q = r /\ d = refreshMu[r] THEN s ELSE caller[q][d]
  BY <1>0, <1>2, <1>3 DEF AccessTypeOK
<1>6. /\ refreshMu' \in [AccessReplicas -> AccessCallers \union {"none"}]
      /\ next' \in [AccessReplicas -> Seq(Nat \ {0})]
  BY <1>0, <1>1 DEF AccessTypeOK
<1>7. loadFaults' \in 0..MaxLoadFaults
  BY <1>0, <1>1, AccessAssumption DEF AccessTypeOK
<1>8. AccessTypeOK'
  BY <1>0, <1>1, <1>4, <1>6, <1>7 DEF AccessTypeOK
<1>9. SnapshotsOK'
  BY <1>0, <1>1 DEF SnapshotsOK, Latest
<1>10. CallersOK'
  <2> SUFFICES ASSUME NEW q \in AccessReplicas, NEW d \in AccessCallers, caller'[q][d].list # "none"
               PROVE  /\ caller'[q][d].list \in Cached
                      /\ caller'[q][d].ver <= Latest(caller'[q][d].list)
    BY <1>1 DEF CallersOK, Latest
  <2>1. caller'[q][d] = caller[q][d]
    BY <1>3, <1>5
  <2> QED
    BY <1>0, <2>1 DEF CallersOK
<1>11. ReloadsOK'
  <2>1. ReloadOK(r)'
    BY <1>0, <1>1 DEF ReloadOK, AccessTypeOK
  <2>2. ASSUME NEW q \in AccessReplicas, q # r
        PROVE  ReloadOK(q)'
    <3>1. refreshMu'[q] = refreshMu[q] /\ next'[q] = next[q] /\ caller'[q] = caller[q]
      BY <1>0, <1>1, <1>3, <2>2 DEF AccessTypeOK
    <3> QED
      BY <1>0, <1>1, <3>1 DEF ReloadsOK, ReloadOK, Latest
  <2> QED
    BY <2>1, <2>2 DEF ReloadsOK
<1> QED
  BY <1>8, <1>9, <1>10, <1>11 DEF AccessInv

\* A replica that restarts serves nothing until it has loaded the lists.
LEMMA RestartStep ==
  ASSUME AccessInv, NEW r \in AccessReplicas, Restart(r)
  PROVE  AccessInv'
<1> DEFINE s == [c \in AccessCallers |-> IF c = "boot" THEN Waits("none", 0) ELSE Idle]
           fresh == [l \in Cached |-> 1]
<1>0. AccessTypeOK /\ SnapshotsOK /\ CallersOK /\ ReloadsOK
  BY DEF AccessInv
<1>1. /\ UNCHANGED <<table, due, writes>>
      /\ loadFaults < MaxLoadFaults /\ loadFaults' = loadFaults + 1
      /\ serving' = serving \ {r}
      /\ snap' = [snap EXCEPT ![r] = fresh]
      /\ caller' = [caller EXCEPT ![r] = s]
      /\ refreshMu' = [refreshMu EXCEPT ![r] = "none"]
      /\ next' = [next EXCEPT ![r] = <<>>]
  BY DEF Restart
<1>2. s \in [AccessCallers -> CallerState] /\ \A d \in AccessCallers : s[d].list = "none"
  BY FreshCallers
<1>3. fresh \in [Cached -> Nat \ {0}] /\ \A l \in Cached : fresh[l] = 1
  OBVIOUS
<1> HIDE DEF s, fresh
<1>4. /\ caller' \in [AccessReplicas -> [AccessCallers -> CallerState]]
      /\ caller'[r] = s
      /\ \A q \in AccessReplicas : q # r => caller'[q] = caller[q]
  BY <1>0, <1>1, <1>2 DEF AccessTypeOK
<1>5. /\ snap' \in [AccessReplicas -> [Cached -> Nat \ {0}]]
      /\ snap'[r] = fresh
      /\ \A q \in AccessReplicas : q # r => snap'[q] = snap[q]
  BY <1>0, <1>1, <1>3 DEF AccessTypeOK
<1>6. /\ refreshMu' \in [AccessReplicas -> AccessCallers \union {"none"}]
      /\ next' \in [AccessReplicas -> Seq(Nat \ {0})]
  BY <1>0, <1>1 DEF AccessTypeOK
<1>7. loadFaults' \in 0..MaxLoadFaults
  BY <1>0, <1>1, AccessAssumption DEF AccessTypeOK
<1>8. AccessTypeOK'
  BY <1>0, <1>1, <1>4, <1>5, <1>6, <1>7 DEF AccessTypeOK
<1>9. SnapshotsOK'
  <2> SUFFICES ASSUME NEW q \in AccessReplicas, NEW l \in Cached
               PROVE  /\ snap'[q][l] <= Latest(l) /\ due[q][l] <= Latest(l)
                      /\ q \in serving' => snap'[q][l] >= due[q][l]
    BY <1>1 DEF SnapshotsOK, Latest
  <2>1. /\ snap[q][l] <= Latest(l) /\ due[q][l] <= Latest(l) /\ Latest(l) \in Nat \ {0}
        /\ q \in serving => snap[q][l] >= due[q][l]
    BY <1>0, VersionsFacts, ListsFacts DEF SnapshotsOK
  <2>2. CASE q = r
    BY <1>1, <1>3, <1>5, <2>1, <2>2
  <2>3. CASE q # r
    BY <1>1, <1>5, <2>1, <2>3
  <2> QED
    BY <2>2, <2>3
<1>10. CallersOK'
  <2> SUFFICES ASSUME NEW q \in AccessReplicas, NEW d \in AccessCallers, caller'[q][d].list # "none"
               PROVE  /\ caller'[q][d].list \in Cached
                      /\ caller'[q][d].ver <= Latest(caller'[q][d].list)
    BY <1>1 DEF CallersOK, Latest
  <2>1. q # r
    BY <1>2, <1>4
  <2> QED
    BY <1>0, <1>4, <2>1 DEF CallersOK
<1>11. ReloadsOK'
  <2>1. ReloadOK(r)'
    BY <1>0, <1>1 DEF ReloadOK, AccessTypeOK
  <2>2. ASSUME NEW q \in AccessReplicas, q # r
        PROVE  ReloadOK(q)'
    <3>1. refreshMu'[q] = refreshMu[q] /\ next'[q] = next[q]
          /\ caller'[q] = caller[q] /\ snap'[q] = snap[q]
      BY <1>0, <1>1, <1>4, <1>5, <2>2 DEF AccessTypeOK
    <3> QED
      BY <1>0, <1>1, <3>1 DEF ReloadsOK, ReloadOK, Latest
  <2> QED
    BY <2>1, <2>2 DEF ReloadsOK
<1> QED
  BY <1>8, <1>9, <1>10, <1>11 DEF AccessInv

LEMMA AccessStutter ==
  ASSUME AccessInv, UNCHANGED AccessVars
  PROVE  AccessInv'
BY DEF AccessInv, AccessVars, AccessTypeOK, SnapshotsOK, CallersOK, ReloadsOK, ReloadOK, Latest

LEMMA AccessInvariant == AccessInit /\ [][AccessNext]_AccessVars => []AccessInv
<1>1. AccessInv /\ [AccessNext]_AccessVars => AccessInv'
  <2> SUFFICES ASSUME AccessInv, [AccessNext]_AccessVars PROVE AccessInv'
    OBVIOUS
  <2> QED
    BY TickStep, TakeMutexStep, LoadListStep, StoreSnapshotStep, LoadFailsStep, RestartStep, DispatchStep,
       WriteUnseenStep, AccessStutter DEF AccessNext, Reload
<1> QED
  BY <1>1, AccessInitInv, PTL

\* The tables' histories, the snapshots and the reloads stay well typed.
THEOREM AccessTypeCorrect == AccessSpec => []AccessTypeOK
<1>1. AccessInv => AccessTypeOK
  BY DEF AccessInv
<1> QED
  BY <1>1, AccessInvariant, PTL DEF AccessSpec

\* With any number of replicas, admins, writes and failed reloads: after a ban
\* has returned on a replica, that replica refuses the banned key's events
\* until a later call has unbanned it (access_cache.go:58).
THEOREM BansHold == AccessSpec => []BanHoldsOnReturn
<1>1. AccessInv => BanHoldsOnReturn
  <2> SUFFICES ASSUME AccessInv, NEW r \in serving,
                      NEW ev \in [pubkey : {Pubkey}, id : {EventId}, kind : {Kind}],
                      \A v \in due[r]["bannedPubkeys"]..Latest("bannedPubkeys") :
                        Pubkey \in table["bannedPubkeys"][v]
               PROVE  BanGatesReject(r, ev)
    BY DEF BanHoldsOnReturn
  <2> DEFINE v == snap[r]["bannedPubkeys"]
  <2>1. r \in AccessReplicas
    BY DEF AccessInv, AccessTypeOK
  <2>2. v \in due[r]["bannedPubkeys"]..Latest("bannedPubkeys")
    BY <2>1, ListsFacts, VersionsFacts DEF AccessInv, SnapshotsOK
  <2>3. ev.pubkey = Pubkey
    OBVIOUS
  <2> QED
    BY <2>2, <2>3 DEF BanGatesReject, IsPubkeyBanned, Content
<1> QED
  BY <1>1, AccessInvariant, PTL DEF AccessSpec

\* Whichever reload ends last, fails or is interrupted, the lists a serving
\* replica checks against never return to an older content.
THEOREM SnapshotsAdvance == AccessSpec => SnapshotNeverGoesBack
<1>1. AccessInv /\ [AccessNext]_AccessVars =>
        [\A r \in serving \cap serving', l \in Cached : snap'[r][l] >= snap[r][l]]_AccessVars
  <2> SUFFICES ASSUME AccessInv, AccessNext,
                      NEW q \in serving \cap serving', NEW l \in Cached
               PROVE  snap'[q][l] >= snap[q][l]
    OBVIOUS
  <2>1. q \in AccessReplicas /\ snap[q][l] \in Nat
    BY VersionsFacts DEF AccessInv, AccessTypeOK
  <2>2. CASE snap' = snap
    BY <2>1, <2>2
  <2>3. ASSUME NEW r \in AccessReplicas, StoreSnapshot(r)
        PROVE  snap'[q][l] >= snap[q][l]
    BY <2>1, <2>3, StoreSnapshotStep
  <2>4. ASSUME NEW r \in AccessReplicas, Restart(r)
        PROVE  snap'[q][l] >= snap[q][l]
    BY <2>1, <2>4 DEF Restart, AccessInv, AccessTypeOK
  <2>5. ASSUME NEW r \in AccessReplicas, NEW c \in AccessAdmins, Dispatch(r, c)
        PROVE  snap' = snap
    BY <2>5 DEF Dispatch, BanPubkey, UnbanPubkey, BanEvent, UnbanEvent, AllowKind, DisallowKind,
                ExemptPubkeyFromRateLimit, RemoveExemptPubkey, AllowPubkey, BlockIP, UnblockIP,
                InsertItem, RemoveItem, Write
  <2> QED
    BY <2>2, <2>3, <2>4, <2>5
    DEF AccessNext, Reload, Tick, TakeMutex, LoadList, LoadFails, WriteUnseen
<1> QED
  BY <1>1, AccessInvariant, PTL DEF AccessSpec, SnapshotNeverGoesBack

-----------------------------------------------------------------------------
(* The schema of a start                                                     *)

\* The order of the natural numbers, as a relation.
Less == {ss \in Nat \X Nat : ss[1] < ss[2]}
\* Every nonempty set of natural numbers has a least element.
LEMMA LeastNat ==
  ASSUME NEW T, T \subseteq Nat, T # {}
  PROVE  \E x \in T : \A y \in T : x <= y
<1>0. IsWellFoundedOn(Less, Nat)
  BY NatLessThanWellFounded DEF OpToRel, Less
<1>1. PICK x \in T : \A y \in T : ~ (<<y, x>> \in Less)
  BY <1>0, WFMin
<1>2. \A y \in T : ~ (y < x)
  BY <1>1 DEF Less
<1> QED
  BY <1>2

LEMMA MinIsLeast ==
  ASSUME NEW T, T \subseteq Nat, T # {}
  PROVE  Min(T) \in T /\ \A y \in T : Min(T) <= y
BY LeastNat DEF Min

\* Instances that have seen the schema complete; those whose index is built.
Migrated == {"check", "build", "backfill", "clear", "active"}
Indexed == {"backfill", "clear", "active"}

\* ActiveSearchIsComplete needs what an instance has established on its way:
\* the trigger is there, so no row is stored without its vector any more, the
\* index is valid, and the backfill has left no row behind it.
TriggerThere == \A i \in Instances : phase[i] \in Migrated => trigger
IndexValid == \A i \in Instances : phase[i] \in Indexed => index = "valid"
NoneBehind == \A i \in Instances :
  IF phase[i] \in Indexed
  THEN phase[i] = "backfill" => \A id \in SearchRows : id <= lastId[i] => vector[id] # "null"
  ELSE lastId[i] = -1
BackfillDone == \A i \in Instances :
  phase[i] \in {"clear", "active"} => i \in gaveUp \/ \A id \in SearchRows : vector[id] # "null"

SetupInv == SetupTypeOK /\ TriggerThere /\ IndexValid /\ NoneBehind /\ BackfillDone

LEMMA RowsAreInts ==
  ASSUME SetupTypeOK, NEW i \in Instances
  PROVE  lastId[i] \in Int /\ \A id \in SearchRows : id \in Nat
<1>1. lastId[i] \in SearchRows \union {-1}
  BY DEF SetupTypeOK
<1>2. lastId[i] \in Int
  <2>1. CASE lastId[i] = -1
    BY <2>1
  <2>2. ASSUME lastId[i] \in SearchRows PROVE lastId[i] \in Nat
    BY <2>2, SetupAssumption
  <2> QED
    BY <1>1, <2>1, <2>2
<1> QED
  BY <1>2, SetupAssumption

LEMMA NextBatchRow ==
  ASSUME SetupTypeOK, NEW i \in Instances, NullRows(lastId[i]) # {}
  PROVE  /\ Min(NullRows(lastId[i])) \in SearchRows
         /\ \A id \in SearchRows : id > lastId[i] /\ vector[id] = "null" => Min(NullRows(lastId[i])) <= id
<1>1. NullRows(lastId[i]) \subseteq Nat
  BY SetupAssumption DEF NullRows
<1> QED
  BY <1>1, MinIsLeast DEF NullRows

LEMMA SetupTypeStep == SetupTypeOK /\ [SetupNext]_SetupVars => SetupTypeOK'
<1> SUFFICES ASSUME SetupTypeOK, [SetupNext]_SetupVars PROVE SetupTypeOK'
  OBVIOUS
<1> USE SetupAssumption DEF SetupTypeOK, Starting, Ready, Goto, Fault, search
<1>1. ASSUME NEW i \in Instances, SetupStep(i) PROVE SetupTypeOK'
  <2>1. CASE ConnectDatabase(i) \/ TryDdlLock(i) \/ InitBackend(i) \/ OptimizeIndexes(i)
    BY <2>1 DEF ConnectDatabase, TryDdlLock, InitBackend, OptimizeIndexes
  <2>2. CASE EnsureTombstoneTable(i) \/ TrySearchLock(i)
    BY <2>2 DEF EnsureTombstoneTable, TrySearchLock
  <2>5. CASE InitTransaction(i)
    BY <2>5 DEF InitTransaction, TriggerAfter
  <2>3. CASE CheckIndex(i) \/ FinishIndex(i) \/ Activate(i)
    BY <2>3 DEF CheckIndex, FinishIndex, Activate
  <2>4. CASE BackfillBatch(i)
    BY <2>4, NextBatchRow DEF BackfillBatch
  <2> QED
    BY <1>1, <2>1, <2>2, <2>3, <2>4, <2>5 DEF SetupStep
<1>2. ASSUME NEW i \in Instances,
             DdlTimeout(i) \/ InitFails(i) \/ BackfillFails(i) \/ KillInstance(i)
      PROVE  SetupTypeOK'
  BY <1>2 DEF DdlTimeout, InitFails, BackfillFails, KillInstance
<1>3. ASSUME NEW id \in SearchRows, InsertRow(id) PROVE SetupTypeOK'
  BY <1>3 DEF InsertRow
<1>4. CASE OpenRead
  BY <1>4 DEF OpenRead
<1>5. CASE CloseRead
  BY <1>5 DEF CloseRead
<1>6. CASE UNCHANGED SetupVars
  BY <1>6 DEF SetupVars
<1> QED
  BY <1>1, <1>2, <1>3, <1>4, <1>5, <1>6 DEF SetupNext

LEMMA SetupStepInv ==
  SetupInv /\ [SetupNext]_SetupVars =>
    TriggerThere' /\ IndexValid' /\ NoneBehind' /\ BackfillDone'
<1> SUFFICES ASSUME SetupInv, [SetupNext]_SetupVars
             PROVE  TriggerThere' /\ IndexValid' /\ NoneBehind' /\ BackfillDone'
  OBVIOUS
<1> USE SetupAssumption DEF SetupInv, SetupTypeOK, TriggerThere, IndexValid, NoneBehind, BackfillDone,
      Migrated, Indexed, Starting, Ready, Goto, search
<1>1. ASSUME NEW i \in Instances,
             ConnectDatabase(i) \/ TryDdlLock(i) \/ InitBackend(i) \/ OptimizeIndexes(i)
               \/ EnsureTombstoneTable(i) \/ TrySearchLock(i)
      PROVE  TriggerThere' /\ IndexValid' /\ NoneBehind' /\ BackfillDone'
  BY <1>1 DEF ConnectDatabase, TryDdlLock, InitBackend, OptimizeIndexes, EnsureTombstoneTable,
     TrySearchLock
<1>2. ASSUME NEW i \in Instances, InitTransaction(i) \/ CheckIndex(i) \/ FinishIndex(i)
      PROVE  TriggerThere' /\ IndexValid' /\ NoneBehind' /\ BackfillDone'
  BY <1>2 DEF InitTransaction, TriggerAfter, CheckIndex, FinishIndex
<1>3. ASSUME NEW i \in Instances, BackfillBatch(i)
      PROVE  TriggerThere' /\ IndexValid' /\ NoneBehind' /\ BackfillDone'
  <2>1. CASE NullRows(lastId[i]) = {}
    <3>1. ASSUME NEW id \in SearchRows PROVE vector[id] # "null"
      <4>1. id \in Nat /\ lastId[i] \in Int
        BY RowsAreInts
      <4>2. CASE id <= lastId[i]
        BY <1>3, <4>2 DEF BackfillBatch
      <4>3. CASE id > lastId[i]
        BY <2>1, <4>3 DEF NullRows
      <4> QED
        BY <4>1, <4>2, <4>3
    <3> QED
      BY <1>3, <2>1, <3>1 DEF BackfillBatch
  <2>2. CASE NullRows(lastId[i]) # {}
    <3> DEFINE row == Min(NullRows(lastId[i]))
    <3>1. /\ row \in SearchRows
          /\ \A id \in SearchRows : id > lastId[i] /\ vector[id] = "null" => row <= id
      BY <2>2, NextBatchRow
    <3> HIDE DEF row
    <3>2. vector' = [vector EXCEPT ![row] = "set"] /\ lastId' = [lastId EXCEPT ![i] = row]
          /\ UNCHANGED <<phase, trigger, index, gaveUp>> /\ phase[i] = "backfill"
      BY <1>3, <2>2 DEF BackfillBatch, row
    <3>3. ASSUME NEW id \in SearchRows, id <= row PROVE vector'[id] # "null"
      <4>1. id \in Nat /\ row \in Nat /\ lastId[i] \in Int
        BY <3>1, RowsAreInts
      <4>2. CASE id <= lastId[i]
        BY <3>2, <4>2
      <4>3. CASE id > lastId[i]
        BY <3>1, <3>2, <3>3, <4>1, <4>3
      <4> QED
        BY <4>1, <4>2, <4>3
    <3>4. \A id \in SearchRows : vector[id] # "null" => vector'[id] # "null"
      BY <3>1, <3>2
    <3>5. NoneBehind'
      BY <3>2, <3>3, <3>4
    <3> QED
      BY <3>2, <3>4, <3>5
  <2> QED
    BY <2>1, <2>2
<1>4. ASSUME NEW i \in Instances, Activate(i) \/ DdlTimeout(i) \/ InitFails(i) \/ BackfillFails(i)
      PROVE  TriggerThere' /\ IndexValid' /\ NoneBehind' /\ BackfillDone'
  BY <1>4 DEF Activate, DdlTimeout, InitFails, BackfillFails
<1>5. ASSUME NEW i \in Instances, KillInstance(i)
      PROVE  TriggerThere' /\ IndexValid' /\ NoneBehind' /\ BackfillDone'
  BY <1>5 DEF KillInstance
<1>6. ASSUME NEW id \in SearchRows, InsertRow(id)
      PROVE  TriggerThere' /\ IndexValid' /\ NoneBehind' /\ BackfillDone'
  <2>2. ASSUME trigger PROVE \A j \in SearchRows : vector[j] # "null" => vector'[j] # "null"
    BY <1>6, <2>2 DEF InsertRow
  <2>3. UNCHANGED <<phase, trigger, index, lastId, gaveUp>>
    BY <1>6 DEF InsertRow
  <2> QED
    BY <2>2, <2>3
<1>7. CASE OpenRead \/ CloseRead \/ UNCHANGED SetupVars
  BY <1>7 DEF OpenRead, CloseRead, SetupVars
<1> QED
  BY <1>1, <1>2, <1>3, <1>4, <1>5, <1>6, <1>7 DEF SetupNext, SetupStep

LEMMA SetupInitInv == SetupInit => SetupInv
<1> SUFFICES ASSUME SetupInit PROVE SetupInv
  OBVIOUS
<1>1. SetupTypeOK
  <2>1. column \in BOOLEAN /\ trigger \in BOOLEAN
    BY Zenon DEF SetupInit
  <2>2. phase \in [Instances -> Starting \union Ready] /\ lastId \in [Instances -> SearchRows \union {-1}]
    BY DEF SetupInit, Starting
  <2>3. vector \in [SearchRows -> {"absent", "null", "set"}]
    BY DEF SetupInit
  <2>4. /\ ddlHolder = Nobody_ /\ searchHolder = Nobody_ /\ index = "none"
        /\ gaveUp = {} /\ reading = FALSE /\ setupFaults = 0
    BY Zenon DEF SetupInit
  <2>5. setupFaults \in 0..MaxSetupFaults /\ ddlHolder \in Instances \union {Nobody_}
        /\ searchHolder \in Instances \union {Nobody_} /\ gaveUp \subseteq Instances
        /\ index \in {"none", "invalid", "valid"}
    BY <2>4, SetupAssumption
  <2>6. reading \in BOOLEAN
    BY <2>4, Zenon
  <2> QED
    BY <2>1, <2>2, <2>3, <2>5, <2>6, Zenon DEF SetupTypeOK
<1>2. TriggerThere /\ IndexValid /\ NoneBehind /\ BackfillDone
  BY DEF SetupInit, TriggerThere, IndexValid, NoneBehind, BackfillDone, Migrated, Indexed
<1> QED
  BY <1>1, <1>2 DEF SetupInv

LEMMA SetupInvariant == SetupInit /\ [][SetupNext]_SetupVars => []SetupInv
<1>1. SetupInv /\ [SetupNext]_SetupVars => SetupInv'
  BY SetupTypeStep, SetupStepInv DEF SetupInv
<1> QED
  BY SetupInitInv, <1>1, PTL

\* The instances, the locks, the rows and the index stay well typed.
THEOREM SetupTypeCorrect == SetupSpec => []SetupTypeOK
<1>1. SetupInv => SetupTypeOK
  BY DEF SetupInv
<1> QED
  BY <1>1, SetupInvariant, PTL DEF SetupSpec

\* However the starts overlap, and whichever instance is killed between two
\* statements, an instance that serves search has a valid index and, unless it
\* gave the backfill up, no row without its vector (schema.go, search.go).
LEMMA ActiveAfterBackfill == SetupInv => ActiveSearchIsComplete
BY DEF SetupInv, IndexValid, BackfillDone, ActiveSearchIsComplete, Indexed
THEOREM SearchIsComplete == SetupSpec => []ActiveSearchIsComplete
BY ActiveAfterBackfill, SetupInvariant, PTL DEF SetupSpec

-----------------------------------------------------------------------------
(* Delivery between pods                                                     *)

LEMMA RangeType ==
  ASSUME NEW S, NEW s \in Seq(S)
  PROVE  Range(s) \subseteq S
BY DEF Range

LEMMA RangeAppend ==
  ASSUME NEW S, NEW s \in Seq(S), NEW e \in S
  PROVE  Range(Append(s, e)) = Range(s) \union {e}
<1> DEFINE t == Append(s, e)
<1>1. /\ Len(s) \in Nat /\ DOMAIN s = 1..Len(s) /\ DOMAIN t = 1..(Len(s) + 1)
      /\ t[Len(s) + 1] = e /\ \A i \in 1..Len(s) : t[i] = s[i]
  OBVIOUS
<1>2. ASSUME NEW x \in Range(t) PROVE x \in Range(s) \union {e}
  BY <1>1 DEF Range
<1>3. ASSUME NEW x \in Range(s) \union {e} PROVE x \in Range(t)
  <2>1. Len(s) + 1 \in DOMAIN t
    BY <1>1
  <2> QED
    BY <1>1, <2>1 DEF Range
<1> QED
  BY <1>2, <1>3

LEMMA RangeTail ==
  ASSUME NEW S, NEW s \in Seq(S), s # <<>>
  PROVE  /\ Tail(s) \in Seq(S) /\ Len(Tail(s)) = Len(s) - 1
         /\ Range(s) = {Head(s)} \union Range(Tail(s))
<1> DEFINE t == Tail(s)
<1>1. /\ Len(s) \in Nat \ {0} /\ DOMAIN s = 1..Len(s) /\ DOMAIN t = 1..(Len(s) - 1)
      /\ Head(s) = s[1] /\ \A i \in 1..(Len(s) - 1) : t[i] = s[i + 1]
      /\ t \in Seq(S) /\ Len(t) = Len(s) - 1
  OBVIOUS
<1>2. ASSUME NEW x \in Range(s) PROVE x \in {Head(s)} \union Range(t)
  <2>1. PICK i \in 1..Len(s) : x = s[i]
    BY <1>1 DEF Range
  <2>2. CASE i = 1
    BY <1>1, <2>1, <2>2
  <2>3. CASE i # 1
    <3>1. i - 1 \in 1..(Len(s) - 1) /\ t[i - 1] = s[i]
      BY <1>1, <2>3
    <3> QED
      BY <1>1, <2>1, <3>1 DEF Range
  <2> QED
    BY <2>2, <2>3
<1>3. ASSUME NEW x \in {Head(s)} \union Range(t) PROVE x \in Range(s)
  <2>1. 1 \in DOMAIN s /\ \A i \in 1..(Len(s) - 1) : i + 1 \in DOMAIN s
    BY <1>1
  <2> QED
    BY <1>1, <2>1 DEF Range
<1> QED
  BY <1>1, <1>2, <1>3

\* An accepted note is shown to its own pod's subscribers and is, for every other
\* pod, shown, lost for a known reason, in the buffer or on the channel.
NotesAreAccountedFor ==
  \A p \in Pods, q \in Pods, e \in Notes : <<p, e>> \in acceptedAt =>
    \/ e \in shown[q] \/ <<q, e>> \in lostFor
    \/ e \in Range(publishCh[p]) \/ [pod |-> p, event |-> e] \in Range(channel[q])
OwnNotesAreShown ==
  \A p \in Pods, e \in Notes : <<p, e>> \in acceptedAt => e \in shown[p]

PubSubTypes ==
  /\ publishCh \in [Pods -> Seq(Notes)] /\ channel \in [Pods -> Seq(Messages)]
  /\ \A p \in Pods : Len(publishCh[p]) <= PublishBufferSize
  /\ subscribed \subseteq Pods /\ shown \in [Pods -> SUBSET Notes]
  /\ acceptedAt \subseteq Pods \X Notes /\ lostFor \subseteq Pods \X Notes
  /\ pubsubFaults \in 0..MaxPubSubFaults
PubSubInv == PubSubTypes /\ OwnNotesAreShown /\ NotesAreAccountedFor

LEMMA PubSubTyped == PubSubTypes => PubSubTypeOK
BY RangeType DEF PubSubTypes, PubSubTypeOK

LEMMA EmptyRange == Range(<<>>) = {} /\ \A S : <<>> \in Seq(S)
BY DEF Range

\* Appending to one sequence of a function of sequences.
LEMMA AcceptNoteStep ==
  ASSUME PubSubInv, NEW p \in Pods, NEW e \in Notes, AcceptNote(p, e)
  PROVE  PubSubInv'
<1> USE PubSubAssumption DEF PubSubInv, PubSubTypes, OwnNotesAreShown, NotesAreAccountedFor
<1>0. /\ acceptedAt' = acceptedAt \union {<<p, e>>} /\ shown' = [shown EXCEPT ![p] = @ \union {e}]
      /\ UNCHANGED <<channel, subscribed, pubsubFaults>>
  BY DEF AcceptNote
<1>1. CASE BufferHasRoom(p)
  <2>1. publishCh' = [publishCh EXCEPT ![p] = Append(@, e)] /\ lostFor' = lostFor
    BY <1>1 DEF AcceptNote
  <2>2. Len(Append(publishCh[p], e)) <= PublishBufferSize /\ Append(publishCh[p], e) \in Seq(Notes)
    BY <1>1 DEF BufferHasRoom
  <2>3. Range(publishCh'[p]) = Range(publishCh[p]) \union {e}
    BY <2>1, RangeAppend
  <2>4. \A q \in Pods : q # p => publishCh'[q] = publishCh[q]
    BY <2>1
  <2>5. PubSubTypes'
    BY <1>0, <2>1, <2>2
  <2>6. OwnNotesAreShown' 
    BY <1>0
  <2>7. NotesAreAccountedFor'
    BY <1>0, <2>1, <2>3, <2>4
  <2> QED
    BY <2>5, <2>6, <2>7
<1>2. CASE ~BufferHasRoom(p)
  <2>1. lostFor' = lostFor \union (Others(p) \X {e}) /\ publishCh' = publishCh
    BY <1>2 DEF AcceptNote
  <2>2. PubSubTypes'
    BY <1>0, <2>1 DEF Others
  <2>3. NotesAreAccountedFor' /\ OwnNotesAreShown'
    BY <1>0, <2>1 DEF Others
  <2> QED
    BY <2>2, <2>3
<1> QED
  BY <1>1, <1>2

LEMMA DoPublishStep ==
  ASSUME PubSubInv, NEW p \in Pods, DoPublish(p)
  PROVE  PubSubInv'
<1> USE PubSubAssumption DEF PubSubInv, PubSubTypes, OwnNotesAreShown, NotesAreAccountedFor
<1> DEFINE e == Head(publishCh[p])
           m == [pod |-> p, event |-> e]
<1>0. /\ publishCh[p] # <<>> /\ publishCh' = [publishCh EXCEPT ![p] = Tail(@)]
      /\ UNCHANGED <<subscribed, shown, acceptedAt>>
  BY DEF DoPublish
<1>1. /\ Tail(publishCh[p]) \in Seq(Notes) /\ Len(Tail(publishCh[p])) <= PublishBufferSize
      /\ Range(publishCh[p]) = {e} \union Range(publishCh'[p])
      /\ e \in Notes /\ m \in Messages
      /\ \A q \in Pods : q # p => publishCh'[q] = publishCh[q]
  BY <1>0, RangeTail DEF Messages
<1> HIDE DEF e
<1>2. CASE /\ channel' = [q \in Pods |-> IF q \in subscribed THEN Append(channel[q], m) ELSE channel[q]]
           /\ lostFor' = lostFor \union ((Others(p) \ subscribed) \X {e})
           /\ UNCHANGED pubsubFaults
  <2>1. \A q \in subscribed : Range(channel'[q]) = Range(channel[q]) \union {m}
    BY <1>1, <1>2, RangeAppend
  <2>2. \A q \in Pods \ subscribed : channel'[q] = channel[q]
    BY <1>2
  <2>3. PubSubTypes'
    BY <1>0, <1>1, <1>2 DEF Others
  <2>4. ASSUME NEW r \in Pods, NEW q \in Pods, NEW x \in Notes, <<r, x>> \in acceptedAt
        PROVE  \/ x \in shown[q] \/ <<q, x>> \in lostFor'
               \/ x \in Range(publishCh'[r]) \/ [pod |-> r, event |-> x] \in Range(channel'[q])
    <3>1. \A z : z \in Range(channel[q]) => z \in Range(channel'[q])
      BY <2>1, <2>2
    <3>2. lostFor \subseteq lostFor'
      BY <1>2
    <3>3. CASE r = p /\ x = e
      <4>1. CASE q = p
        BY <2>4, <3>3, <4>1
      <4>2. CASE q # p /\ q \in subscribed
        BY <2>1, <3>3, <4>2
      <4>3. CASE q # p /\ q \notin subscribed
        BY <1>2, <3>3, <4>3 DEF Others
      <4> QED
        BY <4>1, <4>2, <4>3
    <3>4. CASE ~(r = p /\ x = e)
      <4>1. x \in Range(publishCh[r]) => x \in Range(publishCh'[r])
        BY <1>1, <3>4
      <4> QED
        BY <2>4, <3>1, <3>2, <4>1
    <3> QED
      BY <3>3, <3>4
  <2> QED
    BY <1>0, <2>3, <2>4
<1>3. CASE /\ pubsubFaults < MaxPubSubFaults /\ pubsubFaults' = pubsubFaults + 1
           /\ lostFor' = lostFor \union (Others(p) \X {e})
           /\ UNCHANGED channel
  <2>1. PubSubTypes'
    BY <1>0, <1>1, <1>3 DEF Others
  <2>2. NotesAreAccountedFor'
    BY <1>0, <1>1, <1>3 DEF Others
  <2> QED
    BY <1>0, <2>1, <2>2
<1> QED
  BY <1>2, <1>3 DEF DoPublish, e

LEMMA PubSubStep == PubSubInv /\ [PubSubNext]_PubSubVars => PubSubInv'
<1> SUFFICES ASSUME PubSubInv, [PubSubNext]_PubSubVars PROVE PubSubInv'
  OBVIOUS
<1> USE PubSubAssumption DEF PubSubInv, PubSubTypes, OwnNotesAreShown, NotesAreAccountedFor
<1>1. ASSUME NEW p \in Pods, NEW e \in Notes, AcceptNote(p, e) PROVE PubSubInv'
  BY <1>1, AcceptNoteStep
<1>2. ASSUME NEW p \in Pods, DoPublish(p) PROVE PubSubInv'
  BY <1>2, DoPublishStep
<1>3. ASSUME NEW p \in Pods, Subscribe(p) PROVE PubSubInv'
  BY <1>3 DEF Subscribe
<1>4. ASSUME NEW p \in Pods, Unsubscribed(p) PROVE PubSubInv'
  <2>0. /\ channel' = [channel EXCEPT ![p] = <<>>] /\ lostFor' = lostFor \union InFlight(p)
        /\ UNCHANGED <<publishCh, shown, acceptedAt>>
    BY <1>4 DEF Unsubscribed
  <2>1. Range(channel[p]) \subseteq Messages
    BY RangeType
  <2>2. InFlight(p) \subseteq Pods \X Notes
    BY <2>1 DEF InFlight, Messages
  <2>3. PubSubTypes'
    BY <1>4, <2>2, EmptyRange DEF Unsubscribed
  <2>4. \A r \in Pods, e \in Notes :
           [pod |-> r, event |-> e] \in Range(channel[p]) => <<p, e>> \in lostFor'
    BY <2>0 DEF InFlight
  <2>5. \A q \in Pods : q # p => channel'[q] = channel[q]
    BY <2>0
  <2>6. NotesAreAccountedFor'
    BY <2>0, <2>4, <2>5
  <2> QED
    BY <2>0, <2>3, <2>6
<1>5. ASSUME NEW p \in Pods, PodRestarts(p) PROVE PubSubInv'
  <2>0. /\ channel' = [channel EXCEPT ![p] = <<>>] /\ publishCh' = [publishCh EXCEPT ![p] = <<>>]
        /\ lostFor' = lostFor \union InFlight(p) \union (Others(p) \X Range(publishCh[p]))
        /\ UNCHANGED <<shown, acceptedAt>>
    BY <1>5 DEF PodRestarts
  <2>1. Range(channel[p]) \subseteq Messages /\ Range(publishCh[p]) \subseteq Notes
    BY RangeType
  <2>2. InFlight(p) \subseteq Pods \X Notes /\ (Others(p) \X Range(publishCh[p])) \subseteq Pods \X Notes
    BY <2>1 DEF InFlight, Messages, Others
  <2>3. PubSubTypes'
    <3>1. lostFor' \subseteq Pods \X Notes
      BY <2>0, <2>2
    <3> QED
      BY <1>5, <3>1, EmptyRange DEF PodRestarts
  <2>4. \A r \in Pods, e \in Notes :
           [pod |-> r, event |-> e] \in Range(channel[p]) => <<p, e>> \in lostFor'
    BY <2>0 DEF InFlight
  <2>5. \A q \in Pods : q # p => channel'[q] = channel[q] /\ publishCh'[q] = publishCh[q]
    BY <2>0
  <2>6. \A q \in Pods, e \in Notes : q # p /\ e \in Range(publishCh[p]) => <<q, e>> \in lostFor'
    BY <2>0 DEF Others
  <2>7. NotesAreAccountedFor'
    BY <2>0, <2>4, <2>5, <2>6
  <2> QED
    BY <2>0, <2>3, <2>7
<1>6. ASSUME NEW p \in Pods, HandleMessage(p) PROVE PubSubInv'
  <2> DEFINE m == Head(channel[p])
  <2>0. /\ channel[p] # <<>> /\ channel' = [channel EXCEPT ![p] = Tail(@)]
        /\ shown' = IF IsEcho(p, m) THEN shown ELSE [shown EXCEPT ![p] = @ \union {m.event}]
        /\ UNCHANGED <<publishCh, subscribed, acceptedAt, lostFor, pubsubFaults>>
    BY <1>6 DEF HandleMessage
  <2>1. /\ Tail(channel[p]) \in Seq(Messages) /\ m \in Messages
        /\ Range(channel[p]) = {m} \union Range(channel'[p])
        /\ \A q \in Pods : q # p => channel'[q] = channel[q]
    BY <2>0, RangeTail
  <2> HIDE DEF m
  <2>2. m.pod \in Pods /\ m.event \in Notes
    BY <2>1 DEF Messages
  <2>3. shown' \in [Pods -> SUBSET Notes] /\ \A q \in Pods : shown[q] \subseteq shown'[q]
    BY <2>0, <2>2
  <2>4. PubSubTypes'
    BY <2>0, <2>1, <2>3
  <2>5. ASSUME NEW r \in Pods, NEW e \in Notes, <<r, e>> \in acceptedAt, m = [pod |-> r, event |-> e]
        PROVE  e \in shown'[p]
    BY <2>0, <2>2, <2>5 DEF IsEcho
  <2>6. NotesAreAccountedFor'
    BY <2>0, <2>1, <2>3, <2>5
  <2> QED
    BY <2>0, <2>3, <2>4, <2>6
<1>7. CASE UNCHANGED PubSubVars
  BY <1>7 DEF PubSubVars
<1> QED
  BY <1>1, <1>2, <1>3, <1>4, <1>5, <1>6, <1>7 DEF PubSubNext

LEMMA PubSubInvariant == PubSubInit /\ [][PubSubNext]_PubSubVars => []PubSubInv
<1>1. PubSubInit => PubSubInv
  BY PubSubAssumption, EmptyRange
     DEF PubSubInit, PubSubInv, PubSubTypes, OwnNotesAreShown, NotesAreAccountedFor
<1> QED
  BY <1>1, PubSubStep, PTL

\* The buffers, the channels and the histories stay well typed, and publishCh
\* never holds more than its capacity (pubsub.go:117).
THEOREM PubSubTypeCorrect == PubSubSpec => []PubSubTypeOK
<1>1. PubSubInv => PubSubTypeOK
  BY PubSubTyped DEF PubSubInv
<1> QED
  BY <1>1, PubSubInvariant, PTL DEF PubSubSpec

\* What keeps NotesReachEveryPod, for any number of pods and notes: at no moment
\* has an accepted note disappeared without one of the known reasons, a full
\* buffer, a publish that failed, a pod without subscription or a pod that died.
THEOREM NotesAccounted == PubSubSpec => [](OwnNotesAreShown /\ NotesAreAccountedFor)
BY PubSubInvariant, PTL DEF PubSubSpec, PubSubInv

-----------------------------------------------------------------------------
(* The live subscription                                                     *)

\* While a subscription is on, a post the relay holds is stored, refused, on its
\* way or being stored.
HeldPostsAreInSight ==
  \A r \in LiveRelays, e \in Posts :
    e \in holds[r] /\ link[r] = "subscribed" =>
      e \in kept \/ e \in refused[r] \/ e \in sent[r] \/ e \in handling[r]
SubscriberInv == SubscriberTypeOK /\ HeldPostsAreInSight

LEMMA ShorterType ==
  ASSUME NEW m \in 1..MaxBackoff PROVE Shorter(2 * m, MaxBackoff) \in 1..MaxBackoff
BY SubscriberAssumption DEF Shorter

LEMMA SubscriberTypeStep ==
  ASSUME SubscriberTypeOK, [SubscriberNext]_SubscriberVars PROVE SubscriberTypeOK'
<1> USE SubscriberAssumption DEF SubscriberTypeOK
<1>1. ASSUME NEW r \in LiveRelays, Connect(r) PROVE SubscriberTypeOK'
  BY <1>1 DEF Connect
<1>2. ASSUME NEW r \in LiveRelays, ConnectFails(r) PROVE SubscriberTypeOK'
  BY <1>2, ShorterType, backoff[r] \in 1..MaxBackoff DEF ConnectFails, ScheduleReconnect
<1>3. ASSUME NEW r \in LiveRelays, SubscriptionEnds(r) PROVE SubscriberTypeOK'
  BY <1>3, ShorterType, backoff[r] \in 1..MaxBackoff DEF SubscriptionEnds, ScheduleReconnect
<1>4. ASSUME NEW r \in LiveRelays, Second(r) PROVE SubscriberTypeOK'
  BY <1>4 DEF Second
<1>5. ASSUME NEW r \in LiveRelays, Keep(r) PROVE SubscriberTypeOK'
  BY <1>5 DEF Keep
<1>6. ASSUME NEW r \in LiveRelays, KeepFails(r) PROVE SubscriberTypeOK'
  BY <1>6 DEF KeepFails
<1>7. ASSUME NEW r \in LiveRelays, NEW e \in Posts, Post(r, e) PROVE SubscriberTypeOK'
  BY <1>7 DEF Post
<1>8. ASSUME NEW r \in LiveRelays, NEW e \in Posts, Take(r, e) PROVE SubscriberTypeOK'
  BY <1>8 DEF Take
<1>9. ASSUME NEW e \in Posts, ForgetKnown(e) PROVE SubscriberTypeOK'
  BY <1>9 DEF ForgetKnown
<1>10. CASE UNCHANGED SubscriberVars
  BY <1>10 DEF SubscriberVars
<1> QED
  BY <1>1, <1>2, <1>3, <1>4, <1>5, <1>6, <1>7, <1>8, <1>9, <1>10 DEF SubscriberNext

LEMMA SubscriberStep ==
  ASSUME SubscriberInv, [SubscriberNext]_SubscriberVars PROVE SubscriberInv'
<1>0. SubscriberTypeOK'
  BY SubscriberTypeStep DEF SubscriberInv
<1> USE DEF SubscriberInv, SubscriberTypeOK, HeldPostsAreInSight
<1>1. ASSUME NEW r \in LiveRelays, Connect(r) PROVE HeldPostsAreInSight'
  BY <1>1 DEF Connect
<1>2. ASSUME NEW r \in LiveRelays, ConnectFails(r) PROVE HeldPostsAreInSight'
  BY <1>2 DEF ConnectFails, ScheduleReconnect
<1>3. ASSUME NEW r \in LiveRelays, SubscriptionEnds(r) PROVE HeldPostsAreInSight'
  BY <1>3 DEF SubscriptionEnds, ScheduleReconnect
<1>4. ASSUME NEW r \in LiveRelays, Second(r) PROVE HeldPostsAreInSight'
  BY <1>4 DEF Second
<1>5. ASSUME NEW r \in LiveRelays, Keep(r) PROVE HeldPostsAreInSight'
  BY <1>5 DEF Keep
<1>6. ASSUME NEW r \in LiveRelays, KeepFails(r) PROVE HeldPostsAreInSight'
  BY <1>6 DEF KeepFails
<1>7. ASSUME NEW r \in LiveRelays, NEW e \in Posts, Post(r, e) PROVE HeldPostsAreInSight'
  BY <1>7 DEF Post
<1>8. ASSUME NEW r \in LiveRelays, NEW e \in Posts, Take(r, e) PROVE HeldPostsAreInSight'
  BY <1>8 DEF Take
<1>9. ASSUME NEW e \in Posts, ForgetKnown(e) PROVE HeldPostsAreInSight'
  BY <1>9 DEF ForgetKnown
<1>10. CASE UNCHANGED SubscriberVars
  BY <1>10 DEF SubscriberVars
<1> HIDE DEF SubscriberTypeOK, HeldPostsAreInSight
<1> QED
  BY <1>0, <1>1, <1>2, <1>3, <1>4, <1>5, <1>6, <1>7, <1>8, <1>9, <1>10 DEF SubscriberNext

LEMMA SubscriberInvariant ==
  SubscriberInit /\ [][SubscriberNext]_SubscriberVars => []SubscriberInv
<1>1. SubscriberInit => SubscriberInv
  BY SubscriberAssumption DEF SubscriberInit, SubscriberInv, SubscriberTypeOK, HeldPostsAreInSight
<1> QED
  BY <1>1, SubscriberStep, PTL

\* The posts, the links and their delays stay well typed.
THEOREM SubscriberTypeCorrect == SubscriberSpec => []SubscriberTypeOK
<1>1. SubscriberInv => SubscriberTypeOK
  BY DEF SubscriberInv
<1> QED
  BY <1>1, SubscriberInvariant, PTL DEF SubscriberSpec

\* What keeps HeldPostsAreStored: the handlers of two subscriptions, which share
\* seenEvents, never make each other drop a post (subscriber.go:330).
THEOREM HeldPostsInSight == SubscriberSpec => []HeldPostsAreInSight
<1>1. SubscriberInv => HeldPostsAreInSight
  BY DEF SubscriberInv
<1> QED
  BY <1>1, SubscriberInvariant, PTL DEF SubscriberSpec

-----------------------------------------------------------------------------
(* The six in one run                                                        *)

ServicesInv ==
  /\ part \in Parts
  /\ AccessInv /\ LimitInv /\ LookupInv /\ SubscriberInv /\ PubSubInv /\ SetupInv

\* A step of the run is a step of each part, or leaves it as it is.
LEMMA PartsStep ==
  [ServicesNext]_ServicesVars =>
    /\ UNCHANGED part
    /\ [AccessNext]_AccessVars /\ [LimitNext]_LimitVars /\ [LookupNext]_LookupVars
    /\ [SubscriberNext]_SubscriberVars /\ [PubSubNext]_PubSubVars /\ [SetupNext]_SetupVars
BY DEF ServicesNext, ServicesVars

LEMMA ServicesInvariant == ServicesSpec => []ServicesInv
<1>1. ServicesInit =>
        /\ part \in Parts /\ AccessInit /\ LimitInit /\ LookupInit
        /\ SubscriberInit /\ PubSubInit /\ SetupInit
  BY DEF ServicesInit
<1>2. part \in Parts /\ UNCHANGED part => (part \in Parts)'
  OBVIOUS
<1> QED
  BY <1>1, <1>2, PartsStep, AccessInvariant, LimitInvariant, LookupInvariant, SubscriberInvariant,
     PubSubInvariant, SetupInvariant, PTL DEF ServicesSpec, ServicesInv

\* Whatever part runs, for all values of the constants, it keeps its types.
THEOREM ServicesTypeCorrect == ServicesSpec => []TypeOK
<1>1. ServicesInv => TypeOK
  BY PubSubTyped DEF ServicesInv, TypeOK, AccessInv, LimitInv, LookupInv, SubscriberInv, PubSubInv, SetupInv
<1> QED
  BY <1>1, ServicesInvariant, PTL
================================================================================
