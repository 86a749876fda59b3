-------------------------------- MODULE WotTrust --------------------------------
(***************************************************************************)
(* The trust level of one author who is no trust root and no paid member   *)
(* (internal/wot): the follow lists of a root and of a friend of the root, *)
(* the lookups that walk the lists, and the caches of their answers, one   *)
(* in Redis that replicas share and one in each replica.                   *)
(*                                                                         *)
(* Time advances in ticks and is kept as ages.  An edge of the follow      *)
(* graph carries how long ago it last was there and how long ago it last   *)
(* was not; an age stops counting at Old, which no cache keeps.            *)
(***************************************************************************)
EXTENDS Integers, FiniteSets

CONSTANTS Lookups,      \* lookups of the author's level under way
          At,           \* [Lookups -> replica]
          Ttl,          \* cacheTTL, in ticks
          MaxLookup,    \* bound: ticks a lookup takes
          MaxChanges,   \* bound: follow lists saved
          MaxFaults     \* bound: statements and cache calls that fail

ASSUME WotAssumption ==
  /\ Ttl \in Nat /\ MaxLookup \in Nat /\ MaxChanges \in Nat /\ MaxFaults \in Nat
  /\ At \in [Lookups -> {At[l] : l \in Lookups}]

Replicas == {At[l] : l \in Lookups}
Edges == {"rootAuthor", "rootFriend", "friendAuthor"}
Levels == {"follow", "followOfFollow", "unknown"}
Old == Ttl + MaxLookup + 1
Ages == 0..Old

VARIABLES
  follows,   \* wot_follows, the Edges in it
  there,     \* [Edges -> Ages]: age of the last presence of each edge
  gone,      \* [Edges -> Ages]: age of its last absence
  faultAge,  \* age of the last statement that failed
  saving,    \* kind 3 events committed whose invalidation is to come, as replicas
  lookup,    \* [Lookups -> what it is doing, and for how long]
  extCache,  \* Redis: level and age, or no entry
  memCache,  \* [Replicas -> level and age], never swept
  changes, faults

graphVars == <<follows, there, gone>>
WotVars == <<follows, there, gone, faultAge, saving,
             lookup, extCache, memCache, changes, faults>>

NoEntry == [level |-> "none", age |-> 0]
Entry(level) == [level |-> level, age |-> 0]
NoLookup == [at |-> "idle", found |-> "none", spent |-> 0]
Step(l, at, found) == [lookup EXCEPT ![l].at = at, ![l].found = found]

WotInit ==
  /\ follows \in SUBSET Edges  \* the lists saved before
  /\ there = [e \in Edges |-> IF e \in follows THEN 0 ELSE Old]
  /\ gone = [e \in Edges |-> IF e \in follows THEN Old ELSE 0]
  /\ faultAge = Old
  /\ saving = {}
  /\ lookup = [l \in Lookups |-> NoLookup]
  /\ extCache = NoEntry
  /\ memCache = [r \in Replicas |-> NoEntry]
  /\ changes = 0 /\ faults = 0

--------------------------------------------------------------------------------
(* Time *)

Older(a) == IF a = Old THEN Old ELSE a + 1
Aged(entry) == IF entry.level = "none" THEN entry
               ELSE [entry EXCEPT !.age = Older(@)]

\* Redis drops what is older than the TTL; the maps keep it, unserved.
Tick ==
  /\ \A l \in Lookups : lookup[l].at # "idle" => lookup[l].spent < MaxLookup
  /\ there' = [e \in Edges |-> IF e \in follows THEN 0 ELSE Older(there[e])]
  /\ gone' = [e \in Edges |-> IF e \in follows THEN Older(gone[e]) ELSE 0]
  /\ faultAge' = Older(faultAge)
  /\ lookup' = [l \in Lookups |-> IF lookup[l].at = "idle" THEN NoLookup
                                  ELSE [lookup[l] EXCEPT !.spent = @ + 1]]
  /\ extCache' = IF Aged(extCache).age > Ttl THEN NoEntry ELSE Aged(extCache)
  /\ memCache' = [r \in Replicas |-> Aged(memCache[r])]
  /\ UNCHANGED <<follows, saving, changes, faults>>

--------------------------------------------------------------------------------
(* OnEventSaved, UpdateFollows *)

\* The transaction of a follow list that names somebody (one that names nobody
\* is ignored): kept are the edges it has of the ones it replaces.  No list is
\* compared with the date of the one before it.
UpdateFollows(r, list, kept) ==
  /\ changes < MaxChanges /\ kept \subseteq list
  /\ changes' = changes + 1
  /\ follows' = (follows \ list) \union kept
  /\ there' = [e \in Edges |-> IF e \in kept THEN 0 ELSE there[e]]
  /\ gone' = [e \in Edges |-> IF e \in list \ kept THEN 0 ELSE gone[e]]
  /\ saving' = IF kept \cap {"rootAuthor", "friendAuthor"} # {} THEN saving \union {r} ELSE saving
  /\ UNCHANGED <<faultAge, lookup, extCache, memCache, faults>>

\* invalidateCache(followee); a Redis error is ignored.
InvalidateCache(r) ==
  /\ r \in saving
  /\ saving' = saving \ {r}
  /\ memCache' = [memCache EXCEPT ![r] = NoEntry]
  /\ \/ extCache' = NoEntry /\ UNCHANGED faults
     \/ faults < MaxFaults /\ faults' = faults + 1 /\ UNCHANGED extCache
  /\ UNCHANGED <<graphVars, faultAge, lookup, changes>>

--------------------------------------------------------------------------------
(* GetTrustLevel *)

\* Slip: the map is served whatever its age.
MutCached(r) == IF extCache # NoEntry THEN extCache ELSE memCache[r]
Cached(r) == IF extCache # NoEntry THEN extCache
             ELSE IF memCache[r].age <= Ttl THEN memCache[r] ELSE NoEntry

\* GetTrustLevel: no cached answer; the walk begins.
GetTrustLevel(l) ==
  /\ lookup[l].at = "idle"
  /\ Cached(At[l]) = NoEntry
  /\ lookup' = [lookup EXCEPT ![l] = [at |-> "direct", found |-> "none", spent |-> 0]]
  /\ UNCHANGED <<graphVars, faultAge, saving, extCache, memCache, changes, faults>>

\* calculateTrustLevel: each statement of its own; one that fails counts as
\* "not following" and the walk goes on.
Walk(l) ==
  LET Next(e, yes, no) == Step(l, IF e \in follows THEN yes[1] ELSE no[1],
                                  IF e \in follows THEN yes[2] ELSE no[2])
      store == [level \in Levels |-> <<"store", level>>]
  IN \/ lookup[l].at = "direct"
        /\ lookup' = Next("rootAuthor", store["follow"], <<"friends", "none">>)
     \/ lookup[l].at = "friends"
        /\ lookup' = Next("rootFriend", <<"second", "none">>, store["unknown"])
     \/ lookup[l].at = "second"
        /\ lookup' = Next("friendAuthor", store["followOfFollow"], store["unknown"])

CalculateTrustLevel(l) ==
  /\ Walk(l)
  /\ UNCHANGED <<graphVars, faultAge, saving, extCache, memCache, changes, faults>>

CalculateFails(l) ==
  /\ lookup[l].at \in {"direct", "friends", "second"} /\ faults < MaxFaults
  /\ faults' = faults + 1 /\ faultAge' = 0
  /\ lookup' = IF lookup[l].at = "direct" THEN Step(l, "friends", "none")
               ELSE Step(l, "store", "unknown")
  /\ UNCHANGED <<graphVars, saving, extCache, memCache, changes>>

\* SetCachedTrust: Redis (its errors are ignored), then the map.
SetExternal(l) ==
  /\ lookup[l].at = "store"
  /\ lookup' = Step(l, "mem", lookup[l].found)
  /\ \/ extCache' = Entry(lookup[l].found) /\ UNCHANGED faults
     \/ faults < MaxFaults /\ faults' = faults + 1 /\ UNCHANGED extCache
  /\ UNCHANGED <<graphVars, faultAge, saving, memCache, changes>>

SetMemory(l) ==
  /\ lookup[l].at = "mem"
  /\ memCache' = [memCache EXCEPT ![At[l]] = Entry(lookup[l].found)]
  /\ lookup' = [lookup EXCEPT ![l] = NoLookup]
  /\ UNCHANGED <<graphVars, faultAge, saving, extCache, changes, faults>>

WotNext ==
  \/ Tick
  \/ \E r \in Replicas :
       \/ \E kept \in SUBSET {"rootAuthor", "rootFriend"} :
            UpdateFollows(r, {"rootAuthor", "rootFriend"}, kept)
       \/ \E kept \in SUBSET {"friendAuthor"} : UpdateFollows(r, {"friendAuthor"}, kept)
       \/ InvalidateCache(r)
  \/ \E l \in Lookups :
       \/ GetTrustLevel(l) \/ CalculateTrustLevel(l) \/ CalculateFails(l)
       \/ SetExternal(l) \/ SetMemory(l)

WotSpec == WotInit /\ [][WotNext]_WotVars

--------------------------------------------------------------------------------
CacheEntry == [level : Levels \union {"none"}, age : Ages]

WotTypeOK ==
  /\ follows \subseteq Edges
  /\ there \in [Edges -> Ages] /\ gone \in [Edges -> Ages]
  /\ faultAge \in Ages
  /\ saving \subseteq Replicas
  /\ lookup \in [Lookups ->
       [at : {"idle", "direct", "friends", "second", "store", "mem"},
        found : Levels \union {"none"}, spent : 0..MaxLookup]]
  /\ extCache \in CacheEntry /\ memCache \in [Replicas -> CacheEntry]
  /\ changes \in 0..MaxChanges /\ faults \in 0..MaxFaults

\* What is served now, with the statements it was computed from.
Recent(age) == age < Old
Justified(level) ==
  CASE level = "follow" -> Recent(there["rootAuthor"])
    [] level = "followOfFollow" ->
         /\ Recent(there["rootFriend"]) /\ Recent(there["friendAuthor"])
         /\ Recent(gone["rootAuthor"]) \/ Recent(faultAge)
    [] level = "unknown" ->
         \/ Recent(faultAge)
         \/ Recent(gone["rootAuthor"]) /\ (Recent(gone["rootFriend"]) \/ Recent(gone["friendAuthor"]))
    [] OTHER -> TRUE

\* No level outlives what it was computed from by more than the TTL and the
\* lookup itself: an author who is unfollowed is not trusted for longer, and
\* one who is followed is not refused for longer unless a statement failed,
\* whatever overlapping lookups, the two caches and failed invalidations do
\* (store.go:150, 181).
TrustIsRecent == \A r \in Replicas : Justified(Cached(r).level)
================================================================================
