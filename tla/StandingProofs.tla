---------------------------- MODULE StandingProofs -----------------------------
(***************************************************************************)
(* Who has which standing, for any number of authors, replicas, groups,    *)
(* invites and transfers: the levels that the walk of the follow lists and *)
(* PageRank give are recent, and the database, the published views and the *)
(* chain of transfers agree on members, invites and owners.                *)
(***************************************************************************)
EXTENDS WotTrust, PageRank, GroupStore, GroupOwnership,
        FiniteSetTheorems, NaturalsInduction, WellFoundedInduction, TLAPS

-----------------------------------------------------------------------------
(* The walk of the follow lists                                              *)

\* The follow graph warranted the level within the last m ticks: each edge it
\* rests on was there (t), or not there (g), and a statement failed (f), since then.
WithinAges(level, m, t, g, f) ==
  /\ level = "follow" => t["rootAuthor"] <= m
  /\ level = "followOfFollow" =>
       /\ t["rootFriend"] <= m /\ t["friendAuthor"] <= m
       /\ g["rootAuthor"] <= m \/ f <= m
  /\ level = "unknown" =>
       \/ f <= m
       \/ g["rootAuthor"] <= m /\ (g["rootFriend"] <= m \/ g["friendAuthor"] <= m)
Within(level, m) == WithinAges(level, m, there, gone, faultAge)

\* An edge is there now, or it is gone now.
EdgesAreNow ==
  \A e \in Edges : (e \in follows => there[e] = 0) /\ (e \notin follows => gone[e] = 0)

\* What a lookup has found so far, it found since it began.
FoundWithin(l) ==
  LET s == lookup[l].spent IN
  /\ lookup[l].at \in {"friends", "second"} => gone["rootAuthor"] <= s \/ faultAge <= s
  /\ lookup[l].at = "second" => there["rootFriend"] <= s
  /\ lookup[l].at \in {"store", "mem"} => lookup[l].found \in Levels /\ Within(lookup[l].found, s)
LookupsAreWithin == \A l \in Lookups : FoundWithin(l)

\* An entry that is served is no older than its age and one lookup.
EntryWithin(c, t, g, f) ==
  c.level # "none" /\ c.age <= Ttl => WithinAges(c.level, c.age + MaxLookup, t, g, f)
EntriesAreWithin ==
  /\ EntryWithin(extCache, there, gone, faultAge)
  /\ \A r \in Replicas : EntryWithin(memCache[r], there, gone, faultAge)

ExtIsLive == extCache.age <= Ttl

WotInv == WotTypeOK /\ EdgesAreNow /\ LookupsAreWithin /\ EntriesAreWithin /\ ExtIsLive

LEMMA AgesAreNat ==
  /\ Old \in Nat /\ Ages \subseteq Nat /\ Ttl \in Nat /\ MaxLookup \in Nat
  /\ 0 \in Ages /\ Old \in Ages /\ \A a \in Ages : Older(a) \in Ages /\ Older(a) <= a + 1
BY WotAssumption DEF Old, Ages, Older

LEMMA AtType == \A l \in Lookups : At[l] \in Replicas
BY DEF Replicas

\* What no age has outgrown still holds within the longer time.
LEMMA WithinGrows ==
  ASSUME WotTypeOK, NEW level, NEW m \in Nat, NEW n \in Nat, Within(level, m),
         \A e \in Edges : there'[e] <= there[e] + (n - m) /\ gone'[e] <= gone[e] + (n - m),
         faultAge' <= faultAge + (n - m), WotTypeOK'
  PROVE  Within(level, n)'
<1>1. \A e \in Edges : there[e] \in Nat /\ gone[e] \in Nat /\ there'[e] \in Nat /\ gone'[e] \in Nat
  BY AgesAreNat DEF WotTypeOK
<1>2. faultAge \in Nat /\ faultAge' \in Nat
  BY AgesAreNat DEF WotTypeOK
<1>3. "rootAuthor" \in Edges /\ "rootFriend" \in Edges /\ "friendAuthor" \in Edges
  BY DEF Edges
<1> QED
  BY <1>1, <1>2, <1>3 DEF Within, WithinAges

LEMMA WithinLonger ==
  ASSUME WotTypeOK, NEW level, NEW m \in Nat, NEW n \in Nat, m <= n, Within(level, m)
  PROVE  Within(level, n)
<1>1. \A e \in Edges : there[e] \in Nat /\ gone[e] \in Nat
  BY AgesAreNat DEF WotTypeOK
<1>2. faultAge \in Nat
  BY AgesAreNat DEF WotTypeOK
<1>3. "rootAuthor" \in Edges /\ "rootFriend" \in Edges /\ "friendAuthor" \in Edges
  BY DEF Edges
<1> QED
  BY <1>1, <1>2, <1>3 DEF Within, WithinAges


Stages == {"idle", "direct", "friends", "second", "store", "mem"}
LookupStates == [at : Stages, found : Levels \union {"none"}, spent : 0..MaxLookup]

LEMMA StepType ==
  ASSUME lookup \in [Lookups -> LookupStates], NEW l \in Lookups,
         NEW at \in Stages, NEW found \in Levels \union {"none"}
  PROVE  /\ Step(l, at, found) \in [Lookups -> LookupStates]
         /\ Step(l, at, found)[l] = [at |-> at, found |-> found, spent |-> lookup[l].spent]
         /\ \A k \in Lookups : k # l => Step(l, at, found)[k] = lookup[k]
<1>1. lookup[l] \in LookupStates
  OBVIOUS
<1> QED
  BY <1>1 DEF Step, LookupStates

LEMMA WotTypeStep == ASSUME WotTypeOK, [WotNext]_WotVars PROVE WotTypeOK'
<1> USE WotAssumption, AgesAreNat DEF WotTypeOK, CacheEntry, NoEntry, Entry, NoLookup, graphVars
<1>1. CASE Tick
  <2>1. \A c \in CacheEntry : Aged(c) \in CacheEntry
    BY DEF Aged
  <2>2. there' \in [Edges -> Ages] /\ gone' \in [Edges -> Ages] /\ faultAge' \in Ages
    BY <1>1 DEF Tick
  <2>3. extCache' \in CacheEntry
    BY <1>1, <2>1 DEF Tick
  <2>4. memCache' \in [Replicas -> CacheEntry]
    BY <1>1, <2>1 DEF Tick
  <2>5. ASSUME NEW l \in Lookups PROVE lookup'[l] \in LookupStates
    <3>0. lookup[l] \in LookupStates
      BY DEF LookupStates, Stages
    <3>1. lookup[l].spent \in 0..MaxLookup /\ (lookup[l].at # "idle" => lookup[l].spent < MaxLookup)
      BY <1>1, <3>0 DEF Tick, LookupStates
    <3>2. lookup'[l] = IF lookup[l].at = "idle" THEN NoLookup
                       ELSE [lookup[l] EXCEPT !.spent = @ + 1]
      BY <1>1 DEF Tick
    <3>3. lookup[l].spent + 1 \in 0..MaxLookup \/ lookup[l].at = "idle"
      BY <3>1
    <3>4. NoLookup \in LookupStates
      BY DEF LookupStates, Stages
    <3> QED
      BY <3>0, <3>2, <3>3, <3>4 DEF LookupStates
  <2>6. lookup' = [l \in Lookups |-> lookup'[l]]
    BY <1>1 DEF Tick
  <2> QED
    BY <1>1, <2>2, <2>3, <2>4, <2>5, <2>6 DEF Tick, LookupStates, Stages
<1>2. ASSUME NEW r \in Replicas, NEW list, NEW kept, UpdateFollows(r, list, kept), list \subseteq Edges
      PROVE  WotTypeOK'
  BY <1>2 DEF UpdateFollows
<1>3. ASSUME NEW r \in Replicas, InvalidateCache(r) PROVE WotTypeOK'
  BY <1>3 DEF InvalidateCache
<1>4. ASSUME NEW l \in Lookups, GetTrustLevel(l) PROVE WotTypeOK'
  BY <1>4 DEF GetTrustLevel
<1>0. lookup \in [Lookups -> LookupStates]
  BY DEF LookupStates, Stages
<1>5. ASSUME NEW l \in Lookups, CalculateTrustLevel(l) PROVE WotTypeOK'
  <2>1. PICK at \in Stages, found \in Levels \union {"none"} : lookup' = Step(l, at, found)
    BY <1>5 DEF CalculateTrustLevel, Walk, Levels, Stages
  <2>2. lookup' \in [Lookups -> LookupStates]
    BY <1>0, <2>1, StepType
  <2> QED
    BY <1>5, <2>2 DEF CalculateTrustLevel, LookupStates, Stages
<1>6. ASSUME NEW l \in Lookups, CalculateFails(l) PROVE WotTypeOK'
  <2>1. PICK at \in Stages, found \in Levels \union {"none"} : lookup' = Step(l, at, found)
    BY <1>6 DEF CalculateFails, Levels, Stages
  <2>2. lookup' \in [Lookups -> LookupStates]
    BY <1>0, <2>1, StepType
  <2> QED
    BY <1>6, <2>2 DEF CalculateFails, LookupStates, Stages
<1>7. ASSUME NEW l \in Lookups, SetExternal(l) PROVE WotTypeOK'
  <2>1. lookup[l].found \in Levels \union {"none"}
    OBVIOUS
  <2>2. lookup' \in [Lookups -> LookupStates]
    BY <1>0, <1>7, <2>1, StepType DEF SetExternal, Stages
  <2> QED
    BY <1>7, <2>1, <2>2 DEF SetExternal, LookupStates, Stages
<1>8. ASSUME NEW l \in Lookups, SetMemory(l) PROVE WotTypeOK'
  BY <1>8, AtType DEF SetMemory
<1>9. CASE UNCHANGED WotVars
  BY <1>9 DEF WotVars
<1> QED
  BY <1>1, <1>2, <1>3, <1>4, <1>5, <1>6, <1>7, <1>8, <1>9 DEF WotNext, Edges

LEMMA WotStep == ASSUME WotInv, [WotNext]_WotVars PROVE WotInv'
<1>0. WotTypeOK /\ WotTypeOK'
  BY WotTypeStep DEF WotInv
<1> USE WotAssumption, AgesAreNat
<1>1. CASE Tick
  <2>0. /\ \A e \in Edges : there[e] \in Nat /\ gone[e] \in Nat /\ there[e] \in Ages /\ gone[e] \in Ages
        /\ faultAge \in Ages
    BY <1>0 DEF WotTypeOK
  <2>1. /\ \A e \in Edges : there'[e] <= there[e] + 1 /\ gone'[e] <= gone[e] + 1
        /\ faultAge' <= faultAge + 1
    BY <1>1, <2>0 DEF Tick
  <2>2. EdgesAreNow'
    BY <1>1 DEF Tick, EdgesAreNow
  <2>3. ASSUME NEW level, NEW m \in Nat, Within(level, m) PROVE Within(level, m + 1)'
    BY <1>0, <2>1, <2>3, WithinGrows
  <2>4. ASSUME NEW l \in Lookups PROVE FoundWithin(l)'
    <3>1. lookup[l].spent \in Nat /\ FoundWithin(l)
      BY <1>0 DEF WotTypeOK, WotInv, LookupsAreWithin
    <3>2. CASE lookup[l].at = "idle"
      BY <1>1, <3>2 DEF Tick, FoundWithin, NoLookup
    <3>3. CASE lookup[l].at # "idle"
      <4>1. /\ lookup'[l].at = lookup[l].at /\ lookup'[l].found = lookup[l].found
            /\ lookup'[l].spent = lookup[l].spent + 1
        BY <1>0, <1>1, <3>3 DEF Tick, WotTypeOK
      <4>2. /\ gone'["rootAuthor"] <= gone["rootAuthor"] + 1 /\ there'["rootFriend"] <= there["rootFriend"] + 1
            /\ gone["rootAuthor"] \in Nat /\ there["rootFriend"] \in Nat
            /\ gone'["rootAuthor"] \in Nat /\ there'["rootFriend"] \in Nat
            /\ faultAge \in Nat /\ faultAge' \in Nat
        BY <1>0, <2>0, <2>1 DEF Edges, WotTypeOK
      <4> QED
        BY <2>1, <2>3, <3>1, <4>1, <4>2 DEF FoundWithin
    <3> QED
      BY <3>2, <3>3
  <2>5. ASSUME NEW c \in CacheEntry, EntryWithin(c, there, gone, faultAge)
        PROVE  EntryWithin(Aged(c), there', gone', faultAge')
    <3>1. c.age \in Ages /\ c.age \in Nat
      BY DEF CacheEntry
    <3>2. CASE c.level = "none"
      BY <3>2 DEF Aged, EntryWithin
    <3>3. CASE c.level # "none" /\ c.age = Old
      BY <3>1, <3>3 DEF Aged, EntryWithin, Older, Old, CacheEntry
    <3>4. CASE c.level # "none" /\ c.age # Old
      <4>1. Aged(c).level = c.level /\ Aged(c).age = c.age + 1
        BY <3>4 DEF Aged, Older, CacheEntry
      <4>2. c.age <= Ttl => WithinAges(c.level, c.age + MaxLookup + 1, there', gone', faultAge')
        BY <2>3, <2>5, <3>1, <3>4 DEF EntryWithin, Within
      <4>3. c.age + MaxLookup + 1 = c.age + 1 + MaxLookup
        BY <3>1
      <4> QED
        BY <3>1, <4>1, <4>2, <4>3 DEF EntryWithin
    <3> QED
      BY <3>2, <3>3, <3>4
  <2>6. EntryWithin(NoEntry, there', gone', faultAge') /\ NoEntry.age = 0
    BY DEF EntryWithin, NoEntry
  <2>7. EntryWithin(extCache', there', gone', faultAge') /\ extCache'.age <= Ttl
    <3>1. extCache' = IF Aged(extCache).age > Ttl THEN NoEntry ELSE Aged(extCache)
      BY <1>1 DEF Tick
    <3>2. EntryWithin(Aged(extCache), there', gone', faultAge')
      BY <1>0, <2>5 DEF WotTypeOK, WotInv, EntriesAreWithin
    <3>3. Aged(extCache).age \in Nat
      BY <1>0 DEF WotTypeOK, Aged, CacheEntry
    <3> QED
      BY <2>6, <3>1, <3>2, <3>3
  <2>8. \A r \in Replicas : EntryWithin(memCache'[r], there', gone', faultAge')
    <3> TAKE r \in Replicas
    <3>1. memCache'[r] = Aged(memCache[r]) /\ memCache[r] \in CacheEntry
      BY <1>0, <1>1 DEF Tick, WotTypeOK
    <3>2. EntryWithin(Aged(memCache[r]), there', gone', faultAge')
      BY <2>5, <3>1 DEF WotInv, EntriesAreWithin
    <3> QED
      BY <3>1, <3>2
  <2> QED
    BY <1>0, <2>2, <2>4, <2>7, <2>8 DEF WotInv, LookupsAreWithin, EntriesAreWithin, ExtIsLive
<1>2. ASSUME NEW r \in Replicas, NEW list \in SUBSET Edges, NEW kept, UpdateFollows(r, list, kept)
      PROVE  WotInv'
  <2>0. \A e \in Edges : there[e] \in Nat /\ gone[e] \in Nat /\ there'[e] \in Nat /\ gone'[e] \in Nat
    BY <1>0 DEF WotTypeOK
  <2>1. /\ \A e \in Edges : there'[e] <= there[e] /\ gone'[e] <= gone[e]
        /\ faultAge' = faultAge /\ faultAge \in Nat
    BY <1>0, <1>2, <2>0 DEF UpdateFollows, WotTypeOK
  <2>2. EdgesAreNow'
    BY <1>0, <1>2 DEF UpdateFollows, EdgesAreNow, WotInv, WotTypeOK
  <2>3. ASSUME NEW level, NEW m \in Nat, Within(level, m)
        PROVE  WithinAges(level, m, there', gone', faultAge')
    <3>1. \A e \in Edges : there'[e] <= there[e] + (m - m) /\ gone'[e] <= gone[e] + (m - m)
      BY <2>0, <2>1
    <3> QED
      BY <1>0, <2>1, <2>3, <3>1, WithinGrows DEF Within
  <2>4. ASSUME NEW l \in Lookups PROVE FoundWithin(l)'
    <3>1. lookup[l].spent \in Nat /\ FoundWithin(l) /\ lookup' = lookup
      BY <1>0, <1>2 DEF WotTypeOK, WotInv, LookupsAreWithin, UpdateFollows
    <3>2. /\ gone'["rootAuthor"] <= gone["rootAuthor"] /\ there'["rootFriend"] <= there["rootFriend"]
          /\ gone["rootAuthor"] \in Nat /\ there["rootFriend"] \in Nat
          /\ gone'["rootAuthor"] \in Nat /\ there'["rootFriend"] \in Nat
      BY <2>0, <2>1 DEF Edges
    <3> QED
      BY <2>1, <2>3, <3>1, <3>2 DEF FoundWithin, Within
  <2>5. ASSUME NEW c \in CacheEntry, EntryWithin(c, there, gone, faultAge)
        PROVE  EntryWithin(c, there', gone', faultAge')
    BY <2>3, <2>5 DEF EntryWithin, CacheEntry, Within
  <2>6. EntriesAreWithin' /\ ExtIsLive'
    BY <1>0, <1>2, <2>5 DEF UpdateFollows, WotInv, EntriesAreWithin, ExtIsLive, WotTypeOK
  <2> QED
    BY <1>0, <2>2, <2>4, <2>6 DEF WotInv, LookupsAreWithin
<1>3. ASSUME UNCHANGED <<graphVars, faultAge>> PROVE UNCHANGED <<there, gone, faultAge>> /\ EdgesAreNow'
  BY <1>3 DEF graphVars, WotInv, EdgesAreNow
<1>4. ASSUME NEW r \in Replicas, InvalidateCache(r) PROVE WotInv'
  <2>1. UNCHANGED <<graphVars, faultAge, lookup>>
    BY <1>4 DEF InvalidateCache
  <2>2. UNCHANGED <<there, gone, faultAge>> /\ EdgesAreNow'
    BY <1>3, <2>1
  <2>3. LookupsAreWithin'
    BY <2>1, <2>2 DEF WotInv, LookupsAreWithin, FoundWithin, Within
  <2>4. /\ EntryWithin(NoEntry, there', gone', faultAge') /\ NoEntry.age = 0
    BY DEF EntryWithin, NoEntry
  <2>5. extCache' \in {extCache, NoEntry} /\ \A q \in Replicas : memCache'[q] \in {memCache[q], NoEntry}
    BY <1>0, <1>4 DEF InvalidateCache, WotTypeOK
  <2>6. EntriesAreWithin' /\ ExtIsLive'
    BY <2>2, <2>4, <2>5 DEF WotInv, EntriesAreWithin, ExtIsLive
  <2> QED
    BY <1>0, <2>2, <2>3, <2>6 DEF WotInv
<1>5. ASSUME NEW l \in Lookups,
             GetTrustLevel(l) \/ CalculateTrustLevel(l) \/ CalculateFails(l)
      PROVE  WotInv'
  <2>1. UNCHANGED <<there, gone, follows, extCache, memCache>> /\ faultAge' \in {0, faultAge}
        /\ \A k \in Lookups : k # l => lookup'[k] = lookup[k]
    BY <1>0, <1>5 DEF GetTrustLevel, CalculateTrustLevel, Walk, Step, CalculateFails, graphVars, WotTypeOK
  <2>2. EdgesAreNow'
    BY <2>1 DEF WotInv, EdgesAreNow
  <2>3. ASSUME NEW level, NEW m \in Nat, Within(level, m)
        PROVE  WithinAges(level, m, there', gone', faultAge')
    BY <2>1, <2>3 DEF Within, WithinAges
  <2>4. EntriesAreWithin' /\ ExtIsLive'
    <3>1. ASSUME NEW c \in CacheEntry, EntryWithin(c, there, gone, faultAge)
          PROVE  EntryWithin(c, there', gone', faultAge')
      BY <2>3, <3>1 DEF EntryWithin, CacheEntry, Within
    <3> QED
      BY <1>0, <2>1, <3>1 DEF WotInv, EntriesAreWithin, ExtIsLive, WotTypeOK
  <2>5. ASSUME NEW k \in Lookups, k # l PROVE FoundWithin(k)'
    <3>1. FoundWithin(k) /\ lookup[k].spent \in Nat /\ lookup'[k] = lookup[k]
      BY <1>0, <2>1, <2>5 DEF WotInv, LookupsAreWithin, WotTypeOK
    <3> QED
      BY <2>1, <2>3, <3>1 DEF FoundWithin, Within
  <2>6. FoundWithin(l)'
    <3>0. /\ FoundWithin(l) /\ lookup[l] \in LookupStates /\ lookup[l].spent \in Nat
          /\ \A e \in Edges : there[e] \in Nat /\ gone[e] \in Nat
      BY <1>0 DEF WotInv, LookupsAreWithin, WotTypeOK, LookupStates, Stages
    <3>1. CASE GetTrustLevel(l)
      <4>1. lookup'[l].at = "direct"
        BY <1>0, <3>1 DEF GetTrustLevel, WotTypeOK
      <4> QED
        BY <4>1 DEF FoundWithin
    <3>2. lookup \in [Lookups -> LookupStates]
      BY <1>0 DEF WotTypeOK, LookupStates, Stages
    <3>3. CASE CalculateTrustLevel(l)
      <4>0. faultAge' = faultAge
        BY <3>3 DEF CalculateTrustLevel
      <4>1. ASSUME NEW at \in Stages, NEW found \in Levels \union {"none"}, lookup' = Step(l, at, found)
            PROVE  lookup'[l].at = at /\ lookup'[l].found = found /\ lookup'[l].spent = lookup[l].spent
        <5>1. lookup'[l] = [at |-> at, found |-> found, spent |-> lookup[l].spent]
          BY <3>2, <4>1, StepType
        <5> QED
          BY <5>1
      <4>2. CASE lookup[l].at = "direct"
        <5>1. \/ lookup' = Step(l, "store", "follow") /\ "rootAuthor" \in follows
              \/ lookup' = Step(l, "friends", "none") /\ "rootAuthor" \notin follows
          BY <3>3, <4>2 DEF CalculateTrustLevel, Walk, Levels
        <5>2. ("rootAuthor" \in follows => there["rootAuthor"] = 0)
              /\ ("rootAuthor" \notin follows => gone["rootAuthor"] = 0)
          BY DEF WotInv, EdgesAreNow, Edges
        <5> QED
          BY <2>1, <3>0, <4>1, <5>1, <5>2 DEF FoundWithin, Within, WithinAges, Levels, Stages
      <4>3. CASE lookup[l].at = "friends"
        <5>1. \/ lookup' = Step(l, "second", "none") /\ "rootFriend" \in follows
              \/ lookup' = Step(l, "store", "unknown") /\ "rootFriend" \notin follows
          BY <3>3, <4>3 DEF CalculateTrustLevel, Walk, Levels
        <5>2. ("rootFriend" \in follows => there["rootFriend"] = 0)
              /\ ("rootFriend" \notin follows => gone["rootFriend"] = 0)
          BY DEF WotInv, EdgesAreNow, Edges
        <5> QED
          BY <2>1, <3>0, <4>0, <4>1, <4>3, <5>1, <5>2 DEF FoundWithin, Within, WithinAges, Levels, Stages
      <4>4. CASE lookup[l].at = "second"
        <5>1. \/ lookup' = Step(l, "store", "followOfFollow") /\ "friendAuthor" \in follows
              \/ lookup' = Step(l, "store", "unknown") /\ "friendAuthor" \notin follows
          BY <3>3, <4>4 DEF CalculateTrustLevel, Walk, Levels
        <5>2. ("friendAuthor" \in follows => there["friendAuthor"] = 0)
              /\ ("friendAuthor" \notin follows => gone["friendAuthor"] = 0)
          BY DEF WotInv, EdgesAreNow, Edges
        <5> QED
          BY <2>1, <3>0, <4>0, <4>1, <4>4, <5>1, <5>2 DEF FoundWithin, Within, WithinAges, Levels, Stages
      <4> QED
        BY <3>3, <4>2, <4>3, <4>4 DEF CalculateTrustLevel, Walk
    <3>4. CASE CalculateFails(l)
      <4>1. faultAge' = 0 /\ (lookup' = Step(l, "friends", "none") \/ lookup' = Step(l, "store", "unknown"))
        BY <3>4 DEF CalculateFails
      <4>2. /\ lookup'[l].at \in {"friends", "store"} /\ (lookup'[l].at = "store" => lookup'[l].found = "unknown")
            /\ lookup'[l].spent = lookup[l].spent
        BY <1>0, <4>1 DEF Step, WotTypeOK
      <4> QED
        BY <3>0, <4>1, <4>2 DEF FoundWithin, Within, WithinAges, Levels, Stages
    <3> QED
      BY <1>5, <3>1, <3>3, <3>4
  <2> QED
    BY <1>0, <2>2, <2>4, <2>5, <2>6 DEF WotInv, LookupsAreWithin
<1>6. ASSUME NEW l \in Lookups, SetExternal(l) \/ SetMemory(l) PROVE WotInv'
  <2>1. UNCHANGED <<graphVars, faultAge>>
    BY <1>6 DEF SetExternal, SetMemory
  <2>2. UNCHANGED <<there, gone, faultAge>> /\ EdgesAreNow'
    BY <1>3, <2>1
  <2>3. /\ lookup[l].found \in Levels /\ lookup[l].spent \in Nat /\ lookup[l].spent <= MaxLookup
        /\ Within(lookup[l].found, lookup[l].spent)
    BY <1>0, <1>6 DEF SetExternal, SetMemory, WotInv, LookupsAreWithin, FoundWithin, WotTypeOK
  <2> DEFINE c == Entry(lookup[l].found)
  <2>4. EntryWithin(c, there, gone, faultAge) /\ c.age = 0
    <3>1. c.level = lookup[l].found /\ c.age = 0
      BY DEF Entry
    <3>2. Within(c.level, c.age + MaxLookup)
      BY <1>0, <2>3, <3>1, WithinLonger
    <3> QED
      BY <3>1, <3>2 DEF EntryWithin, Within
  <2> HIDE DEF c
  <2>5. extCache' \in {extCache, c} /\ \A r \in Replicas : memCache'[r] \in {memCache[r], c}
    BY <1>0, <1>6, AtType DEF SetExternal, SetMemory, WotTypeOK, c
  <2>6. EntriesAreWithin' /\ ExtIsLive'
    BY <2>2, <2>4, <2>5 DEF WotInv, EntriesAreWithin, ExtIsLive
  <2>7. ASSUME NEW k \in Lookups PROVE FoundWithin(k)'
    <3>1. FoundWithin(k) /\ FoundWithin(l)
      BY DEF WotInv, LookupsAreWithin
    <3>2. CASE SetExternal(l)
      <4>1. /\ lookup'[k].found = lookup[k].found /\ lookup'[k].spent = lookup[k].spent
            /\ lookup'[k].at = IF k = l THEN "mem" ELSE lookup[k].at
        BY <1>0, <3>2 DEF SetExternal, Step, WotTypeOK
      <4> QED
        BY <2>2, <2>3, <3>1, <3>2, <4>1 DEF FoundWithin, Within, SetExternal
    <3>3. CASE SetMemory(l)
      <4>1. lookup'[k] = IF k = l THEN NoLookup ELSE lookup[k]
        BY <1>0, <3>3 DEF SetMemory, WotTypeOK
      <4> QED
        BY <2>2, <3>1, <4>1 DEF FoundWithin, Within, NoLookup
    <3> QED
      BY <1>6, <3>2, <3>3
  <2> QED
    BY <1>0, <2>2, <2>6, <2>7 DEF WotInv, LookupsAreWithin
<1>7. CASE UNCHANGED WotVars
  BY <1>7 DEF WotVars, WotInv, WotTypeOK, EdgesAreNow, LookupsAreWithin, FoundWithin, Within,
     EntriesAreWithin, ExtIsLive
<1>8. {"rootAuthor", "rootFriend"} \in SUBSET Edges /\ {"friendAuthor"} \in SUBSET Edges
  BY DEF Edges
<1> QED
  BY <1>1, <1>2, <1>4, <1>5, <1>6, <1>7, <1>8 DEF WotNext

LEMMA WotInvariant == WotInit /\ [][WotNext]_WotVars => []WotInv
<1>1. WotInit => WotInv
  BY WotAssumption, AgesAreNat
     DEF WotInit, WotInv, WotTypeOK, EdgesAreNow, LookupsAreWithin, FoundWithin, EntriesAreWithin,
         EntryWithin, ExtIsLive, NoEntry, NoLookup, CacheEntry
<1> QED
  BY <1>1, WotStep, PTL

LEMMA TrustFollows == WotInv => TrustIsRecent
<1> SUFFICES ASSUME WotInv, NEW r \in Replicas PROVE Justified(Cached(r).level)
  BY DEF TrustIsRecent
<1> DEFINE c == Cached(r)
<1>1. c = NoEntry \/ (c \in CacheEntry /\ c.age <= Ttl /\ EntryWithin(c, there, gone, faultAge))
  BY DEF Cached, WotInv, WotTypeOK, EntriesAreWithin, ExtIsLive
<1>2. NoEntry.level = "none"
  BY DEF NoEntry
<1> HIDE DEF c
<1>3. /\ \A e \in Edges : there[e] \in Nat /\ gone[e] \in Nat
      /\ faultAge \in Nat
  BY AgesAreNat DEF WotInv, WotTypeOK
<1>4. "rootAuthor" \in Edges /\ "rootFriend" \in Edges /\ "friendAuthor" \in Edges
  BY DEF Edges
<1>5. CASE c.level = "none"
  BY <1>5 DEF Justified, c
<1>6. CASE c.level # "none"
  <2>1. c.age \in Nat /\ c.level \in Levels /\ WithinAges(c.level, c.age + MaxLookup, there, gone, faultAge)
        /\ c.age + MaxLookup < Old
    <3>1. c \in CacheEntry /\ c.age <= Ttl /\ EntryWithin(c, there, gone, faultAge)
      BY <1>1, <1>2, <1>6
    <3>2. c.age \in Nat /\ c.level \in Levels
      BY <1>6, <3>1, AgesAreNat DEF CacheEntry
    <3> QED
      BY <1>6, <3>1, <3>2, AgesAreNat DEF EntryWithin, Old
  <2> QED
    BY <1>3, <1>4, <2>1, AgesAreNat DEF WithinAges, Justified, Recent, Levels, c
<1> QED
  BY <1>5, <1>6

\* The follow graph, the ages, the lookups and the caches stay well typed.
THEOREM WotTypeCorrect == WotSpec => []WotTypeOK
<1>1. WotInv => WotTypeOK
  BY DEF WotInv
<1> QED
  BY <1>1, WotInvariant, PTL DEF WotSpec

\* For any number of lookups and replicas, any TTL and any length of a lookup:
\* no level that is served is older than the TTL and the lookup that found it
\* (store.go:150, 181).
THEOREM TrustRecent == WotSpec => []TrustIsRecent
BY TrustFollows, WotInvariant, PTL DEF WotSpec

-----------------------------------------------------------------------------
(* The scores                                                                *)

\* Versions are replaced in order, each at the tick it was replaced at.
VersionsOK == \A v \in Versions : v >= version => replaced[v] = StillCurrent

\* The graph of version v was in the table at some time in the last m ticks.
InTable(v, m) == v \in 1..version /\ replaced[v] + m >= rankClock

\* A shared key is of a graph no older than the key; a computation under way, of
\* one that was in the table in this tick; the scores of a replica that is not
\* behind, too, once its ticker's computation of this tick has kept them.
RowsOK == \A n \in RankNodes : rankRows[n] # NoRankRow => InTable(rankRows[n].of, rankRows[n].age)
RankingOK == \A r \in RankReplicas : ranking[r] # NoRanking => InTable(ranking[r].of, 0)
ScoresOK == \A r \in RankReplicas : r \notin behind /\ scores[r] # 0 =>
  /\ InTable(scores[r], 1)
  /\ r \in dueRanks \/ ranking[r].step = "fetched" \/ InTable(scores[r], 0)
ReplyOK == reply # NoReply => reply.at <= rankClock

RankInv == RankTypeOK /\ VersionsOK /\ RowsOK /\ RankingOK /\ ScoresOK /\ ReplyOK /\ RanksAreRecent

LEMMA GraphFacts ==
  /\ Len(Graphs) \in Nat \ {0} /\ Versions \subseteq Nat
  /\ \A v \in 0..Len(Graphs), n \in RankNodes : LevelIn(v, n) \in RankLevels
  /\ StillCurrent \in Nat /\ MaxRankClock \in Nat /\ RankTtl = 2
<1>1. Len(Graphs) \in Nat \ {0} /\ Versions \subseteq Nat
  BY RankAssumption DEF Versions
<1>2. ASSUME NEW v \in 0..Len(Graphs), NEW n \in RankNodes PROVE LevelIn(v, n) \in RankLevels
  <2>1. CASE v = 0
    BY <2>1 DEF LevelIn, RankLevels
  <2>2. CASE v # 0
    <3>1. v \in 1..Len(Graphs)
      BY <1>1, <2>2
    <3> DEFINE G == [large : BOOLEAN, level : [RankNodes -> RankLevels \cup {NoScore}]]
    <3>2. Graphs \in Seq(G)
      BY RankAssumption
    <3>3. Graphs[v] \in G
      <4> HIDE DEF G
      <4> QED
        BY <3>1, <3>2
    <3>4. Graphs[v].level[n] \in RankLevels \cup {NoScore}
      BY <3>3
    <3> QED
      BY <3>4, <2>2 DEF LevelIn, RankLevels
  <2> QED
    BY <2>1, <2>2
<1> QED
  BY <1>1, <1>2, RankAssumption DEF StillCurrent, RankTtl

LEMMA FetchedType ==
  ASSUME ranking \in [RankReplicas -> Rankings], NEW r \in RankReplicas, NEW k \in 0..Len(Graphs)
  PROVE  [ranking EXCEPT ![r].step = "fetched", ![r].of = k] \in [RankReplicas -> Rankings]
<1> DEFINE f == [ranking EXCEPT ![r].step = "fetched", ![r].of = k]
<1>1. f = [q \in RankReplicas |-> f[q]] /\ \A q \in RankReplicas : q # r => f[q] = ranking[q]
  OBVIOUS
<1>2. f[r] = [[ranking[r] EXCEPT !.step = "fetched"] EXCEPT !.of = k] /\ ranking[r] \in Rankings
  OBVIOUS
<1>3. [[ranking[r] EXCEPT !.step = "fetched"] EXCEPT !.of = k] \in Rankings
  BY <1>2 DEF Rankings
<1> HIDE DEF f
<1>4. \A q \in RankReplicas : f[q] \in Rankings
  BY <1>1, <1>2, <1>3
<1>5. f \in [RankReplicas -> Rankings]
  BY <1>1, <1>4
<1> QED
  BY <1>5 DEF f

LEMMA RankTypeStep == ASSUME RankTypeOK, [RankNext]_RankVars PROVE RankTypeOK'
<1> USE GraphFacts, RankAssumption DEF RankTypeOK, followGraph
<1>0. NoRanking \in Rankings /\ NoRankRow \in RankRows /\ NoAsker \in AskerStates /\ NoReply \in Replies
  BY DEF NoRanking, Rankings, NoRankRow, RankRows, AskerStates, Replies
<1>1. ASSUME NEW r \in RankReplicas, Fetch(r) PROVE RankTypeOK'
  <2>1. ASSUME NEW k \in Versions
        PROVE  [ranking EXCEPT ![r].step = "fetched", ![r].of = k] \in [RankReplicas -> Rankings]
    <3>1. k \in 0..Len(Graphs)
      BY DEF Versions
    <3> QED
      BY <3>1, FetchedType
  <2>2. ranking' \in [RankReplicas -> Rankings] /\ behind' \in SUBSET RankReplicas
    BY <1>0, <1>1, <2>1 DEF Fetch, GiveUp
  <2>3. rankFaults' \in 0..MaxRankFaults
    BY <1>1 DEF Fetch, RankFails
  <2> QED
    BY <1>1, <2>2, <2>3 DEF Fetch
<1>2. ASSUME NEW r \in RankReplicas, KeepScores(r) PROVE RankTypeOK'
  BY <1>0, <1>2 DEF KeepScores, Rankings, Scored
<1>3. ASSUME NEW r \in RankReplicas, WriteRow(r) PROVE RankTypeOK'
  BY <1>0, <1>3 DEF WriteRow, Rankings, RankRows
<1>4. ASSUME NEW r \in RankReplicas, EndJob(r) PROVE RankTypeOK'
  BY <1>0, <1>4 DEF EndJob, RankFails
<1>5. ASSUME NEW r \in RankReplicas, NEW n \in RankNodes, AskLevel(r, n) PROVE RankTypeOK'
  <2>1. reply' \in Replies
    <3>1. [node |-> n, level |-> "owner", at |-> rankClock, version |-> version, behind |-> FALSE] \in Replies
      BY DEF Replies
    <3> QED
      BY <1>5, <3>1 DEF AskLevel
  <2>2. asker' \in AskerStates
    BY <1>5 DEF AskLevel, AskerStates
  <2> QED
    BY <1>5, <2>1, <2>2 DEF AskLevel
<1>6. ASSUME NEW n \in RankNodes, NEW level \in RankLevels, NEW excused \in BOOLEAN,
             asker.node = n, Tell(level, excused)
      PROVE  reply' \in Replies /\ asker' \in AskerStates
  BY <1>0, <1>6 DEF Tell, Replies
<1>7. CASE ReadShared
  <2>0. asker \in [step : {"shared", "own"}, at : RankReplicas, node : RankNodes]
    BY <1>7 DEF ReadShared, AskerStates, NoAsker
  <2>1. asker.node \in RankNodes /\ asker.at \in RankReplicas
        /\ [asker EXCEPT !.step = "own"] \in AskerStates
    BY <2>0 DEF AskerStates
  <2>2. rankRows[asker.node].of \in 0..Len(Graphs)
    BY <2>1 DEF RankRows
  <2>3. LevelIn(rankRows[asker.node].of, asker.node) \in RankLevels
    BY <2>1, <2>2
  <2>4. reply' \in Replies /\ asker' \in AskerStates
    BY <1>6, <1>7, <2>1, <2>3 DEF ReadShared
  <2>5. rankFaults' \in 0..MaxRankFaults
    <3>1. rankFaults' = rankFaults \/ RankFails
      BY <1>7, Zenon DEF ReadShared
    <3> QED
      BY <3>1 DEF RankFails
  <2> QED
    BY <1>7, <2>4, <2>5 DEF ReadShared
<1>8. CASE ReadOwn
  <2>1. asker.node \in RankNodes /\ asker.at \in RankReplicas
    BY <1>8 DEF ReadOwn, AskerStates, NoAsker
  <2>2. LevelIn(scores[asker.at], asker.node) \in RankLevels
    BY <2>1
  <2>3. reply' \in Replies /\ asker' \in AskerStates
    BY <1>6, <1>8, <2>1, <2>2 DEF ReadOwn
  <2> QED
    BY <1>8, <2>3 DEF ReadOwn
<1>9. CASE ChangeGraph
  BY <1>9 DEF ChangeGraph, Versions, StillCurrent
<1>10. CASE RankTick
  <2>1. ASSUME NEW row \in RankRows PROVE OlderRow(row) \in RankRows
    <3>1. row.age # RankTtl => row.age + 1 \in 0..RankTtl
      BY DEF RankRows
    <3> QED
      BY <1>0, <3>1 DEF OlderRow, RankRows
  <2> QED
    BY <1>10, <2>1 DEF RankTick
<1>11. CASE UNCHANGED RankVars
  BY <1>11 DEF RankVars
<1> QED
  BY <1>1, <1>2, <1>3, <1>4, <1>5, <1>7, <1>8, <1>9, <1>10, <1>11 DEF RankNext

RankParts == VersionsOK /\ RowsOK /\ RankingOK /\ ScoresOK /\ ReplyOK

LEMMA RankPartsStep == ASSUME RankInv, [RankNext]_RankVars PROVE RankParts'
<1> USE GraphFacts DEF RankInv, RankTypeOK, VersionsOK, RowsOK, RankingOK, ScoresOK, ReplyOK, RankParts, followGraph,
        InTable
<1>0. RankTypeOK'
  BY RankTypeStep
<1>1. ASSUME NEW r \in RankReplicas, Fetch(r) PROVE RankParts'
  <2>1. version \in 1..version /\ replaced[version] = StillCurrent /\ replaced[version] >= rankClock
    BY DEF Versions, StillCurrent
  <2>2. /\ UNCHANGED <<rankClock, version, replaced, scores, rankRows, asker, reply>>
        /\ r \in dueRanks /\ dueRanks' = dueRanks \ {r}
        /\ \/ /\ ranking' = [ranking EXCEPT ![r].step = "fetched", ![r].of = version]
              /\ behind' = behind
           \/ behind' = behind \cup {r} /\ ranking' = [ranking EXCEPT ![r] = NoRanking]
    BY <1>1 DEF Fetch, GiveUp
  <2>3. ASSUME NEW q \in RankReplicas
        PROVE  \/ q = r /\ ranking'[q].step = "fetched" /\ ranking'[q].of = version /\ behind' = behind
               \/ q = r /\ ranking'[q] = NoRanking /\ q \in behind'
               \/ q # r /\ ranking'[q] = ranking[q] /\ (q \in behind' <=> q \in behind)
    BY <2>2 DEF Rankings
  <2>4. VersionsOK' /\ RowsOK' /\ ReplyOK'
    BY <2>2
  <2>5. RankingOK'
    BY <2>1, <2>2, <2>3
  <2>6. ScoresOK'
    BY <2>1, <2>2, <2>3
  <2> QED
    BY <2>4, <2>5, <2>6
<1>2. ASSUME NEW r \in RankReplicas, KeepScores(r) PROVE RankParts'
  <2>1. ranking[r] # NoRanking
    BY <1>2 DEF KeepScores, NoRanking
  <2> QED
    BY <1>2, <2>1 DEF KeepScores, Rankings, Versions
<1>3. ASSUME NEW r \in RankReplicas, WriteRow(r) PROVE RankParts'
  <2>1. ranking[r] # NoRanking
    BY <1>3 DEF WriteRow, NoRanking
  <2> QED
    BY <1>3, <2>1 DEF WriteRow, Rankings, RankRows
<1>4. ASSUME NEW r \in RankReplicas, EndJob(r) PROVE RankParts'
  BY <1>4 DEF EndJob, RankFails
<1>5. ASSUME NEW r \in RankReplicas, NEW n \in RankNodes, AskLevel(r, n) PROVE RankParts'
  BY <1>5 DEF AskLevel
<1>6. CASE ReadShared \/ ReadOwn
  BY <1>6 DEF ReadShared, ReadOwn, Tell
<1>9. CASE ChangeGraph
  <2>0. rankClock \in Nat /\ rankClock <= StillCurrent /\ version \in Nat /\ version \in Versions
    BY DEF Versions, StillCurrent
  <2>1. /\ UNCHANGED <<rankClock, scores, behind, rankRows, dueRanks, ranking, reply>>
        /\ version' = version + 1 /\ replaced'[version] = rankClock
        /\ \A v \in Versions : v # version => replaced'[v] = replaced[v]
    BY <1>9, <2>0 DEF ChangeGraph
  <2>2. VersionsOK'
    BY <1>9, <2>0, <2>1
  <2>3. ASSUME NEW v, NEW m \in Nat, InTable(v, m) PROVE InTable(v, m)'
    <3>0. v \in Versions /\ v \in 1..version'
      BY <2>0, <2>1, <2>3 DEF Versions
    <3>1. v \in Versions /\ v \in 1..version' /\ replaced'[v] \in Nat /\ replaced[v] \in Nat
      BY <1>0, <3>0
    <3>2. replaced'[v] + m >= rankClock
      BY <2>0, <2>1, <2>3, <3>1
    <3> QED
      BY <2>1, <3>1, <3>2
  <2> HIDE DEF InTable
  <2>4. RowsOK' /\ RankingOK' /\ ScoresOK' /\ ReplyOK'
    BY <2>1, <2>3 DEF RankRows, Rankings
  <2> QED
    BY <2>2, <2>4
<1>10. CASE RankTick
  <2>1. /\ UNCHANGED <<version, replaced, scores, behind, ranking, reply>>
        /\ rankClock' = rankClock + 1 /\ rankClock \in Nat /\ dueRanks = {} /\ dueRanks' = RankReplicas
        /\ \A r \in RankReplicas : ranking[r] = NoRanking
        /\ \A n \in RankNodes : rankRows'[n] = OlderRow(rankRows[n])
    BY <1>10 DEF RankTick
  <2>2. ASSUME NEW v, NEW m \in Nat, InTable(v, m) PROVE InTable(v, m + 1)'
    BY <2>1, <2>2 DEF Versions
  <2>3. NoRanking.step # "fetched"
    BY DEF NoRanking
  <2>4. RowsOK'
    <3> SUFFICES ASSUME NEW n \in RankNodes, rankRows'[n] # NoRankRow
                 PROVE  InTable(rankRows[n].of, rankRows[n].age)'
      OBVIOUS
    <3>1. rankRows[n] # NoRankRow /\ rankRows[n] \in RankRows /\ rankRows[n].age # RankTtl
          /\ rankRows'[n] = [rankRows[n] EXCEPT !.age = @ + 1]
      BY <2>1 DEF OlderRow
    <3>2. /\ rankRows'[n].of = rankRows[n].of /\ rankRows'[n].age = rankRows[n].age + 1
          /\ rankRows[n].age \in Nat
      BY <3>1 DEF RankRows
    <3> QED
      BY <2>1, <3>1, <3>2 DEF Versions
  <2>5. RankingOK'
    BY <2>1
  <2>6. ScoresOK'
    BY <2>1, <2>3 DEF Versions
  <2>7. VersionsOK' /\ ReplyOK'
    BY <2>1 DEF Replies
  <2> QED
    BY <2>4, <2>5, <2>6, <2>7
<1>11. CASE UNCHANGED RankVars
  BY <1>11 DEF RankVars
<1> QED
  BY <1>1, <1>2, <1>3, <1>4, <1>5, <1>6, <1>9, <1>10, <1>11 DEF RankNext

\* What a request is told: the level of a graph that was in the table, unless
\* the replica that answers is excused.
LEMMA ToldLevel ==
  ASSUME RankInv, NEW v, NEW m \in 0..RankTtl, InTable(v, m), UNCHANGED followGraph,
         reply'.level = LevelIn(v, asker.node), reply'.node = asker.node,
         reply'.at = rankClock, reply'.version = version
  PROVE  RanksAreRecent'
<1>2. v \in 1..version /\ replaced'[v] + RankTtl >= rankClock
  <2>1. v \in Versions /\ replaced' = replaced
    BY DEF InTable, RankInv, RankTypeOK, Versions, followGraph
  <2>2. replaced[v] \in Nat /\ rankClock \in Nat
    BY <2>1, GraphFacts DEF RankInv, RankTypeOK
  <2> QED
    BY <2>1, <2>2, GraphFacts DEF InTable
<1> QED
  BY <1>2 DEF RanksAreRecent

LEMMA RanksRecentStep == ASSUME RankInv, [RankNext]_RankVars PROVE RanksAreRecent'
<1>0. RankTypeOK /\ RankTypeOK'
  BY RankTypeStep DEF RankInv
<1>1. CASE UNCHANGED <<reply, replaced>>
  BY <1>1 DEF RankInv, RanksAreRecent
<1>2. CASE ChangeGraph
  <2>1. /\ UNCHANGED <<rankClock, reply>> /\ replaced' = [replaced EXCEPT ![version] = rankClock]
    BY <1>2 DEF ChangeGraph
  <2> SUFFICES ASSUME reply # NoReply, reply.node \notin TrustRoots, ~reply.behind
               PROVE  \E v \in 1..reply.version :
                        /\ LevelIn(v, reply.node) = reply.level
                        /\ replaced'[v] + RankTtl >= reply.at
    BY <2>1 DEF RanksAreRecent
  <2>2. PICK v \in 1..reply.version :
                        /\ LevelIn(v, reply.node) = reply.level
                        /\ replaced[v] + RankTtl >= reply.at
    BY DEF RankInv, RanksAreRecent
  <2>3. reply.at \in Nat /\ rankClock \in Nat /\ reply.at <= rankClock /\ v \in Versions
    BY <1>0, GraphFacts DEF RankInv, ReplyOK, RankTypeOK, Replies, Versions
  <2>4. replaced'[v] = replaced[v] \/ replaced'[v] = rankClock
    BY <1>0, <2>1, <2>3 DEF RankTypeOK
  <2>5. replaced'[v] + RankTtl >= reply.at
    BY <2>2, <2>3, <2>4, GraphFacts
  <2> QED
    BY <2>2, <2>5
<1>3. ASSUME NEW r \in RankReplicas, NEW n \in RankNodes, AskLevel(r, n) PROVE RanksAreRecent'
  <2>1. (reply' = reply /\ replaced' = replaced) \/ reply'.node \in TrustRoots
    BY <1>3 DEF AskLevel, followGraph
  <2> QED
    BY <2>1 DEF RankInv, RanksAreRecent
<1>4. CASE ReadShared
  <2> DEFINE row == rankRows[asker.node]
  <2>1. asker.node \in RankNodes
    BY <1>0, <1>4 DEF ReadShared, RankTypeOK, AskerStates, NoAsker
  <2>2. /\ UNCHANGED followGraph
        /\ \/ UNCHANGED reply
           \/ /\ row # NoRankRow /\ reply'.level = LevelIn(row.of, asker.node) /\ reply'.node = asker.node
              /\ reply'.at = rankClock /\ reply'.version = version
    BY <1>4 DEF ReadShared, Tell
  <2>3. row # NoRankRow => InTable(row.of, row.age) /\ row.age \in 0..RankTtl
    BY <1>0, <2>1 DEF RankInv, RowsOK, RankTypeOK, RankRows
  <2>4. UNCHANGED reply => UNCHANGED <<reply, replaced>>
    BY <2>2 DEF followGraph
  <2> QED
    BY <1>1, <2>2, <2>3, <2>4, ToldLevel
<1>5. CASE ReadOwn
  <2> DEFINE r == asker.at
  <2>1. asker.node \in RankNodes /\ r \in RankReplicas
    BY <1>0, <1>5 DEF ReadOwn, RankTypeOK, AskerStates, NoAsker
  <2>2. UNCHANGED followGraph /\ Tell(LevelIn(scores[r], asker.node), r \in behind \/ scores[r] = 0)
    BY <1>5 DEF ReadOwn
  <2>3. CASE r \in behind \/ scores[r] = 0
    BY <2>2, <2>3 DEF Tell, RanksAreRecent
  <2>4. CASE ~(r \in behind \/ scores[r] = 0)
    <3>1. InTable(scores[r], 1) /\ 1 \in 0..RankTtl
      BY <2>1, <2>4 DEF RankInv, ScoresOK, RankTtl
    <3> QED
      BY <2>2, <3>1, ToldLevel DEF Tell
  <2> QED
    BY <2>3, <2>4
<1> QED
  BY <1>1, <1>2, <1>3, <1>4, <1>5
     DEF RankNext, Fetch, KeepScores, WriteRow, EndJob, RankTick, RankVars, followGraph

LEMMA RankInvariant == RankInit /\ [][RankNext]_RankVars => []RankInv
<1>1. RankInit => RankInv
  <2> SUFFICES ASSUME RankInit PROVE RankInv
    OBVIOUS
  <2>1. RankTypeOK
    BY GraphFacts, RankAssumption
       DEF RankInit, RankTypeOK, RankRows, NoRankRow, Rankings, NoRanking, AskerStates, Replies, Versions,
           StillCurrent
  <2> QED
    BY <2>1 DEF RankInit, RankInv, VersionsOK, RowsOK, RankingOK, ScoresOK, ReplyOK, RanksAreRecent
<1>2. RankInv /\ [RankNext]_RankVars => RankInv'
  BY RankTypeStep, RankPartsStep, RanksRecentStep DEF RankInv, RankParts
<1> QED
  BY <1>1, <1>2, PTL

\* The graph's versions, the keys, the computations and the replies stay well typed.
THEOREM RankTypeCorrect == RankSpec => []RankTypeOK
<1>1. RankInv => RankTypeOK
  BY DEF RankInv
<1> QED
  BY <1>1, RankInvariant, PTL DEF RankSpec

\* For any number of replicas, nodes and versions of the graph: whatever order
\* the replicas write the shared keys in, a level that is told is the one of a
\* graph that was in the table within the TTL of the keys (pagerank.go).
THEOREM RanksRecent == RankSpec => []RanksAreRecent
<1>1. RankInv => RanksAreRecent
  BY DEF RankInv
<1> QED
  BY <1>1, RankInvariant, PTL DEF RankSpec

-----------------------------------------------------------------------------
(* The groups                                                                *)

RowRecords == [by : Pubkeys \union {NoKey}, privacy : Privacies]
InviteRecords == [group : GroupIds \union {"none"}, uses : Nat, expired : BOOLEAN]
MemberOps == {"add", "join", "remove", "leave"}
CallRecords == [at : {"idle", "saved", "insert", "creator", "copy", "checked", "used"},
          op : {"none", "create", "delete", "edit", "invite"} \union MemberOps,
          group : GroupIds \union {"none"}, actor : Pubkeys \union {NoKey},
          who : Pubkeys \union {NoKey}, role : {"", "admin"}, privacy : Privacies,
          code : Codes \union {"none"}]

GroupTypes ==
  /\ groupRows \in [GroupIds -> RowRecords] /\ memberRows \in [GroupIds -> [Pubkeys -> MemberRole]]
  /\ inviteRows \in [Codes -> InviteRecords] /\ groupCache \in [GroupIds -> CopyStates]
  /\ groupCall \in [GroupCallers -> CallRecords]
  /\ mayDiffer \subseteq GroupIds \X Pubkeys /\ raced \subseteq Codes
  /\ groupCalls \in 0..MaxGroupCalls /\ groupFaults \in 0..MaxGroupFaults

\* What a request may be doing, and to whom.
CallShape(req) ==
  /\ req.op \in MemberOps => req.who \in Pubkeys
  /\ req.op \in {"delete", "edit"} => req.who = NoKey
  /\ req.op = "create" => req.actor \in Pubkeys
  /\ req.at \in {"insert", "creator"} => req.op = "create"
  /\ req.at \in {"checked", "used"} => req.op = "join"
  /\ req.at = "copy" => req.op \in {"create", "delete", "edit"} \union MemberOps
  /\ req.op \in {"delete", "edit", "invite"} \union MemberOps => req.group \in GroupIds
  /\ req.at = "creator" \/ (req.op = "create" /\ req.at = "copy") => req.group \in GroupIds
  /\ req.op = "create" /\ req.at \in {"saved", "insert"} => req.group = "none"
CallsShaped == \A c \in GroupCallers : CallShape(groupCall[c])

\* The foreign keys: members and invites go with their group.
ForeignKeys ==
  /\ \A g \in GroupIds : IF groupRows[g] = NoRow THEN memberRows[g] = Nobodies
                                                ELSE groupRows[g].by \in Pubkeys
  /\ \A k \in Codes : inviteRows[k] # NoInvite =>
       inviteRows[k].group \in GroupIds /\ groupRows[inviteRows[k].group] # NoRow

Creates(req, g) == req.op = "create" /\ req.at \in {"creator", "copy"} /\ req.group = g

\* Nobody but its creator can know of a group that is not in the copy yet.
CreatorsAlone ==
  \A c \in GroupCallers, g \in GroupIds : Creates(groupCall[c], g) =>
    /\ groupRows[g] # NoRow /\ ~groupCache[g].known
    /\ \A d \in GroupCallers : d # c => groupCall[d].group # g
    /\ \A k \in Codes : inviteRows[k].group # g
    /\ \A p \in Pubkeys : memberRows[g][p] =
         IF groupCall[c].at = "copy" /\ p = groupCall[c].actor THEN "admin" ELSE "absent"

\* A group with a row is in the copy, unless it is just being created, or its
\* creation failed half way.
KnownGroups ==
  \A g \in GroupIds : groupRows[g] # NoRow =>
    \/ groupCache[g].known
    \/ \E c \in GroupCallers : Creates(groupCall[c], g)
    \/ \A p \in Pubkeys : <<g, p>> \in mayDiffer

\* Where nothing overlapped, the one request between table and copy will make the
\* copy what the table is.
OneAtATime ==
  \A c \in GroupCallers, d \in GroupCallers, g \in GroupIds, p \in Pubkeys :
    Touches(groupCall[c], g, p) /\ Touches(groupCall[d], g, p) /\ c # d => <<g, p>> \in mayDiffer
WillAgree(req, g, p) ==
  /\ req.op = "delete" => memberRows[g][p] = "absent"
  /\ req.op \in {"remove", "leave"} => memberRows[g][p] = "absent"
  /\ req.op \in {"add", "join"} =>
       /\ groupCache[g].known /\ memberRows[g][p] = req.role
       /\ req.role = "" => p \notin groupCache[g].admins
TouchedWillAgree ==
  \A c \in GroupCallers, g \in GroupIds, p \in Pubkeys :
    Touches(groupCall[c], g, p) /\ <<g, p>> \notin mayDiffer => WillAgree(groupCall[c], g, p)
DeletesAreDone ==
  \A c \in GroupCallers : Is(c, "delete", "copy") => groupRows[groupCall[c].group] = NoRow

GroupInv ==
  /\ GroupTypes /\ CallsShaped /\ ForeignKeys /\ CreatorsAlone /\ KnownGroups
  /\ OneAtATime /\ TouchedWillAgree /\ DeletesAreDone /\ GroupViewsAgree

\* Requests that found an invite usable and have not counted it.
Checked(k) == {c \in GroupCallers : groupCall[c].code = k /\ groupCall[c].at = "checked"}
UsesAreBounded ==
  \A k \in Codes :
    /\ inviteRows[k].uses + Cardinality(Checked(k)) < MaxUses + Cardinality(GroupCallers)
    /\ k \notin raced =>
         /\ \A c \in Checked(k), d \in Checked(k) : c = d
         /\ inviteRows[k].uses <= MaxUses
         /\ Checked(k) # {} => inviteRows[k].uses < MaxUses
LEMMA GroupRecords ==
  /\ NoCall \in CallRecords /\ CallShape(NoCall)
  /\ NoCall.at = "idle" /\ NoCall.op = "none" /\ NoCall.group = "none" /\ NoCall.code = "none"
  /\ NoRow.by = NoKey
  /\ NoRow \in RowRecords /\ NoInvite \in InviteRecords /\ NoGroupCopy \in CopyStates
  /\ Nobodies \in [Pubkeys -> MemberRole]
BY GroupAssumption
   DEF NoCall, CallRecords, CallShape, NoRow, RowRecords, NoInvite, InviteRecords, NoGroupCopy, CopyStates,
       Nobodies, MemberRole, Privacies, MemberOps

LEMMA GoesFacts ==
  ASSUME groupCall \in [GroupCallers -> CallRecords], NEW c \in GroupCallers,
         NEW stage \in {"saved", "insert", "creator", "copy", "checked", "used"}, Goes(c, stage)
  PROVE  /\ groupCall' \in [GroupCallers -> CallRecords]
         /\ \A d \in GroupCallers : d # c => groupCall'[d] = groupCall[d]
         /\ groupCall'[c] = [groupCall[c] EXCEPT !.at = stage]
         /\ groupCall'[c].at = stage /\ groupCall'[c].op = groupCall[c].op
         /\ groupCall'[c].group = groupCall[c].group /\ groupCall'[c].actor = groupCall[c].actor
         /\ groupCall'[c].who = groupCall[c].who /\ groupCall'[c].role = groupCall[c].role
         /\ groupCall'[c].privacy = groupCall[c].privacy /\ groupCall'[c].code = groupCall[c].code
<1>1. groupCall[c] \in CallRecords
  OBVIOUS
<1>2. [groupCall[c] EXCEPT !.at = stage] \in CallRecords
  BY <1>1 DEF CallRecords
<1>3. groupCall' = [groupCall EXCEPT ![c] = [groupCall[c] EXCEPT !.at = stage]]
  BY DEF Goes
<1> QED
  BY <1>1, <1>2, <1>3 DEF CallRecords

LEMMA EndsFacts ==
  ASSUME groupCall \in [GroupCallers -> CallRecords], NEW c \in GroupCallers, Ends(c)
  PROVE  /\ groupCall' \in [GroupCallers -> CallRecords]
         /\ \A d \in GroupCallers : d # c => groupCall'[d] = groupCall[d]
         /\ groupCall'[c] = NoCall
BY GroupRecords DEF Ends

\* What a step may do to the requests: one of them moves on, or ends.
CallMoves(c) ==
  /\ \A d \in GroupCallers : d # c => groupCall'[d] = groupCall[d]
  /\ groupCall' \in [GroupCallers -> CallRecords] /\ CallShape(groupCall'[c])

LEMMA MovesShaped ==
  ASSUME CallsShaped, NEW c \in GroupCallers, CallMoves(c)
  PROVE  CallsShaped'
BY DEF CallsShaped, CallMoves

LEMMA EndsMoves ==
  ASSUME GroupTypes, NEW c \in GroupCallers, Ends(c)
  PROVE  CallMoves(c) /\ groupCall'[c] = NoCall
BY EndsFacts, GroupRecords DEF CallMoves, GroupTypes

\* A request that is not about to change who belongs to a group in the copy.
Quiet(req) == req.at \notin {"copy", "creator"} \/ (req.at = "copy" /\ req.op = "edit" /\ req.who = NoKey)

\* A step that leaves the members of the tables and of the copy as they are.
LEMMA QuietStep ==
  ASSUME GroupInv, GroupTypes', CallsShaped', ForeignKeys',
         memberRows' = memberRows, mayDiffer \subseteq mayDiffer',
         \A g \in GroupIds : /\ groupRows'[g] = NoRow <=> groupRows[g] = NoRow
                             /\ groupCache'[g].known = groupCache[g].known
                             /\ groupCache'[g].members = groupCache[g].members
                             /\ groupCache'[g].admins = groupCache[g].admins,
         NEW c \in GroupCallers, Quiet(groupCall[c]), Quiet(groupCall'[c]),
         \A d \in GroupCallers : d # c => groupCall'[d] = groupCall[d],
         \A d \in GroupCallers, g \in GroupIds : Creates(groupCall[d], g) =>
            groupCall'[c].group # g /\ \A k \in Codes : inviteRows'[k].group # g
  PROVE  GroupInv'
<1> USE DEF GroupInv, Quiet
<1>1. \A d \in GroupCallers : d # c \/ (Quiet(groupCall[d]) /\ Quiet(groupCall'[d]))
  OBVIOUS
<1>2. \A d \in GroupCallers : \A g : Creates(groupCall'[d], g) <=> Creates(groupCall[d], g)
  BY <1>1 DEF Creates
<1>3. \A d \in GroupCallers, p \in Pubkeys :
        \A g : Touches(groupCall'[d], g, p) <=> Touches(groupCall[d], g, p)
  BY <1>1, GroupAssumption DEF Touches
<1>4. CreatorsAlone'
  <2> SUFFICES ASSUME NEW e \in GroupCallers, NEW g \in GroupIds, Creates(groupCall'[e], g)
               PROVE  /\ groupRows'[g] # NoRow /\ ~groupCache'[g].known
                      /\ \A d \in GroupCallers : d # e => groupCall'[d].group # g
                      /\ \A k \in Codes : inviteRows'[k].group # g
                      /\ \A p \in Pubkeys : memberRows[g][p] =
                           IF groupCall'[e].at = "copy" /\ p = groupCall'[e].actor THEN "admin" ELSE "absent"
    BY DEF CreatorsAlone
  <2>1. Creates(groupCall[e], g) /\ e # c
    BY <1>2 DEF Creates
  <2> QED
    BY <2>1 DEF CreatorsAlone
<1>5. KnownGroups'
  BY <1>2 DEF KnownGroups
<1>6. OneAtATime'
  BY <1>3 DEF OneAtATime
<1>7. TouchedWillAgree'
  <2> SUFFICES ASSUME NEW e \in GroupCallers, NEW g \in GroupIds, NEW p \in Pubkeys,
                      Touches(groupCall'[e], g, p), <<g, p>> \notin mayDiffer'
               PROVE  WillAgree(groupCall[e], g, p)' 
    BY DEF TouchedWillAgree
  <2>1. Touches(groupCall[e], g, p) /\ groupCall'[e] = groupCall[e]
    BY <1>1, <1>3, GroupAssumption DEF Touches
  <2>2. WillAgree(groupCall[e], g, p)
    BY <2>1 DEF TouchedWillAgree
  <2> QED
    BY <2>1, <2>2 DEF WillAgree
<1>8. DeletesAreDone'
  BY <1>1 DEF DeletesAreDone, Is, CallsShaped, CallShape
<1>9. GroupViewsAgree'
  <2>1. \A g \in GroupIds, p \in Pubkeys : Settled(g, p)' => Settled(g, p)
    BY <1>1, <1>3 DEF Settled
  <2> QED
    BY <2>1 DEF GroupViewsAgree, CopyAgrees
<1> QED
  BY <1>4, <1>5, <1>6, <1>7, <1>8, <1>9

\* The request of an event, as it is accepted.
Saved(op, g, actor, who, role, privacy, code) ==
  [at |-> "saved", op |-> op, group |-> g, actor |-> actor, who |-> who,
   role |-> role, privacy |-> privacy, code |-> code]

LEMMA AcceptStep ==
  ASSUME GroupInv, NEW c \in GroupCallers, NEW op, NEW g, NEW actor, NEW who, NEW role, NEW privacy,
         NEW code, Accept(c, op, g, actor, who, role, privacy, code),
         Saved(op, g, actor, who, role, privacy, code) \in CallRecords,
         CallShape(Saved(op, g, actor, who, role, privacy, code)),
         IF op = "create" THEN g = "none" ELSE g \in GroupIds
  PROVE  GroupInv'
<1> DEFINE X == Saved(op, g, actor, who, role, privacy, code)
<1>1. /\ X.at = "saved" /\ X.op = op /\ X.group = g
      /\ groupCall[c] = NoCall /\ groupCall' = [groupCall EXCEPT ![c] = X]
      /\ UNCHANGED <<groupRows, memberRows, inviteRows, groupCache, mayDiffer, raced, groupFaults>>
      /\ groupCalls' = groupCalls + 1 /\ groupCalls < MaxGroupCalls
  BY DEF Accept, Saved, tables, groupHistory
<1>2. op # "create" => groupCache[g].known
  BY DEF Accept, Admitted
<1> HIDE DEF X
<1>3. CallMoves(c) /\ groupCall'[c] = X
  BY <1>1 DEF CallMoves, GroupInv, GroupTypes, X
<1>4. GroupTypes' /\ CallsShaped'
  BY <1>1, <1>3, MovesShaped, GroupAssumption DEF GroupInv, GroupTypes, CallMoves
<1>5. ForeignKeys'
  BY <1>1 DEF GroupInv, ForeignKeys
<1>6. Quiet(groupCall[c]) /\ Quiet(groupCall'[c])
  BY <1>1, <1>3, GroupRecords DEF Quiet
<1>7. ASSUME NEW d \in GroupCallers, NEW h \in GroupIds, Creates(groupCall[d], h)
      PROVE  groupCall'[c].group # h /\ \A k \in Codes : inviteRows'[k].group # h
  BY <1>1, <1>2, <1>3, <1>7, GroupAssumption DEF GroupInv, CreatorsAlone
<1> QED
  BY <1>1, <1>3, <1>4, <1>5, <1>6, <1>7, QuietStep DEF CallMoves

\* The steps of a request that end it, or take it on without a visit of the tables.
LEMMA QuietSteps ==
  ASSUME GroupInv, NEW c \in GroupCallers,
         CountGroups(c) \/ JoinIgnored(c) \/ StatementFails(c)
  PROVE  GroupInv'
<1>0. GroupTypes /\ groupCall[c] \in CallRecords /\ CallShape(groupCall[c])
      /\ groupCall \in [GroupCallers -> CallRecords]
  BY DEF GroupInv, GroupTypes, CallsShaped
<1>1. /\ UNCHANGED <<groupRows, memberRows, inviteRows, groupCache, mayDiffer, raced, groupCalls>>
      /\ groupFaults' \in 0..MaxGroupFaults
      /\ Quiet(groupCall[c])
      /\ \/ Ends(c)
         \/ Goes(c, "insert") /\ groupCall[c].op = "create" /\ groupCall[c].at = "saved"
  BY <1>0, GroupAssumption DEF CountGroups, JoinIgnored, StatementFails, Fails, Is, Quiet, tables, groupHistory, GroupTypes
<1>2. /\ CallMoves(c)
      /\ \/ groupCall'[c] = NoCall
         \/ groupCall'[c].group = groupCall[c].group /\ groupCall'[c].at = "insert"
  <2>1. CASE Ends(c)
    BY <1>0, <2>1, EndsMoves
  <2>2. CASE Goes(c, "insert") /\ groupCall[c].op = "create" /\ groupCall[c].at = "saved"
    <3>1. CallShape(groupCall'[c])
      BY <1>0, <2>2, GoesFacts DEF CallShape, MemberOps
    <3> QED
      BY <1>0, <2>2, <3>1, GoesFacts DEF CallMoves
  <2> QED
    BY <1>1, <2>1, <2>2
<1>3. GroupTypes' /\ CallsShaped' /\ ForeignKeys'
  BY <1>0, <1>1, <1>2, MovesShaped DEF GroupInv, GroupTypes, ForeignKeys, CallMoves
<1>4. Quiet(groupCall'[c])
  BY <1>2, GroupRecords DEF Quiet
<1>5. ASSUME NEW d \in GroupCallers, NEW h \in GroupIds, Creates(groupCall[d], h)
      PROVE  groupCall'[c].group # h /\ \A k \in Codes : inviteRows'[k].group # h
  <2>1. d # c
    BY <1>1, <1>5 DEF Creates, Quiet
  <2> QED
    BY <1>1, <1>2, <1>5, <2>1, GroupAssumption, GroupRecords DEF GroupInv, CreatorsAlone
<1> QED
  BY <1>1, <1>2, <1>3, <1>4, <1>5, QuietStep DEF CallMoves

LEMMA CheckInviteStep ==
  ASSUME GroupInv, NEW c \in GroupCallers, CheckInvite(c)
  PROVE  GroupInv'
<1> DEFINE k == groupCall[c].code
<1>0. GroupTypes /\ groupCall[c] \in CallRecords /\ CallShape(groupCall[c]) /\ k \in Codes
      /\ groupCall \in [GroupCallers -> CallRecords] /\ groupCall[c].at = "saved" /\ groupCall[c].op = "join"
  BY DEF GroupInv, GroupTypes, CallsShaped, CheckInvite, Is, CallRecords
<1>1. /\ UNCHANGED <<groupRows, memberRows, inviteRows, groupCache, mayDiffer, groupCalls, groupFaults>>
      /\ raced' \subseteq Codes
  BY <1>0 DEF CheckInvite, tables, GroupTypes
<1>2. /\ CallMoves(c) /\ Quiet(groupCall'[c])
      /\ groupCall'[c].group \in {"none", inviteRows[k].group}
  <2>1. CASE Usable(k)
    <3>1. inviteRows[k].group \in GroupIds
      BY <1>0, <2>1 DEF Usable, GroupInv, ForeignKeys
    <3> DEFINE X == [[groupCall[c] EXCEPT !.at = "checked"] EXCEPT !.group = inviteRows[k].group]
    <3>2. groupCall' = [groupCall EXCEPT ![c] = X]
      BY <1>0, <2>1 DEF CheckInvite
    <3>3. X \in CallRecords /\ X.at = "checked" /\ X.op = "join" /\ X.group = inviteRows[k].group
          /\ X.who = groupCall[c].who
      BY <1>0, <3>1 DEF CallRecords
    <3> HIDE DEF X
    <3>4. CallShape(X)
      BY <1>0, <3>1, <3>3 DEF CallShape, MemberOps
    <3> QED
      BY <1>0, <3>2, <3>3, <3>4 DEF CallMoves, Quiet
  <2>2. CASE ~Usable(k)
    <3>1. Ends(c)
      BY <2>2 DEF CheckInvite, Ends
    <3> QED
      BY <1>0, <3>1, EndsMoves, GroupRecords DEF Quiet
  <2> QED
    BY <2>1, <2>2
<1>3. GroupTypes' /\ CallsShaped' /\ ForeignKeys'
  BY <1>0, <1>1, <1>2, MovesShaped DEF GroupInv, GroupTypes, ForeignKeys, CallMoves
<1>5. ASSUME NEW d \in GroupCallers, NEW h \in GroupIds, Creates(groupCall[d], h)
      PROVE  groupCall'[c].group # h /\ \A i \in Codes : inviteRows'[i].group # h
  BY <1>0, <1>1, <1>2, <1>5, GroupAssumption DEF GroupInv, CreatorsAlone
<1>6. Quiet(groupCall[c])
  BY <1>0 DEF Quiet
<1> QED
  BY <1>1, <1>2, <1>3, <1>5, <1>6, QuietStep DEF CallMoves

LEMMA CountUseStep ==
  ASSUME GroupInv, NEW c \in GroupCallers, CountUse(c)
  PROVE  GroupInv'
<1> DEFINE k == groupCall[c].code
<1>0. GroupTypes /\ groupCall[c] \in CallRecords /\ CallShape(groupCall[c])
      /\ groupCall \in [GroupCallers -> CallRecords] /\ groupCall[c].at = "checked" /\ groupCall[c].op = "join"
  BY DEF GroupInv, GroupTypes, CallsShaped, CountUse, Is
<1>1. /\ UNCHANGED <<groupRows, memberRows, groupCache, mayDiffer, raced, groupCalls, groupFaults>>
      /\ Goes(c, "used")
      /\ inviteRows' = IF inviteRows[k] = NoInvite THEN inviteRows ELSE [inviteRows EXCEPT ![k].uses = @ + 1]
  BY DEF CountUse, groupHistory
<1>2. CallMoves(c) /\ Quiet(groupCall'[c]) /\ groupCall'[c].group = groupCall[c].group
  <2>1. CallShape(groupCall'[c])
    BY <1>0, <1>1, GoesFacts DEF CallShape, MemberOps
  <2> QED
    BY <1>0, <1>1, <2>1, GoesFacts DEF CallMoves, Quiet
<1>3. /\ inviteRows' \in [Codes -> InviteRecords]
      /\ \A i \in Codes : inviteRows'[i].group = inviteRows[i].group
      /\ \A i \in Codes : inviteRows'[i] # NoInvite => inviteRows[i] # NoInvite
  <2>1. inviteRows \in [Codes -> InviteRecords]
    BY <1>0 DEF GroupTypes
  <2>2. CASE inviteRows[k] = NoInvite
    BY <1>1, <2>1, <2>2
  <2>3. CASE k \notin Codes
    BY <1>1, <2>1, <2>3
  <2>4. CASE k \in Codes /\ inviteRows[k] # NoInvite
    <3>1. inviteRows[k] \in InviteRecords
      BY <2>1, <2>4
    <3>2. /\ [inviteRows[k] EXCEPT !.uses = @ + 1] \in InviteRecords
          /\ [inviteRows[k] EXCEPT !.uses = @ + 1].group = inviteRows[k].group
      BY <3>1 DEF InviteRecords
    <3> QED
      BY <1>1, <2>1, <2>4, <3>2
  <2> QED
    BY <2>2, <2>3, <2>4
<1>4. GroupTypes' /\ CallsShaped' /\ ForeignKeys'
  BY <1>0, <1>1, <1>2, <1>3, MovesShaped DEF GroupInv, GroupTypes, ForeignKeys, CallMoves
<1>5. ASSUME NEW d \in GroupCallers, NEW h \in GroupIds, Creates(groupCall[d], h)
      PROVE  groupCall'[c].group # h /\ \A i \in Codes : inviteRows'[i].group # h
  <2>1. d # c
    BY <1>0, <1>5 DEF Creates
  <2> QED
    BY <1>2, <1>3, <1>5, <2>1 DEF GroupInv, CreatorsAlone
<1>6. Quiet(groupCall[c])
  BY <1>0 DEF Quiet
<1> QED
  BY <1>1, <1>2, <1>4, <1>5, <1>6, QuietStep DEF CallMoves

LEMMA CreateInviteStep ==
  ASSUME GroupInv, NEW c \in GroupCallers, NEW k \in Codes, CreateInvite(c, k)
  PROVE  GroupInv'
<1> DEFINE g == groupCall[c].group
<1>0. GroupTypes /\ groupCall[c] \in CallRecords /\ CallShape(groupCall[c])
      /\ groupCall \in [GroupCallers -> CallRecords] /\ groupCall[c].at = "saved" /\ groupCall[c].op = "invite"
      /\ g \in GroupIds /\ inviteRows \in [Codes -> InviteRecords]
  BY DEF GroupInv, GroupTypes, CallsShaped, CreateInvite, Is, CallShape
<1>1. /\ UNCHANGED <<groupRows, memberRows, groupCache, mayDiffer, raced, groupCalls, groupFaults>>
      /\ Ends(c)
      /\ inviteRows' = IF groupRows[g] = NoRow THEN inviteRows
                       ELSE [inviteRows EXCEPT ![k] = [NoInvite EXCEPT !.group = g]]
  BY DEF CreateInvite, groupHistory
<1>2. CallMoves(c) /\ Quiet(groupCall'[c]) /\ groupCall'[c].group = "none"
  BY <1>0, <1>1, EndsMoves, GroupRecords DEF Quiet
<1>3. [NoInvite EXCEPT !.group = g] \in InviteRecords /\ [NoInvite EXCEPT !.group = g].group = g
  BY <1>0 DEF NoInvite, InviteRecords
<1>4. GroupTypes' /\ CallsShaped' /\ ForeignKeys'
  BY <1>0, <1>1, <1>2, <1>3, MovesShaped DEF GroupInv, GroupTypes, ForeignKeys, CallMoves
<1>5. ASSUME NEW d \in GroupCallers, NEW h \in GroupIds, Creates(groupCall[d], h)
      PROVE  groupCall'[c].group # h /\ \A i \in Codes : inviteRows'[i].group # h
  <2>1. d # c
    BY <1>0, <1>5 DEF Creates
  <2>2. g # h /\ \A i \in Codes : inviteRows[i].group # h
    BY <1>5, <2>1 DEF GroupInv, CreatorsAlone
  <2> QED
    BY <1>0, <1>1, <1>2, <1>3, <2>2, GroupAssumption
<1>6. Quiet(groupCall[c])
  BY <1>0 DEF Quiet
<1> QED
  BY <1>1, <1>2, <1>4, <1>5, <1>6, QuietStep DEF CallMoves

LEMMA EditStep ==
  ASSUME GroupInv, NEW c \in GroupCallers, UpdateRow(c) \/ UpdateCopy(c)
  PROVE  GroupInv'
<1> DEFINE g == groupCall[c].group
<1>0. /\ GroupTypes /\ groupCall[c] \in CallRecords /\ CallShape(groupCall[c])
      /\ groupCall \in [GroupCallers -> CallRecords] /\ groupCall[c].op = "edit" /\ g \in GroupIds
      /\ groupCall[c].at \in {"saved", "copy"} /\ groupCall[c].who = NoKey
      /\ groupCall[c].privacy \in Privacies
  BY DEF GroupInv, GroupTypes, CallsShaped, UpdateRow, UpdateCopy, Is, CallShape, CallRecords
<1>1. /\ UNCHANGED <<memberRows, inviteRows, mayDiffer, raced, groupCalls, groupFaults>>
      /\ Ends(c) \/ Goes(c, "copy")
  BY DEF UpdateRow, UpdateCopy, tables, groupHistory
<1>2. /\ CallMoves(c) /\ Quiet(groupCall'[c])
      /\ groupCall'[c].group \in {"none", g}
  <2>1. CASE Ends(c)
    BY <1>0, <2>1, EndsMoves, GroupRecords DEF Quiet
  <2>2. CASE Goes(c, "copy")
    <3>1. CallShape(groupCall'[c])
      BY <1>0, <2>2, GoesFacts DEF CallShape, MemberOps
    <3> QED
      BY <1>0, <2>2, <3>1, GoesFacts DEF CallMoves, Quiet
  <2> QED
    BY <1>1, <2>1, <2>2
<1>3. /\ groupRows' \in [GroupIds -> RowRecords]
      /\ \A h \in GroupIds : groupRows'[h] = NoRow <=> groupRows[h] = NoRow
      /\ \A h \in GroupIds : groupRows'[h].by = groupRows[h].by
  <2>0. groupRows \in [GroupIds -> RowRecords]
    BY <1>0 DEF GroupTypes
  <2>1. CASE groupRows' = groupRows
    BY <2>0, <2>1
  <2>2. CASE groupRows[g] # NoRow /\ groupRows' = [groupRows EXCEPT ![g].privacy = groupCall[c].privacy]
    <3>1. groupRows[g] \in RowRecords /\ groupRows[g].by \in Pubkeys
      BY <1>0, <2>0, <2>2 DEF GroupInv, ForeignKeys
    <3> DEFINE X == [groupRows[g] EXCEPT !.privacy = groupCall[c].privacy]
    <3>2. X \in RowRecords /\ X.by = groupRows[g].by /\ groupRows' = [groupRows EXCEPT ![g] = X]
      BY <1>0, <2>2, <3>1 DEF RowRecords
    <3> HIDE DEF X
    <3>3. X # NoRow
      BY <3>1, <3>2, GroupAssumption, GroupRecords
    <3> QED
      BY <2>0, <2>2, <3>2, <3>3
  <2> QED
    BY <2>1, <2>2 DEF UpdateRow, UpdateCopy, tables
<1>4. /\ groupCache' \in [GroupIds -> CopyStates]
      /\ \A h \in GroupIds : /\ groupCache'[h].known = groupCache[h].known
                             /\ groupCache'[h].members = groupCache[h].members
                             /\ groupCache'[h].admins = groupCache[h].admins
  <2>0. groupCache \in [GroupIds -> CopyStates] /\ groupCache[g] \in CopyStates
    BY <1>0 DEF GroupTypes
  <2>1. CASE groupCache' = groupCache
    BY <2>0, <2>1
  <2>2. CASE groupCache' = [groupCache EXCEPT ![g].privacy = groupCall[c].privacy]
    BY <1>0, <2>0, <2>2 DEF CopyStates
  <2> QED
    BY <2>1, <2>2 DEF UpdateRow, UpdateCopy
<1>5. GroupTypes' /\ CallsShaped'
  BY <1>0, <1>1, <1>2, <1>3, <1>4, MovesShaped DEF GroupInv, GroupTypes, CallMoves
<1>6. ForeignKeys'
  BY <1>1, <1>3 DEF GroupInv, ForeignKeys
<1>7. ASSUME NEW d \in GroupCallers, NEW h \in GroupIds, Creates(groupCall[d], h)
      PROVE  groupCall'[c].group # h /\ \A k \in Codes : inviteRows'[k].group # h
  <2>1. d # c
    BY <1>0, <1>7 DEF Creates
  <2> QED
    BY <1>1, <1>2, <1>7, <2>1, GroupAssumption DEF GroupInv, CreatorsAlone
<1>8. Quiet(groupCall[c])
  BY <1>0 DEF Quiet
<1> QED
  BY <1>1, <1>2, <1>3, <1>4, <1>5, <1>6, <1>7, <1>8, QuietStep DEF CallMoves

LEMMA InviteExpiresStep ==
  ASSUME GroupInv, NEW k \in Codes, InviteExpires(k)
  PROVE  GroupInv'
<1>0. /\ inviteRows \in [Codes -> InviteRecords] /\ inviteRows[k] # NoInvite
      /\ inviteRows' = [inviteRows EXCEPT ![k].expired = TRUE]
      /\ UNCHANGED <<groupRows, memberRows, groupCache, groupCall, mayDiffer, raced, groupCalls, groupFaults>>
  BY DEF InviteExpires, GroupInv, GroupTypes, groupHistory
<1>1. [inviteRows[k] EXCEPT !.expired = TRUE] \in InviteRecords
      /\ [inviteRows[k] EXCEPT !.expired = TRUE].group = inviteRows[k].group
  BY <1>0 DEF InviteRecords
<1>2. /\ inviteRows' \in [Codes -> InviteRecords]
      /\ \A i \in Codes : inviteRows'[i].group = inviteRows[i].group
      /\ \A i \in Codes : inviteRows'[i] # NoInvite => inviteRows[i] # NoInvite
  BY <1>0, <1>1
<1>3. GroupTypes' /\ ForeignKeys' /\ CreatorsAlone'
  BY <1>0, <1>2 DEF GroupInv, GroupTypes, ForeignKeys, CreatorsAlone
<1> QED
  BY <1>0, <1>3 DEF GroupInv, CallsShaped, KnownGroups, OneAtATime, TouchedWillAgree, WillAgree,
     DeletesAreDone, Is, GroupViewsAgree, Settled, CopyAgrees

\* A visit of the tables, by a request that will visit the copy.
LEMMA RowStep ==
  ASSUME GroupInv, GroupTypes', CallsShaped', ForeignKeys', NEW c \in GroupCallers, CallMoves(c),
         Quiet(groupCall[c]), groupCall[c].op \in {"delete"} \union MemberOps,
         groupCall'[c] = [groupCall[c] EXCEPT !.at = "copy"], groupCall[c] \in CallRecords,
         groupCache' = groupCache, mayDiffer \subseteq mayDiffer',
         \A k \in Codes : inviteRows'[k].group \in {"none", inviteRows[k].group},
         \A p \in Pubkeys, d \in GroupCallers :
            Touches(groupCall'[c], groupCall[c].group, p) /\ Touches(groupCall[d], groupCall[c].group, p)
              /\ d # c => <<groupCall[c].group, p>> \in mayDiffer',
         \A h \in GroupIds, p \in Pubkeys :
            ~Touches(groupCall'[c], h, p) => memberRows'[h][p] = memberRows[h][p],
         \A h \in GroupIds : groupRows'[h] = groupRows[h] \/ (h = groupCall[c].group /\ groupRows'[h] = NoRow),
         groupCall[c].op = "delete" => groupRows'[groupCall[c].group] = NoRow,
         \A p \in Pubkeys : Touches(groupCall'[c], groupCall[c].group, p)
                              /\ <<groupCall[c].group, p>> \notin mayDiffer'
                              => WillAgree(groupCall[c], groupCall[c].group, p)'
  PROVE  GroupInv'
<1> DEFINE g == groupCall[c].group
<1> USE DEF GroupInv
<1>0. /\ groupCall'[c].at = "copy" /\ groupCall'[c].op = groupCall[c].op /\ groupCall'[c].group = g
      /\ groupCall'[c].op # "create" /\ groupCall'[c].op # "edit" /\ g \in GroupIds
      /\ groupCall[c].at \notin {"copy", "creator"}
  BY DEF CallRecords, MemberOps, CallsShaped, CallShape, Quiet
<1>1. \A d \in GroupCallers : d # c => groupCall'[d] = groupCall[d]
  BY DEF CallMoves
<1>2. \A d \in GroupCallers, h \in GroupIds : Creates(groupCall'[d], h) <=> d # c /\ Creates(groupCall[d], h)
  BY <1>0, <1>1 DEF Creates
<1>3. \A d \in GroupCallers, h \in GroupIds : ~ (d = c /\ Creates(groupCall[d], h))
  BY <1>0 DEF Creates
<1>4. \A h, p : ~Touches(groupCall[c], h, p) /\ (Touches(groupCall'[c], h, p) => h = g)
  BY <1>0 DEF Touches
<1>5. CreatorsAlone'
  <2> SUFFICES ASSUME NEW e \in GroupCallers, NEW h \in GroupIds, Creates(groupCall'[e], h)
               PROVE  /\ groupRows'[h] # NoRow /\ ~groupCache'[h].known
                      /\ \A d \in GroupCallers : d # e => groupCall'[d].group # h
                      /\ \A k \in Codes : inviteRows'[k].group # h
                      /\ \A p \in Pubkeys : memberRows'[h][p] =
                           IF groupCall'[e].at = "copy" /\ p = groupCall'[e].actor THEN "admin" ELSE "absent"
    BY DEF CreatorsAlone
  <2>1. e # c /\ Creates(groupCall[e], h) /\ groupCall'[e] = groupCall[e]
    BY <1>1, <1>2
  <2>2. /\ groupRows[h] # NoRow /\ ~groupCache[h].known
        /\ \A d \in GroupCallers : d # e => groupCall[d].group # h
        /\ \A k \in Codes : inviteRows[k].group # h
        /\ \A p \in Pubkeys : memberRows[h][p] =
             IF groupCall[e].at = "copy" /\ p = groupCall[e].actor THEN "admin" ELSE "absent"
    BY <2>1 DEF CreatorsAlone
  <2>3. h # g /\ "none" # h
    BY <2>1, <2>2, GroupAssumption
  <2>4. \A d \in GroupCallers : d # e => groupCall'[d].group # h
    <3> TAKE d \in GroupCallers
    <3>1. CASE d = c
      BY <1>0, <2>3, <3>1
    <3>2. CASE d # c
      BY <1>1, <2>2, <3>2
    <3> QED
      BY <3>1, <3>2
  <2> QED
    BY <1>4, <2>1, <2>2, <2>3, <2>4
<1>6. KnownGroups'
  <2> SUFFICES ASSUME NEW h \in GroupIds, groupRows'[h] # NoRow
               PROVE  \/ groupCache'[h].known
                      \/ \E d \in GroupCallers : Creates(groupCall'[d], h)
                      \/ \A p \in Pubkeys : <<h, p>> \in mayDiffer'
    BY DEF KnownGroups
  <2>1. groupRows[h] # NoRow
    OBVIOUS
  <2> QED
    BY <1>2, <1>3, <2>1 DEF KnownGroups
<1>7. OneAtATime'
  <2> SUFFICES ASSUME NEW e \in GroupCallers, NEW d \in GroupCallers, NEW h \in GroupIds, NEW p \in Pubkeys,
                      Touches(groupCall'[e], h, p), Touches(groupCall'[d], h, p), e # d
               PROVE  <<h, p>> \in mayDiffer'
    BY DEF OneAtATime
  <2>1. CASE e = c
    BY <1>1, <1>4, <2>1
  <2>2. CASE d = c
    BY <1>1, <1>4, <2>2
  <2>3. CASE e # c /\ d # c
    BY <1>1, <2>3 DEF OneAtATime
  <2> QED
    BY <2>1, <2>2, <2>3
<1>8. TouchedWillAgree'
  <2> SUFFICES ASSUME NEW e \in GroupCallers, NEW h \in GroupIds, NEW p \in Pubkeys,
                      Touches(groupCall'[e], h, p), <<h, p>> \notin mayDiffer'
               PROVE  WillAgree(groupCall[e], h, p)'
    BY DEF TouchedWillAgree
  <2>1. CASE e = c
    <3>1. h = g /\ Touches(groupCall'[c], g, p) /\ <<g, p>> \notin mayDiffer'
      BY <1>4, <2>1
    <3>2. WillAgree(groupCall[c], groupCall[c].group, p)'
      BY <3>1
    <3>3. (groupCall[c].group)' = h
      BY <1>0, <3>1
    <3> QED
      BY <2>1, <3>2, <3>3 DEF WillAgree
  <2>2. CASE e # c
    <3>1. Touches(groupCall[e], h, p) /\ groupCall'[e] = groupCall[e] /\ <<h, p>> \notin mayDiffer
      BY <1>1, <2>2
    <3>2. ~Touches(groupCall'[c], h, p)
      BY <1>4, <2>2, <3>1
    <3>3. memberRows'[h][p] = memberRows[h][p] /\ WillAgree(groupCall[e], h, p)
      BY <3>1, <3>2 DEF TouchedWillAgree
    <3> QED
      BY <3>1, <3>3 DEF WillAgree
  <2> QED
    BY <2>1, <2>2
<1>9. DeletesAreDone'
  <2> SUFFICES ASSUME NEW e \in GroupCallers, groupCall'[e].op = "delete", groupCall'[e].at = "copy"
               PROVE  groupRows'[groupCall'[e].group] = NoRow
    BY DEF DeletesAreDone, Is
  <2>1. CASE e = c
    BY <1>0, <2>1
  <2>2. CASE e # c
    <3>1. groupCall'[e] = groupCall[e] /\ groupCall[e].group \in GroupIds
      BY <1>1, <2>2 DEF CallsShaped, CallShape
    <3> QED
      BY <3>1 DEF DeletesAreDone, Is
  <2> QED
    BY <2>1, <2>2
<1>10. GroupViewsAgree'
  <2> SUFFICES ASSUME NEW h \in GroupIds, NEW p \in Pubkeys, Settled(h, p)', <<h, p>> \notin mayDiffer'
               PROVE  CopyAgrees(h, p)'
    BY DEF GroupViewsAgree
  <2>1. ~Touches(groupCall'[c], h, p)
    BY DEF Settled
  <2>2. Settled(h, p)
    BY <1>0, <1>1, <1>4 DEF Settled
  <2>3. CopyAgrees(h, p) /\ memberRows'[h][p] = memberRows[h][p]
    BY <2>1, <2>2 DEF GroupViewsAgree
  <2> QED
    BY <2>3 DEF CopyAgrees
<1> QED
  BY <1>5, <1>6, <1>7, <1>8, <1>9, <1>10

\* The visit of the copy that follows.
LEMMA CopyStep ==
  ASSUME GroupInv, GroupTypes', CallsShaped', NEW c \in GroupCallers, Ends(c),
         groupCall[c].at = "copy", groupCall[c].op \in {"delete"} \union MemberOps,
         UNCHANGED <<groupRows, memberRows, inviteRows, mayDiffer>>,
         \A h \in GroupIds : h # groupCall[c].group => groupCache'[h] = groupCache[h],
         groupCall[c].op = "delete" \/ groupCache'[groupCall[c].group].known = groupCache[groupCall[c].group].known,
         \A p \in Pubkeys :
            IF Touches(groupCall[c], groupCall[c].group, p)
            THEN <<groupCall[c].group, p>> \notin mayDiffer =>
                   /\ p \in groupCache'[groupCall[c].group].members <=> memberRows[groupCall[c].group][p] # "absent"
                   /\ p \in groupCache'[groupCall[c].group].admins <=> memberRows[groupCall[c].group][p] = "admin"
            ELSE /\ p \in groupCache'[groupCall[c].group].members <=> p \in groupCache[groupCall[c].group].members
                 /\ p \in groupCache'[groupCall[c].group].admins <=> p \in groupCache[groupCall[c].group].admins
  PROVE  GroupInv'
<1> DEFINE g == groupCall[c].group
<1> USE DEF GroupInv
<1>0. /\ groupCall'[c] = NoCall /\ \A d \in GroupCallers : d # c => groupCall'[d] = groupCall[d]
      /\ groupCall[c] \in CallRecords /\ g \in GroupIds /\ groupCall[c].op # "create"
  BY EndsFacts DEF GroupTypes, CallsShaped, CallShape, MemberOps
<1>1. \A h, p : ~Touches(groupCall'[c], h, p) /\ (Touches(groupCall[c], h, p) => h = g)
  BY <1>0, GroupRecords DEF Touches
<1>2. \A d \in GroupCallers, h \in GroupIds :
         (Creates(groupCall'[d], h) <=> d # c /\ Creates(groupCall[d], h)) /\ ~(d = c /\ Creates(groupCall[d], h))
  BY <1>0, GroupRecords DEF Creates
<1>3. groupCall[c].op = "delete" => groupRows[g] = NoRow /\ \A p \in Pubkeys : Touches(groupCall[c], g, p)
  BY DEF DeletesAreDone, Is, Touches
<1>4. ForeignKeys'
  BY DEF ForeignKeys
<1>5. CreatorsAlone'
  <2> SUFFICES ASSUME NEW e \in GroupCallers, NEW h \in GroupIds, Creates(groupCall'[e], h)
               PROVE  /\ groupRows[h] # NoRow /\ ~groupCache'[h].known
                      /\ \A d \in GroupCallers : d # e => groupCall'[d].group # h
                      /\ \A k \in Codes : inviteRows[k].group # h
                      /\ \A p \in Pubkeys : memberRows[h][p] =
                           IF groupCall'[e].at = "copy" /\ p = groupCall'[e].actor THEN "admin" ELSE "absent"
    BY DEF CreatorsAlone
  <2>1. e # c /\ Creates(groupCall[e], h) /\ groupCall'[e] = groupCall[e]
    BY <1>0, <1>2
  <2>2. /\ groupRows[h] # NoRow /\ ~groupCache[h].known
        /\ \A d \in GroupCallers : d # e => groupCall[d].group # h
        /\ \A k \in Codes : inviteRows[k].group # h
        /\ \A p \in Pubkeys : memberRows[h][p] =
             IF groupCall[e].at = "copy" /\ p = groupCall[e].actor THEN "admin" ELSE "absent"
    BY <2>1 DEF CreatorsAlone
  <2>3. h # g /\ "none" # h
    BY <2>1, <2>2, GroupAssumption
  <2>4. \A d \in GroupCallers : d # e => groupCall'[d].group # h
    BY <1>0, <2>2, <2>3, GroupRecords
  <2> QED
    BY <2>1, <2>2, <2>3, <2>4
<1>6. KnownGroups'
  <2> SUFFICES ASSUME NEW h \in GroupIds, groupRows[h] # NoRow
               PROVE  \/ groupCache'[h].known
                      \/ \E d \in GroupCallers : Creates(groupCall'[d], h)
                      \/ \A p \in Pubkeys : <<h, p>> \in mayDiffer
    BY DEF KnownGroups
  <2>1. groupCache'[h].known = groupCache[h].known
    BY <1>3
  <2> QED
    BY <1>2, <2>1 DEF KnownGroups
<1>7. OneAtATime'
  <2>1. \A d \in GroupCallers : \A h, p : Touches(groupCall'[d], h, p) => Touches(groupCall[d], h, p)
    BY <1>0, <1>1
  <2> QED
    BY <2>1 DEF OneAtATime
<1>8. TouchedWillAgree'
  <2> SUFFICES ASSUME NEW e \in GroupCallers, NEW h \in GroupIds, NEW p \in Pubkeys,
                      Touches(groupCall'[e], h, p), <<h, p>> \notin mayDiffer
               PROVE  WillAgree(groupCall[e], h, p)'
    BY DEF TouchedWillAgree
  <2>1. e # c /\ Touches(groupCall[e], h, p) /\ groupCall'[e] = groupCall[e]
    BY <1>0, <1>1
  <2>2. ~Touches(groupCall[c], h, p) /\ WillAgree(groupCall[e], h, p)
    BY <2>1 DEF OneAtATime, TouchedWillAgree
  <2>3. groupCache'[h].known = groupCache[h].known /\ (p \in groupCache'[h].admins <=> p \in groupCache[h].admins)
    BY <1>3, <2>2
  <2> QED
    BY <2>1, <2>2, <2>3 DEF WillAgree
<1>9. DeletesAreDone'
  BY <1>0, GroupRecords DEF DeletesAreDone, Is
<1>10. GroupViewsAgree'
  <2> SUFFICES ASSUME NEW h \in GroupIds, NEW p \in Pubkeys, Settled(h, p)', <<h, p>> \notin mayDiffer
               PROVE  CopyAgrees(h, p)'
    BY DEF GroupViewsAgree
  <2>1. CASE Touches(groupCall[c], h, p)
    <3>1. h = g
      BY <1>1, <2>1
    <3> QED
      BY <2>1, <3>1 DEF CopyAgrees
  <2>2. CASE ~Touches(groupCall[c], h, p)
    <3>1. Settled(h, p)
      BY <1>0, <2>2 DEF Settled
    <3>2. /\ p \in groupCache'[h].members <=> p \in groupCache[h].members
          /\ p \in groupCache'[h].admins <=> p \in groupCache[h].admins
      BY <2>2
    <3> QED
      BY <3>1, <3>2 DEF GroupViewsAgree, CopyAgrees
  <2> QED
    BY <2>1, <2>2
<1> QED
  BY <1>4, <1>5, <1>6, <1>7, <1>8, <1>9, <1>10

LEMMA InsertGroupStep ==
  ASSUME GroupInv, NEW c \in GroupCallers, NEW g \in GroupIds, InsertGroup(c, g)
  PROVE  GroupInv'
<1> USE DEF GroupInv
<1>0. /\ groupCall[c] \in CallRecords /\ CallShape(groupCall[c]) /\ groupCall \in [GroupCallers -> CallRecords]
      /\ groupCall[c].at = "insert" /\ groupCall[c].op = "create" /\ groupCall[c].actor \in Pubkeys
      /\ groupCall[c].privacy \in Privacies
      /\ groupRows[g] = NoRow /\ ~groupCache[g].known /\ \A d \in GroupCallers : groupCall[d].group # g
      /\ UNCHANGED <<memberRows, inviteRows, groupCache, mayDiffer, raced, groupCalls, groupFaults>>
      /\ memberRows[g] = Nobodies
  BY DEF GroupTypes, CallsShaped, InsertGroup, Is, CallShape, CallRecords, groupHistory, ForeignKeys
<1> DEFINE X == [[groupCall[c] EXCEPT !.at = "creator"] EXCEPT !.group = g]
           Y == [by |-> groupCall[c].actor, privacy |-> groupCall[c].privacy]
<1>1. groupCall' = [groupCall EXCEPT ![c] = X] /\ groupRows' = [groupRows EXCEPT ![g] = Y]
  BY <1>0 DEF InsertGroup
<1>2. /\ X \in CallRecords /\ X.at = "creator" /\ X.op = "create" /\ X.group = g
      /\ X.actor \in Pubkeys
  BY <1>0 DEF CallRecords
<1>3. Y \in RowRecords /\ Y.by \in Pubkeys
  BY <1>0 DEF RowRecords
<1>4. Y # NoRow
  BY <1>3, GroupRecords, GroupAssumption
<1> HIDE DEF X, Y
<1>5. CallShape(X)
  BY <1>2 DEF CallShape, MemberOps
<1>6. CallMoves(c) /\ groupCall'[c] = X
  BY <1>0, <1>1, <1>2, <1>5 DEF CallMoves
<1>7. GroupTypes' /\ CallsShaped'
  BY <1>0, <1>1, <1>3, <1>6, MovesShaped DEF GroupTypes, CallMoves
<1>8. /\ \A d \in GroupCallers : d # c => groupCall'[d] = groupCall[d]
      /\ groupRows'[g] = Y /\ \A h \in GroupIds : h # g => groupRows'[h] = groupRows[h]
  BY <1>1, <1>6 DEF CallMoves, GroupTypes
<1>9. \A k \in Codes : inviteRows[k].group # g
  <2> TAKE k \in Codes
  <2>1. CASE inviteRows[k] = NoInvite
    <3>1. NoInvite.group = "none" /\ "none" # g
      BY GroupAssumption DEF NoInvite
    <3> QED
      BY <2>1, <3>1
  <2>2. CASE inviteRows[k] # NoInvite
    BY <1>0, <2>2 DEF ForeignKeys
  <2> QED
    BY <2>1, <2>2
<1>10. ForeignKeys'
  BY <1>0, <1>3, <1>4, <1>8 DEF ForeignKeys
<1>11. \A d \in GroupCallers : \A h, p :
          (Touches(groupCall'[d], h, p) <=> Touches(groupCall[d], h, p)) /\ ~(d = c /\ Touches(groupCall[d], h, p))
  BY <1>0, <1>2, <1>6, <1>8 DEF Touches
<1>12. CreatorsAlone'
  <2> SUFFICES ASSUME NEW e \in GroupCallers, NEW h \in GroupIds, Creates(groupCall'[e], h)
               PROVE  /\ groupRows'[h] # NoRow /\ ~groupCache[h].known
                      /\ \A d \in GroupCallers : d # e => groupCall'[d].group # h
                      /\ \A k \in Codes : inviteRows[k].group # h
                      /\ \A p \in Pubkeys : memberRows[h][p] =
                           IF groupCall'[e].at = "copy" /\ p = groupCall'[e].actor THEN "admin" ELSE "absent"
    BY <1>0 DEF CreatorsAlone
  <2>1. CASE e = c
    <3>1. h = g
      BY <1>2, <1>6, <2>1 DEF Creates
    <3> QED
      BY <1>0, <1>2, <1>4, <1>6, <1>8, <1>9, <2>1, <3>1 DEF Nobodies
  <2>2. CASE e # c
    <3>1. groupCall'[e] = groupCall[e] /\ Creates(groupCall[e], h) /\ groupCall[e].group = h
      BY <1>8, <2>2 DEF Creates
    <3>2. h # g
      BY <1>0, <3>1
    <3> QED
      BY <1>2, <1>6, <1>8, <3>1, <3>2 DEF CreatorsAlone
  <2> QED
    BY <2>1, <2>2
<1>13. KnownGroups'
  <2> SUFFICES ASSUME NEW h \in GroupIds, groupRows'[h] # NoRow
               PROVE  \/ groupCache[h].known
                      \/ \E d \in GroupCallers : Creates(groupCall'[d], h)
                      \/ \A p \in Pubkeys : <<h, p>> \in mayDiffer
    BY <1>0 DEF KnownGroups
  <2>1. CASE h = g
    BY <1>2, <1>6, <2>1 DEF Creates
  <2>2. CASE h # g
    <3>1. \A d \in GroupCallers : Creates(groupCall[d], h) => Creates(groupCall'[d], h)
      BY <1>0, <1>8 DEF Creates
    <3> QED
      BY <1>8, <2>2, <3>1 DEF KnownGroups
  <2> QED
    BY <2>1, <2>2
<1>14. OneAtATime'
  BY <1>0, <1>11 DEF OneAtATime
<1>15. TouchedWillAgree'
  <2> SUFFICES ASSUME NEW e \in GroupCallers, NEW h \in GroupIds, NEW p \in Pubkeys,
                      Touches(groupCall'[e], h, p), <<h, p>> \notin mayDiffer
               PROVE  WillAgree(groupCall[e], h, p)'
    BY <1>0 DEF TouchedWillAgree
  <2>1. Touches(groupCall[e], h, p) /\ groupCall'[e] = groupCall[e]
    BY <1>8, <1>11
  <2> QED
    BY <1>0, <2>1 DEF TouchedWillAgree, WillAgree
<1>16. DeletesAreDone'
  <2> SUFFICES ASSUME NEW e \in GroupCallers, groupCall'[e].op = "delete", groupCall'[e].at = "copy"
               PROVE  groupRows'[groupCall'[e].group] = NoRow
    BY DEF DeletesAreDone, Is
  <2>1. e # c
    BY <1>2, <1>6
  <2>2. groupCall'[e] = groupCall[e] /\ groupCall[e].group \in GroupIds /\ groupCall[e].group # g
    BY <1>0, <1>8, <2>1 DEF CallsShaped, CallShape
  <2> QED
    BY <1>8, <2>2 DEF DeletesAreDone, Is
<1>17. GroupViewsAgree'
  <2>1. \A h \in GroupIds, p \in Pubkeys : Settled(h, p)' => Settled(h, p)
    BY <1>0, <1>8, <1>11 DEF Settled
  <2> QED
    BY <1>0, <2>1 DEF GroupViewsAgree, CopyAgrees
<1> QED
  BY <1>7, <1>10, <1>12, <1>13, <1>14, <1>15, <1>16, <1>17

LEMMA InsertCreatorStep ==
  ASSUME GroupInv, NEW c \in GroupCallers, InsertCreator(c)
  PROVE  GroupInv'
<1> DEFINE g == groupCall[c].group
           a == groupCall[c].actor
<1> USE DEF GroupInv
<1>0. /\ groupCall[c] \in CallRecords /\ CallShape(groupCall[c]) /\ groupCall \in [GroupCallers -> CallRecords]
      /\ groupCall[c].at = "creator" /\ groupCall[c].op = "create" /\ a \in Pubkeys /\ g \in GroupIds
      /\ UNCHANGED <<groupRows, inviteRows, groupCache, raced, groupCalls>>
      /\ \/ /\ memberRows' = [memberRows EXCEPT ![g][a] = "admin"] /\ Goes(c, "copy")
            /\ mayDiffer' = mayDiffer /\ groupFaults' = groupFaults
         \/ /\ Ends(c) /\ memberRows' = memberRows /\ mayDiffer' = mayDiffer \union ({g} \X Pubkeys)
            /\ groupFaults < MaxGroupFaults /\ groupFaults' = groupFaults + 1
  BY DEF GroupTypes, CallsShaped, InsertCreator, Is, CallShape, Fails
<1>1. Creates(groupCall[c], g)
  BY <1>0 DEF Creates
<1>2. /\ groupRows[g] # NoRow /\ ~groupCache[g].known
      /\ \A d \in GroupCallers : d # c => groupCall[d].group # g
      /\ \A k \in Codes : inviteRows[k].group # g
      /\ \A p \in Pubkeys : memberRows[g][p] = "absent"
  BY <1>0, <1>1 DEF CreatorsAlone
<1>3. CASE Goes(c, "copy") /\ memberRows' = [memberRows EXCEPT ![g][a] = "admin"]
           /\ mayDiffer' = mayDiffer /\ groupFaults' = groupFaults
  <2>1. /\ \A d \in GroupCallers : d # c => groupCall'[d] = groupCall[d]
        /\ groupCall'[c].at = "copy" /\ groupCall'[c].op = "create" /\ groupCall'[c].group = g
        /\ groupCall'[c].actor = a /\ groupCall'[c].who = groupCall[c].who
        /\ groupCall' \in [GroupCallers -> CallRecords]
    BY <1>0, <1>3, GoesFacts
  <2>2. CallMoves(c)
    BY <1>0, <2>1 DEF CallMoves, CallShape, MemberOps
  <2>3. /\ memberRows' \in [GroupIds -> [Pubkeys -> MemberRole]]
        /\ \A h \in GroupIds : h # g => memberRows'[h] = memberRows[h]
        /\ \A p \in Pubkeys : memberRows'[g][p] = IF p = a THEN "admin" ELSE "absent"
    BY <1>0, <1>2, <1>3 DEF GroupTypes, MemberRole
  <2>4. GroupTypes' /\ CallsShaped'
    BY <1>0, <1>3, <2>1, <2>2, <2>3, MovesShaped DEF GroupTypes
  <2>5. ForeignKeys'
    BY <1>0, <1>2, <2>3 DEF ForeignKeys
  <2>6. \A d \in GroupCallers, h \in GroupIds : Creates(groupCall'[d], h) <=> Creates(groupCall[d], h)
    BY <1>0, <2>1 DEF Creates
  <2>7. CreatorsAlone'
    <3> SUFFICES ASSUME NEW e \in GroupCallers, NEW h \in GroupIds, Creates(groupCall'[e], h)
                 PROVE  /\ groupRows[h] # NoRow /\ ~groupCache[h].known
                        /\ \A d \in GroupCallers : d # e => groupCall'[d].group # h
                        /\ \A k \in Codes : inviteRows[k].group # h
                        /\ \A p \in Pubkeys : memberRows'[h][p] =
                             IF groupCall'[e].at = "copy" /\ p = groupCall'[e].actor THEN "admin" ELSE "absent"
      BY <1>0 DEF CreatorsAlone
    <3>1. CASE e = c
      <4>1. h = g
        BY <2>1, <3>1 DEF Creates
      <4> QED
        BY <1>2, <2>1, <2>3, <3>1, <4>1
    <3>2. CASE e # c
      <4>1. groupCall'[e] = groupCall[e] /\ Creates(groupCall[e], h) /\ h # g
        BY <1>2, <2>1, <3>2 DEF Creates
      <4>2. /\ groupRows[h] # NoRow /\ ~groupCache[h].known
            /\ \A d \in GroupCallers : d # e => groupCall[d].group # h
            /\ \A k \in Codes : inviteRows[k].group # h
            /\ \A p \in Pubkeys : memberRows[h][p] =
                 IF groupCall[e].at = "copy" /\ p = groupCall[e].actor THEN "admin" ELSE "absent"
        BY <4>1 DEF CreatorsAlone
      <4>3. \A d \in GroupCallers : d # e => groupCall'[d].group # h
        <5> TAKE d \in GroupCallers
        <5>1. CASE d = c
          BY <2>1, <4>1, <5>1
        <5>2. CASE d # c
          BY <2>1, <4>2, <5>2
        <5> QED
          BY <5>1, <5>2
      <4>4. memberRows'[h] = memberRows[h]
        BY <2>3, <4>1
      <4> QED
        BY <4>1, <4>2, <4>3, <4>4
    <3> QED
      BY <3>1, <3>2
  <2>8. KnownGroups'
    BY <1>0, <1>3, <2>6 DEF KnownGroups
  <2>9. \A d \in GroupCallers : d # c => \A p : ~Touches(groupCall'[d], g, p)
    BY <1>2, <2>1 DEF Touches
  <2>10. \A h, p : Touches(groupCall'[c], h, p) => h = g
    BY <2>1 DEF Touches
  <2>11. OneAtATime'
    <3> SUFFICES ASSUME NEW e \in GroupCallers, NEW d \in GroupCallers, NEW h \in GroupIds, NEW p \in Pubkeys,
                        Touches(groupCall'[e], h, p), Touches(groupCall'[d], h, p), e # d
                 PROVE  <<h, p>> \in mayDiffer
      BY <1>3 DEF OneAtATime
    <3>1. e # c /\ d # c
      BY <2>9, <2>10
    <3> QED
      BY <2>1, <3>1 DEF OneAtATime
  <2>12. TouchedWillAgree'
    <3> SUFFICES ASSUME NEW e \in GroupCallers, NEW h \in GroupIds, NEW p \in Pubkeys,
                        Touches(groupCall'[e], h, p), <<h, p>> \notin mayDiffer
                 PROVE  WillAgree(groupCall[e], h, p)'
      BY <1>3 DEF TouchedWillAgree
    <3>1. CASE e = c
      BY <2>1, <3>1 DEF WillAgree
    <3>2. CASE e # c
      <4>1. groupCall'[e] = groupCall[e] /\ h # g
        BY <2>1, <2>9, <3>2
      <4>2. Touches(groupCall[e], h, p)
        BY <4>1
      <4>3. WillAgree(groupCall[e], h, p) /\ memberRows'[h] = memberRows[h] /\ groupCache' = groupCache
        BY <1>0, <2>3, <4>1, <4>2 DEF TouchedWillAgree
      <4> QED
        BY <4>1, <4>3 DEF WillAgree
    <3> QED
      BY <3>1, <3>2
  <2>13. DeletesAreDone'
    BY <1>0, <2>1 DEF DeletesAreDone, Is
  <2>14. GroupViewsAgree'
    <3> SUFFICES ASSUME NEW h \in GroupIds, NEW p \in Pubkeys, Settled(h, p)', <<h, p>> \notin mayDiffer
                 PROVE  CopyAgrees(h, p)'
      BY <1>3 DEF GroupViewsAgree
    <3>1. h # g
      BY <2>1 DEF Settled, Touches
    <3>2. Settled(h, p)
      BY <1>0, <2>1, <3>1 DEF Settled, Touches
    <3> QED
      BY <1>0, <2>3, <3>1, <3>2 DEF GroupViewsAgree, CopyAgrees
  <2> QED
    BY <2>4, <2>5, <2>7, <2>8, <2>11, <2>12, <2>13, <2>14
<1>4. CASE Ends(c) /\ memberRows' = memberRows /\ mayDiffer' = mayDiffer \union ({g} \X Pubkeys)
           /\ groupFaults < MaxGroupFaults /\ groupFaults' = groupFaults + 1
  <2>1. CallMoves(c) /\ groupCall'[c] = NoCall /\ \A d \in GroupCallers : d # c => groupCall'[d] = groupCall[d]
    BY <1>4, EndsMoves DEF CallMoves
  <2>2. GroupTypes' /\ CallsShaped' /\ ForeignKeys'
    BY <1>0, <1>4, <2>1, MovesShaped, GroupAssumption DEF GroupTypes, CallMoves, ForeignKeys
  <2>3. \A d \in GroupCallers : \A h, p :
          Touches(groupCall'[d], h, p) => Touches(groupCall[d], h, p) /\ groupCall'[d] = groupCall[d]
    BY <2>1, GroupRecords DEF Touches
  <2>4. \A d \in GroupCallers, h \in GroupIds :
          /\ Creates(groupCall'[d], h) => Creates(groupCall[d], h) /\ groupCall'[d] = groupCall[d] /\ d # c
          /\ Creates(groupCall[d], h) /\ h # g => Creates(groupCall'[d], h)
    BY <2>1, GroupRecords DEF Creates
  <2>5. CreatorsAlone'
    <3> SUFFICES ASSUME NEW e \in GroupCallers, NEW h \in GroupIds, Creates(groupCall'[e], h)
                 PROVE  /\ groupRows[h] # NoRow /\ ~groupCache[h].known
                        /\ \A d \in GroupCallers : d # e => groupCall'[d].group # h
                        /\ \A k \in Codes : inviteRows[k].group # h
                        /\ \A p \in Pubkeys : memberRows[h][p] =
                             IF groupCall'[e].at = "copy" /\ p = groupCall'[e].actor THEN "admin" ELSE "absent"
      BY <1>0, <1>4 DEF CreatorsAlone
    <3>1. Creates(groupCall[e], h) /\ groupCall'[e] = groupCall[e] /\ "none" # h
      BY <2>4, GroupAssumption
    <3> QED
      BY <2>1, <3>1, GroupRecords DEF CreatorsAlone
  <2>6. KnownGroups'
    <3> SUFFICES ASSUME NEW h \in GroupIds, groupRows[h] # NoRow
                 PROVE  \/ groupCache[h].known
                        \/ \E d \in GroupCallers : Creates(groupCall'[d], h)
                        \/ \A p \in Pubkeys : <<h, p>> \in mayDiffer'
      BY <1>0 DEF KnownGroups
    <3>1. h = g => \A p \in Pubkeys : <<h, p>> \in mayDiffer'
      BY <1>4
    <3> QED
      BY <1>4, <2>4, <3>1 DEF KnownGroups
  <2>7. OneAtATime'
    BY <1>4, <2>3 DEF OneAtATime
  <2>8. TouchedWillAgree'
    <3> SUFFICES ASSUME NEW e \in GroupCallers, NEW h \in GroupIds, NEW p \in Pubkeys,
                        Touches(groupCall'[e], h, p), <<h, p>> \notin mayDiffer'
                 PROVE  WillAgree(groupCall[e], h, p)'
      BY DEF TouchedWillAgree
    <3>1. Touches(groupCall[e], h, p) /\ groupCall'[e] = groupCall[e] /\ <<h, p>> \notin mayDiffer
      BY <1>4, <2>3
    <3>2. WillAgree(groupCall[e], h, p)
      BY <3>1 DEF TouchedWillAgree
    <3> QED
      BY <1>0, <1>4, <3>1, <3>2 DEF WillAgree
  <2>9. DeletesAreDone'
    BY <1>0, <2>1, GroupRecords DEF DeletesAreDone, Is
  <2>10. GroupViewsAgree'
    <3> SUFFICES ASSUME NEW h \in GroupIds, NEW p \in Pubkeys, Settled(h, p)', <<h, p>> \notin mayDiffer'
                 PROVE  CopyAgrees(h, p)'
      BY DEF GroupViewsAgree
    <3>1. h # g
      BY <1>4
    <3>2. Settled(h, p)
      BY <1>0, <2>1, <3>1 DEF Settled, Touches
    <3> QED
      BY <1>0, <1>4, <3>2 DEF GroupViewsAgree, CopyAgrees
  <2> QED
    BY <2>2, <2>5, <2>6, <2>7, <2>8, <2>9, <2>10
<1> QED
  BY <1>0, <1>3, <1>4

LEMMA CopyGroupStep ==
  ASSUME GroupInv, NEW c \in GroupCallers, CopyGroup(c)
  PROVE  GroupInv'
<1> DEFINE g == groupCall[c].group
           a == groupCall[c].actor
           Y == [known |-> TRUE, privacy |-> groupCall[c].privacy, members |-> {a}, admins |-> {a}]
<1> USE DEF GroupInv
<1>0. /\ groupCall[c] \in CallRecords /\ CallShape(groupCall[c]) /\ groupCall \in [GroupCallers -> CallRecords]
      /\ groupCall[c].at = "copy" /\ groupCall[c].op = "create" /\ a \in Pubkeys /\ g \in GroupIds
      /\ UNCHANGED <<groupRows, memberRows, inviteRows, mayDiffer, raced, groupCalls, groupFaults>>
      /\ groupCache' = [groupCache EXCEPT ![g] = Y] /\ Ends(c)
  BY DEF GroupTypes, CallsShaped, CopyGroup, Is, CallShape, tables, groupHistory
<1>1. Y \in CopyStates /\ Y.known = TRUE /\ Y.members = {a} /\ Y.admins = {a}
  BY <1>0 DEF CopyStates, CallRecords
<1> HIDE DEF Y
<1>2. groupCache \in [GroupIds -> CopyStates]
  BY DEF GroupTypes
<1>3. /\ groupCache' \in [GroupIds -> CopyStates] /\ groupCache'[g] = Y
      /\ \A h \in GroupIds : h # g => groupCache'[h] = groupCache[h]
  BY <1>0, <1>1, <1>2
<1>4. CallMoves(c) /\ groupCall'[c] = NoCall /\ \A d \in GroupCallers : d # c => groupCall'[d] = groupCall[d]
  BY <1>0, EndsMoves DEF CallMoves
<1>5. GroupTypes' /\ CallsShaped' /\ ForeignKeys'
  BY <1>0, <1>3, <1>4, MovesShaped DEF GroupTypes, CallMoves, ForeignKeys
<1>6. /\ groupRows[g] # NoRow
      /\ \A d \in GroupCallers : d # c => groupCall[d].group # g
      /\ \A p \in Pubkeys : memberRows[g][p] = IF p = a THEN "admin" ELSE "absent"
  <2>1. Creates(groupCall[c], g)
    BY <1>0 DEF Creates
  <2> QED
    BY <1>0, <2>1 DEF CreatorsAlone
<1>7. \A d \in GroupCallers : \A h, p :
        Touches(groupCall'[d], h, p) =>
          Touches(groupCall[d], h, p) /\ groupCall'[d] = groupCall[d] /\ d # c /\ h # g
  BY <1>4, <1>6, GroupRecords DEF Touches
<1>8. \A d \in GroupCallers, h \in GroupIds :
        /\ Creates(groupCall'[d], h) => Creates(groupCall[d], h) /\ groupCall'[d] = groupCall[d] /\ d # c /\ h # g
        /\ Creates(groupCall[d], h) /\ h # g => Creates(groupCall'[d], h)
  <2>1. \A d \in GroupCallers, h \in GroupIds : Creates(groupCall'[d], h) => d # c
    BY <1>4, GroupRecords DEF Creates
  <2>2. \A h \in GroupIds : Creates(groupCall[c], h) => h = g
    BY DEF Creates
  <2>3. \A d \in GroupCallers : d # c => ~Creates(groupCall[d], g)
    BY <1>6 DEF Creates
  <2> QED
    BY <1>4, <2>1, <2>2, <2>3
<1>9. CreatorsAlone'
  <2> SUFFICES ASSUME NEW e \in GroupCallers, NEW h \in GroupIds, Creates(groupCall'[e], h)
               PROVE  /\ groupRows[h] # NoRow /\ ~groupCache'[h].known
                      /\ \A d \in GroupCallers : d # e => groupCall'[d].group # h
                      /\ \A k \in Codes : inviteRows[k].group # h
                      /\ \A p \in Pubkeys : memberRows[h][p] =
                           IF groupCall'[e].at = "copy" /\ p = groupCall'[e].actor THEN "admin" ELSE "absent"
    BY <1>0 DEF CreatorsAlone
  <2>1. Creates(groupCall[e], h) /\ groupCall'[e] = groupCall[e] /\ h # g /\ "none" # h /\ e # c
    BY <1>8, GroupAssumption
  <2>2. /\ groupRows[h] # NoRow /\ ~groupCache[h].known
        /\ \A d \in GroupCallers : d # e => groupCall[d].group # h
        /\ \A k \in Codes : inviteRows[k].group # h
        /\ \A p \in Pubkeys : memberRows[h][p] =
             IF groupCall[e].at = "copy" /\ p = groupCall[e].actor THEN "admin" ELSE "absent"
    BY <2>1 DEF CreatorsAlone
  <2>3. \A d \in GroupCallers : d # e => groupCall'[d].group # h
    BY <1>4, <2>1, <2>2, GroupRecords
  <2> QED
    BY <1>3, <2>1, <2>2, <2>3
<1>10. KnownGroups'
  <2> SUFFICES ASSUME NEW h \in GroupIds, groupRows[h] # NoRow
               PROVE  \/ groupCache'[h].known
                      \/ \E d \in GroupCallers : Creates(groupCall'[d], h)
                      \/ \A p \in Pubkeys : <<h, p>> \in mayDiffer
    BY <1>0 DEF KnownGroups
  <2>1. CASE h = g
    BY <1>1, <1>3, <2>1
  <2>2. CASE h # g
    BY <1>3, <1>8, <2>2 DEF KnownGroups
  <2> QED
    BY <2>1, <2>2
<1>11. OneAtATime'
  BY <1>0, <1>7 DEF OneAtATime
<1>12. TouchedWillAgree'
  <2> SUFFICES ASSUME NEW e \in GroupCallers, NEW h \in GroupIds, NEW p \in Pubkeys,
                      Touches(groupCall'[e], h, p), <<h, p>> \notin mayDiffer
               PROVE  WillAgree(groupCall[e], h, p)'
    BY <1>0 DEF TouchedWillAgree
  <2>1. Touches(groupCall[e], h, p) /\ groupCall'[e] = groupCall[e] /\ h # g
    BY <1>7
  <2>2. WillAgree(groupCall[e], h, p) /\ groupCache'[h] = groupCache[h] /\ memberRows' = memberRows
    BY <1>0, <1>3, <2>1 DEF TouchedWillAgree
  <2> QED
    BY <2>1, <2>2 DEF WillAgree
<1>13. DeletesAreDone'
  BY <1>0, <1>4, GroupRecords DEF DeletesAreDone, Is
<1>14. GroupViewsAgree'
  <2> SUFFICES ASSUME NEW h \in GroupIds, NEW p \in Pubkeys, Settled(h, p)', <<h, p>> \notin mayDiffer
               PROVE  CopyAgrees(h, p)'
    BY <1>0 DEF GroupViewsAgree
  <2>1. CASE h = g
    <3>1. /\ p \in groupCache'[h].members <=> p = a
          /\ p \in groupCache'[h].admins <=> p = a
          /\ memberRows'[h][p] = IF p = a THEN "admin" ELSE "absent"
      BY <1>0, <1>1, <1>3, <1>6, <2>1
    <3> QED
      BY <3>1 DEF CopyAgrees
  <2>2. CASE h # g
    <3>1. Settled(h, p)
      BY <1>0, <1>4, <2>2 DEF Settled, Touches
    <3>2. groupCache'[h] = groupCache[h] /\ memberRows' = memberRows
      BY <1>0, <1>3, <2>2
    <3> QED
      BY <3>1, <3>2 DEF GroupViewsAgree, CopyAgrees
  <2> QED
    BY <2>1, <2>2
<1> QED
  BY <1>5, <1>9, <1>10, <1>11, <1>12, <1>13, <1>14

LEMMA DeleteCopyStep ==
  ASSUME GroupInv, NEW c \in GroupCallers, DeleteCopy(c)
  PROVE  GroupInv'
<1> DEFINE g == groupCall[c].group
<1>0. /\ groupCall[c] \in CallRecords /\ CallShape(groupCall[c]) /\ groupCall[c].at = "copy"
      /\ groupCall[c].op = "delete" /\ g \in GroupIds /\ Ends(c)
      /\ groupCache \in [GroupIds -> CopyStates] /\ groupCache' = [groupCache EXCEPT ![g] = NoGroupCopy]
      /\ UNCHANGED <<groupRows, memberRows, inviteRows, mayDiffer, raced, groupCalls, groupFaults>>
  BY DEF GroupInv, GroupTypes, CallsShaped, CallShape, DeleteCopy, Is, tables, groupHistory
<1>1. /\ groupCache' \in [GroupIds -> CopyStates] /\ groupCache'[g] = NoGroupCopy
      /\ \A h \in GroupIds : h # g => groupCache'[h] = groupCache[h]
      /\ NoGroupCopy.members = {} /\ NoGroupCopy.admins = {}
  BY <1>0, GroupRecords DEF NoGroupCopy
<1>2. CallMoves(c)
  BY <1>0, EndsMoves DEF GroupInv
<1>3. GroupTypes' /\ CallsShaped'
  BY <1>0, <1>1, <1>2, MovesShaped DEF GroupInv, GroupTypes, CallMoves
<1>4. \A p \in Pubkeys : memberRows[g][p] = "absent"
  BY <1>0 DEF GroupInv, DeletesAreDone, Is, ForeignKeys, Nobodies
<1>5. \A p \in Pubkeys : Touches(groupCall[c], g, p)
  BY <1>0 DEF Touches
<1>6. \A h \in GroupIds : h # groupCall[c].group => groupCache'[h] = groupCache[h]
  BY <1>1
<1>7. \A p \in Pubkeys :
         /\ p \in groupCache'[g].members <=> memberRows[g][p] # "absent"
         /\ p \in groupCache'[g].admins <=> memberRows[g][p] = "admin"
  BY <1>1, <1>4
<1> QED
  BY <1>0, <1>3, <1>5, <1>6, <1>7, CopyStep

LEMMA AddCopyStep ==
  ASSUME GroupInv, NEW c \in GroupCallers, AddCopy(c)
  PROVE  GroupInv'
<1> DEFINE g == groupCall[c].group
           p == groupCall[c].who
           role == groupCall[c].role
<1>0. /\ groupCall[c] \in CallRecords /\ CallShape(groupCall[c]) /\ groupCall[c].at = "copy"
      /\ groupCall[c].op \in {"add", "join"} /\ g \in GroupIds /\ p \in Pubkeys /\ Ends(c)
      /\ groupCache \in [GroupIds -> CopyStates]
      /\ UNCHANGED <<groupRows, memberRows, inviteRows, mayDiffer, raced, groupCalls, groupFaults>>
  BY DEF GroupInv, GroupTypes, CallsShaped, CallShape, AddCopy, MemberOps, tables, groupHistory
<1>1. /\ groupCache' \in [GroupIds -> CopyStates]
      /\ \A h \in GroupIds : h # g => groupCache'[h] = groupCache[h]
      /\ groupCache'[g].known = groupCache[g].known
      /\ groupCache[g].known =>
           /\ groupCache'[g].members = groupCache[g].members \union {p}
           /\ groupCache'[g].admins = IF role # "" THEN groupCache[g].admins \union {p} ELSE groupCache[g].admins
      /\ ~groupCache[g].known => groupCache' = groupCache
  <2> DEFINE A == IF role # "" THEN groupCache[g].admins \union {p} ELSE groupCache[g].admins
             X == [[groupCache[g] EXCEPT !.members = @ \union {p}] EXCEPT !.admins = A]
  <2>1. CASE ~groupCache[g].known
    BY <1>0, <2>1 DEF AddCopy
  <2>2. CASE groupCache[g].known
    <3>1. groupCache' = [groupCache EXCEPT ![g] = X]
      BY <1>0, <2>2 DEF AddCopy
    <3>2. groupCache[g] \in CopyStates
      BY <1>0
    <3>3. X \in CopyStates /\ X.known = groupCache[g].known
          /\ X.members = groupCache[g].members \union {p} /\ X.admins = A
      BY <1>0, <3>2 DEF CopyStates
    <3> QED
      BY <1>0, <2>2, <3>1, <3>3
  <2> QED
    BY <2>1, <2>2
<1>2. CallMoves(c)
  BY <1>0, EndsMoves DEF GroupInv
<1>3. GroupTypes' /\ CallsShaped'
  BY <1>0, <1>1, <1>2, MovesShaped DEF GroupInv, GroupTypes, CallMoves
<1>4. \A q \in Pubkeys : Touches(groupCall[c], g, q) <=> q = p
  BY <1>0 DEF Touches
<1>5. <<g, p>> \notin mayDiffer =>
        groupCache[g].known /\ memberRows[g][p] = role /\ (role = "" => p \notin groupCache[g].admins)
  BY <1>0, <1>4 DEF GroupInv, TouchedWillAgree, WillAgree
<1>6. role \in {"", "admin"}
  BY <1>0 DEF CallRecords
<1>7. ASSUME NEW q \in Pubkeys
      PROVE  IF Touches(groupCall[c], g, q)
             THEN <<g, q>> \notin mayDiffer =>
                    /\ q \in groupCache'[g].members <=> memberRows[g][q] # "absent"
                    /\ q \in groupCache'[g].admins <=> memberRows[g][q] = "admin"
             ELSE /\ q \in groupCache'[g].members <=> q \in groupCache[g].members
                  /\ q \in groupCache'[g].admins <=> q \in groupCache[g].admins
  <2>1. CASE q = p
    BY <1>1, <1>4, <1>5, <1>6, <2>1
  <2>2. CASE q # p
    BY <1>1, <1>4, <2>2
  <2> QED
    BY <2>1, <2>2
<1> QED
  BY <1>0, <1>1, <1>3, <1>7, CopyStep DEF MemberOps

LEMMA RemoveCopyStep ==
  ASSUME GroupInv, NEW c \in GroupCallers, RemoveCopy(c)
  PROVE  GroupInv'
<1> DEFINE g == groupCall[c].group
           p == groupCall[c].who
<1>0. /\ groupCall[c] \in CallRecords /\ CallShape(groupCall[c]) /\ groupCall[c].at = "copy"
      /\ groupCall[c].op \in {"remove", "leave"} /\ g \in GroupIds /\ p \in Pubkeys /\ Ends(c)
      /\ groupCache \in [GroupIds -> CopyStates]
      /\ UNCHANGED <<groupRows, memberRows, inviteRows, mayDiffer, raced, groupCalls, groupFaults>>
  BY DEF GroupInv, GroupTypes, CallsShaped, CallShape, RemoveCopy, MemberOps, tables, groupHistory
<1>1. /\ groupCache' \in [GroupIds -> CopyStates]
      /\ \A h \in GroupIds : h # g => groupCache'[h] = groupCache[h]
      /\ groupCache'[g].known = groupCache[g].known
      /\ groupCache'[g].members = groupCache[g].members \ {p}
      /\ groupCache'[g].admins = groupCache[g].admins \ {p}
  <2> DEFINE X == [[groupCache[g] EXCEPT !.members = @ \ {p}] EXCEPT !.admins = groupCache[g].admins \ {p}]
  <2>0. groupCache[g] \in CopyStates
    BY <1>0
  <2>1. groupCache' = [groupCache EXCEPT ![g] = X]
    BY <1>0, <2>0 DEF RemoveCopy, CopyStates
  <2>2. X \in CopyStates /\ X.known = groupCache[g].known
        /\ X.members = groupCache[g].members \ {p} /\ X.admins = groupCache[g].admins \ {p}
    BY <2>0 DEF CopyStates
  <2> QED
    BY <1>0, <2>1, <2>2
<1>2. CallMoves(c)
  BY <1>0, EndsMoves DEF GroupInv
<1>3. GroupTypes' /\ CallsShaped'
  BY <1>0, <1>1, <1>2, MovesShaped DEF GroupInv, GroupTypes, CallMoves
<1>4. \A q \in Pubkeys : Touches(groupCall[c], g, q) <=> q = p
  BY <1>0 DEF Touches
<1>5. <<g, p>> \notin mayDiffer => memberRows[g][p] = "absent"
  BY <1>0, <1>4 DEF GroupInv, TouchedWillAgree, WillAgree
<1>7. ASSUME NEW q \in Pubkeys
      PROVE  IF Touches(groupCall[c], g, q)
             THEN <<g, q>> \notin mayDiffer =>
                    /\ q \in groupCache'[g].members <=> memberRows[g][q] # "absent"
                    /\ q \in groupCache'[g].admins <=> memberRows[g][q] = "admin"
             ELSE /\ q \in groupCache'[g].members <=> q \in groupCache[g].members
                  /\ q \in groupCache'[g].admins <=> q \in groupCache[g].admins
  <2>1. CASE q = p
    BY <1>1, <1>4, <1>5, <2>1
  <2>2. CASE q # p
    BY <1>1, <1>4, <2>2
  <2> QED
    BY <2>1, <2>2
<1> QED
  BY <1>0, <1>1, <1>3, <1>7, CopyStep DEF MemberOps

LEMMA DeleteRowStep ==
  ASSUME GroupInv, NEW c \in GroupCallers, DeleteRow(c)
  PROVE  GroupInv'
<1> DEFINE g == groupCall[c].group
<1>0. /\ GroupTypes /\ groupCall[c] \in CallRecords /\ CallShape(groupCall[c]) /\ groupCall[c].at = "saved"
      /\ groupCall[c].op = "delete" /\ g \in GroupIds /\ groupCall \in [GroupCallers -> CallRecords]
      /\ groupRows \in [GroupIds -> RowRecords] /\ memberRows \in [GroupIds -> [Pubkeys -> MemberRole]]
      /\ inviteRows \in [Codes -> InviteRecords]
      /\ UNCHANGED <<groupCache, raced, groupCalls, groupFaults>>
  BY DEF GroupInv, GroupTypes, CallsShaped, CallShape, DeleteRow, Is
<1>1. /\ groupRows' = [groupRows EXCEPT ![g] = NoRow]
      /\ memberRows' = [memberRows EXCEPT ![g] = Nobodies]
      /\ inviteRows' = [k \in Codes |-> IF inviteRows[k].group = g THEN NoInvite ELSE inviteRows[k]]
      /\ mayDiffer' = mayDiffer \union Overlapping(c, g, Pubkeys)
      /\ IF groupRows[g] = NoRow THEN Ends(c) ELSE Goes(c, "copy")
  BY DEF DeleteRow
<1>2. /\ mayDiffer \subseteq mayDiffer' /\ mayDiffer' \subseteq GroupIds \X Pubkeys
      /\ \A p \in Pubkeys, d \in GroupCallers \ {c} : Touches(groupCall[d], g, p) => <<g, p>> \in mayDiffer'
  BY <1>0, <1>1 DEF Overlapping, GroupTypes
<1>3. /\ groupRows' \in [GroupIds -> RowRecords] /\ groupRows'[g] = NoRow
      /\ \A h \in GroupIds : h # g => groupRows'[h] = groupRows[h]
      /\ memberRows' \in [GroupIds -> [Pubkeys -> MemberRole]] /\ memberRows'[g] = Nobodies
      /\ \A h \in GroupIds : h # g => memberRows'[h] = memberRows[h]
  BY <1>0, <1>1, GroupRecords
<1>4. /\ inviteRows' \in [Codes -> InviteRecords]
      /\ \A k \in Codes : inviteRows'[k] = IF inviteRows[k].group = g THEN NoInvite ELSE inviteRows[k]
      /\ NoInvite.group = "none" /\ "none" \notin GroupIds
  BY <1>0, <1>1, GroupRecords, GroupAssumption DEF NoInvite
<1>5. ForeignKeys'
  BY <1>0, <1>3, <1>4 DEF GroupInv, ForeignKeys
<1>6. GroupTypes' <=> groupCall' \in [GroupCallers -> CallRecords]
  BY <1>0, <1>2, <1>3, <1>4 DEF GroupTypes
<1>7. CASE Ends(c) /\ groupRows[g] = NoRow
  <2>1. CallMoves(c) /\ groupCall'[c] = NoCall
    BY <1>0, <1>7, EndsMoves
  <2>2. CallsShaped' /\ GroupTypes'
    BY <1>6, <2>1, MovesShaped DEF GroupInv, CallMoves
  <2>3. memberRows' = memberRows
    BY <1>0, <1>1, <1>7 DEF GroupInv, ForeignKeys
  <2>4. Quiet(groupCall[c]) /\ Quiet(groupCall'[c])
    BY <1>0, <2>1, GroupRecords DEF Quiet
  <2>5. \A h \in GroupIds : groupRows'[h] = NoRow <=> groupRows[h] = NoRow
    BY <1>3, <1>7
  <2>6. ASSUME NEW d \in GroupCallers, NEW h \in GroupIds, Creates(groupCall[d], h)
        PROVE  groupCall'[c].group # h /\ \A k \in Codes : inviteRows'[k].group # h
    BY <1>4, <2>1, <2>6, GroupRecords DEF GroupInv, CreatorsAlone
  <2> QED
    BY <1>0, <1>2, <1>5, <2>1, <2>2, <2>3, <2>4, <2>5, <2>6, QuietStep DEF CallMoves
<1>8. CASE Goes(c, "copy")
  <2>1. /\ groupCall' \in [GroupCallers -> CallRecords]
        /\ groupCall'[c] = [groupCall[c] EXCEPT !.at = "copy"] /\ groupCall'[c].at = "copy"
        /\ groupCall'[c].op = "delete" /\ groupCall'[c].group = g
    BY <1>0, <1>8, GoesFacts
  <2>2. CallMoves(c)
    BY <1>0, <1>8, <2>1, GoesFacts DEF CallMoves, CallShape, MemberOps
  <2>3. CallsShaped' /\ GroupTypes'
    BY <1>6, <2>1, <2>2, MovesShaped DEF GroupInv
  <2>4. Quiet(groupCall[c])
    BY <1>0 DEF Quiet
  <2>5. \A h \in GroupIds, p \in Pubkeys : ~Touches(groupCall'[c], h, p) => memberRows'[h][p] = memberRows[h][p]
    BY <1>3, <2>1 DEF Touches
  <2>6. \A h \in GroupIds : groupRows'[h] = groupRows[h] \/ (h = g /\ groupRows'[h] = NoRow)
    BY <1>3
  <2>7. \A k \in Codes : inviteRows'[k].group \in {"none", inviteRows[k].group}
    BY <1>4
  <2>8. \A p \in Pubkeys : WillAgree(groupCall[c], groupCall[c].group, p)'
    <3> TAKE p \in Pubkeys
    <3>1. Nobodies[p] = "absent"
      BY DEF Nobodies
    <3>2. memberRows'[groupCall'[c].group][p] = "absent"
      BY <1>3, <2>1, <3>1
    <3> QED
      BY <2>1, <3>2 DEF WillAgree
  <2> QED
    BY <1>0, <1>2, <1>3, <1>5, <2>1, <2>2, <2>3, <2>4, <2>5, <2>6, <2>7, <2>8, RowStep
<1> QED
  BY <1>1, <1>7, <1>8

LEMMA OverlappingFacts ==
  ASSUME NEW c \in GroupCallers, NEW g \in GroupIds, NEW p \in Pubkeys
  PROVE  /\ Overlapping(c, g, {p}) \subseteq GroupIds \X Pubkeys
         /\ \A d \in GroupCallers \ {c} : Touches(groupCall[d], g, p) => <<g, p>> \in Overlapping(c, g, {p})
<1> DEFINE O == {q \in {p} : \E d \in GroupCallers \ {c} : Touches(groupCall[d], g, q)}
<1>1. Overlapping(c, g, {p}) = {<<g, q>> : q \in O}
  BY DEF Overlapping
<1>2. \A d \in GroupCallers \ {c} : Touches(groupCall[d], g, p) => p \in O
  OBVIOUS
<1>3. O \subseteq Pubkeys
  OBVIOUS
<1> HIDE DEF O
<1> QED
  BY <1>1, <1>2, <1>3

LEMMA RemoveRowStep ==
  ASSUME GroupInv, NEW c \in GroupCallers, RemoveRow(c)
  PROVE  GroupInv'
<1> DEFINE g == groupCall[c].group
           p == groupCall[c].who
<1>0. /\ GroupTypes /\ groupCall[c] \in CallRecords /\ CallShape(groupCall[c]) /\ groupCall[c].at = "saved"
      /\ groupCall[c].op \in {"remove", "leave"} /\ g \in GroupIds /\ p \in Pubkeys
      /\ groupCall \in [GroupCallers -> CallRecords] /\ memberRows \in [GroupIds -> [Pubkeys -> MemberRole]]
      /\ UNCHANGED <<groupRows, inviteRows, groupCache, raced, groupCalls, groupFaults>>
  BY DEF GroupInv, GroupTypes, CallsShaped, CallShape, RemoveRow, MemberOps
<1>1. Quiet(groupCall[c])
  BY <1>0 DEF Quiet
<1>2. CASE Ends(c) /\ UNCHANGED <<memberRows, mayDiffer>>
  <2>1. CallMoves(c) /\ groupCall'[c] = NoCall
    BY <1>0, <1>2, EndsMoves
  <2>2. CallsShaped' /\ GroupTypes' /\ ForeignKeys'
    BY <1>0, <1>2, <2>1, MovesShaped DEF GroupInv, GroupTypes, CallMoves, ForeignKeys
  <2>3. Quiet(groupCall'[c])
    BY <2>1, GroupRecords DEF Quiet
  <2>4. ASSUME NEW d \in GroupCallers, NEW h \in GroupIds, Creates(groupCall[d], h)
        PROVE  groupCall'[c].group # h /\ \A k \in Codes : inviteRows'[k].group # h
    BY <1>0, <2>1, <2>4, GroupRecords, GroupAssumption DEF GroupInv, CreatorsAlone
  <2> QED
    BY <1>0, <1>1, <1>2, <2>1, <2>2, <2>3, <2>4, QuietStep DEF CallMoves
<1>3. CASE /\ memberRows[g][p] # "absent" /\ memberRows' = [memberRows EXCEPT ![g][p] = "absent"]
           /\ mayDiffer' = mayDiffer \union Overlapping(c, g, {p}) /\ Goes(c, "copy")
  <2>1. /\ groupCall' \in [GroupCallers -> CallRecords]
        /\ groupCall'[c] = [groupCall[c] EXCEPT !.at = "copy"] /\ groupCall'[c].at = "copy"
        /\ groupCall'[c].op = groupCall[c].op /\ groupCall'[c].group = g /\ groupCall'[c].who = p
        /\ groupCall'[c].role = groupCall[c].role
    BY <1>0, <1>3, GoesFacts
  <2>2. CallMoves(c)
    BY <1>0, <1>3, <2>1, GoesFacts DEF CallMoves, CallShape, MemberOps
  <2>3. /\ memberRows' \in [GroupIds -> [Pubkeys -> MemberRole]] /\ memberRows'[g][p] = "absent"
        /\ \A h \in GroupIds : h # g => memberRows'[h] = memberRows[h]
        /\ \A q \in Pubkeys : q # p => memberRows'[g][q] = memberRows[g][q]
    BY <1>0, <1>3 DEF MemberRole
  <2>4. /\ mayDiffer \subseteq mayDiffer' /\ mayDiffer' \subseteq GroupIds \X Pubkeys
        /\ \A d \in GroupCallers \ {c} : Touches(groupCall[d], g, p) => <<g, p>> \in mayDiffer'
    BY <1>0, <1>3, OverlappingFacts DEF GroupTypes
  <2>5. CallsShaped' /\ GroupTypes'
    BY <1>0, <2>1, <2>2, <2>3, <2>4, MovesShaped DEF GroupInv, GroupTypes
  <2>6. groupRows[g] # NoRow
    BY <1>0, <1>3 DEF GroupInv, ForeignKeys, Nobodies
  <2>7. ForeignKeys'
    BY <1>0, <2>3, <2>6 DEF GroupInv, ForeignKeys
  <2>8. \A h \in GroupIds, q \in Pubkeys : Touches(groupCall'[c], h, q) <=> h = g /\ q = p
    BY <1>0, <2>1 DEF Touches
  <2>9. \A h \in GroupIds, q \in Pubkeys : ~Touches(groupCall'[c], h, q) => memberRows'[h][q] = memberRows[h][q]
    BY <2>3, <2>8
  <2>10. \A q \in Pubkeys : Touches(groupCall'[c], g, q) => WillAgree(groupCall[c], groupCall[c].group, q)'
    <3> SUFFICES ASSUME NEW q \in Pubkeys, q = p
                 PROVE  WillAgree(groupCall[c], groupCall[c].group, q)'
      BY <1>0, <2>8
    <3>1. memberRows'[groupCall'[c].group][q] = "absent"
      BY <2>1, <2>3
    <3> QED
      BY <1>0, <2>1, <3>1 DEF WillAgree
  <2>11. \A q \in Pubkeys, d \in GroupCallers :
            Touches(groupCall'[c], g, q) /\ Touches(groupCall[d], g, q) /\ d # c => <<g, q>> \in mayDiffer'
    BY <1>0, <2>4, <2>8
  <2>12. groupCall[c].op \in {"delete"} \union MemberOps /\ groupCall[c].op # "delete"
    BY <1>0 DEF MemberOps
  <2>13. \A k \in Codes : inviteRows'[k].group \in {"none", inviteRows[k].group}
    BY <1>0
  <2>14. \A h \in GroupIds : groupRows'[h] = groupRows[h]
    BY <1>0
  <2> QED
    BY <1>0, <1>1, <2>1, <2>2, <2>4, <2>5, <2>7, <2>9, <2>10, <2>11, <2>12, <2>13, <2>14, RowStep
<1> QED
  BY <1>2, <1>3 DEF RemoveRow

LEMMA AddRowStep ==
  ASSUME GroupInv, NEW c \in GroupCallers, AddRow(c)
  PROVE  GroupInv'
<1> DEFINE g == groupCall[c].group
           p == groupCall[c].who
           role == groupCall[c].role
<1>0. /\ GroupTypes /\ groupCall[c] \in CallRecords /\ CallShape(groupCall[c]) /\ groupCall[c].at \in {"saved", "used"}
      /\ groupCall[c].op \in {"add", "join"} /\ g \in GroupIds /\ p \in Pubkeys /\ role \in MemberRole
      /\ groupCall \in [GroupCallers -> CallRecords] /\ memberRows \in [GroupIds -> [Pubkeys -> MemberRole]]
      /\ UNCHANGED <<groupRows, inviteRows, groupCache, raced, groupCalls, groupFaults>>
  BY DEF GroupInv, GroupTypes, CallsShaped, CallShape, CallRecords, AddRow, Is, MemberOps, MemberRole
<1>1. Quiet(groupCall[c])
  BY <1>0 DEF Quiet
<1>2. CASE Ends(c) /\ UNCHANGED <<memberRows, mayDiffer>>
  <2>1. CallMoves(c) /\ groupCall'[c] = NoCall
    BY <1>0, <1>2, EndsMoves
  <2>2. CallsShaped' /\ GroupTypes' /\ ForeignKeys'
    BY <1>0, <1>2, <2>1, MovesShaped DEF GroupInv, GroupTypes, CallMoves, ForeignKeys
  <2>3. Quiet(groupCall'[c])
    BY <2>1, GroupRecords DEF Quiet
  <2>4. ASSUME NEW d \in GroupCallers, NEW h \in GroupIds, Creates(groupCall[d], h)
        PROVE  groupCall'[c].group # h /\ \A k \in Codes : inviteRows'[k].group # h
    BY <1>0, <2>1, <2>4, GroupRecords, GroupAssumption DEF GroupInv, CreatorsAlone
  <2> QED
    BY <1>0, <1>1, <1>2, <2>1, <2>2, <2>3, <2>4, QuietStep DEF CallMoves
<1>3. CASE /\ groupRows[g] # NoRow /\ memberRows' = [memberRows EXCEPT ![g][p] = role]
           /\ mayDiffer' = mayDiffer \union Overlapping(c, g, {p})
                \union {<<g, q>> : q \in {p} \intersect {q \in groupCache[g].admins : role = ""}}
           /\ Goes(c, "copy")
  <2>1. /\ groupCall' \in [GroupCallers -> CallRecords]
        /\ groupCall'[c] = [groupCall[c] EXCEPT !.at = "copy"] /\ groupCall'[c].at = "copy"
        /\ groupCall'[c].op = groupCall[c].op /\ groupCall'[c].group = g /\ groupCall'[c].who = p
        /\ groupCall'[c].role = role
    BY <1>0, <1>3, GoesFacts
  <2>2. CallMoves(c)
    BY <1>0, <1>3, <2>1, GoesFacts DEF CallMoves, CallShape, MemberOps
  <2>3. /\ memberRows' \in [GroupIds -> [Pubkeys -> MemberRole]] /\ memberRows'[g][p] = role
        /\ \A h \in GroupIds : h # g => memberRows'[h] = memberRows[h]
        /\ \A q \in Pubkeys : q # p => memberRows'[g][q] = memberRows[g][q]
    BY <1>0, <1>3
  <2>4. /\ mayDiffer \subseteq mayDiffer' /\ mayDiffer' \subseteq GroupIds \X Pubkeys
        /\ \A d \in GroupCallers \ {c} : Touches(groupCall[d], g, p) => <<g, p>> \in mayDiffer'
        /\ p \in groupCache[g].admins /\ role = "" => <<g, p>> \in mayDiffer'
    <3> DEFINE R == {<<g, q>> : q \in {p} \intersect {q \in groupCache[g].admins : role = ""}}
    <3>1. R \subseteq {<<g, p>>} /\ (p \in groupCache[g].admins /\ role = "" => <<g, p>> \in R)
      OBVIOUS
    <3>2. mayDiffer' = mayDiffer \union Overlapping(c, g, {p}) \union R
      BY <1>3
    <3> HIDE DEF R
    <3>3. mayDiffer \subseteq GroupIds \X Pubkeys /\ <<g, p>> \in GroupIds \X Pubkeys
      BY <1>0 DEF GroupTypes
    <3>4. mayDiffer' \subseteq GroupIds \X Pubkeys
      BY <1>0, <3>1, <3>2, <3>3, OverlappingFacts
    <3>5. \A d \in GroupCallers \ {c} : Touches(groupCall[d], g, p) => <<g, p>> \in mayDiffer'
      BY <1>0, <3>2, OverlappingFacts
    <3> QED
      BY <3>1, <3>2, <3>4, <3>5
  <2>5. CallsShaped' /\ GroupTypes'
    BY <1>0, <2>1, <2>2, <2>3, <2>4, MovesShaped DEF GroupInv, GroupTypes
  <2>7. ForeignKeys'
    BY <1>0, <1>3, <2>3 DEF GroupInv, ForeignKeys
  <2>8. \A h \in GroupIds, q \in Pubkeys : Touches(groupCall'[c], h, q) <=> h = g /\ q = p
    BY <1>0, <2>1 DEF Touches
  <2>9. \A h \in GroupIds, q \in Pubkeys : ~Touches(groupCall'[c], h, q) => memberRows'[h][q] = memberRows[h][q]
    BY <2>3, <2>8
  <2>10. \A q \in Pubkeys : Touches(groupCall'[c], g, q) /\ <<g, q>> \notin mayDiffer'
                            => WillAgree(groupCall[c], groupCall[c].group, q)'
    <3> SUFFICES ASSUME NEW q \in Pubkeys, q = p, <<g, p>> \notin mayDiffer'
                 PROVE  WillAgree(groupCall[c], groupCall[c].group, q)'
      BY <1>0, <2>8
    <3>1. memberRows'[groupCall'[c].group][q] = groupCall'[c].role
      BY <2>1, <2>3
    <3>2. \A d \in GroupCallers : ~Creates(groupCall[d], g)
      <4> SUFFICES ASSUME NEW d \in GroupCallers, Creates(groupCall[d], g) PROVE FALSE
        OBVIOUS
      <4>1. d # c
        BY <1>0 DEF Creates
      <4> QED
        BY <1>0, <4>1 DEF GroupInv, CreatorsAlone
    <3>3. <<g, p>> \notin mayDiffer
      BY <2>4
    <3>4. groupCache[g].known
      BY <1>0, <1>3, <3>2, <3>3 DEF GroupInv, KnownGroups
    <3>5. groupCache'[groupCall'[c].group].known
      BY <1>0, <2>1, <3>4
    <3>6. groupCall'[c].role = "" => q \notin groupCache'[groupCall'[c].group].admins
      BY <1>0, <2>1, <2>4
    <3> QED
      BY <1>0, <2>1, <3>1, <3>5, <3>6 DEF WillAgree
  <2>11. \A q \in Pubkeys, d \in GroupCallers :
            Touches(groupCall'[c], g, q) /\ Touches(groupCall[d], g, q) /\ d # c => <<g, q>> \in mayDiffer'
    BY <1>0, <2>4, <2>8
  <2>12. groupCall[c].op \in {"delete"} \union MemberOps /\ groupCall[c].op # "delete"
    BY <1>0 DEF MemberOps
  <2>13. \A k \in Codes : inviteRows'[k].group \in {"none", inviteRows[k].group}
    BY <1>0
  <2>14. \A h \in GroupIds : groupRows'[h] = groupRows[h]
    BY <1>0
  <2> QED
    BY <1>0, <1>1, <2>1, <2>2, <2>4, <2>5, <2>7, <2>9, <2>10, <2>11, <2>12, <2>13, <2>14, RowStep
<1> QED
  BY <1>2, <1>3 DEF AddRow

LEMMA RestartStep ==
  ASSUME GroupInv, RestartGroups
  PROVE  GroupInv'
<1>0. /\ groupRows \in [GroupIds -> RowRecords] /\ memberRows \in [GroupIds -> [Pubkeys -> MemberRole]]
      /\ UNCHANGED <<groupRows, memberRows, inviteRows, raced, groupCalls>> /\ mayDiffer' = {}
      /\ groupFaults < MaxGroupFaults /\ groupFaults' = groupFaults + 1
      /\ \A c \in GroupCallers : groupCall'[c] = NoCall
      /\ groupCall' \in [GroupCallers -> CallRecords]
      /\ groupCache' = CopyOf(groupRows, memberRows)
  BY GroupRecords DEF GroupInv, GroupTypes, RestartGroups, tables
<1>1. /\ groupCache' \in [GroupIds -> CopyStates]
      /\ \A g \in GroupIds :
           /\ groupRows[g] # NoRow => groupCache'[g].known
           /\ \A p \in Pubkeys :
                /\ p \in groupCache'[g].members <=> memberRows[g][p] # "absent"
                /\ p \in groupCache'[g].admins <=> memberRows[g][p] = "admin"
  <2> DEFINE Y(g) == [known |-> TRUE, privacy |-> groupRows[g].privacy,
                      members |-> {p \in Pubkeys : memberRows[g][p] # "absent"},
                      admins |-> {p \in Pubkeys : memberRows[g][p] = "admin"}]
  <2>1. /\ groupCache' = [g \in GroupIds |-> groupCache'[g]]
        /\ \A g \in GroupIds : groupCache'[g] = IF groupRows[g] = NoRow THEN NoGroupCopy ELSE Y(g)
    BY <1>0 DEF CopyOf
  <2>2. \A g \in GroupIds : Y(g) \in CopyStates
    BY <1>0 DEF CopyStates, RowRecords
  <2>3. ASSUME NEW g \in GroupIds, NEW p \in Pubkeys
        PROVE  /\ p \in groupCache'[g].members <=> memberRows[g][p] # "absent"
               /\ p \in groupCache'[g].admins <=> memberRows[g][p] = "admin"
    <3>1. CASE groupRows[g] = NoRow
      <4>1. memberRows[g][p] = "absent"
        BY <3>1 DEF GroupInv, ForeignKeys, Nobodies
      <4>2. NoGroupCopy.members = {} /\ NoGroupCopy.admins = {}
        BY DEF NoGroupCopy
      <4> QED
        BY <2>1, <3>1, <4>1, <4>2
    <3>2. CASE groupRows[g] # NoRow
      BY <2>1, <3>2
    <3> QED
      BY <3>1, <3>2
  <2>4. \A g \in GroupIds : groupRows[g] # NoRow => groupCache'[g].known
    BY <2>1
  <2>5. groupCache' \in [GroupIds -> CopyStates]
    BY <2>1, <2>2, GroupRecords
  <2> QED
    BY <2>3, <2>4, <2>5
<1>2. GroupTypes' /\ ForeignKeys'
  BY <1>0, <1>1, GroupAssumption DEF GroupInv, GroupTypes, ForeignKeys
<1>3. CallsShaped' /\ DeletesAreDone'
  BY <1>0, GroupRecords DEF CallsShaped, DeletesAreDone, Is
<1>4. \A c \in GroupCallers : \A g, p : ~Touches(groupCall'[c], g, p) /\ ~Creates(groupCall'[c], g)
  BY <1>0, GroupRecords DEF Touches, Creates
<1>5. CreatorsAlone' /\ OneAtATime' /\ TouchedWillAgree'
  BY <1>4 DEF CreatorsAlone, OneAtATime, TouchedWillAgree
<1>6. KnownGroups'
  BY <1>0, <1>1 DEF KnownGroups
<1>7. GroupViewsAgree'
  BY <1>0, <1>1 DEF GroupViewsAgree, CopyAgrees
<1> QED
  BY <1>2, <1>3, <1>5, <1>6, <1>7 DEF GroupInv

LEMMA GroupInvInit ==
  ASSUME GroupInit
  PROVE  GroupInv
<1>0. /\ \A g \in GroupIds : groupRows[g] = NoRow /\ memberRows[g] = Nobodies /\ groupCache[g] = NoGroupCopy
      /\ groupCache \in [GroupIds -> CopyStates] /\ groupRows \in [GroupIds -> RowRecords]
      /\ memberRows \in [GroupIds -> [Pubkeys -> MemberRole]] /\ inviteRows \in [Codes -> InviteRecords]
      /\ \A k \in Codes : inviteRows[k] = NoInvite
      /\ groupCall \in [GroupCallers -> CallRecords]
      /\ \A c \in GroupCallers : groupCall[c] = NoCall
      /\ mayDiffer = {} /\ raced = {} /\ groupCalls = 0 /\ groupFaults = 0
  BY GroupRecords DEF GroupInit, CopyOf
<1>1. NoGroupCopy.members = {} /\ NoGroupCopy.admins = {} /\ \A p \in Pubkeys : Nobodies[p] = "absent"
  BY DEF NoGroupCopy, Nobodies
<1>2. GroupTypes /\ ForeignKeys
  BY <1>0, GroupAssumption DEF GroupTypes, ForeignKeys
<1>3. CallsShaped /\ DeletesAreDone
  BY <1>0, GroupRecords DEF CallsShaped, DeletesAreDone, Is
<1>4. \A c \in GroupCallers : \A g, p : ~Touches(groupCall[c], g, p) /\ ~Creates(groupCall[c], g)
  BY <1>0, GroupRecords DEF Touches, Creates
<1>5. CreatorsAlone /\ OneAtATime /\ TouchedWillAgree
  BY <1>4 DEF CreatorsAlone, OneAtATime, TouchedWillAgree
<1>6. KnownGroups
  BY <1>0 DEF KnownGroups
<1>7. GroupViewsAgree
  <2> SUFFICES ASSUME NEW g \in GroupIds, NEW p \in Pubkeys PROVE CopyAgrees(g, p)
    BY DEF GroupViewsAgree
  <2>1. memberRows[g][p] = "absent" /\ groupCache[g].members = {} /\ groupCache[g].admins = {}
    BY <1>0, <1>1
  <2> QED
    BY <2>1 DEF CopyAgrees
<1> QED
  BY <1>2, <1>3, <1>5, <1>6, <1>7 DEF GroupInv

\* What the events ask for, one by one.
LEMMA AcceptSteps ==
  ASSUME GroupInv, NEW c \in GroupCallers, NEW p \in Pubkeys, NEW g \in GroupIds,
         \/ Accept(c, "create", "none", p, p, "admin", "restricted", "none")
         \/ Accept(c, "delete", g, p, NoKey, "", "", "none")
         \/ \E q \in Pubkeys, role \in {"", "admin"} : Accept(c, "add", g, p, q, role, "", "none")
         \/ \E q \in Pubkeys : Accept(c, "remove", g, p, q, "", "", "none")
         \/ \E v \in {"closed", ""} : Accept(c, "edit", g, p, NoKey, "", v, "none")
         \/ Accept(c, "invite", g, p, NoKey, "", "", "none")
         \/ \E k \in Codes \union {"none"} : Accept(c, "join", g, p, p, "", "", k)
         \/ Accept(c, "leave", g, p, p, "", "", "none")
  PROVE  GroupInv'
<1> USE DEF Saved, CallRecords, CallShape, MemberOps, Privacies
<1>1. CASE Accept(c, "create", "none", p, p, "admin", "restricted", "none")
  BY <1>1, AcceptStep
<1>2. CASE Accept(c, "delete", g, p, NoKey, "", "", "none")
  BY <1>2, AcceptStep
<1>3. ASSUME NEW q \in Pubkeys, NEW role \in {"", "admin"}, Accept(c, "add", g, p, q, role, "", "none")
      PROVE  GroupInv'
  BY <1>3, AcceptStep
<1>4. ASSUME NEW q \in Pubkeys, Accept(c, "remove", g, p, q, "", "", "none")
      PROVE  GroupInv'
  BY <1>4, AcceptStep
<1>5. ASSUME NEW v \in {"closed", ""}, Accept(c, "edit", g, p, NoKey, "", v, "none")
      PROVE  GroupInv'
  BY <1>5, AcceptStep
<1>6. CASE Accept(c, "invite", g, p, NoKey, "", "", "none")
  BY <1>6, AcceptStep
<1>7. ASSUME NEW k \in Codes \union {"none"}, Accept(c, "join", g, p, p, "", "", k)
      PROVE  GroupInv'
  BY <1>7, AcceptStep
<1>8. CASE Accept(c, "leave", g, p, p, "", "", "none")
  BY <1>8, AcceptStep
<1> QED
  BY <1>1, <1>2, <1>3, <1>4, <1>5, <1>6, <1>7, <1>8

LEMMA GroupInvStep ==
  ASSUME GroupInv, [GroupNext]_GroupVars
  PROVE  GroupInv'
<1>1. CASE UNCHANGED GroupVars
  <2> USE <1>1 DEF GroupVars, GroupInv
  <2>1. GroupTypes' /\ CallsShaped' /\ ForeignKeys' /\ CreatorsAlone' /\ KnownGroups'
    BY DEF GroupTypes, CallsShaped, ForeignKeys, CreatorsAlone, KnownGroups
  <2>2. OneAtATime'
    BY DEF OneAtATime
  <2>3. TouchedWillAgree'
    BY DEF TouchedWillAgree, WillAgree
  <2>4. DeletesAreDone' /\ GroupViewsAgree'
    BY DEF DeletesAreDone, Is, GroupViewsAgree, Settled, CopyAgrees
  <2> QED
    BY <2>1, <2>2, <2>3, <2>4
<1>2. ASSUME NEW c \in GroupCallers, NEW p \in Pubkeys, NEW g \in GroupIds,
             \/ Accept(c, "create", "none", p, p, "admin", "restricted", "none")
             \/ Accept(c, "delete", g, p, NoKey, "", "", "none")
             \/ \E q \in Pubkeys, role \in {"", "admin"} : Accept(c, "add", g, p, q, role, "", "none")
             \/ \E q \in Pubkeys : Accept(c, "remove", g, p, q, "", "", "none")
             \/ \E v \in {"closed", ""} : Accept(c, "edit", g, p, NoKey, "", v, "none")
             \/ Accept(c, "invite", g, p, NoKey, "", "", "none")
             \/ \E k \in Codes \union {"none"} : Accept(c, "join", g, p, p, "", "", k)
             \/ Accept(c, "leave", g, p, p, "", "", "none")
      PROVE  GroupInv'
  BY <1>2, AcceptSteps
<1>3. ASSUME NEW c \in GroupCallers, CountGroups(c) \/ JoinIgnored(c) \/ StatementFails(c)
      PROVE  GroupInv'
  BY <1>3, QuietSteps
<1>4. ASSUME NEW c \in GroupCallers,
             \/ InsertCreator(c) \/ CopyGroup(c) \/ DeleteRow(c) \/ DeleteCopy(c)
             \/ UpdateRow(c) \/ UpdateCopy(c) \/ AddRow(c) \/ AddCopy(c)
             \/ RemoveRow(c) \/ RemoveCopy(c) \/ CheckInvite(c) \/ CountUse(c)
      PROVE  GroupInv'
  BY <1>4, InsertCreatorStep, CopyGroupStep, DeleteRowStep, DeleteCopyStep, EditStep, AddRowStep,
     AddCopyStep, RemoveRowStep, RemoveCopyStep, CheckInviteStep, CountUseStep
<1>5. ASSUME NEW c \in GroupCallers, NEW g \in GroupIds, InsertGroup(c, g)
      PROVE  GroupInv'
  BY <1>5, InsertGroupStep
<1>6. ASSUME NEW c \in GroupCallers, NEW k \in Codes, CreateInvite(c, k)
      PROVE  GroupInv'
  BY <1>6, CreateInviteStep
<1>7. ASSUME NEW k \in Codes, InviteExpires(k)
      PROVE  GroupInv'
  BY <1>7, InviteExpiresStep
<1>8. CASE RestartGroups
  BY <1>8, RestartStep
<1> QED
  BY <1>1, <1>2, <1>3, <1>4, <1>5, <1>6, <1>7, <1>8 DEF GroupNext

\* However requests interleave, the tables, the copy and the requests between
\* them keep together.
LEMMA GroupInvariant == GroupInit /\ [][GroupNext]_GroupVars => []GroupInv
<1>1. GroupInit => GroupInv
  BY GroupInvInit
<1>2. GroupInv /\ [GroupNext]_GroupVars => GroupInv'
  BY GroupInvStep
<1> QED
  BY <1>1, <1>2, PTL

\* Rows, members, invites and requests of NIP-29 groups always have their types.
THEOREM GroupTypeCorrect == GroupSpec => []GroupTypeOK
<1>1. GroupInv => GroupTypeOK
  BY DEF GroupInv, GroupTypes, GroupTypeOK, RowRecords, InviteRecords, CallRecords
<1> QED
  BY <1>1, GroupInvariant, PTL DEF GroupSpec

\* What the gates are told of a member is what the tables hold, once no request
\* is between the two (store.go:286, 320), but for the pairs two requests raced on.
THEOREM GroupViewsMatch == GroupSpec => []GroupViewsAgree
<1>1. GroupInv => GroupViewsAgree
  BY DEF GroupInv
<1> QED
  BY <1>1, GroupInvariant, PTL DEF GroupSpec

\* A step that lets nobody check an invite and counts no use of one.
LEMMA UsesStay ==
  ASSUME GroupTypes, GroupTypes', UsesAreBounded, raced \subseteq raced',
         \A k \in Codes : inviteRows'[k].uses <= inviteRows[k].uses,
         \A c \in GroupCallers : groupCall'[c] = groupCall[c] \/ groupCall'[c].at # "checked"
  PROVE  UsesAreBounded'
<1> SUFFICES ASSUME NEW k \in Codes
             PROVE  /\ inviteRows'[k].uses + Cardinality(Checked(k)') < MaxUses + Cardinality(GroupCallers)
                    /\ k \notin raced' =>
                         /\ \A c \in Checked(k)', d \in Checked(k)' : c = d
                         /\ inviteRows'[k].uses <= MaxUses
                         /\ Checked(k)' # {} => inviteRows'[k].uses < MaxUses
  BY DEF UsesAreBounded
<1>1. Checked(k)' \subseteq Checked(k) /\ Checked(k) \subseteq GroupCallers
  BY DEF Checked
<1>2. Cardinality(Checked(k)') <= Cardinality(Checked(k)) /\ Cardinality(Checked(k)) \in Nat
      /\ Cardinality(Checked(k)') \in Nat /\ Cardinality(GroupCallers) \in Nat
  BY <1>1, GroupAssumption, FS_Subset, FS_CardinalityType
<1>3. inviteRows[k].uses \in Nat /\ inviteRows'[k].uses \in Nat /\ MaxUses \in Nat
  BY GroupAssumption DEF GroupTypes, InviteRecords
<1>4. /\ inviteRows[k].uses + Cardinality(Checked(k)) < MaxUses + Cardinality(GroupCallers)
      /\ k \notin raced =>
           /\ \A c \in Checked(k), d \in Checked(k) : c = d
           /\ inviteRows[k].uses <= MaxUses
           /\ Checked(k) # {} => inviteRows[k].uses < MaxUses
      /\ inviteRows'[k].uses <= inviteRows[k].uses
  BY DEF UsesAreBounded
<1> HIDE DEF GroupTypes
<1>5. inviteRows'[k].uses + Cardinality(Checked(k)') < MaxUses + Cardinality(GroupCallers)
  BY <1>2, <1>3, <1>4
<1>6. k \notin raced' =>
        /\ inviteRows'[k].uses <= MaxUses
        /\ Checked(k)' # {} => inviteRows'[k].uses < MaxUses
  BY <1>1, <1>3, <1>4
<1>7. k \notin raced' => \A c \in Checked(k)', d \in Checked(k)' : c = d
  BY <1>1, <1>4
<1> QED
  BY <1>5, <1>6, <1>7

LEMMA CheckInviteUses ==
  ASSUME GroupInv, GroupInv', UsesAreBounded, NEW c \in GroupCallers, CheckInvite(c)
  PROVE  UsesAreBounded'
<1> DEFINE j == groupCall[c].code
<1>0. /\ groupCall[c] \in CallRecords /\ groupCall \in [GroupCallers -> CallRecords] /\ groupCall[c].at = "saved"
      /\ j \in Codes /\ GroupTypes /\ GroupTypes' /\ inviteRows' = inviteRows
  BY DEF GroupInv, GroupTypes, CheckInvite, Is, CallRecords, tables
<1>1. CASE ~Usable(j)
  <2>1. Ends(c) /\ raced' = raced
    BY <1>1 DEF CheckInvite, Ends
  <2>2. \A d \in GroupCallers : groupCall'[d] = groupCall[d] \/ groupCall'[d].at # "checked"
    BY <1>0, <2>1, EndsFacts, GroupRecords
  <2>3. \A k \in Codes : inviteRows'[k].uses <= inviteRows[k].uses
    BY <1>0 DEF GroupTypes, InviteRecords
  <2> QED
    BY <1>0, <2>1, <2>2, <2>3, UsesStay
<1>2. CASE Usable(j)
  <2> DEFINE X == [[groupCall[c] EXCEPT !.at = "checked"] EXCEPT !.group = inviteRows[j].group]
  <2>1. groupCall' = [groupCall EXCEPT ![c] = X] /\ X.at = "checked" /\ X.code = j
    BY <1>0, <1>2 DEF CheckInvite, CallRecords
  <2> HIDE DEF X
  <2>2. groupCall'[c] = X /\ \A d \in GroupCallers : d # c => groupCall'[d] = groupCall[d]
    BY <1>0, <2>1
  <2>3. /\ raced \subseteq raced'
        /\ (\E d \in GroupCallers : groupCall[d].code = j /\ groupCall[d].at = "checked") => j \in raced'
    BY <1>2 DEF CheckInvite
  <2>4. inviteRows[j].uses < MaxUses
    BY <1>2 DEF Usable
  <2> SUFFICES ASSUME NEW k \in Codes
               PROVE  /\ inviteRows'[k].uses + Cardinality(Checked(k)') < MaxUses + Cardinality(GroupCallers)
                      /\ k \notin raced' =>
                           /\ \A e \in Checked(k)', d \in Checked(k)' : e = d
                           /\ inviteRows'[k].uses <= MaxUses
                           /\ Checked(k)' # {} => inviteRows'[k].uses < MaxUses
    BY DEF UsesAreBounded
  <2>5. /\ inviteRows[k].uses + Cardinality(Checked(k)) < MaxUses + Cardinality(GroupCallers)
        /\ k \notin raced =>
             /\ \A e \in Checked(k), d \in Checked(k) : e = d
             /\ inviteRows[k].uses <= MaxUses
             /\ Checked(k) # {} => inviteRows[k].uses < MaxUses
    BY DEF UsesAreBounded
  <2>6. CASE k # j
    <3>1. Checked(k)' = Checked(k)
      BY <1>0, <2>1, <2>2, <2>6 DEF Checked
    <3> QED
      BY <1>0, <2>3, <2>5, <3>1
  <2>7. CASE k = j
    <3>1. Checked(k)' = Checked(k) \union {c} /\ Checked(k)' \subseteq GroupCallers
      BY <1>0, <2>1, <2>2, <2>7 DEF Checked
    <3>2. Cardinality(Checked(k)') <= Cardinality(GroupCallers) /\ Cardinality(Checked(k)') \in Nat
          /\ Cardinality(GroupCallers) \in Nat
      BY <3>1, GroupAssumption, FS_Subset, FS_CardinalityType
    <3>3. inviteRows'[k].uses \in Nat /\ inviteRows'[k].uses < MaxUses /\ MaxUses \in Nat
      BY <1>0, <2>4, <2>7, GroupAssumption DEF GroupTypes, InviteRecords
    <3>4. inviteRows'[k].uses + Cardinality(Checked(k)') < MaxUses + Cardinality(GroupCallers)
      BY <3>2, <3>3
    <3>5. k \notin raced' => Checked(k) = {}
      BY <2>3, <2>7 DEF Checked
    <3> QED
      BY <3>1, <3>3, <3>4, <3>5
  <2> QED
    BY <2>6, <2>7
<1> QED
  BY <1>1, <1>2

LEMMA CountUseUses ==
  ASSUME GroupInv, GroupInv', UsesAreBounded, NEW c \in GroupCallers, CountUse(c)
  PROVE  UsesAreBounded'
<1> DEFINE j == groupCall[c].code
<1>0. /\ groupCall[c] \in CallRecords /\ groupCall \in [GroupCallers -> CallRecords] /\ groupCall[c].at = "checked"
      /\ GroupTypes /\ GroupTypes' /\ raced' = raced /\ Goes(c, "used") /\ inviteRows \in [Codes -> InviteRecords]
      /\ inviteRows' = IF inviteRows[j] = NoInvite THEN inviteRows ELSE [inviteRows EXCEPT ![j].uses = @ + 1]
  BY DEF GroupInv, GroupTypes, CountUse, Is, groupHistory
<1>1. /\ \A d \in GroupCallers : d # c => groupCall'[d] = groupCall[d]
      /\ groupCall'[c].at = "used"
  BY <1>0, GoesFacts
<1>2. \A d \in GroupCallers : groupCall'[d] = groupCall[d] \/ groupCall'[d].at # "checked"
  BY <1>1
<1>3. CASE inviteRows' = inviteRows
  <2>1. \A k \in Codes : inviteRows'[k].uses <= inviteRows[k].uses
    BY <1>0, <1>3 DEF InviteRecords
  <2> QED
    BY <1>0, <1>2, <2>1, UsesStay
<1>4. CASE inviteRows' # inviteRows
  <2>1. j \in Codes
    BY <1>0, <1>4
  <2>2. /\ \A k \in Codes : inviteRows[k].uses \in Nat
        /\ \A k \in Codes : inviteRows'[k].uses = IF k = j THEN inviteRows[k].uses + 1 ELSE inviteRows[k].uses
    <3>1. inviteRows[j] \in InviteRecords
      BY <1>0, <2>1
    <3> DEFINE X == [inviteRows[j] EXCEPT !.uses = @ + 1]
    <3>2. X.uses = inviteRows[j].uses + 1
      BY <3>1 DEF InviteRecords
    <3>3. inviteRows' = [inviteRows EXCEPT ![j] = X]
      BY <1>0, <1>4
    <3> HIDE DEF X
    <3> QED
      BY <1>0, <2>1, <3>2, <3>3 DEF InviteRecords
  <2> SUFFICES ASSUME NEW k \in Codes
               PROVE  /\ inviteRows'[k].uses + Cardinality(Checked(k)') < MaxUses + Cardinality(GroupCallers)
                      /\ k \notin raced' =>
                           /\ \A e \in Checked(k)', d \in Checked(k)' : e = d
                           /\ inviteRows'[k].uses <= MaxUses
                           /\ Checked(k)' # {} => inviteRows'[k].uses < MaxUses
    BY DEF UsesAreBounded
  <2>3. /\ inviteRows[k].uses + Cardinality(Checked(k)) < MaxUses + Cardinality(GroupCallers)
        /\ k \notin raced =>
             /\ \A e \in Checked(k), d \in Checked(k) : e = d
             /\ inviteRows[k].uses <= MaxUses
             /\ Checked(k) # {} => inviteRows[k].uses < MaxUses
    BY DEF UsesAreBounded
  <2>4. IsFiniteSet(Checked(k)) /\ Cardinality(Checked(k)) \in Nat /\ Cardinality(GroupCallers) \in Nat /\ MaxUses \in Nat
    <3>1. Checked(k) \subseteq GroupCallers
      BY DEF Checked
    <3> QED
      BY <3>1, GroupAssumption, FS_Subset, FS_CardinalityType
  <2>5. CASE k # j
    <3>1. Checked(k)' = Checked(k)
      BY <1>0, <1>1, <2>5 DEF Checked
    <3> QED
      BY <1>0, <2>2, <2>3, <2>5, <3>1
  <2>6. CASE k = j
    <3>1. Checked(k)' = Checked(k) \ {c} /\ c \in Checked(k)
      BY <1>0, <1>1, <2>6 DEF Checked
    <3>2. Cardinality(Checked(k)') = Cardinality(Checked(k)) - 1
      BY <2>4, <3>1, FS_RemoveElement
    <3>3. inviteRows'[k].uses + Cardinality(Checked(k)') < MaxUses + Cardinality(GroupCallers)
      BY <2>2, <2>3, <2>4, <2>6, <3>2
    <3>4. k \notin raced' => Checked(k)' = {} /\ inviteRows'[k].uses <= MaxUses
      BY <1>0, <2>2, <2>3, <2>4, <2>6, <3>1
    <3> QED
      BY <3>3, <3>4
  <2> QED
    BY <2>5, <2>6
<1> QED
  BY <1>3, <1>4

LEMMA UsesKeepBounded ==
  ASSUME GroupInv, GroupInv', UsesAreBounded, [GroupNext]_GroupVars
  PROVE  UsesAreBounded'
<1>0. /\ GroupTypes /\ GroupTypes' /\ groupCall \in [GroupCallers -> CallRecords]
      /\ \A k \in Codes : inviteRows[k].uses \in Nat
      /\ inviteRows \in [Codes -> InviteRecords]
  BY DEF GroupInv, GroupTypes, InviteRecords
<1>1. ASSUME inviteRows' = inviteRows, raced' = raced,
             \A d \in GroupCallers : groupCall'[d] = groupCall[d] \/ groupCall'[d].at # "checked"
      PROVE  UsesAreBounded'
  <2>1. \A k \in Codes : inviteRows'[k].uses <= inviteRows[k].uses
    BY <1>0, <1>1
  <2> QED
    BY <1>0, <1>1, <2>1, UsesStay
<1>2. ASSUME NEW c \in GroupCallers, Ends(c) \/ Goes(c, "insert") \/ Goes(c, "creator") \/ Goes(c, "copy")
      PROVE  \A d \in GroupCallers : groupCall'[d] = groupCall[d] \/ groupCall'[d].at # "checked"
  <2>1. CASE Ends(c)
    BY <1>0, <2>1, EndsFacts, GroupRecords
  <2>2. CASE Goes(c, "insert") \/ Goes(c, "creator") \/ Goes(c, "copy")
    BY <1>0, <2>2, GoesFacts
  <2> QED
    BY <1>2, <2>1, <2>2
<1>3. CASE UNCHANGED GroupVars
  BY <1>1, <1>3 DEF GroupVars
<1>4. ASSUME NEW c \in GroupCallers, NEW op, NEW g, NEW actor, NEW who, NEW role, NEW privacy, NEW code,
             Accept(c, op, g, actor, who, role, privacy, code)
      PROVE  UsesAreBounded'
  <2>1. inviteRows' = inviteRows /\ raced' = raced
    BY <1>4 DEF Accept, tables, groupHistory
  <2>2. \A d \in GroupCallers : groupCall'[d] = groupCall[d] \/ groupCall'[d].at # "checked"
    BY <1>0, <1>4 DEF Accept
  <2> QED
    BY <1>1, <2>1, <2>2
<1>5. ASSUME NEW c \in GroupCallers,
             \/ CountGroups(c) \/ JoinIgnored(c) \/ StatementFails(c) \/ InsertCreator(c) \/ CopyGroup(c)
             \/ DeleteCopy(c) \/ UpdateRow(c) \/ UpdateCopy(c) \/ AddRow(c) \/ AddCopy(c)
             \/ RemoveRow(c) \/ RemoveCopy(c)
      PROVE  UsesAreBounded'
  <2>1. inviteRows' = inviteRows /\ raced' = raced /\ (Ends(c) \/ Goes(c, "insert") \/ Goes(c, "copy"))
    BY <1>5 DEF CountGroups, JoinIgnored, StatementFails, InsertCreator, CopyGroup, DeleteCopy, UpdateRow,
       UpdateCopy, AddRow, AddCopy, RemoveRow, RemoveCopy, Fails, tables, groupHistory
  <2> QED
    BY <1>1, <1>2, <2>1
<1>6. ASSUME NEW c \in GroupCallers, NEW g \in GroupIds, InsertGroup(c, g)
      PROVE  UsesAreBounded'
  <2> DEFINE X == [[groupCall[c] EXCEPT !.at = "creator"] EXCEPT !.group = g]
  <2>1. inviteRows' = inviteRows /\ raced' = raced /\ groupCall' = [groupCall EXCEPT ![c] = X]
    BY <1>0, <1>6 DEF InsertGroup, groupHistory
  <2>2. X.at = "creator"
    BY <1>0 DEF CallRecords
  <2> HIDE DEF X
  <2>3. \A d \in GroupCallers : groupCall'[d] = groupCall[d] \/ groupCall'[d].at # "checked"
    BY <1>0, <2>1, <2>2
  <2> QED
    BY <1>1, <2>1, <2>3
<1>7. ASSUME NEW c \in GroupCallers, DeleteRow(c)
      PROVE  UsesAreBounded'
  <2>1. /\ raced' = raced /\ (Ends(c) \/ Goes(c, "copy"))
        /\ \A k \in Codes : inviteRows'[k] \in {inviteRows[k], NoInvite}
    BY <1>0, <1>7 DEF DeleteRow
  <2>2. NoInvite.uses = 0
    BY DEF NoInvite
  <2>3. \A k \in Codes : inviteRows'[k].uses <= inviteRows[k].uses
    BY <1>0, <2>1, <2>2
  <2> QED
    BY <1>0, <1>2, <2>1, <2>3, UsesStay
<1>8. ASSUME NEW c \in GroupCallers, NEW k \in Codes, CreateInvite(c, k)
      PROVE  UsesAreBounded'
  <2> DEFINE Y == [NoInvite EXCEPT !.group = groupCall[c].group]
  <2>1. /\ raced' = raced /\ Ends(c)
        /\ inviteRows' = inviteRows \/ (inviteRows[k] = NoInvite /\ inviteRows' = [inviteRows EXCEPT ![k] = Y])
    BY <1>8 DEF CreateInvite, groupHistory
  <2>2. NoInvite.uses = 0 /\ Y.uses = 0
    BY DEF NoInvite
  <2> HIDE DEF Y
  <2>3. \A i \in Codes : inviteRows'[i].uses <= inviteRows[i].uses
    BY <1>0, <2>1, <2>2
  <2> QED
    BY <1>0, <1>2, <2>1, <2>3, UsesStay
<1>9. ASSUME NEW k \in Codes, InviteExpires(k)
      PROVE  UsesAreBounded'
  <2>1. raced' = raced /\ groupCall' = groupCall /\ inviteRows' = [inviteRows EXCEPT ![k].expired = TRUE]
    BY <1>9 DEF InviteExpires, groupHistory
  <2>2. [inviteRows[k] EXCEPT !.expired = TRUE].uses = inviteRows[k].uses
    BY <1>0 DEF InviteRecords
  <2>3. \A i \in Codes : inviteRows'[i].uses <= inviteRows[i].uses
    BY <1>0, <2>1, <2>2
  <2> QED
    BY <1>0, <2>1, <2>3, UsesStay
<1>10. CASE RestartGroups
  <2>1. inviteRows' = inviteRows /\ raced' = raced
        /\ \A d \in GroupCallers : groupCall'[d].at # "checked"
    BY <1>10, GroupRecords DEF RestartGroups, tables
  <2>2. \A i \in Codes : inviteRows'[i].uses <= inviteRows[i].uses
    BY <1>0, <2>1
  <2> QED
    BY <1>0, <2>1, <2>2, UsesStay
<1> QED
  BY <1>3, <1>4, <1>5, <1>6, <1>7, <1>8, <1>9, <1>10, CheckInviteUses, CountUseUses DEF GroupNext

LEMMA InvitesInvariant == GroupInit /\ [][GroupNext]_GroupVars => []InviteUsesAreBounded
<1>1. GroupInit => UsesAreBounded
  <2> SUFFICES ASSUME GroupInit PROVE UsesAreBounded
    OBVIOUS
  <2>1. \A k \in Codes : Checked(k) = {} /\ inviteRows[k].uses = 0
    BY GroupRecords DEF GroupInit, Checked, NoInvite
  <2>2. Cardinality({}) = 0 /\ Cardinality(GroupCallers) \in Nat
    BY GroupAssumption, FS_EmptySet, FS_CardinalityType
  <2>3. MaxUses \in Nat /\ 0 < MaxUses + Cardinality(GroupCallers)
    BY <2>2, GroupAssumption
  <2>4. \A k \in Codes : Cardinality(Checked(k)) = 0 /\ inviteRows[k].uses = 0
    BY <2>1, <2>2
  <2> QED
    BY <2>1, <2>2, <2>3, <2>4 DEF UsesAreBounded
<1>2. UsesAreBounded /\ GroupInv /\ GroupInv' /\ [GroupNext]_GroupVars => UsesAreBounded'
  BY UsesKeepBounded
<1>3. UsesAreBounded /\ GroupInv => InviteUsesAreBounded
  <2> SUFFICES ASSUME UsesAreBounded, GroupInv, NEW k \in Codes, inviteRows[k].uses > MaxUses
               PROVE  k \in raced /\ inviteRows[k].uses < MaxUses + Cardinality(GroupCallers)
    BY DEF InviteUsesAreBounded
  <2>1. Checked(k) \subseteq GroupCallers
    BY DEF Checked
  <2>2. Cardinality(Checked(k)) \in Nat /\ Cardinality(GroupCallers) \in Nat /\ MaxUses \in Nat
    BY <2>1, GroupAssumption, FS_Subset, FS_CardinalityType
  <2>3. inviteRows[k].uses \in Nat
    BY DEF GroupInv, GroupTypes, InviteRecords
  <2> QED
    BY <2>2, <2>3 DEF UsesAreBounded
<1> QED
  BY <1>1, <1>2, <1>3, GroupInvariant, PTL

\* An invite is checked and counted in two steps (store.go:397, 412): it is used
\* more than max_uses times only when two requests found it usable together,
\* however many requests there are.
THEOREM InvitesBounded == GroupSpec => []InviteUsesAreBounded
BY InvitesInvariant, PTL DEF GroupSpec

-----------------------------------------------------------------------------
(* Least numbers and induction, for chains and counts                        *)

\* The library states induction for a predicate; a set of numbers serves as one.
LEMMA LeastNumber ==
  ASSUME NEW T, T \subseteq Nat, T # {}
  PROVE  \E n \in T : \A m \in T : n <= m
<1> DEFINE Less == {ss \in Nat \X Nat : ss[1] < ss[2]}
<1>1. IsWellFoundedOn(Less, Nat)
  BY NatLessThanWellFounded DEF OpToRel, Less
<1>2. PICK n \in T : \A m \in T : ~ (<<m, n>> \in Less)
  BY <1>1, WFMin
<1>3. ASSUME NEW m \in T PROVE n <= m
  <2>1. <<m, n>> \in Nat \X Nat /\ ~(m < n)
    BY <1>2
  <2> QED
    BY <2>1
<1> QED
  BY <1>3

LEMMA NumberInduction ==
  ASSUME NEW T, 0 \in T, \A n \in Nat : n \in T => n + 1 \in T
  PROVE  Nat \subseteq T
<1> SUFFICES ASSUME Nat \ T # {} PROVE FALSE
  OBVIOUS
<1>1. PICK n \in Nat \ T : \A m \in Nat \ T : n <= m
  BY LeastNumber
<1>2. n # 0 /\ n - 1 \in Nat
  BY <1>1
<1>3. n - 1 \in T
  BY <1>1, <1>2
<1> QED
  BY <1>1, <1>2, <1>3

-----------------------------------------------------------------------------
(* The owner of a group                                                      *)

\* One step of the walk along a chain of transfers, f being the rest of it.
Walks(f, trail) ==
  IF WalkEnds(trail) THEN trail[2]
  ELSE f[<<trail[1] \union {metadata[trail[2]].to}, metadata[trail[2]].to>>]
Unvisited(trail) == Cardinality(Writers \ trail[1])

LEMMA TrailsEnd ==
  ASSUME OwnershipTypeOK, NEW trail \in Trails,
         ~WalkEnds(trail)
  PROVE  LET next == <<trail[1] \union {metadata[trail[2]].to}, metadata[trail[2]].to>>
         IN next \in Trails /\ Unvisited(next) = Unvisited(trail) - 1
<1> DEFINE s == metadata[trail[2]].to
           next == <<trail[1] \union {s}, s>>
<1>1. trail[1] \subseteq Writers /\ trail[2] \in Writers
  BY DEF Trails
<1>2. s \in Writers /\ s \notin trail[1]
  BY <1>1 DEF WalkEnds, OwnershipTypeOK, StoredMetadata
<1>3. next \in Trails /\ next[1] = trail[1] \union {s}
  BY <1>1, <1>2 DEF Trails
<1>4. Writers \ next[1] = (Writers \ trail[1]) \ {s} /\ s \in Writers \ trail[1]
  BY <1>2, <1>3
<1>5. IsFiniteSet(Writers \ trail[1])
  BY OwnershipAssumption, FS_Subset
<1>6. Cardinality((Writers \ trail[1]) \ {s}) = Cardinality(Writers \ trail[1]) - 1
  BY <1>4, <1>5, FS_RemoveElement
<1> QED
  BY <1>3, <1>4, <1>6 DEF Unvisited

LEMMA UnvisitedType ==
  ASSUME NEW trail \in Trails
  PROVE  Unvisited(trail) \in Nat /\ Unvisited(trail) <= Cardinality(Writers)
<1>1. Writers \ trail[1] \subseteq Writers
  OBVIOUS
<1> QED
  BY <1>1, OwnershipAssumption, FS_Subset, FS_CardinalityType DEF Unvisited

\* The chain has an end: Walked is the function its definition asks for.
LEMMA WalkedUnfolds ==
  ASSUME OwnershipTypeOK
  PROVE  \A trail \in Trails : Walked[trail] = Walks(Walked, trail)
<1> DEFINE Good(f, n) == \A trail \in Trails : Unvisited(trail) <= n => f[trail] = Walks(f, trail)
           T == {n \in Nat : \E f : f = [trail \in Trails |-> f[trail]] /\ Good(f, n)}
           end == [trail \in Trails |-> trail[2]]
<1>1. 0 \in T
  <2>1. \A trail \in Trails : Unvisited(trail) <= 0 => end[trail] = Walks(end, trail)
    <3> SUFFICES ASSUME NEW trail \in Trails, Unvisited(trail) <= 0 PROVE end[trail] = Walks(end, trail)
      OBVIOUS
    <3>1. CASE WalkEnds(trail)
      BY <3>1 DEF Walks
    <3>2. CASE ~WalkEnds(trail)
      <4> DEFINE next == <<trail[1] \union {metadata[trail[2]].to}, metadata[trail[2]].to>>
      <4>1. next \in Trails /\ Unvisited(next) = Unvisited(trail) - 1
        BY <3>2, TrailsEnd
      <4> HIDE DEF next
      <4>2. Unvisited(next) \in Nat /\ Unvisited(trail) \in Nat
        BY <4>1, UnvisitedType
      <4> QED
        BY <4>1, <4>2
    <3> QED
      BY <3>1, <3>2
  <2>2. end = [trail \in Trails |-> end[trail]]
    OBVIOUS
  <2> HIDE DEF end
  <2> QED
    BY <2>1, <2>2
<1>2. ASSUME NEW n \in Nat, n \in T PROVE n + 1 \in T
  <2>1. PICK f : f = [trail \in Trails |-> f[trail]] /\ Good(f, n)
    BY <1>2
  <2> DEFINE g == [trail \in Trails |-> Walks(f, trail)]
  <2>2. \A trail \in Trails : Unvisited(trail) <= n => g[trail] = f[trail]
    BY <2>1
  <2>3. ASSUME NEW trail \in Trails, Unvisited(trail) <= n + 1
        PROVE  g[trail] = Walks(g, trail)
    <3>1. g[trail] = Walks(f, trail)
      OBVIOUS
    <3> HIDE DEF g
    <3>2. CASE WalkEnds(trail)
      BY <3>1, <3>2 DEF Walks
    <3>3. CASE ~WalkEnds(trail)
      <4> DEFINE next == <<trail[1] \union {metadata[trail[2]].to}, metadata[trail[2]].to>>
      <4>1. next \in Trails /\ Unvisited(next) = Unvisited(trail) - 1
        BY <3>3, TrailsEnd
      <4>2. Unvisited(next) <= n
        BY <2>3, <4>1, UnvisitedType
      <4>3. g[next] = f[next]
        BY <2>2, <4>1, <4>2
      <4>4. Walks(f, trail) = f[next] /\ Walks(g, trail) = g[next]
        BY <3>3 DEF Walks
      <4> QED
        BY <3>1, <4>3, <4>4
    <3> QED
      BY <3>2, <3>3
  <2>4. g = [trail \in Trails |-> g[trail]]
    OBVIOUS
  <2> HIDE DEF g
  <2> QED
    BY <2>3, <2>4
<1>3. Cardinality(Writers) \in T
  <2> HIDE DEF T
  <2>1. Cardinality(Writers) \in Nat
    BY OwnershipAssumption, FS_CardinalityType
  <2> QED
    BY <1>1, <1>2, <2>1, NumberInduction
<1>4. PICK f : f = [trail \in Trails |-> f[trail]] /\ Good(f, Cardinality(Writers))
  BY <1>3
<1>5. \A trail \in Trails : f[trail] = Walks(f, trail)
  BY <1>4, UnvisitedType
<1>6. f = [trail \in Trails |-> Walks(f, trail)]
  BY <1>4, <1>5
<1>7. Walked = CHOOSE h : h = [trail \in Trails |-> Walks(h, trail)]
  BY DEF Walked, Walks
<1>8. Walked = [trail \in Trails |-> Walks(Walked, trail)]
  BY <1>6, <1>7
<1> QED
  BY <1>8

\* What keeps OwnerWasChosen: nobody else has metadata stored, or a place in a
\* transfer, or metadata on the way to the store.
ChosenOnly ==
  /\ RelayKey \in chosen /\ (patterned => PrefixOwner \in chosen)
  /\ \A w \in Writers :
       /\ metadata[w] # NoMetadata => w \in chosen
       /\ metadata[w].to \in chosen \union {NoOwner}
       /\ admitted[w].kind = "metadata" => w \in chosen
OwnershipInv == OwnershipTypeOK /\ ChosenOnly

LEMMA WalkedIsChosen ==
  ASSUME OwnershipInv, NEW trail \in Trails, trail[2] \in chosen
  PROVE  Walked[trail] \in chosen
<1> DEFINE T == {n \in Nat : \A tr \in Trails : Unvisited(tr) <= n /\ tr[2] \in chosen => Walked[tr] \in chosen}
<1> USE DEF OwnershipInv
<1>1. ASSUME NEW n \in Nat, NEW tr \in Trails, Unvisited(tr) <= n, tr[2] \in chosen, n = 0 \/ n - 1 \in T
      PROVE  Walked[tr] \in chosen
  <2>1. CASE WalkEnds(tr)
    BY <1>1, <2>1, WalkedUnfolds DEF Walks
  <2>2. CASE ~WalkEnds(tr)
    <3> DEFINE next == <<tr[1] \union {metadata[tr[2]].to}, metadata[tr[2]].to>>
    <3>1. next \in Trails /\ Unvisited(next) = Unvisited(tr) - 1 /\ next[2] = metadata[tr[2]].to
      BY <2>2, TrailsEnd
    <3>2. tr[2] \in Writers
      BY DEF Trails
    <3>3. next[2] \in chosen
      BY <2>2, <3>1, <3>2 DEF ChosenOnly, WalkEnds
    <3>4. Walked[tr] = Walked[next]
      BY <2>2, WalkedUnfolds DEF Walks
    <3> HIDE DEF next
    <3>5. Unvisited(next) \in Nat /\ Unvisited(tr) \in Nat
      BY <3>1, UnvisitedType
    <3>6. n # 0 /\ Unvisited(next) <= n - 1
      BY <1>1, <3>1, <3>5
    <3> QED
      BY <1>1, <3>1, <3>3, <3>4, <3>6
  <2> QED
    BY <2>1, <2>2
<1>2. 0 \in T /\ \A n \in Nat : n \in T => n + 1 \in T
  BY <1>1
<1> HIDE DEF T
<1>3. Nat \subseteq T
  BY <1>2, NumberInduction
<1>4. Cardinality(Writers) \in T
  BY <1>3, OwnershipAssumption, FS_CardinalityType
<1> QED
  BY <1>4, UnvisitedType DEF T

LEMMA EarliestIsPublished ==
  ASSUME OwnershipTypeOK, Published # {}
  PROVE  EarliestAuthor \in Published
<1> DEFINE T == {metadata[w].t : w \in Published}
<1>1. T \subseteq Nat /\ T # {}
  <2>1. \A w \in Writers : metadata[w].t \in 0..MaxCreatedAt
    BY DEF OwnershipTypeOK, StoredMetadata
  <2>2. \A w \in Writers : metadata[w].t \in Nat
    <3>1. MaxCreatedAt \in Nat
      BY OwnershipAssumption
    <3> QED
      BY <2>1, <3>1
  <2> QED
    BY <2>2 DEF Published
<1>2. PICK n \in T : \A m \in T : n <= m
  BY <1>1, LeastNumber
<1>3. \E w \in Published : \A v \in Published : metadata[w].t <= metadata[v].t
  BY <1>2
<1> QED
  BY <1>3 DEF EarliestAuthor

LEMMA ResolvedIsChosen ==
  ASSUME OwnershipInv
  PROVE  OwnerWasChosen
<1> USE DEF OwnershipInv
<1>1. ASSUME NEW w \in Writers, w \in chosen
      PROVE  WalkTransferChain(w) \in chosen
  <2>1. <<{w}, w>> \in Trails
    BY DEF Trails
  <2> QED
    BY <1>1, <2>1, WalkedIsChosen DEF WalkTransferChain
<1>2. patterned => PrefixOwner \in Writers /\ PrefixOwner \in chosen
  BY OwnershipAssumption DEF ChosenOnly
<1>3. Published # {} => EarliestAuthor \in Writers /\ EarliestAuthor \in chosen
  BY EarliestIsPublished DEF ChosenOnly, Published
<1> QED
  BY <1>1, <1>2, <1>3 DEF OwnerWasChosen, ResolveOwner

LEMMA OwnershipStep ==
  ASSUME OwnershipInv, [OwnershipNext]_OwnershipVars
  PROVE  OwnershipInv'
<1> USE DEF OwnershipInv
<1>0. /\ metadata \in [Writers -> StoredMetadata] /\ adminList \in [Writers -> StoredLists]
      /\ admitted \in [Writers -> Publications]
  BY DEF OwnershipTypeOK
<1>1. ASSUME NEW w \in Writers, NEW ev \in Publications, Admit(w, ev)
      PROVE  OwnershipInv'
  <2>1. /\ admitted' = [admitted EXCEPT ![w] = ev] /\ publications < MaxPublications
        /\ publications' = publications + 1 /\ UNCHANGED <<patterned, metadata, adminList, chosen>>
    BY <1>1 DEF Admit
  <2>2. ev.kind = "metadata" => w \in chosen
    <3>1. ev.kind = "metadata" => w = RelayKey \/ w = ResolveOwner
      BY <1>1 DEF Admit, IsAuthorized
    <3>2. ResolveOwner \in chosen \union {NoOwner}
      BY ResolvedIsChosen DEF OwnerWasChosen
    <3> QED
      BY <3>1, <3>2, OwnershipAssumption DEF ChosenOnly
  <2>3. OwnershipTypeOK'
    BY <1>0, <2>1, OwnershipAssumption DEF OwnershipTypeOK
  <2> QED
    BY <1>0, <2>1, <2>2, <2>3 DEF ChosenOnly
<1>2. ASSUME NEW w \in Writers, SaveMetadata(w)
      PROVE  OwnershipInv'
  <2> DEFINE ev == admitted[w]
             new == [t |-> ev.t, to |-> ev.to]
  <2>1. /\ ev \in Publications /\ ev.kind = "metadata" /\ w \in chosen
        /\ admitted' = [admitted EXCEPT ![w] = NotAdmitted]
        /\ UNCHANGED <<patterned, adminList, publications>>
    BY <1>0, <1>2 DEF SaveMetadata, ChosenOnly
  <2>2. new \in StoredMetadata /\ new.to = ev.to /\ ev.to \in Writers \union {NoOwner}
    BY <2>1 DEF Publications, StoredMetadata
  <2> HIDE DEF new
  <2>3. \/ metadata' = [metadata EXCEPT ![w] = new] /\ chosen' = chosen \union ({ev.to} \ {NoOwner})
        \/ metadata' = metadata /\ chosen' = chosen
    BY <1>2, <2>1 DEF SaveMetadata, new
  <2>4. NotAdmitted \in Publications /\ NotAdmitted.kind = "none"
    BY OwnershipAssumption DEF NotAdmitted, Publications
  <2>5. OwnershipTypeOK'
    BY <1>0, <2>1, <2>2, <2>3, <2>4 DEF OwnershipTypeOK
  <2>6. /\ chosen \subseteq chosen'
        /\ \A v \in Writers :
             /\ metadata'[v] = metadata[v] \/ v \in chosen
             /\ metadata'[v].to \in chosen' \union {NoOwner}
    BY <1>0, <2>1, <2>2, <2>3 DEF ChosenOnly
  <2>7. \A v \in Writers : admitted'[v].kind = "metadata" => admitted'[v] = admitted[v]
    BY <1>0, <2>1, <2>4
  <2> QED
    BY <2>1, <2>5, <2>6, <2>7 DEF ChosenOnly
<1>3. ASSUME NEW w \in Writers, SaveList(w)
      PROVE  OwnershipInv'
  <2> DEFINE new == [t |-> admitted[w].t, keys |-> admitted[w].keys]
  <2>1. /\ admitted' = [admitted EXCEPT ![w] = NotAdmitted]
        /\ UNCHANGED <<patterned, metadata, chosen, publications>>
        /\ adminList' \in {adminList, [adminList EXCEPT ![w] = new]}
    BY <1>3 DEF SaveList
  <2>2. new \in StoredLists
    BY <1>0 DEF Publications, StoredLists
  <2>3. NotAdmitted \in Publications /\ NotAdmitted.kind = "none"
    BY OwnershipAssumption DEF NotAdmitted, Publications
  <2> HIDE DEF new
  <2> QED
    BY <1>0, <2>1, <2>2, <2>3 DEF OwnershipTypeOK, ChosenOnly
<1>4. ASSUME NEW w \in Writers, DeleteMetadata(w)
      PROVE  OwnershipInv'
  <2>1. NoMetadata \in StoredMetadata /\ NoMetadata.to = NoOwner
    BY OwnershipAssumption DEF NoMetadata, StoredMetadata
  <2> QED
    BY <1>0, <1>4, <2>1 DEF DeleteMetadata, OwnershipTypeOK, ChosenOnly
<1>5. CASE UNCHANGED OwnershipVars
  BY <1>5 DEF OwnershipVars, OwnershipTypeOK, ChosenOnly
<1>6. ASSUME NEW w \in Writers, NEW t \in CreatedAt, NEW v \in Writers \union {NoOwner}
      PROVE  /\ [kind |-> "metadata", t |-> t, to |-> v, keys |-> {}] \in Publications
             /\ v \in Writers => [kind |-> "admins", t |-> t, to |-> NoOwner, keys |-> {v}] \in Publications
             /\ [kind |-> "members", t |-> t, to |-> NoOwner, keys |-> {}] \in Publications
  BY OwnershipAssumption DEF CreatedAt, Publications
<1> QED
  BY <1>1, <1>2, <1>3, <1>4, <1>5, <1>6 DEF OwnershipNext

LEMMA OwnershipInvariant ==
  OwnershipInit /\ [][OwnershipNext]_OwnershipVars => []OwnershipInv
<1>1. OwnershipInit => OwnershipInv
  BY OwnershipAssumption
     DEF OwnershipInit, OwnershipInv, OwnershipTypeOK, ChosenOnly, NoMetadata, NoAdminList, NotAdmitted,
         StoredMetadata, StoredLists, Publications
<1> QED
  BY <1>1, OwnershipStep, PTL

\* What is stored of a group's metadata, and what may be stored next, keeps its types.
THEOREM OwnershipTypeCorrect == OwnershipSpec => []OwnershipTypeOK
<1>1. OwnershipInv => OwnershipTypeOK
  BY DEF OwnershipInv
<1> QED
  BY <1>1, OwnershipInvariant, PTL DEF OwnershipSpec

\* However transfers are stored late, replaced or deleted, the chain that resolve.go:53
\* walks ends with a key that was chosen: for any number of keys and links.
THEOREM OwnersChosen == OwnershipSpec => []OwnerWasChosen
BY ResolvedIsChosen, OwnershipInvariant, PTL DEF OwnershipSpec
================================================================================
