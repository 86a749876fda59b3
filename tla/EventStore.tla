------------------------------ MODULE EventStore ------------------------------
(***************************************************************************)
(* How an event is stored, replaced, deleted and served: the store, query  *)
(* and delete hooks of internal/relay/relay.go and cmd/relay/main.go, the  *)
(* tombstones of internal/storage/tombstone.go and the Redis event cache   *)
(* of internal/eventcache, as khatru (external) drives them.               *)
(*                                                                         *)
(* Publishes, deletion requests and queries run concurrently, on several   *)
(* replicas; every database call and every cache write is a step of its    *)
(* own.  Kind 0 stands for the replaceable kinds: it is the one the        *)
(* profile cache answers for.  The events here carry no expiration tag,    *)
(* and the write-ahead log is off (WriteAhead.tla models it).              *)
(***************************************************************************)
EXTENDS Integers

CONSTANTS Notes,       \* regular events
          Profiles,    \* kind 0 events
          Authors,
          AuthorOf,    \* [Notes \cup Profiles -> Authors]
          Rank,        \* [Profiles -> Nat]: by created_at, then by lower id
          Publishers,  \* publishes that may be in flight together
          None,
          MaxPublishes,\* bound: publishes in a behaviour
          MaxDeletes,  \* bound: deletion requests in a behaviour
          MaxFaults    \* bound: failed calls and crashes in a behaviour

Events == Notes \cup Profiles

ASSUME EventStoreAssumption ==
  /\ Notes \cap Profiles = {}
  /\ None \notin Events
  /\ AuthorOf \in [Events -> Authors]
  /\ Rank \in [Profiles -> Nat]
  /\ \A v, w \in Profiles : Rank[v] = Rank[w] => v = w
  /\ {MaxPublishes, MaxDeletes, MaxFaults} \subseteq Nat

VARIABLES
  table,      \* the event table
  tombs,      \* the deleted_event table
  byId,       \* the cache's event:id:<id> keys
  profile,    \* the cache's event:pk:<author>:0 keys
  publish,    \* the publishes in flight
  deletion,   \* the deletion request in flight
  reading,    \* a profile query in flight: rows it has yet to cache
  publishes, deletes, faults,
  accepted,   \* history: events stored
  removed,    \* history: events an author asked to delete
  lost,       \* history: versions deleted for a replacement never stored
  revivable   \* history: tombstoned while stored, or being published

cacheVars == <<byId, profile>>
historyVars == <<accepted, removed, lost, revivable>>
vars == <<table, tombs, cacheVars, publish, deletion, reading, publishes, deletes,
          faults, historyVars>>

PublishRec == [phase : {"idle", "admitted", "caching", "replacing", "burying", "storing"},
               event : Events \cup {None}, prev : Profiles \cup {None}]
DeletionRec == [phase : {"idle", "caching", "deleting", "burying"}, event : Events \cup {None}]

TypeOK ==
  /\ table \in SUBSET Events
  /\ tombs \in SUBSET Events
  /\ byId \in SUBSET Profiles
  /\ profile \in [Authors -> Profiles \cup {None}]
  /\ publish \in [Publishers -> PublishRec]
  /\ deletion \in DeletionRec
  /\ reading \in SUBSET Profiles
  /\ {publishes, deletes, faults} \subseteq Nat
  /\ accepted \in SUBSET Events
  /\ removed \in SUBSET Events
  /\ lost \in SUBSET Events
  /\ revivable \in SUBSET Events

NoPublish == [phase |-> "idle", event |-> None, prev |-> None]
NoDeletion == [phase |-> "idle", event |-> None]

Init ==
  /\ table = {}
  /\ tombs = {}
  /\ byId = {}
  /\ profile = [a \in Authors |-> None]
  /\ publish = [p \in Publishers |-> NoPublish]
  /\ deletion = NoDeletion
  /\ reading = {}
  /\ publishes = 0
  /\ deletes = 0
  /\ faults = 0
  /\ accepted = {}
  /\ removed = {}
  /\ lost = {}
  /\ revivable = {}

-----------------------------------------------------------------------------
(* The tables and the cache.                                               *)
Newest(V) == {v \in V : \A w \in V : Rank[w] <= Rank[v]}

VersionsOf(a) == {v \in table \cap Profiles : AuthorOf[v] = a}

\* evtCache.Set: by id, and as its author's profile.
CacheSet(v) ==
  /\ byId' = byId \cup {v}
  /\ profile' = [profile EXCEPT ![AuthorOf[v]] = v]

\* A publish of the event has passed the tombstone lookup.
BeingPublished(e) == \E p \in Publishers : publish[p].event = e

\* RecordTombstone: the first tombstone of an id stays.
Bury(e) ==
  /\ tombs' = tombs \cup {e}
  /\ revivable' = IF e \notin tombs /\ (e \in table \/ BeingPublished(e))
                  THEN revivable \cup {e} ELSE revivable

Fault == faults < MaxFaults /\ faults' = faults + 1

-----------------------------------------------------------------------------
(* A publish (khatru's AddEvent over the relay's hooks).                   *)
Finish(p) == publish' = [publish EXCEPT ![p] = NoPublish]
Goto(p, ph) == publish' = [publish EXCEPT ![p].phase = ph]
Replaces(p, ph, v) ==
  publish' = [publish EXCEPT ![p] = [phase |-> ph, event |-> publish[p].event, prev |-> v]]

Started(p, e) ==
  /\ publish[p].phase = "idle"
  /\ publishes < MaxPublishes
  /\ publishes' = publishes + 1
  /\ publish' = [publish EXCEPT ![p] =
       [phase |-> IF e \in Profiles THEN "admitted" ELSE "storing", event |-> e, prev |-> None]]

\* Mutant: a failed lookup admits the event.
MutAdmit(p, e) ==
  /\ Started(p, e)
  /\ UNCHANGED <<table, tombs, cacheVars, deletion, reading, deletes, faults, historyVars>>

\* The tombstone lookup lets the event pass.  A tombstoned event, or a lookup
\* that fails, is refused and leaves no trace.
Admit(p, e) ==
  /\ e \notin tombs
  /\ Started(p, e)
  /\ UNCHANGED <<table, tombs, cacheVars, deletion, reading, deletes, faults, historyVars>>

\* The query for the author's current version: answered from the cache ...
FindInCache(p) ==
  LET a == AuthorOf[publish[p].event] IN
  /\ publish[p].phase = "admitted"
  /\ profile[a] # None
  /\ Replaces(p, "replacing", profile[a])
  /\ UNCHANGED <<table, tombs, cacheVars, deletion, reading, publishes, deletes, faults,
                 historyVars>>

\* ... or from the table (LIMIT 1), through the cache.
FindInTable(p) ==
  LET V == VersionsOf(AuthorOf[publish[p].event]) IN
  /\ publish[p].phase = "admitted"
  /\ profile[AuthorOf[publish[p].event]] = None
  /\ \/ V = {} /\ Goto(p, "storing")
     \/ \E v \in Newest(V) : Replaces(p, "caching", v)
  /\ UNCHANGED <<table, tombs, cacheVars, deletion, reading, publishes, deletes, faults,
                 historyVars>>

CachePrevious(p) ==
  /\ publish[p].phase = "caching"
  /\ CacheSet(publish[p].prev)
  /\ Goto(p, "replacing")
  /\ UNCHANGED <<table, tombs, deletion, reading, publishes, deletes, faults, historyVars>>

\* Mutant: whatever the query returned is replaced.
MutOutranks(e, prev) == TRUE

\* khatru's isOlder(prev, e).
Outranks(e, prev) == Rank[prev] < Rank[e]

\* The previous version is deleted; khatru ignores a failure.
DeletePrevious(p) ==
  LET prev == publish[p].prev IN
  /\ publish[p].phase = "replacing"
  /\ Outranks(publish[p].event, prev)
  /\ \/ table' = table \ {prev} /\ UNCHANGED faults
     \/ UNCHANGED table /\ Fault
  /\ Goto(p, "burying")
  /\ UNCHANGED <<tombs, cacheVars, deletion, reading, publishes, deletes, historyVars>>

\* The second DeleteEvent hook, RecordTombstone; a failure is ignored too.
BuryPrevious(p) ==
  /\ publish[p].phase = "burying"
  /\ \/ Bury(publish[p].prev) /\ UNCHANGED faults
     \/ UNCHANGED <<tombs, revivable>> /\ Fault
  /\ Goto(p, "storing")
  /\ UNCHANGED <<table, cacheVars, deletion, reading, publishes, deletes,
                 accepted, removed, lost>>

\* A version at least as new is there: answered OK, nothing stored.
Outranked(p) ==
  /\ publish[p].phase = "replacing"
  /\ ~Outranks(publish[p].event, publish[p].prev)
  /\ Finish(p)
  /\ UNCHANGED <<table, tombs, cacheVars, deletion, reading, publishes, deletes, faults,
                 historyVars>>

\* db.SaveEvent; a duplicate is answered OK as well.
Store(p) ==
  /\ publish[p].phase = "storing"
  /\ table' = table \cup {publish[p].event}
  /\ accepted' = accepted \cup {publish[p].event}
  /\ Finish(p)
  /\ UNCHANGED <<tombs, cacheVars, deletion, reading, publishes, deletes, faults,
                 removed, lost, revivable>>

\* SaveEvent fails, or the replica dies on the way.
PublishFails(p) ==
  /\ publish[p].phase # "idle"
  /\ Fault
  /\ lost' = IF publish[p].phase \in {"burying", "storing"} /\ publish[p].prev # None
             THEN lost \cup {publish[p].prev} ELSE lost
  /\ Finish(p)
  /\ UNCHANGED <<table, tombs, cacheVars, deletion, reading, publishes, deletes,
                 accepted, removed, revivable>>

-----------------------------------------------------------------------------
(* A deletion request (khatru's handleDeleteRequest) by the event's author. *)
\* Mutant: IsCacheable is not asked.
MutFindTarget(e) ==
  /\ deletion.phase = "idle"
  /\ deletes < MaxDeletes
  /\ e \in table \/ e \in byId
  /\ deletes' = deletes + 1
  /\ deletion' = [event |-> e, phase |-> IF e \notin byId THEN "caching" ELSE "deleting"]
  /\ UNCHANGED <<table, tombs, cacheVars, publish, reading, publishes, faults, historyVars>>

FindTarget(e) ==
  /\ deletion.phase = "idle"
  /\ deletes < MaxDeletes
  /\ e \in table \/ e \in byId
  /\ deletes' = deletes + 1
  /\ deletion' = [event |-> e,
       phase |-> IF e \in Profiles /\ e \notin byId THEN "caching" ELSE "deleting"]
  /\ UNCHANGED <<table, tombs, cacheVars, publish, reading, publishes, faults, historyVars>>

\* The query that finds the target caches it, like any other.
CacheTarget ==
  /\ deletion.phase = "caching"
  /\ CacheSet(deletion.event)
  /\ deletion' = [deletion EXCEPT !.phase = "deleting"]
  /\ UNCHANGED <<table, tombs, publish, reading, publishes, deletes, faults, historyVars>>

DeleteTarget ==
  /\ deletion.phase = "deleting"
  /\ table' = table \ {deletion.event}
  /\ removed' = removed \cup {deletion.event}
  /\ deletion' = [deletion EXCEPT !.phase = "burying"]
  /\ UNCHANGED <<tombs, cacheVars, publish, reading, publishes, deletes, faults,
                 accepted, lost, revivable>>

\* Recording runs after the backend's own delete.
BuryTarget ==
  /\ deletion.phase = "burying"
  /\ Bury(deletion.event)
  /\ deletion' = NoDeletion
  /\ UNCHANGED <<table, cacheVars, publish, reading, publishes, deletes, faults,
                 accepted, removed, lost>>

\* Either hook fails, or the replica dies: the request is answered with an
\* error and what was done stays done.
DeletionFails ==
  /\ deletion.phase # "idle"
  /\ Fault
  /\ deletion' = NoDeletion
  /\ UNCHANGED <<table, tombs, cacheVars, publish, reading, publishes, deletes, historyVars>>

-----------------------------------------------------------------------------
(* A client's profile query, and the cache's TTL.                          *)

\* A miss: with a limit the newest row, without one every version.
ReadProfile(a) ==
  /\ reading = {}
  /\ profile[a] = None
  /\ VersionsOf(a) # {}
  /\ \/ \E v \in Newest(VersionsOf(a)) : reading' = {v}
     \/ reading' = VersionsOf(a)
  /\ UNCHANGED <<table, tombs, cacheVars, publish, deletion, publishes, deletes, faults,
                 historyVars>>

\* The rows are cached in the order they are read, newest first.
CacheRow ==
  /\ \E v \in Newest(reading) : CacheSet(v) /\ reading' = reading \ {v}
  /\ UNCHANGED <<table, tombs, publish, deletion, publishes, deletes, faults, historyVars>>

ExpireId(v) ==
  /\ v \in byId
  /\ byId' = byId \ {v}
  /\ UNCHANGED <<table, tombs, profile, publish, deletion, reading, publishes, deletes,
                 faults, historyVars>>

\* Mutant: getTTL gives kind 0 no TTL, and the key never runs out.
MutExpireProfile(a) ==
  /\ FALSE
  /\ UNCHANGED vars

ExpireProfile(a) ==
  /\ profile[a] # None
  /\ profile' = [profile EXCEPT ![a] = None]
  /\ UNCHANGED <<table, tombs, byId, publish, deletion, reading, publishes, deletes,
                 faults, historyVars>>

-----------------------------------------------------------------------------
PublishStep(p) ==
  \/ FindInCache(p)
  \/ FindInTable(p)
  \/ CachePrevious(p)
  \/ DeletePrevious(p)
  \/ BuryPrevious(p)
  \/ Outranked(p)
  \/ Store(p)

DeletionStep == CacheTarget \/ DeleteTarget \/ BuryTarget

Next ==
  \/ \E p \in Publishers : PublishStep(p) \/ PublishFails(p) \/ \E e \in Events : Admit(p, e)
  \/ \E e \in Events : FindTarget(e)
  \/ DeletionStep
  \/ DeletionFails
  \/ \E a \in Authors : ReadProfile(a) \/ ExpireProfile(a)
  \/ CacheRow
  \/ \E v \in Profiles : ExpireId(v)

\* Requests run on, and every cache key runs out.
Fairness ==
  /\ \A p \in Publishers : WF_vars(PublishStep(p))
  /\ WF_vars(DeletionStep)
  /\ WF_vars(CacheRow)
  /\ \A v \in Profiles : WF_vars(ExpireId(v))
  /\ \A a \in Authors : WF_vars(ExpireProfile(a))

Spec == Init /\ [][Next]_vars /\ Fairness

-----------------------------------------------------------------------------
(* Properties.                                                             *)

\* Deleted for a version that is about to be stored.
MakingWay(v) ==
  \E p \in Publishers : publish[p].prev = v /\ publish[p].phase \in {"burying", "storing"}

\* The newest version an author ever had stored is in the table, unless its
\* author deleted it, it makes way for a newer one, or the publish of that one
\* failed half way: an older version never takes its place, however the
\* publishes overlap and however stale the cached version they compare with.
NewestIsKept ==
  \A a \in Authors :
    \A v \in Newest({w \in accepted \cap Profiles : AuthorOf[w] = a}) :
      v \in table \cup removed \cup lost \/ MakingWay(v)

\* A tombstoned event is gone for good, whoever has kept a copy: only a publish
\* already past its lookup, or a delete that failed, can leave it in the table.
TombstonedIsGone == (tombs \ revivable) \cap table = {}

\* A deleted event stops being served: neither a query, nor the replace and the
\* deletion that put it into the cache on their way, keeps it there.
DeletedIsForgotten ==
  \A v \in Profiles :
    v \in tombs \ revivable ~> [](v \notin byId /\ profile[AuthorOf[v]] # v)

\* "Invalidate ... Used when receiving new replaceable events": once a new
\* version is stored the profile cache no longer answers with an older one.
CacheFollowsReplace ==
  \A a \in Authors :
    profile[a] # None /\ (\A p \in Publishers : publish[p].phase = "idle") =>
      \A v \in accepted \cap Profiles : AuthorOf[v] = a => Rank[v] <= Rank[profile[a]]
=============================================================================
