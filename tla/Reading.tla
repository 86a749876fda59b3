-------------------------------- MODULE Reading --------------------------------
(***************************************************************************)
(* One REQ or COUNT from the filter gates to the last event served         *)
(* (internal/relay/relay.go with giftwrap, auth, handlers and              *)
(* groups/scope.go), while events are saved and swept (internal/expiry),   *)
(* groups change their members and the connection authenticates.  The      *)
(* NIP-29 library's own queries (st.NormalEventQuery and the like) are     *)
(* external and left out: a filter for a group is answered with nothing.   *)
(***************************************************************************)
EXTENDS Integers, FiniteSets, Sequences

CONSTANTS Readers, NoReader,
          PrivateGroups,   \* NIP-29 groups that may be private
          NoGroup,
          Stored,          \* events that may be stored, see StoredEvents
          ReadFilters,     \* filters that arrive, see FilterRecords
          GiftGrace, ProfileTtl, SweepBatchSize,
          MaxClock_, MaxReadChanges   \* bounds

ReadKinds == {"note", "profile", "wrap"}
StoredEvents ==
  [id : STRING, kind : ReadKinds, to : Readers, group : PrivateGroups \union {NoGroup},
   expirations : Seq(Nat)]   \* the numeric expiration tags, in order
FilterRecords ==
  [kinds : SUBSET ReadKinds, to : SUBSET Readers, groups : SUBSET PrivateGroups,
   lookup : BOOLEAN,   \* names one id, or one author's kind 0, and nothing else
   search : BOOLEAN, count : BOOLEAN, oversized : BOOLEAN]

ASSUME ReadAssumption ==
  /\ NoReader \notin Readers /\ NoGroup \notin PrivateGroups
  /\ Stored \subseteq StoredEvents /\ ReadFilters \subseteq FilterRecords
  /\ {GiftGrace, ProfileTtl, SweepBatchSize, MaxClock_, MaxReadChanges} \subseteq Nat
  /\ IsFiniteSet(Stored) /\ SweepBatchSize > 0 /\ MaxClock_ > 0

VARIABLES
  readAuth,    \* AUTH_POLICY is auth-read or auth-all
  wrapsGated,  \* GiftWrap.RequireAuthForGiftWrap
  readClock,
  table_,      \* the event table
  profiles,    \* event cache: cached profiles and for how long
  indexed,     \* search.Pointer is set
  private,     \* groups that are private now
  belongs,     \* <<group, reader>>
  readerKey,   \* khatru.GetAuthed of the connection
  step,        \* how far the request is
  filter,
  rows_,       \* what the query has found and not yet served
  fromCache,   \* the rows are the event cache's
  foundAt,     \* history: when the query found them
  reader,      \* the key ordinaryQuery serves for
  counted,     \* privateAwareCount: the first of its two counts
  served,      \* <<event, when>>
  total,       \* the COUNT's answer, -1 before
  sweepAt,     \* the sweeper's nowUnix, -1 between two sweeps
  swept,       \* history: <<event, when>> taken by the sweep under way
  readable,    \* history: events open to the reader at some moment since
  firstKey,    \* history: whom the connection was authenticated as at first
  keySteady, rowsSteady,   \* history: the key, and the rows and groups, are still the same
  due,         \* history: what the COUNT should answer, -1 before
  readChanges

ReadVars == <<readAuth, wrapsGated, readClock, table_, profiles, indexed, private, belongs,
              readerKey, step, filter, rows_, fromCache, foundAt, reader, counted, served, total,
              sweepAt, swept, readable, firstKey, keySteady, rowsSteady, due, readChanges>>
config_ == <<readAuth, wrapsGated>>
stores == <<readClock, table_, profiles, indexed, private, belongs, readerKey, sweepAt,
            swept, readChanges>>
query == <<step, filter, rows_, fromCache, foundAt, reader, counted, served, total, firstKey>>

NoFilter == [kinds |-> {}, to |-> {}, groups |-> {}, lookup |-> FALSE, search |-> FALSE,
             count |-> FALSE, oversized |-> FALSE]

ReadInit ==
  /\ readAuth \in BOOLEAN /\ wrapsGated \in BOOLEAN
  /\ readClock = 1 /\ table_ = Stored /\ profiles = {} /\ indexed = FALSE
  /\ private \in SUBSET PrivateGroups /\ belongs = {} /\ readerKey \in Readers \union {NoReader}
  /\ step = "idle" /\ filter = NoFilter /\ rows_ = {} /\ fromCache = FALSE /\ foundAt = 0
  /\ reader = NoReader /\ counted = 0 /\ served = {} /\ total = -1
  /\ sweepAt = -1 /\ swept = {} /\ readable = {} /\ firstKey = NoReader
  /\ keySteady = TRUE /\ rowsSteady = TRUE /\ due = -1 /\ readChanges = 0

\* GetExpiration: the first tag that parses; 0 when there is none.
Expiration(e) == IF e.expirations = <<>> THEN 0 ELSE Head(e.expirations)
IsExpired(e, t) == Expiration(e) > 0 /\ Expiration(e) < t
\* The sweeper's WHERE clause: any numeric tag, and a grace for gift wraps.
SweepTakes(e, t) ==
  LET limit == IF e.kind = "wrap" THEN t - GiftGrace ELSE t
  IN \E i \in DOMAIN e.expirations : e.expirations[i] < limit

Matches(f, e) ==
  /\ f.kinds = {} \/ e.kind \in f.kinds
  /\ f.to = {} \/ e.to \in f.to
  /\ f.groups = {} \/ e.group \in f.groups

CanRead(g, key, priv, mem) == g \notin priv \/ <<g, key>> \in mem
Visible(e, key, priv, mem) == CanRead(e.group, key, priv, mem)
HiddenGroups(key) == {g \in private : ~CanRead(g, key, private, belongs)}
CountOf(f) == Cardinality({e \in table_ : Matches(f, e)})

\* Taken with every step: what the reader could see, and what stayed the same, since
\* the request came; and what a COUNT should answer when it does.
Follow ==
  LET key == IF step' \in {"serving", "counting"} THEN reader' ELSE readerKey'
      open == {e \in Stored : Visible(e, key, private', belongs')}
  IN /\ readable' = CASE step' = "idle" -> {} [] step' = "done" -> readable
                      [] OTHER -> readable \union open
     /\ keySteady' = (step' = "idle" \/ (keySteady /\ readerKey' = readerKey))
     /\ rowsSteady' = (step' = "idle" \/ (rowsSteady /\
          (step = "counting" => table_' = table_ /\ private' = private /\ belongs' = belongs)))
     /\ due' = CASE step' = "idle" -> -1
                 [] step = "counting" /\ step' = "done" ->
                      Cardinality({e \in table_ : Matches(filter, e)
                                     /\ Visible(e, reader, private, belongs)})
                 [] OTHER -> due

------------------------------------------------------------------------------
(* The request. *)

Ask(f) ==
  /\ step = "idle"
  /\ filter' = f /\ step' = (IF f.count THEN "query" ELSE "overwrite")
  /\ firstKey' = readerKey
  /\ UNCHANGED <<config_, stores, rows_, fromCache, foundAt, reader, counted, served, total>>

\* khatru runs the overwrites first: a filter for wraps asks for the reader's own.
OverwriteGiftWrapFilter ==
  /\ step = "overwrite" /\ step' = "gates"
  /\ filter' = IF wrapsGated /\ "wrap" \in filter.kinds /\ readerKey # NoReader
               THEN [filter EXCEPT !.to = {readerKey}] ELSE filter
  /\ UNCHANGED <<config_, stores, rows_, fromCache, foundAt, reader, counted, served, total, firstKey>>

TooComplex(f) == f.oversized
NeedsLogin(key) == readAuth /\ key = NoReader
\* Slip: a connection that is not authenticated is let through.
MutRejectGiftWrapFilter(f, key) ==
  wrapsGated /\ "wrap" \in f.kinds /\ key # NoReader /\ key \notin f.to
RejectGiftWrapFilter(f, key) ==
  wrapsGated /\ "wrap" \in f.kinds /\ (key = NoReader \/ key \notin f.to)
IsGroupFilter(f) == f.groups # {}

FilterGates ==
  /\ step = "gates"
  /\ step' = IF TooComplex(filter) \/ NeedsLogin(readerKey)
                \/ RejectGiftWrapFilter(filter, readerKey)
             THEN "done" ELSE "query"
  /\ UNCHANGED <<config_, stores, filter, rows_, fromCache, foundAt, reader, counted, served, total,
                 firstKey>>

\* The event cache answers a lookup; the search index, while it is being built, answers
\* a search with nothing.
QueryEvents ==
  /\ step = "query" /\ ~filter.count
  /\ LET cached == {e \in Stored : (\E p \in profiles : p.event = e) /\ Matches(filter, e)}
         hit    == filter.lookup /\ cached # {}
     IN /\ fromCache' = hit
        /\ rows_' = CASE IsGroupFilter(filter) -> {}
                      [] ~IsGroupFilter(filter) /\ hit -> cached
                      [] ~IsGroupFilter(filter) /\ ~hit /\ filter.search /\ ~indexed -> {}
                      [] OTHER -> {e \in table_ : Matches(filter, e)}
  /\ reader' = readerKey /\ foundAt' = readClock /\ step' = "serving"
  /\ UNCHANGED <<config_, stores, filter, counted, served, total, firstKey>>

\* One row: expired ones are dropped unless they come from the cache, profiles are
\* cached, and ordinaryQuery drops what the reader may not see.
ServeRow(e) ==
  LET dropped == ~fromCache /\ IsExpired(e, readClock)
      caches  == ~fromCache /\ ~dropped /\ e.kind = "profile"
  IN /\ step = "serving" /\ e \in rows_ /\ rows_' = rows_ \ {e}
     /\ profiles' = IF caches
          THEN {p \in profiles : p.event # e} \union {[event |-> e, age |-> 0]} ELSE profiles
     /\ served' = IF dropped \/ ~Visible(e, reader, private, belongs)
                  THEN served ELSE served \union {<<e, readClock>>}
     /\ UNCHANGED <<config_, readClock, table_, indexed, private, belongs, readerKey, step,
                    filter, fromCache, foundAt, reader, counted, total, sweepAt, swept, firstKey,
                    readChanges>>

EndQuery ==
  /\ step = "serving" /\ rows_ = {} /\ step' = "done"
  /\ UNCHANGED <<config_, stores, filter, rows_, fromCache, foundAt, reader, counted, served, total,
                 firstKey>>

\* privateAwareCount: the first count, or 0 for a group the reader may not read ...
CountAll ==
  /\ step = "query" /\ filter.count /\ reader' = readerKey
  /\ IF \E g \in filter.groups : ~CanRead(g, readerKey, private, belongs)
     THEN total' = 0 /\ step' = "done" /\ UNCHANGED counted
     ELSE IF filter.groups # {}
     THEN total' = CountOf(filter) /\ step' = "done" /\ UNCHANGED counted
     ELSE counted' = CountOf(filter) /\ step' = "counting" /\ UNCHANGED total
  /\ UNCHANGED <<config_, stores, filter, rows_, fromCache, foundAt, served, firstKey>>

\* ... and the second, over the groups that are hidden by now.
CountHidden ==
  /\ step = "counting" /\ step' = "done"
  /\ LET hidden == HiddenGroups(reader)
         m == CountOf([filter EXCEPT !.groups = hidden])
     IN total' = IF hidden = {} THEN counted ELSE IF m > counted THEN 0 ELSE counted - m
  /\ UNCHANGED <<config_, stores, filter, rows_, fromCache, foundAt, reader, counted, served, firstKey>>

NextRequest ==
  /\ step = "done" /\ step' = "idle"
  /\ filter' = NoFilter /\ rows_' = {} /\ fromCache' = FALSE /\ foundAt' = 0 /\ reader' = NoReader
  /\ counted' = 0 /\ served' = {} /\ total' = -1 /\ firstKey' = NoReader
  /\ UNCHANGED <<config_, stores>>

------------------------------------------------------------------------------
(* Meanwhile. *)

Change == readChanges < MaxReadChanges /\ readChanges' = readChanges + 1

Authenticated(key) ==
  /\ Change /\ key # readerKey /\ readerKey' = key
  /\ UNCHANGED <<config_, query, readClock, table_, profiles, indexed, private, belongs,
                 sweepAt, swept>>

IndexReady ==
  /\ Change /\ ~indexed /\ indexed' = TRUE
  /\ UNCHANGED <<config_, query, readClock, table_, profiles, private, belongs, readerKey,
                 sweepAt, swept>>

\* A row comes (back) or goes, by a publication or a deletion; a deletion that khatru
\* makes takes the cached copy along (EventStore).
SaveOrDelete(e) ==
  /\ Change
  /\ table_' = IF e \in table_ THEN table_ \ {e} ELSE table_ \union {e}
  /\ e \notin table_ => ~IsExpired(e, readClock)   \* rejectExpiredEvents
  /\ profiles' = {p \in profiles : p.event # e}
  /\ UNCHANGED <<config_, query, readClock, indexed, private, belongs, readerKey, sweepAt, swept>>

GroupChanges(g) ==
  /\ Change
  /\ \/ /\ private' = (IF g \in private THEN private \ {g} ELSE private \union {g})
        /\ UNCHANGED belongs
     \/ \E k \in Readers :
          /\ belongs' = (IF <<g, k>> \in belongs THEN belongs \ {<<g, k>>}
                         ELSE belongs \union {<<g, k>>})
          /\ UNCHANGED private
  /\ UNCHANGED <<config_, query, readClock, table_, profiles, indexed, readerKey, sweepAt, swept>>

ReadTick ==
  /\ readClock < MaxClock_ /\ readClock' = readClock + 1
  /\ profiles' = {[p EXCEPT !.age = @ + 1] : p \in {q \in profiles : q.age + 1 < ProfileTtl}}
  /\ UNCHANGED <<config_, query, table_, indexed, private, belongs, readerKey, sweepAt, swept,
                 readChanges>>

\* Sweeper.Sweep fixes its time, then deletes in batches until none is left; a batch
\* that fails ends it, as does the end of the context.
BeginSweep ==
  /\ sweepAt = -1 /\ sweepAt' = readClock
  /\ UNCHANGED <<config_, query, readClock, table_, profiles, indexed, private, belongs,
                 readerKey, swept, readChanges>>

DeleteBatch ==
  LET over == {e \in table_ : SweepTakes(e, sweepAt)} IN
  /\ sweepAt # -1 /\ over # {}
  /\ \E batch \in SUBSET over :
       /\ Cardinality(batch) = (IF Cardinality(over) < SweepBatchSize THEN Cardinality(over)
                                ELSE SweepBatchSize)
       /\ table_' = table_ \ batch
       /\ swept' = swept \union {<<e, readClock>> : e \in batch}
  /\ UNCHANGED <<config_, query, readClock, profiles, indexed, private, belongs, readerKey,
                 sweepAt, readChanges>>

EndSweep ==
  /\ sweepAt # -1 /\ sweepAt' = -1 /\ swept' = {}
  /\ UNCHANGED <<config_, query, readClock, table_, profiles, indexed, private, belongs,
                 readerKey, readChanges>>

RequestStep ==
  \/ \E f \in ReadFilters : Ask(f)
  \/ OverwriteGiftWrapFilter \/ FilterGates \/ QueryEvents
  \/ \E e \in rows_ : ServeRow(e)
  \/ EndQuery \/ CountAll \/ CountHidden \/ NextRequest

ReadNext ==
  /\ \/ RequestStep
     \/ \E k \in Readers : Authenticated(k)
     \/ \E e \in Stored : SaveOrDelete(e)
     \/ \E g \in PrivateGroups : GroupChanges(g)
     \/ IndexReady \/ ReadTick \/ BeginSweep \/ DeleteBatch \/ EndSweep
  /\ Follow

ReadSpec == ReadInit /\ [][ReadNext]_ReadVars

------------------------------------------------------------------------------
CachedProfiles == [event : Stored, age : 0 .. ProfileTtl]
ReadSteps == {"idle", "overwrite", "gates", "query", "serving", "counting", "done"}

\* Every variable holds what the code can put there.
ReadTypeOK ==
  /\ readAuth \in BOOLEAN /\ wrapsGated \in BOOLEAN /\ indexed \in BOOLEAN
  /\ {readClock, foundAt} \subseteq 0 .. MaxClock_ /\ sweepAt \in -1 .. MaxClock_
  /\ table_ \subseteq Stored /\ profiles \subseteq CachedProfiles
  /\ private \subseteq PrivateGroups /\ belongs \subseteq PrivateGroups \X Readers
  /\ {readerKey, reader, firstKey} \subseteq Readers \union {NoReader}
  /\ step \in ReadSteps /\ filter \in FilterRecords
  /\ rows_ \subseteq Stored /\ readable \subseteq Stored
  /\ served \subseteq Stored \X (0 .. MaxClock_) /\ swept \subseteq Stored \X (0 .. MaxClock_)
  /\ counted \in Nat /\ {total, due} \subseteq Nat \union {-1}
  /\ {fromCache, keySteady, rowsSteady} \subseteq BOOLEAN
  /\ readChanges \in 0 .. MaxReadChanges

\* A filter that names wraps serves a reader whose key has not changed since the
\* request came only the wraps sent to that key.
WrapsAreTheReaders ==
  wrapsGated /\ keySteady /\ "wrap" \in filter.kinds
    => \A s \in served : s[1].kind = "wrap" => s[1].to = firstKey

\* Nothing of a private group is served unless the reader, or the group, was such that
\* it could be read at some moment since the request came.
GroupsStayPrivate == \A s \in served : s[1] \in readable

\* An expired event is served from the event cache only, and only if the cache was
\* asked within the TTL after it expired.
ExpiredIsBrieflyServed ==
  \A s \in served : IsExpired(s[1], s[2]) =>
    fromCache /\ foundAt <= Expiration(s[1]) + ProfileTtl

\* When neither rows nor groups change between the two counts, a COUNT is the number of
\* matching events that the reader may see.
CountsAreExact == due # -1 /\ rowsSteady => total = due

\* The sweeper takes only what queries no longer serve, a wrap only after its grace.
\* A single tag of 0 is left out: to a query it is no expiration, the sweep takes it.
SweptWasOver ==
  \A s \in swept : Len(s[1].expirations) = 1 /\ Expiration(s[1]) > 0 =>
    /\ IsExpired(s[1], s[2])
    /\ s[1].kind = "wrap" => Expiration(s[1]) + GiftGrace < s[2]

\* What a REQ serves is the reader's to see and a sweep takes nothing that is still
\* served, whatever changes while the request is under way.
ReadsHold ==
  /\ WrapsAreTheReaders
  /\ GroupsStayPrivate
  /\ ExpiredIsBrieflyServed
  /\ CountsAreExact
  /\ SweptWasOver

=============================================================================
