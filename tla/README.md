# Verification of cloistr-relay

TLA+ models of the stateful core of cloistr-relay, a Nostr relay written in Go
on top of khatru, PostgreSQL and Redis/Dragonfly, with TLC runs that check them on
small instances and TLAPS proofs of the properties that matter most.

The relay runs as two or more replicas over one database and one Redis. There is no
lock between replicas except what a single SQL statement or Redis command gives, so
the models take **one database or Redis call as one atomic step** and let every
other request, replica and background worker run in between.

## 1. Inventory

| Component | Code | State | Operations | What is hard |
|---|---|---|---|---|
| Lightning payments, membership tiers | `internal/membership/{http,payments,store,scheduler,types}.go`, `internal/lightning` | `pending_payments` rows; tier and expiry of `nip43_members` rows | create an invoice, settle by webhook, sweep hourly | duplicated and late webhooks, read-then-write across calls, sweeps of other replicas, a failure between settling and granting |
| Arbiter claims | `internal/arbiterclaim`, `internal/dbcall` | `arbiter_claims`: one row per task | TryClaim, Holder | statements that outlive their caller, `now()` taken before a lock wait, retries |
| Write-ahead log | `internal/writeahead` | a Redis list shared by all pods; a retry count per entry | Write, drainBatch | acknowledge before durable, crash with an entry in hand, duplicates that can never be saved |
| Event storage, deletion, cache | `internal/relay`, `internal/storage/tombstone.go`, `internal/eventcache`, `cmd/relay/{main,gates}.go` | `event`, `deleted_event`, Redis keys by id and by author+kind | publish, replace, delete, query, TTL | a cache that is never invalidated sits under khatru's own lookups; replace is delete, tombstone, store in separate calls |
| Event expiry | `internal/expiry`, `internal/handlers` | rows with an expiration tag | batched sweep, filter on read | two readings of the tag; a sweep under a query |
| HAVEN boxes: broadcast | `internal/haven/blastr.go` | a bounded channel, a retry list in Redis | broadcast, retry | bounded queues, start order, lost retries |
| HAVEN boxes: import | `internal/haven/{importer,importer_manager,subscriber}.go` | how far each relay has been read, a job queue, live subscriptions | poll, import, reconnect | marks that move past what was not stored, overlapping jobs, late events |
| HAVEN boxes: routing | `internal/haven/{router,handlers,user_settings,settings_watcher}.go` | per-user settings rows | route an event or a filter, check it | settings read several times while they change; errors let a request through |
| Groups (NIP-29) | `internal/groups` + relay29 | `nip29_*` tables and a copy of them in memory; metadata events | moderation, join, invites, metadata gate, scope of a query | table and copy change in two steps, invites counted apart from their check, an ownership chain that events are added to and deleted from |
| Web of trust | `internal/wot` | follow lists, a level cache in Redis and one per replica, PageRank scores | update follows, look up, recompute | stale entries cached after their invalidation, replicas that overwrite each other's scores |
| Management (NIP-86) | `internal/management` | ban and allow lists, an in-memory snapshot of them | write, reload, check | overlapping reloads of four statements, failed ones, restarts |
| Rate limits | `internal/ratelimit`, lookup slots in `storage` | sliding windows, buckets, a semaphore | admit, refill | check-then-add, abandoned slots |
| Cross-pod pub/sub | `internal/pubsub` | a bounded channel, a subscription | publish, receive, resubscribe | drops, gaps, own echoes |
| Write gates | `cmd/relay/gates.go`, `main.go`, `internal/{auth,protected,zaps,wot}`, `membership/handler.go` | paid-member cache, rate buckets | the gates of an EVENT in order | what changes between two gates of one event |
| Read gates and queries | `internal/relay`, `giftwrap`, `auth`, `groups/scope.go` | none of their own | REQ, COUNT | a reader that changes its key, groups that turn private, two counts that do not see the same rows |
| Startup and search schema | `internal/startup`, `storage/{ddllock,postgres,indexes}.go`, `internal/search` | schema, index, vectors | start, build, backfill | replicas that start together; events stored meanwhile |
| Admin sessions | `internal/admin/admin.go` | session rows in Redis, a map per pod | login, check, logout, cleanup | two places for a session, calls that fail |
| Sessions, caches, feeds, kinds, NIP-66, config, logging, admin pages | the rest of `internal`, `cmd/admin` | little or none | I/O, parsing, rendering | - |

How they interact. khatru calls lists of hooks for each message. A publish passes
the `RejectEvent` gates in the order they were registered (`cmd/relay/gates.go`,
then `main.go`: rate limits, authentication, tombstones, bans, arbiter claims, web
of trust, groups, HAVEN), then the `StoreEvent` hook (the write-ahead log or
PostgreSQL). For a replaceable kind khatru first queries the current version through
the relay's own `QueryEvents` hook, cache included, and deletes it through the
`DeleteEvent` hooks. The payment webhook and the expiry scheduler write the tier
that HAVEN routing and the web-of-trust gate read. Background goroutines (drain
workers, sweepers, refreshers) run in every replica.

What makes each component correct:

- payments: one payment is one grant; settled and expired are final; a paid invoice
  ends decided, a settled one granted; no paid tier is taken away early, no paid
  period is lost;
- claims: at most one session acts; an answer is only given to a recorded claim;
  a claim that is final stays;
- write-ahead log: an acknowledged event reaches the table unless something failed;
  retries end; the list drains;
- event storage: the newest version survives; a deleted event does not come back and
  stops being served;
- broadcasts: every event is delivered to every relay or given up after its retries,
  and never forgotten in between;
- imports: an event that another relay holds is stored, asked for again, or given up for
  a reason the code knows; a live subscription loses nothing that a reconnect can bring;
- boxes and groups: only what an owner allows passes; what the gates are told is what the
  tables hold; ownership goes only to whom an owner named;
- trust, bans, limits: an answer from a cache is at most its time old; a ban that has
  returned holds; concurrent requests exceed a limit by a known number at most;
- gates and reads: what is accepted met every gate's condition while it was being checked;
  what is served was the reader's to see, and a sweep takes nothing still served;
- starting: every replica gets past the locks, and search that is on is complete;
- delivery and sessions: every pod shows what one accepted unless it was lost for a named
  reason; a session that was left or is over serves nothing.

## 2. Modules

| Module | Models | Run by |
|---|---|---|
| `TierGrants` | abstract: what the payment subsystem promises its members | refined by `Payments` |
| `Payments` | webhook, invoice endpoint, tables, scheduler | `MCPayments` |
| `PaymentsProofs` | proofs about `Payments` | |
| `TaskLease` | abstract: a lease on one task | refined by `ArbiterClaim` |
| `ArbiterClaim` | TryClaim, Holder, abandoned statements | `MCArbiterClaim` |
| `ArbiterClaimProofs` | proofs about `ArbiterClaim` | |
| `WriteAhead` | Write and the drain workers of all pods | `MCWriteAhead` |
| `WriteAheadProofs` | proofs about `WriteAhead` | |
| `EventStore` | publish, replace, delete, query, cache, tombstones | `MCEventStore` |
| `EventStoreProofs` | proofs about `EventStore` | |
| `Blastr` | outbox broadcasting, the retry list shared by all pods | `MCBlastr` |
| `BlastrProofs` | proofs about `Blastr` | |
| `AccessCache` | the NIP-86 lists, their snapshots and reloads | `MCServices` |
| `RateLimit` | per-IP buckets and the window in Redis | `MCServices` |
| `TombstoneLookup` | the deletion check, its slots, deadline and retry | `MCServices` |
| `Subscriber` | live subscriptions to other relays | `MCServices` |
| `PubSub` | delivery between pods | `MCServices` |
| `SchemaSetup` | replicas that start, the DDL locks, search | `MCServices` |
| `ServicesProofs` | proofs about the six modules above, and their sum | |
| `WotTrust` | trust levels by the follow lists, and their caches | `MCRequests` |
| `PageRank` | trust levels by PageRank, in memory and in Redis | `MCRequests` |
| `Importers` | polling and importing from other relays | `MCRequests` |
| `HavenRouting` | boxes: routing and the owner's rules | `MCRequests` |
| `GroupStore` | NIP-29 groups: tables and copy, invites | `MCRequests` |
| `GroupOwnership` | who may publish a group's metadata | `MCRequests` |
| `Gates` | an EVENT through the write gates | `MCRequests` |
| `Reading` | a REQ or COUNT, under saves, sweeps and changes | `MCRequests` |
| `AdminSessions` | the sessions of the admin interface | `MCRequests` |
| `StandingProofs` | proofs about `WotTrust`, `PageRank`, `GroupStore`, `GroupOwnership` | |
| `RequestsProofs` | proofs about `HavenRouting`, `Importers`, `Gates`, `Reading`, `AdminSessions`, and the sum of all nine | |

`PROJECT.json` maps every definition to the source lines it stands for. Operators
whose names start with `Mut` are deliberately wrong versions of the definition they
precede (a dropped guard, an off-by-one, ...); no specification uses them. They exist
to show that each property can fail: with `Mut...` in place of its original, the
property is violated. Variables marked *history* in the declarations record what
has happened and are read by no guard of the code's own actions.

### Payments

`status`, `created`, `settledAt` are the columns of `pending_payments`; `tier` and
`expiry` those of `nip43_members` (0 is NULL, "never"); `ln` is LNbits' view of an
invoice. `handler[w]` is a webhook request between two of its calls: `looked` after
GetByHash, `verified` after CheckPayment, `settled` after MarkSettled, `priced` after
GetMember with the expiry it computed. Each branch of `handleWebhook` is an action, the
error branches with both outcomes of a failed statement (executed or not). The sweep's
two UPDATEs are independent actions because nothing passes from one to the other and
every replica runs its own. Anyone may post a webhook for any hash at any time, so
`Lookup` and `WebhookIgnored` are always possible; a 200 only records that LNbits will
not post again.

Abstracted: amounts (paid in full or not), NIP-98, JSON. PeriodDays is one constant.
Members exist throughout (`RemoveMember` has no caller). LNbits creates an invoice
before its row exists, but the payer sees it only after the INSERT.

### ArbiterClaim

The row of one task: `holder`, `claimedAt`. Every statement names a single
`task_id`, so tasks do not interact. `call[c].start` is the `now()` of the INSERT: PostgreSQL fixes
it when the statement starts and tests the row later, after lock waits. `abandoned`
holds INSERTs whose caller was released by `dbcall.WithDeadline`. `Act` is the effect
site described by the package comment (external): it waits until its lease can no
longer be displaced, compares its token with `Holder`, and acts.

`MaxDelay` is an **assumption on the environment**, not a constant of the code: no
statement takes effect more than `MaxDelay` after it started. It is what the deadline
and TCP_USER_TIMEOUT are for; without it nobody could ever act safely, since an
INSERT may displace a holder whenever it finally runs. `told` over-approximates: a
gate that comes after the claim gate may still refuse the event.

### WriteAhead

`queue` is the Redis list, an entry is an event with its retry count and whether it is
older than EventTTL; `drainer[p]` is the worker of a pod with the entry it popped. A
failed `RPUSH` or `SaveEvent` may have taken effect. `SaveEvent` of a stored event
fails (ErrDupEvent) as the PostgreSQL backend does. `saveFails` counts to MaxRetries and
stops there. `drainAll` is left out because `main` ends in `select {}` and never calls
`Stop`.

### EventStore

khatru is not in the repository; the order in which it calls the hooks (query, compare
with `isOlder`, delete each previous version through both `DeleteEvent` hooks ignoring
their errors, store) is external. `publish[p]` is a publish between two hooks,
`deletion` a deletion request, `reading` a profile query with rows left to cache. Kind
0 stands for the replaceable kinds because it is the one whose lookups the profile
cache answers. `byId` and `profile` are the two key families of the cache. The write-ahead
log is off in this module (it is off by default, like the cache); events carry no
expiration tag.

`lost` and `revivable` delimit what the code cannot promise: a version deleted for a
replacement that was never stored; an event tombstoned while it was still in the table
(khatru records the tombstone even if the delete failed) or while a publish of it was
already past the tombstone lookup.

### Blastr

`queue[p]` is the channel of a pod, `sending[p]` its `broadcastEvent`: the relays it is
publishing to and those that failed. `retryList` is the sorted set in Redis, an entry
is an event for one relay with its attempts and its last error (both are part of the
member, so two pods that retry the same entry may leave two). Scores are abstracted to
`due`, entries whose time has come. `retrying[p]` is the entry a retry worker has
removed and is publishing; a failed publish may have reached the relay, and a failed
ZADD or ZREM is only logged or ignored. A publish by a retry worker and the requeue after
its failure are one step: nothing that anybody else reads changes between them, and a crash
there loses what a crash before the step loses. `pod[p]` says which of `Start` and
`SetRedisClient` have been called; `StartFirst` is the order. The model assumes
that retries are configured (`HAVEN_BLASTR_RETRY_ENABLED` and a cache); without
them every failed publish is dropped.

### AccessCache

A table is the sequence of the contents it has had, so that a snapshot, which is four
SELECTs outside a transaction, is a version number per list. `refreshMu` is the mutex of
RefreshAccess, `caller` what the refresher, the boot and each admin call of a replica are
doing, `due` (history) the version a returned call has promised. `Dispatch` has the
eleven methods that change a list; `WriteUnseen` is a statement of `cmd/admin`, of another replica,
or one whose caller got an error. NIP-98 is `Authorised`, with both ends of the time window.

### RateLimit, TombstoneLookup

One IP. The counter of a bucket is an object of its own because a request may hold its
pointer after the map entry is gone. `TombstoneLookup` has the database answer, fail or
hang; only the relay's own deadlines are fair. A lookup abandoned at its deadline keeps its slot
until its socket dies, which nothing obliges it to do.

### Subscriber, Importers

`Subscriber`: one manager per relay with the doubling backoff and one handler per
subscription. `holds` is what the remote relay has; the filter has no Since, so each
new subscription sends it all again. `Importers` has both modes (`multi`). An event is its
created_at, which is all a Since and a limit tell apart; it may reach a relay late. `mark` is
`lastFetch` or `last_import_time`. `explained` (history) collects what a
move of the mark gives up, and why.

### PubSub

`publishCh` is the bounded buffer of a pod, `channel` what Redis has delivered to it and
`handleMessage` has not yet taken. `lostFor` (history) records the losses with a cause: a full
buffer, a failed publish, a pod that is not subscribed, a pod that dies.

### SchemaSetup

`phase` walks an instance through connect, the DDL lock, backend, indexes, tombstone table,
ready, the search lock, the schema transaction, the index and the backfill. CREATE INDEX
CONCURRENTLY waits for `reading` and for `Snapshots`, the instances whose connection keeps a
snapshot: none, because the locks are polled with short statements.

### WotTrust, PageRank

One author, a root and a friend of the root. Time is kept as ages that stop at the age no
cache keeps; an edge carries how long ago it last was and last was not there, so that
"recent" is a statement about history that stays finite. `PageRank` does not iterate: a
version of the graph stands for the levels the iteration gives in it. `behind` are the
replicas whose computation was skipped or failed; one of them keeps its old scores, for as
long as the graph stays below `minPageRankSize`.

### HavenRouting

`RouteEvent`, `RouteFilter` and their `...ForUser(s)` forms are operators; the checks of one
request are actions, between which settings, lists and tiers may change. In
many-user mode the settings of a box's owner are read up to twice. Kinds are the four classes the
router tells apart.

### GroupStore, GroupOwnership

`GroupStore` has `nip29_*` rows and the copy; a request is accepted on the copy and changes,
after the event is saved, first the row and then the copy. `mayDiffer` and `raced` (history)
are the pairs and the invites that two requests touched at once. `main` does not register
`Handler` and `Store`; it wires `RejectExternalMetadata` and relay29. `GroupOwnership` has
the chain of transfers, cut at `MaxTransferDepth`, and the lists; a publication is admitted first and saved later.

### Gates

The order of the hooks in `gates.go` and `main.go`, one action per gate that reads something
another step changes, and the parts of the other modules that gates look at, as one step each:
whether a ban is in the snapshot, the id is tombstoned, the claim row is free. `met` and
`steady` (history) record which conditions a request has met at some moment, or always,
since it came. `paidCache` is the five-minute cache of `newPaidMemberChecker`, `bucket` the rate
buckets of the trust gate; a bucket keeps the limit of the level that created it. The HAVEN
gate is in `HavenRouting`, the per-IP limiter in `RateLimit`.

### Reading

`OverwriteGiftWrapFilter`, the filter gates, `QueryEvents` with the cache and the search index,
the rows one by one, and COUNT with its two counts, while rows are saved, deleted and swept,
profiles are cached, groups change and the connection authenticates. `foundAt` is when the
cache answered. A filter for a group is answered by relay29's own queries, which are
external: here it finds nothing.

### AdminSessions

`redis` and `expires` are the row and its ExpiresAt, `memory` each pod's map. Redis is
configured; a call may fail after it took effect. `verdict` is the answer last given.
A deployment with no Redis at all keeps sessions in one pod's map only and is not modelled.

## 3. Runs

| Run | Checks | Instance | Result |
|---|---|---|---|
| `payments` | TypeOK, GrantOnce, AckedIsDecided, ActiveMeansBought; InvoiceIsDecided, SettledIsGranted; refinement of TierGrants | 1 member, 2 invoices, 2 requests, 1 failure | holds, 414,328 states |
| `paid_days_lost` | NoPaidDaysLost | the same, no failure | violated in 15 states |
| `arbiter_claim` | TypeOK, AtMostOneActs, ToldHolds; refinement of TaskLease | 3 claims, 4 submissions, window 2, delay 1 | holds, 2.6 million states |
| `claim_displaced` | FinalAfterWindow | 2 claims, window 2, delay 2 | violated |
| `write_ahead` | TypeOK, LossIsExplained; ListDrains | 2 pods, 2 events, 4 writes, 3 faults | holds, 465,499 states |
| `acked_event_lost` | AckedIsKept | 2 writes, 1 fault | violated by write, pop, crash |
| `event_store` | TypeOK, NewestIsKept, TombstonedIsGone; DeletedIsForgotten | 3 versions, 1 note, 2 publishes in flight of 3, 1 deletion, 1 fault | holds, 313,900 states |
| `stale_profile` | CacheFollowsReplace | 1 publisher, 2 publishes | violated |
| `blastr` | TypeOK, NothingForgotten, GivenUpIsTried; BroadcastIsDecided | 2 pods, 2 events, 1 relay, channel of 1, 3 attempts, 1 fault, documented start order | holds, 479,011 states |
| `retry_idle` | FailedIsRetried | the same without faults, in the program's start order | violated |
| `services` | TypeOK, BanHoldsOnReturn, OvershootIsBounded, SlotsAndDeletionsHold, ActiveSearchIsComplete; WritesReachReplicas, CheckIsAnswered, HeldPostsAreStored, NotesReachEveryPod, EveryReplicaServesSearch | 6 components, see `Services.cfg` | holds, 68,615 states |
| `requests` | TypeOK, StandingIsRecent, LostImportsAreExplained, OwnersRulesHold, GroupsHold, GatesHold, ReadsHold, SessionsHold | 9 components, see `Requests.cfg` | holds, 1,782,494 states |

`services` and `requests` check several components each. `MCServices` and `MCRequests` are
the *disjoint sum* of their components: a constant-valued variable `part` says
which of them a behaviour is about, that one takes its steps and the others rest in an initial
state. The components of a sum share no variable and call none of each other's
operations in the code either, so an invariant of the sum is the conjunction of the
invariants of the components, and no interleaving is lost. Where one component reads what another one keeps, the
reader has the other's state as a variable of its own that changes at any moment (the bans,
tombstones, claims and tiers of `Gates`; the tiers of `HavenRouting`). `MCRequests` runs `Gates`
twice: one event of any sort, and a claim next to a second event, with a smaller choice of the rest.

Bounds. The clocks, the numbers of publishes, writes, deletions and faults are
capped by constants named `Max...` (and `LastInvoice`), marked *bound* in the modules;
every other constant is a parameter of the code. Two requests in flight and two
invoices of one member are the smallest instance in which a webhook is handled twice and
in which two payments of a member overlap. Three claims let a holder be
displaced twice, and a fourth submission is a retry; a settle window of 2 with a delay
of 1 separates inside, outside and sealed. Two pods and two events
put an event on the list twice; three faults with MaxRetries = 3 suffice to discard
one. Three versions with two publishes in flight let a publish compare with a version
that a second one has replaced already. A channel of one
event and two events fill it; rounds of one entry leave others for the other pod, and
three attempts let both pods count on from the same one. In `services` one replica with one
admin and its refresher already has three callers for the mutex; three requests overshoot a
limit of two; one slot and two checks let one wait for the other's abandoned lookup; a
buffer of one and two notes fill it; two replicas meet at both locks. In `requests`
a TTL of one tick and ages up to the one that no cache keeps let every entry expire;
lookups take no tick (`MaxLookup` 0), so that the bound on a level's age is the TTL itself, while
two lookups still interleave step by step; three versions of a graph are one that loses a
node and one that is too small; imports see two relays, two events, a limit of one
and two ticks; four group calls are a group, an invite and two uses of it at once (`MaxUses` 1);
three publications transfer a group, list a delegate, and let the delegate try. What is
proved (section 4) holds without these bounds.

`CHECK_DEADLOCK FALSE` is given where the bounded clock or the bounded number of
requests lets the model stop, as it does in both sums; `Payments` is checked for deadlock. That nothing waits for
ever is a liveness property where waiting occurs (`CheckIsAnswered`, `EveryReplicaServesSearch`).

Fairness. `Payments`: time passes, the scheduler's ticker fires, an accepted request
runs on (Go schedules its goroutine). Nobody has to pay, post a webhook or fail.
`WriteAhead`: every worker's ticker keeps firing. `EventStore`: requests in flight run
on and every Redis key runs out, since `Set` always passes a TTL. `Blastr`: a pod
finishes coming up, its worker goes on (a publish has a 10 s timeout), the ticker of
every retry worker that was started keeps firing, and scores pass. In `services` all fairness is
weak and about the relay's own goroutines: the refresher's ticker fires, a mutex is got, a statement
of a reload ends or fails (`AccessCache`); a deadline fires, and nothing is owed by the database
(`TombstoneLookup`); the manager of each remote relay goes on and a relay that is up answers
(`Subscriber`); the two loops of a pod run and Redis answers (`PubSub`); an instance runs
as long as it is not killed and a read ends (`SchemaSetup`). Faults are bounded in number and never fair.
`RateLimit` and the components of `requests` have safety properties only. `ArbiterClaim` has no
liveness property: whether a task is ever claimed is up to its clients.

### Where the code does not do what its documentation says

- **A paid period can be lost** (`paid_days_lost`). `docs/lightning-payments-scope.md:160`
  extends from `max(now, current_expiry)` "to avoid losing paid days". The expiry is
  read by one statement and written by another, so two payments settled together
  both extend the same one.
- **An acknowledged event can be lost** (`acked_event_lost`). `writeahead.go:13` says
  events stay in the log "until confirmed written to PostgreSQL"; LPOP takes them out
  before the save.
- **A final claim can be displaced** (`claim_displaced`). `arbiterclaim/store.go:29-31`
  says a claim is final outside the settle window; the window is tested against the
  time the competing statement started, not the time it takes effect. An effect site that
  waits for the window plus the longest delay is safe (`AtMostOneActs`).
- **The profile cache keeps the replaced version** (`stale_profile`). `Invalidate` is
  documented as "used when receiving new replaceable events" and has no caller; the
  replace's own lookup puts the old version into the cache.
- **Failed broadcasts are never retried** (`retry_idle`). `blastr.go:162` says to call
  `SetRedisClient` before `Start` "to enable retry functionality";
  `RegisterFullSystem` calls `Start` and `main` sets the client afterwards, then logs
  that the retry queue is enabled. The run `blastr` checks the component as
  documented; until the order is changed its retry actions never happen in the program.

Smaller divergences, met while modelling and not given a run:

- A join request never adds a member. Kind 28934 is ephemeral; khatru relays such an event
  and calls `OnEphemeralEvent`, so `OnJoinRequestSaved` (`membership/handler.go:116`) never
  runs, although `handler.go:62` says valid join requests are stored normally and `main.go:539`
  announces "kind 28934 -> member + kind 8000 notify".
- A comment in `main.go` (about line 905) says search queries fall back to the regular backend until
  search is active; `relay.go` answers them with nothing (`Reading` models the code).
- The sweeper takes an event if any numeric expiration tag is past, `GetExpiration` uses the
  first that parses; `SweptWasOver` is therefore stated for events with one tag. Swept rows stay
  in the event cache until their TTL.
- A single expiration tag of 0 is no expiration to a query (`handlers.go:237`), but the sweeper's
  statement takes the event. `SweptWasOver` leaves that value out; the proof met it.
- A filter that names no kind is not a filter for gift wraps and is not gated as one.

## 4. Proofs

Each `...Proofs` module proves `Spec => []Inv` for an inductive invariant, with one
lemma or step per action, and derives the theorems from it. The only assumptions are
the named `...Assumption` of each module, which the runs evaluate.

- **`PaymentsProofs`** - `TypeCorrect`, `GrantsOnce`, `AckedDecided`,
  `DecisionsAreFinal`, `PaidTierLasts` and `Refinement` (TierGrants). `GrantOnce` is not inductive: nothing
  in it keeps two requests from both holding a settled payment. The invariant adds that
  the requests past MarkSettled hold different, settled, paid and ungranted payments,
  which is what the UPDATE's status test buys, and that a request's computed expiry is at
  least a period after the settlement. `PaidTierLasts` (`ActiveMeansBought`) follows from it with
  one more fact, that a grant leaves an expiry behind and the stored tier is bought until
  then (`StoredMeansBought`).
- **`ArbiterClaimProofs`** - `TypeCorrect`, `OneActs`, `ToldRemainsTrue` and `Refinement`
  (TaskLease). The invariant says that no statement is older than `MaxDelay`, that
  whoever acted holds the row, and that its row is then sealed: no pending statement
  started inside its window.
- **`WriteAheadProofs`** - `TypeCorrect`, `LossesExplained`, `RetriesBounded`. The
  invariant ties the retry count of every copy of an entry, on the list or in a worker's
  hands, to the failed saves recorded for its event.
- **`EventStoreProofs`** - `TypeCorrect`, `TombstonedStayGone`, `NewestStays`. A publish
  in flight never carries a forbidden event; what a publish compares with is always a
  version of its own author (the cache may be stale but never mixes authors up), and it
  deletes that version only for one that outranks it.
- **`BlastrProofs`** - `TypeCorrect`, `NothingIsForgotten`, `GivenUpTried`. That a pair is
  given up only after MaxRetries failures needs to know that the attempts of every copy
  of an entry, on the list, fetched or being retried by any pod, are failed publishes of
  that pair (`AttemptsCounted`). Nothing in the proofs depends on the start order.

- **`ServicesProofs`** - six components and their sum.
  *Limits* (`OvershootBounded`, `PoolAndDeletionsHold`, types): the bound on a counter needs to
  know that requests which have passed the check and not yet spent are part of it, and that a
  refill only lowers it; that of the window, that nobody who counted left it. The slots are a count
  of lookups in progress plus abandoned ones that no step can raise past its guard.
  *Access lists* (`BansHold`, `SnapshotsAdvance`, types): `BanHoldsOnReturn` says nothing of the
  reload in progress. The invariant does (`ReloadOK`): there is one per replica, its caller is
  loading, and each version it has read is neither behind the snapshot it will replace, nor
  behind what the replica has promised, nor behind what its own caller wrote. The mutex buys
  exactly the first two. That a snapshot never goes back is an action property from the same
  invariant.
  *Search* (`SearchIsComplete`, types): "no row is without a vector" holds of an active replica
  only because the trigger is there since before its backfill began, the index stays valid,
  and every row whose vector is missing lies above the mark of each replica that is still
  backfilling (`NoneBehind`); a backfill that finds no more such rows is done (`BackfillDone`).
  *Delivery* (`NotesAccounted`, types) and *live subscriptions* (`HeldPostsInSight`, types):
  the safety that the liveness properties of the two rest on: at every moment a note or a post is
  somewhere, or lost for a reason the code knows.
- **`StandingProofs`** - *Trust* (`TrustRecent`, types): a level is recent because each step of a lookup
  records only what the follow lists said within the time the lookup has taken, an entry's
  age is counted from the end of its lookup, and no cache keeps an entry past its time.
  *Ranks* (`RanksRecent`, types): every place that holds scores - the shared rows, a replica's
  memory, a computation under way - names a version of the table that was in force at
  most its own age ago; the version that is in the table now is the newest.
  *Groups* (`GroupViewsMatch`, `InvitesBounded`, types): that row and copy agree at rest is kept by what is
  owed while a call is between the two: if only one call touches a member, then finishing it makes
  the two agree (`TouchedWillAgree`), two calls on one member are always recorded in `mayDiffer`
  (`OneAtATime`), and rows exist only for groups that do. The uses of an invite plus the
  calls that have found it usable never exceed the limit by the number of callers.
  *Ownership* (`OwnersChosen`, types): only keys that an owner named have metadata stored or on its way,
  and each names only such keys; a walk along transfers that starts at one therefore ends at one.
- **`RequestsProofs`** - *Boxes* (`OwnersRules`, types): everything passed so far was cleared by its owner's
  rules at a moment since the request came, whichever of the two readings decided it.
  *Imports* (`ImportsExplained`, types): a job accounts for everything its relays held when they were
  asked - it is stored, still to be stored, given up for a reason, or marked as missed
  (`JobsAccounted`) - so that moving the mark loses only what the history records.
  *Gates* (`GatesKeepTheirOrder`, types): an event at a gate has met every gate before it
  (`RequestsOwed`); a claim row names an event whose own request had met the three gates before
  the claim (`ClaimVetted`); the paid-member cache and a lookup in progress are as young as they
  pretend (`PaidAges`).
  *Reads* (`ReadsAreRight`, types): a filter past the rewriting is narrowed to the reader's own wraps
  unless an authenticated key may read more, cached copies are younger than their TTL, and
  the first of two counts stays right while the rows do not change.
  *Admin sessions* (`SessionsAreSound`, types): the invariant follows a session through both places: a
  pod's map holds only sessions Redis did not take, a live session that Redis took has its
  row until its end, a logged-out one has none unless a DEL failed, and a request under way
  holds a token that was issued.
  *The sum* (`RequestsTypeCorrect`, `StandingRecent`, `GroupsAgree`, and `ServicesTypeCorrect` in the module
  above): a step of the sum is a step or a stutter of every component, so each inductive
  invariant carries over as it is.

Every invariant of every passing run is a theorem. Two things these proofs assume that the runs
could take for granted: the sets of callers, keys and stored events over which a count is
taken are finite, and a few constants are positive that a deployment could not set to 0 to any
purpose (the clock's bound, the TTL of paid standing). There is no assumption on the values
of limits, TTLs, depths or bounds besides that they are numbers.

*Induction.* The library states induction for an operator, which cannot be instantiated here. Where a
proof needs it, a set of numbers stands for the predicate (`LeastNumber`, `NumberInduction`,
from the well-foundedness of the natural numbers). In this way the two recursive functions
of the models are proved to be what their definitions say, and what follows from them:
`Walked`, by the number of keys not yet visited, and `MembersIn`, by the length of the list.

*What the proofs found.* Two properties that the runs had accepted were false outside their bounds.
`LostImportsAreExplained` did not know that an event which reaches a relay late can fall between
the Since of a job that was queued earlier and a mark that a save of the settings has reset; such
a job never asks for it. The history now records it; the wider instance with which
this was confirmed (Importers alone, two relays, three events, two ticks, Lookback 1, 6.9 million states)
is too large to keep as a run. `SweptWasOver` was false for an expiration of 0 (section 3).
Proving the types of `MembersIn` and `Walked` turned them from recursive operators into functions.

Only model-checked: liveness under fairness (`InvoiceIsDecided`, `SettledIsGranted`, `ListDrains`,
`DeletedIsForgotten`, `BroadcastIsDecided`, and the five of `services`) and anything about
`ENABLED`, which are beyond the prover used here.

## 5. Not modelled

Section 1 lists every component and `PROJECT.json` gives the reason for each that has no
module, and what is left out of each that has one. In short: the PageRank iteration and feed scores are floating
point; parsing of tags and rendering of HTML, RSS and metrics keep no state; configuration
only reads the environment, and its values are the constants of the modules; `haven/organization.go`
and the session store are not wired into the program, and nothing reaches `BlastrManager`;
khatru, relay29, PostgreSQL, Redis and LNbits are external and appear only as the code uses
them. `main` ends in `select {}` and handles no signal, so the deferred `Stop` calls never
run and no shutdown is modelled, only crashes. Wording of answers, logging and statistics
are left out throughout.

Hazards without a property: a deletion request for an event that is still on the write-ahead list
(the two modules are checked apart), and nothing else of the list in `PROJECT.json`.

## 6. Plan

1. Safety behind the liveness properties that have none proved yet: `WritesReachReplicas` (a promised
   version is either in the snapshot or a reload for it is due), `EveryReplicaServesSearch`
   (whoever waits for a lock waits for a replica that holds it), `CheckIsAnswered`.
2. `DeletedIsForgotten` and `ListDrains`: that what is left decreases with every fair step, as action
   properties.
3. Composition `LoggedStore` of `WriteAhead` and `EventStore`: deletion of an event that
   is still on the list.
4. Deletion by address in `EventStore`; the listing methods of NIP-86 if they come to decide anything.
