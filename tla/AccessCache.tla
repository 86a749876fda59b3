------------------------------ MODULE AccessCache ------------------------------
(***************************************************************************)
(* The NIP-86 lists (internal/management): the tables every replica and    *)
(* cmd/admin share, the snapshot of four of them that each replica checks  *)
(* events against, the reloads of that snapshot, and the calls that change *)
(* the tables.                                                             *)
(*                                                                         *)
(* A table is the sequence of the contents it has had.  A snapshot is, for *)
(* each cached list, the version (an index of that sequence) it was loaded *)
(* with; version 1 is the empty table.  A reload reads the four tables in  *)
(* four statements, not in one transaction.                                *)
(***************************************************************************)
EXTENDS Integers, Sequences

CONSTANTS AccessReplicas,
          AccessAdmins,    \* admin requests a replica serves at the same time
          Requests,        \* NIP-98 headers that arrive, see Authorised
          Pubkey, EventId, Kind, Ip,  \* the one item of each list
          MaxWrites,       \* bound: calls that change a table
          MaxLoadFaults    \* bound: reloads that fail, and replica restarts

ASSUME AccessAssumption ==
  /\ MaxWrites \in Nat /\ MaxLoadFaults \in Nat
  /\ {"timer", "boot", "none"} \cap AccessAdmins = {}
  /\ \A q \in Requests : q \in [kind : Nat, age : Int, url : BOOLEAN,
                                method : BOOLEAN, sig : BOOLEAN, admin : BOOLEAN]

VARIABLES
  table,      \* every content each table has had
  snap,       \* accessSnap: the version of each cached list, per replica
  serving,    \* replicas past mgmtStore.Init
  caller,     \* what the refresher and each admin call of a replica is doing
  refreshMu,  \* the caller that holds the mutex, per replica
  next,       \* the reload under way: versions read so far, in CachedLists order
  due,        \* history: version each list must have reached on the replica
  writes, loadFaults

AccessVars == <<table, snap, serving, caller, refreshMu, next, due, writes, loadFaults>>

\* The order of the SELECTs of RefreshAccess.
CachedLists == <<"bannedPubkeys", "bannedEvents", "exemptPubkeys", "allowedKinds">>
Cached == {CachedLists[i] : i \in 1..4}
DbLists == {"allowedPubkeys", "blockedIps"}
Lists == Cached \union DbLists
AccessCallers == AccessAdmins \union {"timer", "boot"}

\* A caller waits for the mutex or loads; list and ver say what it has written.
Idle == [at |-> "idle", list |-> "none", ver |-> 0]
Waits(l, v) == [at |-> "waits", list |-> l, ver |-> v]
CallerState == [at : {"idle", "waits", "loads"}, list : Lists \union {"none"}, ver : Nat]

Latest(l) == Len(table[l])
Content(r, l) == table[l][snap[r][l]]

AccessInit ==
  /\ table = [l \in Lists |-> <<{}>>]
  /\ snap = [r \in AccessReplicas |-> [l \in Cached |-> 1]]
  /\ serving = AccessReplicas
  /\ caller = [r \in AccessReplicas |-> [c \in AccessCallers |-> Idle]]
  /\ refreshMu = [r \in AccessReplicas |-> "none"]
  /\ next = [r \in AccessReplicas |-> <<>>]
  /\ due = [r \in AccessReplicas |-> [l \in Cached |-> 1]]
  /\ writes = 0 /\ loadFaults = 0

--------------------------------------------------------------------------------
(* The checks of every event, on the replica's snapshot. *)

IsPubkeyBanned(r, p) == p \in Content(r, "bannedPubkeys")
IsEventBanned(r, e) == e \in Content(r, "bannedEvents")
IsRateLimitExempt(r, p) == p \in Content(r, "exemptPubkeys")
IsKindAllowed(r, k) ==
  Content(r, "allowedKinds") = {} \/ k \in Content(r, "allowedKinds")

\* RegisterBanHandlers: the three NIP-86 gates, for an event ev.
BanGatesReject(r, ev) ==
  \/ IsPubkeyBanned(r, ev.pubkey)
  \/ IsEventBanned(r, ev.id)
  \/ ~IsKindAllowed(r, ev.kind)

--------------------------------------------------------------------------------
(* RefreshAccess *)

\* Slip: there is no refresher.
MutTick(r) ==
  /\ FALSE
  /\ UNCHANGED AccessVars

\* The refresher's tick.
Tick(r) ==
  /\ r \in serving /\ caller[r]["timer"] = Idle
  /\ caller' = [caller EXCEPT ![r]["timer"] = Waits("none", 0)]
  /\ UNCHANGED <<table, snap, serving, refreshMu, next, due, writes, loadFaults>>

\* Slip: a call that finds a reload under way takes it for its own.
MutTakeMutex(r, c) ==
  /\ caller[r][c].at = "waits"
  /\ IF refreshMu[r] = "none"
     THEN /\ refreshMu' = [refreshMu EXCEPT ![r] = c]
          /\ caller' = [caller EXCEPT ![r][c].at = "loads"]
          /\ next' = [next EXCEPT ![r] = <<>>]
          /\ UNCHANGED due
     ELSE /\ caller' = [caller EXCEPT ![r][c] = Idle]
          /\ due' = IF caller[r][c].list = "none" THEN due
                    ELSE [due EXCEPT ![r][caller[r][c].list] = caller[r][c].ver]
          /\ UNCHANGED <<refreshMu, next>>
  /\ UNCHANGED <<table, snap, serving, writes, loadFaults>>

TakeMutex(r, c) ==
  /\ caller[r][c].at = "waits" /\ refreshMu[r] = "none"
  /\ refreshMu' = [refreshMu EXCEPT ![r] = c]
  /\ caller' = [caller EXCEPT ![r][c].at = "loads"]
  /\ next' = [next EXCEPT ![r] = <<>>]
  /\ UNCHANGED <<table, snap, serving, due, writes, loadFaults>>

\* One SELECT: the list's content at this moment.
LoadList(r) ==
  /\ refreshMu[r] # "none" /\ Len(next[r]) < 4
  /\ next' = [next EXCEPT ![r] = Append(@, Latest(CachedLists[Len(@) + 1]))]
  /\ UNCHANGED <<table, snap, serving, caller, refreshMu, due, writes, loadFaults>>

\* What RefreshAccess publishes.
Loaded(r) == [l \in Cached |-> next[r][CHOOSE i \in 1..4 : CachedLists[i] = l]]

\* accessSnap.Store(next); a call that wrote returns, a boot starts to serve.
StoreSnapshot(r) ==
  LET c == refreshMu[r] IN
  /\ c # "none" /\ Len(next[r]) = 4
  /\ snap' = [snap EXCEPT ![r] = Loaded(r)]
  /\ due' = IF caller[r][c].list = "none" THEN due
            ELSE [due EXCEPT ![r][caller[r][c].list] =
                    IF caller[r][c].ver > @ THEN caller[r][c].ver ELSE @]
  /\ serving' = IF c = "boot" THEN serving \union {r} ELSE serving
  /\ caller' = [caller EXCEPT ![r][c] = Idle]
  /\ refreshMu' = [refreshMu EXCEPT ![r] = "none"]
  /\ next' = [next EXCEPT ![r] = <<>>]
  /\ UNCHANGED <<table, writes, loadFaults>>

\* A SELECT fails or the 5 s run out: the lists stay as they are, a call
\* that wrote succeeds all the same, a boot is fatal and starts again.
LoadFails(r) ==
  LET c == refreshMu[r] IN
  /\ c # "none" /\ loadFaults < MaxLoadFaults
  /\ loadFaults' = loadFaults + 1
  /\ caller' = [caller EXCEPT ![r][c] = IF c = "boot" THEN Waits("none", 0) ELSE Idle]
  /\ refreshMu' = [refreshMu EXCEPT ![r] = "none"]
  /\ next' = [next EXCEPT ![r] = <<>>]
  /\ UNCHANGED <<table, snap, serving, due, writes>>

\* The process restarts: Init loads the lists before anything is served.
Restart(r) ==
  /\ loadFaults < MaxLoadFaults
  /\ loadFaults' = loadFaults + 1
  /\ serving' = serving \ {r}
  /\ snap' = [snap EXCEPT ![r] = [l \in Cached |-> 1]]
  /\ caller' = [caller EXCEPT ![r] = [c \in AccessCallers |->
                  IF c = "boot" THEN Waits("none", 0) ELSE Idle]]
  /\ refreshMu' = [refreshMu EXCEPT ![r] = "none"]
  /\ next' = [next EXCEPT ![r] = <<>>]
  /\ UNCHANGED <<table, due, writes>>

--------------------------------------------------------------------------------
(* The calls: ServeHTTP, Dispatch and the methods. *)

\* ValidateNIP98Auth: kind, 60 s either way, "u", "method", signature, admin.
Authorised(q) ==
  /\ q.kind = 27235
  /\ q.age <= 60 /\ -q.age <= 60
  /\ q.url /\ q.method /\ q.sig /\ q.admin

\* The statement of a call; afterWrite reloads what the gates read.
Write(r, c, l, content) ==
  /\ r \in serving /\ caller[r][c] = Idle /\ writes < MaxWrites
  /\ \E q \in Requests : Authorised(q)
  /\ writes' = writes + 1
  /\ table' = [table EXCEPT ![l] = Append(@, content)]
  /\ caller' = IF l \in Cached
               THEN [caller EXCEPT ![r][c] = Waits(l, Latest(l) + 1)]
               ELSE caller
  /\ UNCHANGED <<snap, serving, refreshMu, next, due, loadFaults>>

InsertItem(r, c, l, x) == Write(r, c, l, table[l][Latest(l)] \union {x})
RemoveItem(r, c, l, x) == Write(r, c, l, table[l][Latest(l)] \ {x})

\* A statement that no reload here follows: cmd/admin's or another replica's,
\* or one of this replica that takes effect and reports an error (afterWrite).
WriteUnseen(l, content) ==
  /\ writes < MaxWrites
  /\ writes' = writes + 1
  /\ table' = [table EXCEPT ![l] = Append(@, content)]
  /\ UNCHANGED <<snap, serving, caller, refreshMu, next, due, loadFaults>>

BanPubkey(r, c) == InsertItem(r, c, "bannedPubkeys", Pubkey)
UnbanPubkey(r, c) == RemoveItem(r, c, "bannedPubkeys", Pubkey)
BanEvent(r, c) == InsertItem(r, c, "bannedEvents", EventId)
UnbanEvent(r, c) == RemoveItem(r, c, "bannedEvents", EventId)
AllowKind(r, c) == InsertItem(r, c, "allowedKinds", Kind)
DisallowKind(r, c) == RemoveItem(r, c, "allowedKinds", Kind)
ExemptPubkeyFromRateLimit(r, c) == InsertItem(r, c, "exemptPubkeys", Pubkey)
RemoveExemptPubkey(r, c) == RemoveItem(r, c, "exemptPubkeys", Pubkey)
AllowPubkey(r, c) == InsertItem(r, c, "allowedPubkeys", Pubkey)
BlockIP(r, c) == InsertItem(r, c, "blockedIps", Ip)
UnblockIP(r, c) == RemoveItem(r, c, "blockedIps", Ip)

Dispatch(r, c) ==
  \/ BanPubkey(r, c) \/ UnbanPubkey(r, c)
  \/ BanEvent(r, c) \/ UnbanEvent(r, c)
  \/ AllowKind(r, c) \/ DisallowKind(r, c)
  \/ ExemptPubkeyFromRateLimit(r, c) \/ RemoveExemptPubkey(r, c)
  \/ AllowPubkey(r, c) \/ BlockIP(r, c) \/ UnblockIP(r, c)

Reload(r) ==
  \/ \E c \in AccessCallers : TakeMutex(r, c)
  \/ LoadList(r)
  \/ StoreSnapshot(r)

AccessNext ==
  \/ \E r \in AccessReplicas :
       \/ Tick(r)
       \/ Reload(r)
       \/ LoadFails(r)
       \/ Restart(r)
       \/ \E c \in AccessAdmins : Dispatch(r, c)
  \/ \E content \in {{}, {Pubkey}} : WriteUnseen("bannedPubkeys", content)

\* The refresher and the reloads keep running; admins and faults owe nothing.
AccessFair ==
  \A r \in AccessReplicas :
    WF_AccessVars(Tick(r)) /\ WF_AccessVars(LoadList(r)) /\ WF_AccessVars(StoreSnapshot(r))
    /\ \A c \in AccessCallers : WF_AccessVars(TakeMutex(r, c))

AccessSpec == AccessInit /\ [][AccessNext]_AccessVars /\ AccessFair

--------------------------------------------------------------------------------
AccessTypeOK ==
  /\ table \in [Lists -> Seq(SUBSET {Pubkey, EventId, Kind, Ip})]
  /\ \A l \in Lists : Len(table[l]) >= 1
  /\ snap \in [AccessReplicas -> [Cached -> Nat \ {0}]]
  /\ serving \subseteq AccessReplicas
  /\ caller \in [AccessReplicas -> [AccessCallers -> CallerState]]
  /\ refreshMu \in [AccessReplicas -> AccessCallers \union {"none"}]
  /\ next \in [AccessReplicas -> Seq(Nat \ {0})]
  /\ due \in [AccessReplicas -> [Cached -> Nat \ {0}]]
  /\ writes \in 0..MaxWrites /\ loadFaults \in 0..MaxLoadFaults

\* When a ban that reloaded has returned, the replica that served it refuses
\* every event of the banned key until a later call has unbanned it: no reload
\* that read the table before the ban replaces the snapshot (the mutex of
\* RefreshAccess, access_cache.go:58), also across a restart.
BanHoldsOnReturn ==
  \A r \in serving, ev \in [pubkey : {Pubkey}, id : {EventId}, kind : {Kind}] :
    (\A v \in due[r]["bannedPubkeys"]..Latest("bannedPubkeys") :
       Pubkey \in table["bannedPubkeys"][v])
      => BanGatesReject(r, ev)

\* The lists a serving replica checks against never return to an older
\* content, whichever reload ends last, fails or is interrupted.
SnapshotNeverGoesBack ==
  [][\A r \in serving \cap serving', l \in Cached : snap'[r][l] >= snap[r][l]]_AccessVars

\* Every change reaches every replica: the refresher retries what a failed
\* reload left behind (afterWrite only logs it), and an unreported write too.
WritesReachReplicas ==
  \A r \in AccessReplicas, l \in Cached, v \in 1..(MaxWrites + 1) :
    Latest(l) = v ~> r \in serving /\ snap[r][l] >= v
================================================================================
