--------------------------------- MODULE Gates ---------------------------------
(***************************************************************************)
(* The write gates (cmd/relay/gates.go and main.go, with the handlers they *)
(* register): what an event must pass, in this order, before it is stored  *)
(* or, when it is ephemeral, relayed.  khatru runs the gates of one EVENT  *)
(* message in a goroutine of its own, so between two gates the connection  *)
(* may authenticate as another key, an admin may ban, a deletion may be    *)
(* accepted and another event may pass.  RateLimit, AccessCache,           *)
(* TombstoneLookup, ArbiterClaim and WotTrust hold the inside of the gates *)
(* that appear here as one step.                                           *)
(***************************************************************************)
EXTENDS Integers, FiniteSets

CONSTANTS GateRequests, GateAuthors, GateEvents,
          Sends,          \* request -> the events it may bring
          NoAuthor,       \* the connection is not authenticated
          FirstKeys,      \* whom it may be authenticated as when the first event comes
          NoId,           \* the claim row does not exist
          AuthExempt,     \* Config.ExemptKinds
          IpExempt,       \* RateLimitExemptKinds
          CollabKinds, Rate,  \* TrustPolicy.EventsPerSecond, 0 for no limit
          CollabRate, Followed, Allowed, MinPoW,
          BanTargets,     \* authors, events and kinds an admin bans
          PaidTtl, MaxWait,   \* in ticks: the cache's TTL, paidLookupTimeout
          MaxAuths, MaxEdits, MaxTicks_, MaxGateFaults   \* bounds

GateKinds == {"note", "claim", "join", "connect", "collab", "zap"}
Ephemeral == {"join", "connect", "collab"}   \* kinds 20000 to 29999
PolicyLevels == {"paid", "follow", "unknown"}
Flaws == {"none", "signature", "window", "expired", "work", "claim", "receipt"}
WellFormedEvents ==
  [id : STRING, kind : GateKinds, author : GateAuthors, mined : BOOLEAN,
   protected : BOOLEAN, flaw : Flaws]
Ids == {e.id : e \in GateEvents}

ASSUME GateAssumption ==
  /\ GateEvents \subseteq WellFormedEvents /\ Sends \in [GateRequests -> SUBSET GateEvents]
  /\ \A e, f \in GateEvents : e.id = f.id => e = f
  /\ FirstKeys \subseteq GateAuthors \union {NoAuthor}
  /\ NoAuthor \notin GateAuthors /\ NoId \notin Ids
  /\ AuthExempt \subseteq GateKinds /\ IpExempt \subseteq GateKinds
  /\ CollabKinds \subseteq GateKinds /\ Rate \in [PolicyLevels -> Nat] /\ CollabRate \in Nat
  /\ Followed \subseteq GateAuthors /\ Allowed \subseteq GateAuthors /\ MinPoW \in BOOLEAN
  /\ BanTargets \subseteq Ids \union GateAuthors \union GateKinds
  /\ {PaidTtl, MaxWait, MaxAuths, MaxEdits, MaxTicks_, MaxGateFaults} \subseteq Nat
  /\ GateEvents # {} /\ PaidTtl > 0

VARIABLES
  authWrite,   \* AUTH_POLICY is auth-write or auth-all
  gate, sent,  \* per request: the next gate, and the event
  answer,      \* per request: what the client was told
  authed,      \* khatru.GetAuthed of the connection
  tombs, bans, \* deleted_events; the access snapshot
  claimRow,    \* arbiter_claims: the event that holds the task
  tier,        \* members whose tier is paid
  paidCache,   \* paidCache: author -> the answer and its age
  paidRead,    \* per request: GetMember's answer and for how long it is on its way
  bucket,      \* rateBuckets
  asked,       \* history: requests that cost a database call
  met,        \* history: per request, what held at some moment since it came
  steady,      \* history: per request, what held at every moment since it came
  lapsed,      \* history: ticks since an author was last paid
  stalest,     \* history: the longest lapse of an author that passed as paid
  auths, edits, ticks_, gateFaults

GateVars == <<authWrite, gate, sent, answer, authed, tombs, bans, claimRow, tier,
              paidCache, paidRead, bucket, asked, met, steady, lapsed, stalest,
              auths, edits, ticks_, gateFaults>>
world == <<authed, tombs, bans, tier, auths, edits>>
trust == <<paidCache, paidRead, bucket, stalest>>
counts == <<ticks_, gateFaults, lapsed>>

BucketNames == {"general", "collab"} \X GateAuthors
NoBucket == [limit |-> 0, tokens |-> 0]
Uncached == [paid |-> FALSE, age |-> PaidTtl]   \* as good as no entry
NoRead == [paid |-> FALSE, waited |-> -1]
LongAgo == PaidTtl + 2 * MaxWait + 2   \* a lapse no cached answer may outlive
Least(i, j) == IF i <= j THEN i ELSE j

NoEvent == CHOOSE e \in GateEvents : TRUE   \* a request that has none yet

GateInit ==
  /\ authWrite \in BOOLEAN
  /\ gate = [r \in GateRequests |-> "idle"] /\ sent = [r \in GateRequests |-> NoEvent]
  /\ answer = [r \in GateRequests |-> "none"]
  /\ authed \in FirstKeys /\ tombs = {} /\ bans = {} /\ claimRow = NoId
  /\ tier \in {{}, GateAuthors} /\ paidCache = [a \in GateAuthors |-> Uncached]
  /\ paidRead = [r \in GateRequests |-> NoRead]
  /\ bucket = [b \in BucketNames |-> NoBucket]
  /\ asked = {} /\ met = [r \in GateRequests |-> {}] /\ steady = [r \in GateRequests |-> {}]
  /\ lapsed = [a \in GateAuthors |-> IF a \in tier THEN 0 ELSE LongAgo] /\ stalest = 0
  /\ auths = 0 /\ edits = 0 /\ ticks_ = 0 /\ gateFaults = 0

Banned(e, b) == {e.id, e.author, e.kind} \cap b # {}
Holds(e, key, b, t) ==
  {w \in {"auth", "unbanned", "undeleted"} :
     CASE w = "auth"      -> key = e.author
       [] w = "unbanned"  -> ~Banned(e, b)
       [] w = "undeleted" -> e.id \notin t}

\* Taken with every step: what each request has met.
Watch ==
  LET now(r) == Holds(sent'[r], authed', bans', tombs') IN
  /\ met' = [r \in GateRequests |->
       IF gate'[r] = "idle" THEN {} ELSE IF gate[r] = "done" THEN met[r] ELSE met[r] \union now(r)]
  /\ steady' = [r \in GateRequests |->
       IF gate'[r] = "idle" THEN {} ELSE IF gate[r] = "done" THEN steady[r]
       ELSE IF gate[r] = "idle" THEN now(r) ELSE steady[r] \cap now(r)]

Passes(r, g) == gate' = [gate EXCEPT ![r] = g] /\ UNCHANGED answer
Told(r, why) ==
  gate' = [gate EXCEPT ![r] = "done"] /\ answer' = [answer EXCEPT ![r] = why]
Asks(r) == asked' = asked \union {r}
Fault == gateFaults < MaxGateFaults /\ gateFaults' = gateFaults + 1
NoFault == UNCHANGED gateFaults
\* What the gates that only look leave alone.
LooksOnly == UNCHANGED <<authWrite, sent, world, claimRow, trust, ticks_, lapsed>>

------------------------------------------------------------------------------
(* The gates. *)

Signed(e) == e.flaw # "signature"
InWindow(e) == e.flaw # "window"     \* created_at
Unexpired(e) == e.flaw # "expired"
Worked(e) == e.flaw # "work"         \* the relay's own MinPoWDifficulty
Valid(e) == Signed(e) /\ InWindow(e) /\ Unexpired(e) /\ Worked(e)
MayBeLimited(e) == e.kind \notin IpExempt

\* The gates in front of auth read nothing that another step writes (RateLimit has
\* the limiter), so they are one step with the arrival.
Arrive(r, e) ==
  /\ gate[r] = "idle" /\ sent' = [sent EXCEPT ![r] = e]
  /\ \/ ~Valid(e) /\ Told(r, "invalid")
     \/ Valid(e) /\ MayBeLimited(e) /\ Told(r, "rate-limited")
     \/ Valid(e) /\ Passes(r, "auth")
  /\ UNCHANGED <<authWrite, world, claimRow, trust, asked, counts>>

EvaluateWrite(key, e) ==
  CASE e.kind \in AuthExempt -> "allow"
    [] e.kind \notin AuthExempt /\ key = NoAuthor -> "auth-required"
    [] e.kind \notin AuthExempt /\ key \notin {NoAuthor, e.author} -> "restricted"
    [] OTHER -> "allow"

CheckAuth(r) ==
  /\ gate[r] = "auth"
  /\ LET decision == IF authWrite THEN EvaluateWrite(authed, sent[r]) ELSE "allow"
     IN IF decision = "allow" THEN Passes(r, "tombstone") ELSE Told(r, decision)
  /\ LooksOnly /\ UNCHANGED <<asked, gateFaults>>

CheckTombstone(r) ==
  /\ gate[r] = "tombstone"
  /\ \/ sent[r].kind \in Ephemeral /\ Passes(r, "bans") /\ UNCHANGED asked /\ NoFault
     \/ /\ sent[r].kind \notin Ephemeral /\ Asks(r)
        /\ \/ sent[r].id \in tombs /\ Told(r, "deleted") /\ NoFault
           \/ sent[r].id \notin tombs /\ Passes(r, "bans") /\ NoFault
           \/ Told(r, "error") /\ Fault
  /\ LooksOnly

CheckBans(r) ==
  /\ gate[r] = "bans"
  /\ IF Banned(sent[r], bans) THEN Told(r, "blocked") ELSE Passes(r, "claim")
  /\ LooksOnly /\ UNCHANGED <<asked, gateFaults>>

\* Store.TryClaim: ArbiterClaim says which of two claims the row ends with.
CheckClaim(r) ==
  LET e == sent[r] IN
  /\ gate[r] = "claim"
  /\ \/ e.kind # "claim" /\ Passes(r, "trust") /\ UNCHANGED <<claimRow, asked>> /\ NoFault
     \/ /\ e.kind = "claim" /\ e.flaw = "claim"
        /\ Told(r, "invalid") /\ UNCHANGED <<claimRow, asked>> /\ NoFault
     \/ /\ e.kind = "claim" /\ e.flaw # "claim" /\ Asks(r)
        /\ \/ claimRow' = e.id /\ Passes(r, "trust") /\ NoFault
           \/ claimRow \notin {NoId, e.id} /\ Told(r, "conflict") /\ UNCHANGED claimRow /\ NoFault
           \/ Told(r, "error") /\ UNCHANGED claimRow /\ Fault
  /\ UNCHANGED <<authWrite, sent, world, trust, ticks_, lapsed>>

\* Slip: an authenticated author mines like anybody else.
MutProven(r, level) == sent[r].mined \/ level # "unknown" \/ ~MinPoW
Proven(r, level) ==
  authed = sent[r].author \/ sent[r].mined \/ level # "unknown" \/ ~MinPoW

\* rateBucket.allow and the proof of work, once the author's level is known.
\* The bucket keeps the limit of the level that created it.
ApplyPolicy(r, level) ==
  LET e      == sent[r]
      collab == e.kind \in CollabKinds /\ CollabRate > 0
      name   == <<IF collab THEN "collab" ELSE "general", e.author>>
      rate   == IF collab /\ CollabRate > Rate[level] THEN CollabRate ELSE Rate[level]
      b      == IF bucket[name] # NoBucket THEN bucket[name]
                ELSE [limit |-> rate, tokens |-> rate]
      limited == Rate[level] > 0
  IN /\ CASE limited /\ b.tokens = 0 -> Told(r, "rate-limited")
          [] ~(limited /\ b.tokens = 0) /\ ~Proven(r, level) -> Told(r, "pow")
          [] OTHER -> Passes(r, "join")
     /\ bucket' = IF ~limited THEN bucket
                  ELSE [bucket EXCEPT ![name] = [b EXCEPT !.tokens = IF @ = 0 THEN 0 ELSE @ - 1]]
     /\ stalest' = IF level = "paid" /\ lapsed[e.author] > stalest
                   THEN lapsed[e.author] ELSE stalest

LevelOf(author, paid) ==
  CASE paid -> "paid" [] ~paid /\ author \in Followed -> "follow" [] OTHER -> "unknown"

\* RejectEventByTrust up to the paid-member lookup, which a fresh answer saves.
CheckTrust(r) ==
  LET a == sent[r].author
      exempt == sent[r].kind = "connect" \/ a \in Allowed
      cached == paidCache[a].age < PaidTtl
  IN /\ gate[r] = "trust"
     /\ CASE exempt -> Passes(r, "join") /\ UNCHANGED <<bucket, stalest, asked>>
          [] ~exempt /\ cached ->
               ApplyPolicy(r, LevelOf(a, paidCache[a].paid)) /\ UNCHANGED asked
          [] ~exempt /\ ~cached ->
               Passes(r, "paid") /\ Asks(r) /\ UNCHANGED <<bucket, stalest>>
     /\ UNCHANGED <<authWrite, sent, world, claimRow, paidCache, paidRead, counts>>

\* GetMember: its answer is on its way; an error or a timeout counts as unpaid.
ReadTier(r) ==
  /\ gate[r] = "paid" /\ paidRead[r] = NoRead
  /\ \/ paidRead' = [paidRead EXCEPT ![r] = [paid |-> sent[r].author \in tier, waited |-> 0]]
        /\ NoFault
     \/ paidRead' = [paidRead EXCEPT ![r] = [paid |-> FALSE, waited |-> 0]] /\ Fault
  /\ UNCHANGED <<authWrite, gate, sent, answer, world, claimRow, paidCache, bucket, asked,
                 stalest, ticks_, lapsed>>

PaidAnswers(r) ==
  LET a == sent[r].author IN
  /\ gate[r] = "paid" /\ paidRead[r] # NoRead
  /\ paidCache' = [paidCache EXCEPT ![a] = [paid |-> paidRead[r].paid, age |-> 0]]
  /\ paidRead' = [paidRead EXCEPT ![r] = NoRead]
  /\ ApplyPolicy(r, LevelOf(a, paidRead[r].paid))
  /\ UNCHANGED <<authWrite, sent, world, claimRow, asked, counts>>

BadReceipt(e) == e.kind = "zap" /\ e.flaw = "receipt"

\* RejectInvalidZapReceipt, then RejectJoinRequest: membership and the invite code
\* are looked up.
CheckJoin(r) ==
  LET e == sent[r] IN
  /\ gate[r] = "join"
  /\ \/ BadReceipt(e) /\ Told(r, "invalid") /\ UNCHANGED asked /\ NoFault
     \/ e.kind # "join" /\ ~BadReceipt(e) /\ Passes(r, "protected") /\ UNCHANGED asked /\ NoFault
     \/ e.kind = "join" /\ ~e.protected /\ Told(r, "restricted-join") /\ UNCHANGED asked /\ NoFault
     \/ /\ e.kind = "join" /\ e.protected /\ Asks(r)
        /\ \/ Passes(r, "protected") /\ NoFault
           \/ Told(r, "restricted-join") /\ NoFault   \* no such code, or it is used up
           \/ Told(r, "error") /\ Fault
  /\ LooksOnly

StoreOrRelay(r) ==
  \/ sent[r].kind \in Ephemeral /\ Told(r, "relayed") /\ UNCHANGED asked /\ NoFault
  \/ sent[r].kind \notin Ephemeral /\ Asks(r) /\ Told(r, "stored") /\ NoFault
  \/ sent[r].kind \notin Ephemeral /\ Asks(r) /\ Told(r, "error") /\ Fault

\* RejectProtectedEvent is the last gate: behind it khatru stores the event, or relays
\* it when it is ephemeral, and nothing in between is read again.
CheckProtected(r) ==
  LET e == sent[r]
      refused == e.protected /\ authed # e.author
  IN /\ gate[r] = "protected"
     /\ \/ refused /\ authed = NoAuthor /\ Told(r, "auth-required") /\ UNCHANGED asked /\ NoFault
        \/ refused /\ authed # NoAuthor /\ Told(r, "protected") /\ UNCHANGED asked /\ NoFault
        \/ ~refused /\ StoreOrRelay(r)
     /\ LooksOnly

------------------------------------------------------------------------------
(* What else happens meanwhile. *)

\* An AUTH message; khatru lets a connection authenticate again.
Authenticate(key) ==
  /\ key # authed /\ auths < MaxAuths
  /\ authed' = key /\ auths' = auths + 1
  /\ UNCHANGED <<authWrite, gate, sent, answer, tombs, bans, claimRow, tier, trust,
                 asked, edits, counts>>

\* An admin's ban or unban, as the snapshot of AccessCache takes it on.
EditBans(t) ==
  /\ edits < MaxEdits /\ edits' = edits + 1
  /\ bans' = IF t \in bans THEN bans \ {t} ELSE bans \union {t}
  /\ UNCHANGED <<authWrite, gate, sent, answer, authed, tombs, claimRow, tier, trust,
                 asked, auths, counts>>

\* Another connection's deletion request (EventStore).
Tombstone(id) ==
  /\ edits < MaxEdits /\ edits' = edits + 1
  /\ id \notin tombs /\ tombs' = tombs \union {id}
  /\ UNCHANGED <<authWrite, gate, sent, answer, authed, bans, claimRow, tier, trust,
                 asked, auths, counts>>

\* A payment is settled, or the paid period ends (Payments).
ChangeTier(a) ==
  /\ edits < MaxEdits /\ edits' = edits + 1
  /\ tier' = IF a \in tier THEN tier \ {a} ELSE tier \union {a}
  /\ lapsed' = [lapsed EXCEPT ![a] = 0]
  /\ UNCHANGED <<authWrite, gate, sent, answer, authed, tombs, bans, claimRow, trust,
                 asked, auths, ticks_, gateFaults>>

\* Time passes: answers age, buckets refill.  No lookup outlives its deadline.
GateTick ==
  /\ ticks_ < MaxTicks_ /\ ticks_' = ticks_ + 1
  /\ \A r \in GateRequests : paidRead[r].waited < MaxWait
  /\ paidRead' = [r \in GateRequests |->
       IF paidRead[r] = NoRead THEN NoRead ELSE [paidRead[r] EXCEPT !.waited = @ + 1]]
  /\ paidCache' = [a \in GateAuthors |->
       [paidCache[a] EXCEPT !.age = Least(@ + 1, PaidTtl)]]
  /\ bucket' = [n \in BucketNames |->
       [bucket[n] EXCEPT !.tokens = Least(@ + bucket[n].limit, 2 * bucket[n].limit)]]
  /\ lapsed' = [a \in GateAuthors |->
       IF a \in tier THEN 0 ELSE Least(lapsed[a] + 1, LongAgo)]
  /\ UNCHANGED <<authWrite, gate, sent, answer, world, claimRow, asked, stalest, gateFaults>>

\* sweepStaleBuckets: only buckets idle long enough to be full again.
SweepBucket(n) ==
  /\ bucket[n] # NoBucket /\ bucket[n].tokens = 2 * bucket[n].limit
  /\ bucket' = [bucket EXCEPT ![n] = NoBucket]
  /\ UNCHANGED <<authWrite, gate, sent, answer, world, claimRow, paidCache, paidRead,
                 asked, stalest, counts>>

GateStep(r) ==
  \/ \E e \in Sends[r] : Arrive(r, e)
  \/ CheckAuth(r) \/ CheckTombstone(r) \/ CheckBans(r)
  \/ CheckClaim(r) \/ CheckTrust(r) \/ ReadTier(r) \/ PaidAnswers(r)
  \/ CheckJoin(r) \/ CheckProtected(r)

GateNext ==
  /\ \/ \E r \in GateRequests : GateStep(r)
     \/ \E key \in GateAuthors : Authenticate(key)
     \/ \E t \in BanTargets : EditBans(t)
     \/ \E id \in Ids : Tombstone(id)
     \/ \E a \in GateAuthors : ChangeTier(a)
     \/ GateTick
     \/ \E n \in BucketNames : SweepBucket(n)
  /\ Watch

GateSpec == GateInit /\ [][GateNext]_GateVars

------------------------------------------------------------------------------
GateNames == {"idle", "auth", "tombstone", "bans", "claim", "trust",
              "paid", "join", "protected", "done"}
Answers == {"none", "invalid", "rate-limited", "auth-required", "restricted", "deleted",
            "blocked", "conflict", "pow", "restricted-join", "protected", "error",
            "stored", "relayed"}
Witnessed == {"auth", "unbanned", "undeleted"}
CachedPaid == [paid : BOOLEAN, age : 0 .. PaidTtl]
PaidReads == [paid : BOOLEAN, waited : -1 .. MaxWait]
Buckets == [limit : Nat, tokens : Nat]

\* Every variable holds what the handlers can put there; a bucket never holds more
\* than two seconds' worth.
GateTypeOK ==
  /\ authWrite \in BOOLEAN /\ authed \in GateAuthors \union {NoAuthor}
  /\ gate \in [GateRequests -> GateNames] /\ sent \in [GateRequests -> GateEvents]
  /\ answer \in [GateRequests -> Answers]
  /\ tombs \subseteq Ids /\ bans \subseteq BanTargets
  /\ claimRow \in Ids \union {NoId} /\ tier \subseteq GateAuthors
  /\ paidCache \in [GateAuthors -> CachedPaid] /\ paidRead \in [GateRequests -> PaidReads]
  /\ bucket \in [BucketNames -> Buckets]
  /\ \A n \in BucketNames : bucket[n].tokens <= 2 * bucket[n].limit
  /\ asked \subseteq GateRequests
  /\ met \in [GateRequests -> SUBSET Witnessed] /\ steady \in [GateRequests -> SUBSET Witnessed]
  /\ lapsed \in [GateAuthors -> 0 .. LongAgo] /\ stalest \in 0 .. LongAgo
  /\ auths \in 0 .. MaxAuths /\ edits \in 0 .. MaxEdits /\ ticks_ \in 0 .. MaxTicks_
  /\ gateFaults \in 0 .. MaxGateFaults

NeedsAuth(r) == authWrite /\ sent[r].kind \notin AuthExempt

\* gates.go: an event refused only for want of authentication costs no database call.
NoDatabaseBeforeAuth == \A r \in asked : NeedsAuth(r) => "auth" \in met[r]

\* What is stored or relayed met every condition at some moment since it came.
AcceptedWasAllowed ==
  \A r \in GateRequests : answer[r] \in {"stored", "relayed"} =>
    /\ "unbanned" \in met[r]
    /\ sent[r].kind \notin Ephemeral => "undeleted" \in met[r]
    /\ NeedsAuth(r) \/ sent[r].protected => "auth" \in met[r]

\* gates.go: an author who stays authenticated is never told to mine or to log in.
AuthorsAreNotTurnedAway ==
  \A r \in GateRequests :
    "auth" \in steady[r] => answer[r] \notin {"pow", "auth-required", "restricted", "protected"}

\* A claim row belongs to an event that met the gates before the claim gate, and such
\* an event is only lost to WoT's limiter, a failing database or a change of identity.
ClaimRowsAreVetted ==
  LET carriers == {r \in GateRequests : gate[r] # "idle" /\ sent[r].id = claimRow}
      lost == \A r \in carriers : gate[r] = "done" /\ answer[r] # "stored"
  IN claimRow # NoId =>
       /\ \E r \in carriers : /\ {"unbanned", "undeleted"} \subseteq met[r]
                              /\ NeedsAuth(r) => "auth" \in met[r]
       /\ lost => \E r \in carriers : \/ answer[r] \in {"rate-limited", "error"}
                                      \/ "auth" \notin steady[r]

\* main.go: an author passes as paid at most the cache's TTL, and one lookup's
\* deadline, after its tier ended.
PaidStandingIsRecent == stalest < PaidTtl + MaxWait

\* The order of the write gates (cmd/relay/gates.go) keeps what its comment promises
\* whatever happens between two gates of one event.
GatesHold ==
  /\ NoDatabaseBeforeAuth
  /\ AcceptedWasAllowed
  /\ AuthorsAreNotTurnedAway
  /\ ClaimRowsAreVetted
  /\ PaidStandingIsRecent

=============================================================================
