----------------------------- MODULE AdminSessions -----------------------------
(***************************************************************************)
(* The sessions of the admin interface (internal/admin/admin.go): a row in *)
(* Redis that the pods share, and each pod's own map for the sessions      *)
(* Redis did not take.  Redis is configured; a call to it may fail, and a  *)
(* write that fails for its caller may have been done.                     *)
(***************************************************************************)
EXTENDS Naturals

CONSTANTS AdminPods, Tokens,   \* the pods; the random tokens they hand out
          Admins, NoAdmin,     \* keys some configuration lists
          SessionTTL,          \* in ticks
          MaxAdminClock,       \* bound: ticks
          MaxRedisFaults,      \* bound: calls to Redis that fail
          MaxDeploys           \* bound: restarts of a pod

ASSUME AdminAssumption ==
  /\ SessionTTL \in Nat \ {0} /\ MaxAdminClock \in Nat \ {0} /\ NoAdmin \notin Admins
  /\ MaxRedisFaults \in Nat /\ MaxDeploys \in Nat

Never == 0                                   \* no row; the clock starts at 1
AdminTimes == {Never} \cup 1..(MaxAdminClock + SessionTTL)

VARIABLES
  adminNow,
  redis,      \* [Tokens -> tick at which Redis drops the row, or Never]
  memory,     \* [AdminPods -> SUBSET Tokens], each pod's own map
  listed,     \* [AdminPods -> adminPubkeys the process was started with]
  holder,     \* [Tokens -> key it was made for], NoAdmin before
  expires,    \* [Tokens -> ExpiresAt]
  call,       \* [AdminPods -> the request the pod is serving]
  cookies,    \* tokens a login was answered with
  leaving,    \* tokens a logout was asked for
  loggedOut,  \* tokens whose logout was answered
  unsaved,    \* tokens whose SET failed
  unremoved,  \* tokens for which a DEL failed
  verdict,    \* the last answer of requireAuth
  redisFaults, deploys

sessionRows == <<redis, memory>>
history == <<holder, expires, cookies, leaving, loggedOut, unsaved, unremoved>>
AdminVars == <<adminNow, sessionRows, listed, history, call, verdict,
               redisFaults, deploys>>

Steps == {"set", "keep", "get", "lookup", "del", "forget"}
Idle == [op |-> "none"]
Request(op, t, step) ==
  [op |-> op, token |-> t, step |-> step, late |-> t \in loggedOut, blind |-> FALSE]
AdminRequests == {Idle} \cup [op : {"login", "check", "expire", "logout"}, token : Tokens,
                          step : Steps, late : BOOLEAN, blind : BOOLEAN]

NoAnswer == [token |-> "none", ok |-> FALSE]
AdminAnswers == {NoAnswer} \cup
  [token : Tokens, ok : BOOLEAN, at : 1..MaxAdminClock, late : BOOLEAN,
   blind : BOOLEAN, live : BOOLEAN]

AdminInit ==
  /\ adminNow = 1
  /\ redis = [t \in Tokens |-> Never]
  /\ memory = [p \in AdminPods |-> {}]
  /\ listed = [p \in AdminPods |-> Admins]
  /\ holder = [t \in Tokens |-> NoAdmin]
  /\ expires = [t \in Tokens |-> Never]
  /\ call = [p \in AdminPods |-> Idle]
  /\ cookies = {} /\ leaving = {} /\ loggedOut = {} /\ unsaved = {} /\ unremoved = {}
  /\ verdict = NoAnswer
  /\ redisFaults = 0 /\ deploys = 0

--------------------------------------------------------------------------------
(* Requests *)

Serving(p, op, step) == call[p].op = op /\ call[p].step = step
Goto(p, step) == call' = [call EXCEPT ![p].step = step]
Done(p) == call' = [call EXCEPT ![p] = Idle]
RedisFails == redisFaults < MaxRedisFaults /\ redisFaults' = redisFaults + 1
RedisWorks == UNCHANGED redisFaults

\* handleLoginVerify with a signature of a listed key: createSession.
Login(p, t, a) ==
  /\ call[p] = Idle /\ a \in listed[p] /\ holder[t] = NoAdmin
  /\ holder' = [holder EXCEPT ![t] = a]
  /\ expires' = [expires EXCEPT ![t] = adminNow + SessionTTL]
  /\ call' = [call EXCEPT ![p] = Request("login", t, "set")]
  /\ UNCHANGED <<adminNow, sessionRows, listed, cookies, leaving, loggedOut, unsaved,
                 unremoved, verdict, redisFaults, deploys>>

HandOver(p) == cookies' = cookies \cup {call[p].token} /\ Done(p)

\* The row's time to live starts now; its ExpiresAt was set before.
SetRow(p) ==
  /\ Serving(p, "login", "set")
  /\ LET t == call[p].token
         stored == [redis EXCEPT ![t] = adminNow + SessionTTL] IN
     \/ RedisWorks /\ redis' = stored /\ HandOver(p) /\ UNCHANGED unsaved
     \/ /\ RedisFails
        /\ redis' \in {redis, stored}
        /\ unsaved' = unsaved \cup {t}
        /\ Goto(p, "keep")
        /\ UNCHANGED cookies
  /\ UNCHANGED <<adminNow, memory, listed, holder, expires, leaving, loggedOut,
                 unremoved,
                 verdict, deploys>>

KeepInMemory(p) ==
  /\ Serving(p, "login", "keep")
  /\ memory' = [memory EXCEPT ![p] = @ \cup {call[p].token}]
  /\ HandOver(p)
  /\ UNCHANGED <<adminNow, redis, listed, holder, expires, leaving, loggedOut, unsaved,
                 unremoved, verdict, redisFaults, deploys>>

Visit(p, t) ==
  /\ call[p] = Idle /\ t \in cookies
  /\ call' = [call EXCEPT ![p] = Request("check", t, "get")]
  /\ UNCHANGED <<adminNow, sessionRows, listed, history, verdict, redisFaults, deploys>>

\* requireAuth's answer; it asks for the key to be listed still.
Answered(p, found) ==
  LET t == call[p].token IN
  verdict' = [token |-> t, at |-> adminNow,
              late |-> call[p].late, blind |-> call[p].blind,
              ok |-> found /\ holder[t] \in listed[p],
              live |-> /\ adminNow < expires[t] /\ t \notin leaving
                       /\ holder[t] \in listed[p]]

\* A session past its end is deleted before the request is refused.
Over(p) == adminNow > expires[call[p].token]
Judge(p) ==
  /\ Answered(p, ~Over(p))
  /\ IF Over(p) THEN call' = [call EXCEPT ![p].op = "expire", ![p].step = "del"]
     ELSE Done(p)
Refuse(p) == Answered(p, FALSE) /\ Done(p)

\* Slip: a row that Redis does not have is looked for in the pod's map.
MutGetRow(p) ==
  /\ Serving(p, "check", "get")
  /\ \/ /\ RedisWorks
        /\ IF redis[call[p].token] # Never THEN Judge(p)
           ELSE Goto(p, "lookup") /\ UNCHANGED verdict
     \/ /\ RedisFails
        /\ call' = [call EXCEPT ![p].step = "lookup", ![p].blind = TRUE]
        /\ UNCHANGED verdict
  /\ UNCHANGED <<adminNow, sessionRows, listed, history, deploys>>

\* getSession: a pod that Redis answers does not look at its own map.
GetRow(p) ==
  /\ Serving(p, "check", "get")
  /\ \/ /\ RedisWorks
        /\ IF redis[call[p].token] # Never THEN Judge(p) ELSE Refuse(p)
     \/ /\ RedisFails
        /\ call' = [call EXCEPT ![p].step = "lookup", ![p].blind = TRUE]
        /\ UNCHANGED verdict
  /\ UNCHANGED <<adminNow, sessionRows, listed, history, deploys>>

LookInMemory(p) ==
  /\ Serving(p, "check", "lookup")
  /\ IF call[p].token \in memory[p] THEN Judge(p) ELSE Refuse(p)
  /\ UNCHANGED <<adminNow, sessionRows, listed, history, redisFaults, deploys>>

Logout(p, t) ==
  /\ call[p] = Idle /\ t \in cookies
  /\ call' = [call EXCEPT ![p] = Request("logout", t, "del")]
  /\ leaving' = leaving \cup {t}
  /\ UNCHANGED <<adminNow, sessionRows, listed, holder, expires, cookies, loggedOut,
                 unsaved,
                 unremoved, verdict, redisFaults, deploys>>

\* deleteSession logs the error of the DEL and goes on.
DelRow(p) ==
  /\ call[p].op \in {"expire", "logout"} /\ call[p].step = "del"
  /\ LET t == call[p].token IN
     \/ RedisWorks /\ redis' = [redis EXCEPT ![t] = Never] /\ UNCHANGED unremoved
     \/ /\ RedisFails
        /\ redis' \in {redis, [redis EXCEPT ![t] = Never]}
        /\ unremoved' = unremoved \cup {t}
  /\ Goto(p, "forget")
  /\ UNCHANGED <<adminNow, memory, listed, holder, expires, cookies, leaving, loggedOut,
                 unsaved, verdict, deploys>>

DeleteFromMemory(p) ==
  /\ call[p].op \in {"expire", "logout"} /\ call[p].step = "forget"
  /\ memory' = [memory EXCEPT ![p] = @ \ {call[p].token}]
  /\ loggedOut' = IF call[p].op = "logout" THEN loggedOut \cup {call[p].token}
                  ELSE loggedOut
  /\ Done(p)
  /\ UNCHANGED <<adminNow, redis, listed, holder, expires, cookies, leaving, unsaved,
                 unremoved, verdict, redisFaults, deploys>>

--------------------------------------------------------------------------------
(* Time, the hourly cleanup, deployments *)

AdminTick ==
  /\ adminNow < MaxAdminClock /\ adminNow' = adminNow + 1
  /\ redis' = [t \in Tokens |-> IF adminNow' < redis[t] THEN redis[t] ELSE Never]
  /\ UNCHANGED <<memory, listed, history, call, verdict, redisFaults, deploys>>

CleanupExpired(p) ==
  /\ \E t \in memory[p] : adminNow > expires[t]
  /\ memory' = [memory EXCEPT ![p] = {t \in @ : adminNow <= expires[t]}]
  /\ UNCHANGED <<adminNow, redis, listed, history, call, verdict, redisFaults, deploys>>

\* A pod is replaced, perhaps with another list of administrators.
Deploy(p, keys) ==
  /\ deploys < MaxDeploys /\ deploys' = deploys + 1
  /\ listed' = [listed EXCEPT ![p] = keys]
  /\ memory' = [memory EXCEPT ![p] = {}]
  /\ call' = [call EXCEPT ![p] = Idle]
  /\ UNCHANGED <<adminNow, redis, history, verdict, redisFaults>>

AdminNext ==
  \/ AdminTick
  \/ \E p \in AdminPods :
       \/ \E t \in Tokens, a \in Admins : Login(p, t, a)
       \/ SetRow(p) \/ KeepInMemory(p)
       \/ \E t \in Tokens : Visit(p, t) \/ Logout(p, t)
       \/ GetRow(p) \/ LookInMemory(p)
       \/ DelRow(p) \/ DeleteFromMemory(p)
       \/ CleanupExpired(p)
       \/ \E keys \in SUBSET Admins : Deploy(p, keys)

AdminSpec == AdminInit /\ [][AdminNext]_AdminVars

--------------------------------------------------------------------------------
AdminTypeOK ==
  /\ adminNow \in 1..MaxAdminClock
  /\ redis \in [Tokens -> AdminTimes]
  /\ memory \in [AdminPods -> SUBSET Tokens]
  /\ listed \in [AdminPods -> SUBSET Admins]
  /\ holder \in [Tokens -> Admins \cup {NoAdmin}]
  /\ expires \in [Tokens -> AdminTimes]
  /\ call \in [AdminPods -> AdminRequests]
  /\ cookies \in SUBSET Tokens /\ leaving \in SUBSET cookies /\ loggedOut \in SUBSET leaving
  /\ unsaved \in SUBSET Tokens /\ unremoved \in SUBSET Tokens
  /\ verdict \in AdminAnswers
  /\ redisFaults \in 0..MaxRedisFaults /\ deploys \in 0..MaxDeploys

\* A session logged out before a request arrived does not serve it on any pod,
\* unless Redis failed to delete it, or the session never was in Redis, another
\* pod keeps it, and Redis cannot be asked this time either.
LogoutHolds ==
  verdict.ok /\ verdict.late =>
    verdict.token \in unremoved \/ (verdict.token \in unsaved /\ verdict.blind)

\* No session serves a request after its ExpiresAt, wherever it is kept.
SessionsEnd == verdict.ok => verdict.at <= expires[verdict.token]

\* A session that is neither over nor left is good on every pod, unless Redis
\* failed: at the login, so that one pod alone keeps it, or at this request, so
\* that the pod looks only at what it keeps.
LiveSessionsServe ==
  verdict # NoAnswer /\ verdict.live /\ ~verdict.ok =>
    verdict.token \in unsaved \/ verdict.blind

SessionsHold == LogoutHolds /\ SessionsEnd /\ LiveSessionsServe

================================================================================
