------------------------------- MODULE Payments -------------------------------
(***************************************************************************)
(* The Lightning payment subsystem: internal/membership/http.go (invoice   *)
(* endpoint and settlement webhook), payments.go (the pending_payments     *)
(* table), the tier columns of nip43_members in store.go and the hourly    *)
(* ExpiryScheduler.                                                        *)
(*                                                                         *)
(* A webhook request runs as a goroutine of some replica; between two of   *)
(* its database calls every other request, scheduler and replica may run,  *)
(* so each call is a step of its own.  Each SQL statement is atomic.       *)
(* LNbits is external: it is paid, and it posts the webhook until it gets  *)
(* a 200.  Anybody may post one too, so a webhook may arrive at any time,  *)
(* early, late, or while the same one is being handled.                    *)
(*                                                                         *)
(* Times are natural numbers; 0 is Go's zero time, stored as NULL, "never".*)
(***************************************************************************)
EXTENDS Integers, FiniteSets

CONSTANTS Hashes,         \* invoices, named by their payment hash
          Members,        \* pubkeys with a row in nip43_members
          Handlers,       \* webhook requests that may be in flight together
          PaidTiers,      \* the purchasable tiers
          Free,           \* TierFree
          Owner,          \* [Hashes -> Members]
          TierOf,         \* [Hashes -> PaidTiers]
          Rows,           \* member rows a behaviour may start with
          Period,         \* PeriodDays
          InvoiceMaxAge,  \* ExpirySchedulerConfig.InvoiceMaxAge
          LastInvoice,    \* bound: no invoice is created after this time
          MaxTime,        \* bound: the clock stops here
          MaxFailures     \* bound: failed or abandoned calls in a behaviour

ASSUME PaymentsAssumption ==
  /\ Hashes # {}
  /\ Owner \in [Hashes -> Members]
  /\ TierOf \in [Hashes -> PaidTiers]
  /\ Free \notin PaidTiers
  /\ Rows \subseteq [tier : PaidTiers \cup {Free}, expiry : Nat]
  /\ Period \in Nat \ {0}
  /\ InvoiceMaxAge \in Nat
  /\ LastInvoice \in Nat
  /\ MaxTime \in Nat
  /\ MaxFailures \in Nat

VARIABLES
  now,        \* the wall clock
  status,     \* pending_payments.status, "none" while there is no row
  created,    \* pending_payments.created_at
  settledAt,  \* pending_payments.settled_at
  tier,       \* nip43_members.tier
  expiry,     \* nip43_members.tier_expires_at
  ln,         \* LNbits' view of each invoice
  handler,    \* the webhook requests in flight
  failures,   \* failed or abandoned calls so far
  granted,    \* history: how often a payment has upgraded its owner
  interrupted,\* history: payments a failure left unsettled or ungranted
  acked       \* history: paid invoices whose webhook was answered with 200

payVars == <<status, created, settledAt>>
memberVars == <<tier, expiry>>
historyVars == <<granted, interrupted, acked>>
vars == <<now, payVars, memberVars, ln, handler, failures, historyVars>>

Tiers == PaidTiers \cup {Free}
Statuses == {"none", "pending", "settled", "expired"}
Phases == {"idle", "looked", "verified", "settled", "priced"}

HandlerRec == [phase : Phases, hash : Hashes, until : Nat]

\* No request in flight; the fields other than the phase mean nothing then.
Idle == [phase |-> "idle", hash |-> CHOOSE h \in Hashes : TRUE,
         until |-> 0]

TypeOK ==
  /\ now \in Nat
  /\ status \in [Hashes -> Statuses]
  /\ created \in [Hashes -> Nat]
  /\ settledAt \in [Hashes -> Nat]
  /\ tier \in [Members -> Tiers]
  /\ expiry \in [Members -> Nat]
  /\ ln \in [Hashes -> {"none", "open", "paid", "underpaid"}]
  /\ handler \in [Handlers -> HandlerRec]
  /\ failures \in Nat
  /\ granted \in [Hashes -> Nat]
  /\ interrupted \in SUBSET Hashes
  /\ acked \in SUBSET Hashes

(***************************************************************************)
(* Members start with a row of Rows: free, a tier that runs out, or a tier *)
(* granted by hand with no expiry.                                         *)
(***************************************************************************)
Init ==
  /\ now = 1
  /\ status = [h \in Hashes |-> "none"]
  /\ created = [h \in Hashes |-> 0]
  /\ settledAt = [h \in Hashes |-> 0]
  /\ \E row \in [Members -> Rows] :
       /\ tier = [m \in Members |-> row[m].tier]
       /\ expiry = [m \in Members |-> row[m].expiry]
  /\ ln = [h \in Hashes |-> "none"]
  /\ handler = [w \in Handlers |-> Idle]
  /\ failures = 0
  /\ granted = [h \in Hashes |-> 0]
  /\ interrupted = {}
  /\ acked = {}

-----------------------------------------------------------------------------
(* The invoice endpoint.  IsMember holds for every owner: nothing in the    *)
(* program deletes a member row.  LNbits issues the invoice before the row  *)
(* is inserted, but its bolt11 reaches the payer only after the INSERT.     *)
HandleInvoice(h) ==
  /\ status[h] = "none"
  /\ now <= LastInvoice
  /\ status' = [status EXCEPT ![h] = "pending"]
  /\ created' = [created EXCEPT ![h] = now]
  /\ ln' = [ln EXCEPT ![h] = "open"]
  /\ UNCHANGED <<now, settledAt, memberVars, handler, failures, historyVars>>

\* LNbits (external) receives the payment, in full or not.
Pay(h) ==
  /\ ln[h] = "open"
  /\ \E amount \in {"paid", "underpaid"} : ln' = [ln EXCEPT ![h] = amount]
  /\ UNCHANGED <<now, payVars, memberVars, handler, failures, historyVars>>

-----------------------------------------------------------------------------
(* The webhook.                                                            *)

\* A 200 tells LNbits not to post this webhook again.
Answer200(h) == acked' = IF ln[h] = "paid" THEN acked \cup {h} ELSE acked

Finish(w) == handler' = [handler EXCEPT ![w] = Idle]

Goto(w, p) == handler' = [handler EXCEPT ![w].phase = p]

\* GetByHash found a row that is no longer pending: 200, nothing to do.
WebhookIgnored(w, h) ==
  /\ handler[w].phase = "idle"
  /\ status[h] # "pending"
  /\ Answer200(h)
  /\ UNCHANGED <<now, payVars, memberVars, ln, handler, failures, granted, interrupted>>

\* GetByHash found a pending row.
Lookup(w, h) ==
  /\ handler[w].phase = "idle"
  /\ status[h] = "pending"
  /\ handler' = [handler EXCEPT ![w] = [phase |-> "looked", hash |-> h, until |-> 0]]
  /\ UNCHANGED <<now, payVars, memberVars, ln, failures, historyVars>>

\* CheckPayment confirms the settlement and the amount.
Verify(w) ==
  /\ handler[w].phase = "looked"
  /\ ln[handler[w].hash] = "paid"
  /\ Goto(w, "verified")
  /\ UNCHANGED <<now, payVars, memberVars, ln, failures, historyVars>>

\* CheckPayment says unpaid, or paid too little: 200, nothing granted.
Refuse(w) ==
  /\ handler[w].phase = "looked"
  /\ ln[handler[w].hash] # "paid"
  /\ Finish(w)
  /\ UNCHANGED <<now, payVars, memberVars, ln, failures, historyVars>>

\* Mutant: the UPDATE without its status = 'pending' test.
MutSettleRow(h) ==
  /\ status' = [status EXCEPT ![h] = "settled"]
  /\ settledAt' = [settledAt EXCEPT ![h] = now]

\* The UPDATE of MarkSettled: only a pending row becomes settled.
SettleRow(h) ==
  /\ status[h] = "pending"
  /\ status' = [status EXCEPT ![h] = "settled"]
  /\ settledAt' = [settledAt EXCEPT ![h] = now]

MarkSettled(w) ==
  /\ handler[w].phase = "verified"
  /\ SettleRow(handler[w].hash)
  /\ interrupted' = interrupted \ {handler[w].hash}
  /\ Goto(w, "settled")
  /\ UNCHANGED <<now, created, memberVars, ln, failures, granted, acked>>

\* MarkSettled touched no row (sql.ErrNoRows): somebody else settled or
\* expired the payment meanwhile.  200, "don't retry".
AlreadyDecided(w) ==
  /\ handler[w].phase = "verified"
  /\ status[handler[w].hash] # "pending"
  /\ Answer200(handler[w].hash)
  /\ Finish(w)
  /\ UNCHANGED <<now, payVars, memberVars, ln, failures, granted, interrupted>>

\* Mutants: the period added to an expiry that has passed; the time left
\* instead of the time it runs out.
MutExtended(m) == expiry[m] + Period
MutRemaining(m) == expiry[m] + Period - now

\* The new expiry: a period from max(now, current expiry).
Extended(m) == (IF expiry[m] # 0 /\ expiry[m] > now THEN expiry[m] ELSE now) + Period

\* Mutant: a member without an expiry is taken for one that cannot be upgraded.
MutReadMember(w) ==
  /\ handler[w].phase = "settled"
  /\ IF expiry[Owner[handler[w].hash]] = 0
       THEN Finish(w)
       ELSE handler' = [handler EXCEPT ![w] =
              [@ EXCEPT !.phase = "priced", !.until = Extended(Owner[handler[w].hash])]]
  /\ UNCHANGED <<now, payVars, memberVars, ln, failures, historyVars>>

\* GetMember, and the expiry computed from what it returned.  The row exists:
\* the owner was a member when the invoice was made.
ReadMember(w) ==
  /\ handler[w].phase = "settled"
  /\ handler' = [handler EXCEPT ![w] =
                    [@ EXCEPT !.phase = "priced", !.until = Extended(Owner[handler[w].hash])]]
  /\ UNCHANGED <<now, payVars, memberVars, ln, failures, historyVars>>

\* The UPDATE of UpdateTier writes the expiry computed from the earlier read.
UpgradeRow(w) ==
  LET h == handler[w].hash IN
  /\ tier' = [tier EXCEPT ![Owner[h]] = TierOf[h]]
  /\ expiry' = [expiry EXCEPT ![Owner[h]] = handler[w].until]
  /\ granted' = [granted EXCEPT ![h] = @ + 1]

UpdateTier(w) ==
  /\ handler[w].phase = "priced"
  /\ UpgradeRow(w)
  /\ Answer200(handler[w].hash)
  /\ Finish(w)
  /\ UNCHANGED <<now, payVars, ln, failures, interrupted>>

-----------------------------------------------------------------------------
(* Failures.  A call may fail with its statement not executed, or executed  *)
(* with the reply lost.  What the handler answers decides whether LNbits    *)
(* posts again.                                                             *)
Failed ==
  /\ failures < MaxFailures
  /\ failures' = failures + 1

\* Mutant: a failed check is answered 200 as well.
MutCheckFailed(w) ==
  /\ handler[w].phase = "looked"
  /\ Failed
  /\ Answer200(handler[w].hash)
  /\ Finish(w)
  /\ UNCHANGED <<now, payVars, memberVars, ln, granted, interrupted>>

\* CheckPayment failed: 502, LNbits posts again.
CheckFailed(w) ==
  /\ handler[w].phase = "looked"
  /\ Failed
  /\ Finish(w)
  /\ UNCHANGED <<now, payVars, memberVars, ln, historyVars>>

\* MarkSettled failed: 200, "don't retry", whether or not the row changed.
SettleFailed(w) ==
  LET h == handler[w].hash IN
  /\ handler[w].phase = "verified"
  /\ Failed
  /\ \/ UNCHANGED <<status, settledAt>>
     \/ SettleRow(h)
  /\ interrupted' = interrupted \cup {h}
  /\ Answer200(h)
  /\ Finish(w)
  /\ UNCHANGED <<now, created, memberVars, ln, granted>>

\* GetMember failed after the settlement: 200, the upgrade is never made.
ReadFailed(w) ==
  LET h == handler[w].hash IN
  /\ handler[w].phase = "settled"
  /\ Failed
  /\ interrupted' = interrupted \cup {h}
  /\ Answer200(h)
  /\ Finish(w)
  /\ UNCHANGED <<now, payVars, memberVars, ln, granted>>

\* UpdateTier failed: 500, but the next webhook finds the row settled.
UpdateFailed(w) ==
  LET h == handler[w].hash IN
  /\ handler[w].phase = "priced"
  /\ Failed
  /\ interrupted' = interrupted \cup {h}
  /\ \/ UNCHANGED <<tier, expiry, granted>>
     \/ UpgradeRow(w)
  /\ Finish(w)
  /\ UNCHANGED <<now, payVars, ln, acked>>

\* The replica stops, or the request is cancelled, between two calls.
Abandon(w) ==
  LET h == handler[w].hash IN
  /\ handler[w].phase # "idle"
  /\ Failed
  /\ interrupted' = IF handler[w].phase \in {"settled", "priced"}
                    THEN interrupted \cup {h} ELSE interrupted
  /\ Finish(w)
  /\ UNCHANGED <<now, payVars, memberVars, ln, granted, acked>>

-----------------------------------------------------------------------------
(* The ExpiryScheduler.  Every replica sweeps on its own timer, each sweep  *)
(* runs these two statements, and neither carries anything to the other.    *)
\* Mutant: any tier that has an expiry.
MutLapsed(m) == tier[m] # Free /\ expiry[m] # 0

Lapsed(m) == tier[m] # Free /\ expiry[m] # 0 /\ expiry[m] < now

ResetExpiredTiers ==
  /\ tier' = [m \in Members |-> IF Lapsed(m) THEN Free ELSE tier[m]]
  /\ UNCHANGED <<now, payVars, expiry, ln, handler, failures, historyVars>>

\* Mutant: the comparison the wrong way round.
MutStaleYoung(h) == status[h] = "pending" /\ created[h] + InvoiceMaxAge > now

Stale(h) == status[h] = "pending" /\ created[h] + InvoiceMaxAge < now

MarkExpired ==
  /\ status' = [h \in Hashes |-> IF Stale(h) THEN "expired" ELSE status[h]]
  /\ UNCHANGED <<now, created, settledAt, memberVars, ln, handler,
                 failures, historyVars>>

Tick ==
  /\ now < MaxTime
  /\ now' = now + 1
  /\ UNCHANGED <<payVars, memberVars, ln, handler, failures, historyVars>>

-----------------------------------------------------------------------------
WebhookStep(w) ==
  \/ Verify(w)
  \/ Refuse(w)
  \/ MarkSettled(w)
  \/ AlreadyDecided(w)
  \/ ReadMember(w)
  \/ UpdateTier(w)

WebhookFailure(w) ==
  \/ CheckFailed(w)
  \/ SettleFailed(w)
  \/ ReadFailed(w)
  \/ UpdateFailed(w)
  \/ Abandon(w)

Next ==
  \/ \E h \in Hashes : HandleInvoice(h) \/ Pay(h)
  \/ \E w \in Handlers, h \in Hashes : WebhookIgnored(w, h) \/ Lookup(w, h)
  \/ \E w \in Handlers : WebhookStep(w) \/ WebhookFailure(w)
  \/ ResetExpiredTiers
  \/ MarkExpired
  \/ Tick

(***************************************************************************)
(* Fairness: time passes, the scheduler's ticker fires, a request that has *)
(* been accepted runs on.  Nothing makes a payer pay, a client ask for an  *)
(* invoice, or a call fail.                                                *)
(***************************************************************************)
Fairness ==
  /\ WF_vars(Tick)
  /\ WF_vars(MarkExpired)
  /\ \A w \in Handlers : WF_vars(WebhookStep(w))

Spec == Init /\ [][Next]_vars /\ Fairness

-----------------------------------------------------------------------------
(* Properties.                                                             *)

\* The effective tier the rest of the relay acts on (GetEffectiveTier).
EffectiveTier(m) ==
  IF tier[m] = Free \/ (expiry[m] # 0 /\ now > expiry[m]) THEN Free ELSE tier[m]

Bought(m) == {h \in Hashes : Owner[h] = m /\ granted[h] > 0}

\* A payment upgrades its owner at most once, and only one that LNbits
\* confirmed in full and that was settled: duplicated webhooks, two replicas
\* handling the same one, and the scheduler expiring the invoice in between
\* cannot turn one payment into two grants (MarkSettled's guard).
GrantOnce ==
  \A h \in Hashes :
    granted[h] > 0 => granted[h] = 1 /\ status[h] = "settled" /\ ln[h] = "paid"

\* Once a payment has been granted, for as long as the member's stored expiry
\* has not passed the member's effective tier is one the member bought: no
\* sweep that decided on an older row, and no clock step, takes it away early.
ActiveMeansBought ==
  \A m \in Members :
    Bought(m) # {} /\ expiry[m] >= now
      => EffectiveTier(m) \in {TierOf[h] : h \in Bought(m)}

\* Settled and expired are final, whatever webhooks and sweeps overlap: a
\* settled payment never expires and an expired one is never settled.
DecisionIsFinal ==
  [][\A h \in Hashes : status[h] \in {"settled", "expired"} => status'[h] = status[h]]_vars

\* No invoice stays pending: the webhook settles it or the sweep expires it,
\* even when a webhook was answered 200 without settling anything.
InvoiceIsDecided ==
  \A h \in Hashes : status[h] = "pending" ~> status[h] \in {"settled", "expired"}

\* A settled payment is granted, unless a call or the replica failed between
\* MarkSettled and UpdateTier.
SettledIsGranted ==
  \A h \in Hashes : status[h] = "settled" ~> (granted[h] > 0 \/ h \in interrupted)

\* A 200 for a full payment is the last LNbits will say of it, so by then the
\* payment has been decided, unless MarkSettled itself failed.
AckedIsDecided ==
  \A h \in acked : status[h] \in {"settled", "expired"} \/ h \in interrupted

\* "Extend from max(now, current_expiry) to avoid losing paid days": each
\* granted payment of a member adds a period to the expiry.
NoPaidDaysLost ==
  \A m \in Members : expiry[m] >= Period * Cardinality(Bought(m))

\* Every behaviour is one of the abstract specification.
Stage(h) ==
  IF status[h] = "settled"
    THEN IF granted[h] > 0 THEN "granted" ELSE "bought"
    ELSE IF status[h] = "expired" THEN "closed" ELSE "open"

Promise == INSTANCE TierGrants WITH
             stage <- [h \in Hashes |-> Stage(h)],
             boughtAt <- settledAt,
             clock <- now

ImplementsTierGrants == Promise!Spec
=============================================================================
