---------------------------- MODULE PaymentsProofs ----------------------------
(***************************************************************************)
(* Proofs about Payments.tla for any number of invoices, members, webhook  *)
(* requests and failures.                                                  *)
(*                                                                         *)
(* GrantOnce is not inductive: it says nothing of the requests in flight.  *)
(* Inv adds what a request that has got past MarkSettled may rely on: its  *)
(* payment is settled, is not granted yet, and no other request is past    *)
(* MarkSettled with the same payment.                                      *)
(***************************************************************************)
EXTENDS Payments, TLAPS

\* The request has won MarkSettled and owes the upgrade.
Owes(w) == handler[w].phase \in {"settled", "priced"}

\* A row exists for every invoice LNbits knows.
RowExists == \A h \in Hashes : ln[h] # "none" => status[h] # "none"

\* A request past CheckPayment handles a payment made in full.
VerifiedIsPaid ==
  \A w \in Handlers :
    handler[w].phase \in {"verified", "settled", "priced"} => ln[handler[w].hash] = "paid"

\* A request that owes an upgrade holds a settled, ungranted payment ...
OwesSettled ==
  \A w \in Handlers : Owes(w) =>
    status[handler[w].hash] = "settled" /\ granted[handler[w].hash] = 0

\* ... and no other request owes the same one.
OwesAlone ==
  \A v, w \in Handlers :
    v # w /\ Owes(v) /\ Owes(w) => handler[v].hash # handler[w].hash

\* The expiry it will write is a period past the settlement.
OwesPeriod ==
  \A w \in Handlers : handler[w].phase = "priced" =>
    handler[w].until >= settledAt[handler[w].hash] + Period

\* Settlement happened in the past.
SettledInPast == \A h \in Hashes : settledAt[h] <= now

Unsettled == \A h \in Hashes : status[h] # "settled" => granted[h] = 0

Inv ==
  /\ TypeOK
  /\ RowExists
  /\ VerifiedIsPaid
  /\ OwesSettled
  /\ OwesAlone
  /\ OwesPeriod
  /\ SettledInPast
  /\ Unsettled
  /\ GrantOnce
  /\ AckedIsDecided

-----------------------------------------------------------------------------
USE PaymentsAssumption DEF Tiers, Statuses, Phases

\* The placeholder of an idle request is an invoice.
LEMMA IdleType == Idle \in HandlerRec /\ Idle.phase = "idle"
<1>1. (CHOOSE h \in Hashes : TRUE) \in Hashes
  BY Zenon
<1> QED
  BY <1>1 DEF Idle, HandlerRec

\* What the fields of a request are.
LEMMA Fields ==
  ASSUME TypeOK, NEW w \in Handlers
  PROVE  /\ handler[w].hash \in Hashes
         /\ handler[w].until \in Nat
         /\ Owner[handler[w].hash] \in Members
         /\ TierOf[handler[w].hash] \in PaidTiers
BY DEF TypeOK, HandlerRec

\* Writing the member row and counting the grant keeps them well typed.
LEMMA UpgradeRowType ==
  ASSUME TypeOK, NEW w \in Handlers, UpgradeRow(w)
  PROVE  /\ tier' \in [Members -> Tiers]
         /\ expiry' \in [Members -> Nat]
         /\ granted' \in [Hashes -> Nat]
BY Fields DEF TypeOK, UpgradeRow

LEMMA InitTypeOK == Init => TypeOK
  BY IdleType DEF Init, TypeOK

\* Every state of Payments is well typed.
LEMMA StepTypeOK == TypeOK /\ [Next]_vars => TypeOK'
<1> SUFFICES ASSUME TypeOK, [Next]_vars PROVE TypeOK'
  OBVIOUS
<1> USE DEF TypeOK, payVars, memberVars, historyVars
<1>1. ASSUME NEW h \in Hashes, HandleInvoice(h) PROVE TypeOK'
  BY <1>1 DEF HandleInvoice
<1>2. ASSUME NEW h \in Hashes, Pay(h) PROVE TypeOK'
  BY <1>2 DEF Pay
<1>3. ASSUME NEW w \in Handlers, NEW h \in Hashes, WebhookIgnored(w, h) PROVE TypeOK'
  BY <1>3 DEF WebhookIgnored, Answer200
<1>4. ASSUME NEW w \in Handlers, NEW h \in Hashes, Lookup(w, h) PROVE TypeOK'
  BY <1>4 DEF Lookup, HandlerRec
<1>5. ASSUME NEW w \in Handlers, WebhookStep(w) PROVE TypeOK'
  <2>1. CASE Verify(w)
    BY <2>1 DEF Verify, Goto, HandlerRec
  <2>2. CASE Refuse(w)
    BY <2>2, IdleType DEF Refuse, Finish
  <2>3. CASE MarkSettled(w)
    BY <2>3 DEF MarkSettled, SettleRow, Goto, HandlerRec
  <2>4. CASE AlreadyDecided(w)
    BY <2>4, IdleType DEF AlreadyDecided, Finish, Answer200, HandlerRec
  <2>5. CASE ReadMember(w)
    <3>1. Extended(Owner[handler[w].hash]) \in Nat
      BY DEF Extended, HandlerRec
    <3> QED
      BY <2>5, <3>1 DEF ReadMember, HandlerRec
  <2>6. CASE UpdateTier(w)
    BY <2>6, UpgradeRowType, Fields, IdleType DEF UpdateTier, Finish, Answer200
  <2> QED
    BY <1>5, <2>1, <2>2, <2>3, <2>4, <2>5, <2>6 DEF WebhookStep
<1>6. ASSUME NEW w \in Handlers, WebhookFailure(w) PROVE TypeOK'
  <2>1. CASE CheckFailed(w)
    BY <2>1, IdleType DEF CheckFailed, Failed, Finish
  <2>2. CASE SettleFailed(w)
    BY <2>2, IdleType DEF SettleFailed, Failed, SettleRow, Finish, Answer200, HandlerRec
  <2>3. CASE ReadFailed(w)
    BY <2>3, IdleType DEF ReadFailed, Failed, Finish, Answer200, HandlerRec
  <2>4. CASE UpdateFailed(w)
    <3>1. tier' \in [Members -> Tiers] /\ expiry' \in [Members -> Nat]
            /\ granted' \in [Hashes -> Nat]
      BY <2>4, UpgradeRowType DEF UpdateFailed
    <3> QED
      BY <2>4, <3>1, Fields, IdleType DEF UpdateFailed, Failed, Finish
  <2>5. CASE Abandon(w)
    BY <2>5, IdleType DEF Abandon, Failed, Finish, HandlerRec
  <2> QED
    BY <1>6, <2>1, <2>2, <2>3, <2>4, <2>5 DEF WebhookFailure
<1>7. CASE ResetExpiredTiers
  BY <1>7 DEF ResetExpiredTiers
<1>8. CASE MarkExpired
  BY <1>8 DEF MarkExpired
<1>9. CASE Tick
  BY <1>9 DEF Tick
<1>10. CASE UNCHANGED vars
  BY <1>10 DEF vars
<1> QED
  BY <1>1, <1>2, <1>3, <1>4, <1>5, <1>6, <1>7, <1>8, <1>9, <1>10 DEF Next

-----------------------------------------------------------------------------
LEMMA InitInv == Init => Inv
<1> SUFFICES ASSUME Init PROVE Inv
  OBVIOUS
<1>1. TypeOK
  BY InitTypeOK
<1>2. \A w \in Handlers : handler[w].phase = "idle"
  BY IdleType DEF Init
<1>3. VerifiedIsPaid /\ OwesSettled /\ OwesAlone /\ OwesPeriod
  BY <1>2 DEF VerifiedIsPaid, OwesSettled, OwesAlone, OwesPeriod, Owes
<1>4. RowExists /\ SettledInPast /\ Unsettled /\ GrantOnce /\ AckedIsDecided
  BY DEF Init, RowExists, SettledInPast, Unsettled, GrantOnce, AckedIsDecided
<1> QED
  BY <1>1, <1>3, <1>4 DEF Inv

\* Everything Inv says beside types, for a step given by its action.
Facts == RowExists /\ VerifiedIsPaid /\ OwesSettled /\ OwesAlone /\ OwesPeriod
         /\ SettledInPast /\ Unsettled /\ GrantOnce /\ AckedIsDecided

\* No step of the payment subsystem disturbs Inv.
LEMMA StepFacts == Inv /\ [Next]_vars => Facts'
<1> SUFFICES ASSUME Inv, [Next]_vars PROVE Facts'
  OBVIOUS
<1>0. TypeOK' /\ TypeOK
  BY StepTypeOK DEF Inv
<1> USE <1>0 DEF Inv, Facts, TypeOK, payVars, memberVars, historyVars, RowExists,
      VerifiedIsPaid, OwesSettled, OwesAlone, OwesPeriod, Owes, SettledInPast,
      Unsettled, GrantOnce, AckedIsDecided
<1>1. ASSUME NEW h \in Hashes, HandleInvoice(h) PROVE Facts'
  BY <1>1 DEF HandleInvoice
<1>2. ASSUME NEW h \in Hashes, Pay(h) PROVE Facts'
  BY <1>2 DEF Pay
<1>3. ASSUME NEW w \in Handlers, NEW h \in Hashes, WebhookIgnored(w, h) PROVE Facts'
  BY <1>3 DEF WebhookIgnored, Answer200
<1>4. ASSUME NEW w \in Handlers, NEW h \in Hashes, Lookup(w, h) PROVE Facts'
  BY <1>4 DEF Lookup
<1>5. ASSUME NEW w \in Handlers, WebhookStep(w) PROVE Facts'
  <2>1. CASE Verify(w)
    BY <2>1 DEF Verify, Goto
  <2>2. CASE Refuse(w)
    BY <2>2, IdleType DEF Refuse, Finish
  <2>3. CASE MarkSettled(w)
    BY <2>3, Fields DEF MarkSettled, SettleRow, Goto
  <2>4. CASE AlreadyDecided(w)
    BY <2>4, Fields, IdleType DEF AlreadyDecided, Finish, Answer200
  <2>5. CASE ReadMember(w)
    BY <2>5, Fields DEF ReadMember, Extended
  <2>6. CASE UpdateTier(w)
    BY <2>6, Fields, IdleType DEF UpdateTier, UpgradeRow, Finish, Answer200
  <2> QED
    BY <1>5, <2>1, <2>2, <2>3, <2>4, <2>5, <2>6 DEF WebhookStep
<1>6. ASSUME NEW w \in Handlers, WebhookFailure(w) PROVE Facts'
  <2>1. CASE CheckFailed(w)
    BY <2>1, IdleType DEF CheckFailed, Failed, Finish
  <2>2. CASE SettleFailed(w)
    BY <2>2, Fields, IdleType DEF SettleFailed, Failed, SettleRow, Finish, Answer200
  <2>3. CASE ReadFailed(w)
    BY <2>3, Fields, IdleType DEF ReadFailed, Failed, Finish, Answer200
  <2>4. CASE UpdateFailed(w)
    BY <2>4, Fields, IdleType DEF UpdateFailed, Failed, UpgradeRow, Finish
  <2>5. CASE Abandon(w)
    BY <2>5, IdleType DEF Abandon, Failed, Finish
  <2> QED
    BY <1>6, <2>1, <2>2, <2>3, <2>4, <2>5 DEF WebhookFailure
<1>7. CASE ResetExpiredTiers
  BY <1>7 DEF ResetExpiredTiers
<1>8. CASE MarkExpired
  <2>1. \A h \in Hashes :
          /\ status[h] # "pending" => status'[h] = status[h]
          /\ status[h] = "pending" => status'[h] \in {"pending", "expired"}
    BY <1>8 DEF MarkExpired, Stale
  <2>2. RowExists' /\ OwesSettled' /\ Unsettled' /\ GrantOnce' /\ AckedIsDecided'
    BY <1>8, <2>1, Fields DEF MarkExpired
  <2>3. VerifiedIsPaid' /\ OwesAlone' /\ OwesPeriod' /\ SettledInPast'
    BY <1>8 DEF MarkExpired
  <2> QED
    BY <2>2, <2>3
<1>9. CASE Tick
  BY <1>9 DEF Tick
<1>10. CASE UNCHANGED vars
  BY <1>10 DEF vars
<1> QED
  BY <1>1, <1>2, <1>3, <1>4, <1>5, <1>6, <1>7, <1>8, <1>9, <1>10 DEF Next

\* Inv is an invariant of the payment subsystem.
LEMMA Invariance == Spec => []Inv
<1>1. Inv /\ [Next]_vars => Inv'
  BY StepTypeOK, StepFacts DEF Inv, Facts
<1> QED
  BY InitInv, <1>1, PTL DEF Spec

\* Every reachable state is well typed.
THEOREM TypeCorrect == Spec => []TypeOK
BY Invariance, PTL DEF Inv

\* One payment never grants twice, and only a settled payment that LNbits
\* confirmed in full grants at all.
THEOREM GrantsOnce == Spec => []GrantOnce
BY Invariance, PTL DEF Inv

\* A webhook for a full payment is answered with 200 only when the payment has
\* been decided or MarkSettled itself failed.
THEOREM AckedDecided == Spec => []AckedIsDecided
BY Invariance, PTL DEF Inv

-----------------------------------------------------------------------------
(* Settled and expired rows keep their status.                             *)

LEMMA StepKeepsDecision ==
  ASSUME TypeOK, [Next]_vars, NEW h \in Hashes, status[h] \in {"settled", "expired"}
  PROVE  status'[h] = status[h]
<1> USE DEF TypeOK, payVars, memberVars, historyVars
<1>1. ASSUME NEW i \in Hashes, HandleInvoice(i) \/ Pay(i) PROVE status'[h] = status[h]
  BY <1>1 DEF HandleInvoice, Pay
<1>2. ASSUME NEW w \in Handlers, NEW i \in Hashes, WebhookIgnored(w, i) \/ Lookup(w, i)
      PROVE  status'[h] = status[h]
  BY <1>2 DEF WebhookIgnored, Lookup
<1>3. ASSUME NEW w \in Handlers, WebhookStep(w) PROVE status'[h] = status[h]
  BY <1>3, Fields DEF WebhookStep, Verify, Refuse, MarkSettled, SettleRow,
     AlreadyDecided, ReadMember, UpdateTier
<1>4. ASSUME NEW w \in Handlers, WebhookFailure(w) PROVE status'[h] = status[h]
  BY <1>4, Fields DEF WebhookFailure, CheckFailed, SettleFailed, SettleRow,
     ReadFailed, UpdateFailed, Abandon
<1>5. CASE MarkExpired
  BY <1>5 DEF MarkExpired, Stale
<1>6. CASE ResetExpiredTiers \/ Tick \/ UNCHANGED vars
  BY <1>6 DEF ResetExpiredTiers, Tick, vars
<1> QED
  BY <1>1, <1>2, <1>3, <1>4, <1>5, <1>6 DEF Next

\* A settled payment never expires, an expired one is never settled.
THEOREM DecisionsAreFinal == Spec => DecisionIsFinal
<1>1. TypeOK /\ [Next]_vars =>
        [\A h \in Hashes : status[h] \in {"settled", "expired"}
                            => status'[h] = status[h]]_vars
  BY StepKeepsDecision
<1> QED
  BY <1>1, TypeCorrect, PTL DEF Spec, DecisionIsFinal

-----------------------------------------------------------------------------
(* A paid tier lasts until its expiry.  ActiveMeansBought is not inductive:  *)
(* it does not say that a grant leaves an expiry behind, without which the   *)
(* stored tier would never run out, and it speaks of the effective tier,     *)
(* which the sweep does not read.                                            *)

\* A member who was granted a payment has an expiry and, until it has passed,
\* a stored tier that was bought.
StoredMeansBought ==
  \A m \in Members : Bought(m) # {} =>
    /\ expiry[m] # 0
    /\ expiry[m] >= now => \E h \in Bought(m) : tier[m] = TierOf[h]

\* A step that leaves the member rows, the grants and the clock alone.
LEMMA SameRows ==
  ASSUME StoredMeansBought, UNCHANGED <<now, memberVars, granted>>
  PROVE  StoredMeansBought'
BY DEF StoredMeansBought, Bought, memberVars

\* A grant writes a bought tier and an expiry, whatever row it finds.
LEMMA UpgradeKeepsBought ==
  ASSUME Inv, StoredMeansBought, NEW w \in Handlers, handler[w].phase = "priced",
         UpgradeRow(w), now' = now
  PROVE  StoredMeansBought'
<1> DEFINE h == handler[w].hash
<1>1. /\ h \in Hashes
      /\ Owner[h] \in Members
      /\ handler[w].until \in Nat
      /\ handler[w].until # 0
  BY Fields, PaymentsAssumption DEF Inv, OwesPeriod, TypeOK
<1>2. \A i \in Hashes : granted[i] > 0 => granted'[i] > 0
  BY <1>1 DEF Inv, TypeOK, UpgradeRow
<1>3. \A i \in Hashes \ {h} : granted'[i] = granted[i]
  BY <1>1 DEF Inv, TypeOK, UpgradeRow
<1>4. granted'[h] > 0 /\ tier'[Owner[h]] = TierOf[h] /\ expiry'[Owner[h]] # 0
  BY <1>1 DEF Inv, TypeOK, UpgradeRow
<1> SUFFICES ASSUME NEW m \in Members, Bought(m)' # {}
             PROVE  /\ expiry'[m] # 0
                    /\ expiry'[m] >= now' => \E i \in Bought(m)' : tier'[m] = TierOf[i]
  BY DEF StoredMeansBought
<1>5. CASE m = Owner[h]
  <2>1. h \in Bought(m)'
    BY <1>1, <1>4, <1>5 DEF Bought
  <2> QED
    BY <1>4, <1>5, <2>1
<1>6. CASE m # Owner[h]
  <2>1. tier'[m] = tier[m] /\ expiry'[m] = expiry[m]
    BY <1>1, <1>6 DEF Inv, TypeOK, UpgradeRow
  <2>2. Bought(m)' = Bought(m)
    BY <1>3, <1>6 DEF Bought
  <2> QED
    BY <2>1, <2>2 DEF StoredMeansBought
<1> QED
  BY <1>5, <1>6

LEMMA StepBought == Inv /\ StoredMeansBought /\ [Next]_vars => StoredMeansBought'
<1> SUFFICES ASSUME Inv, StoredMeansBought, [Next]_vars PROVE StoredMeansBought'
  OBVIOUS
<1> USE DEF memberVars, historyVars
<1>1. ASSUME NEW h \in Hashes, HandleInvoice(h) \/ Pay(h) PROVE StoredMeansBought'
  BY <1>1, SameRows DEF HandleInvoice, Pay
<1>2. ASSUME NEW w \in Handlers, NEW h \in Hashes, WebhookIgnored(w, h) \/ Lookup(w, h)
      PROVE  StoredMeansBought'
  BY <1>2, SameRows DEF WebhookIgnored, Lookup
<1>3. ASSUME NEW w \in Handlers, WebhookStep(w) PROVE StoredMeansBought'
  <2>1. CASE UpdateTier(w)
    BY <2>1, UpgradeKeepsBought DEF UpdateTier
  <2>2. CASE ~ UpdateTier(w)
    BY <1>3, <2>2, SameRows
       DEF WebhookStep, Verify, Refuse, MarkSettled, AlreadyDecided, ReadMember
  <2> QED
    BY <2>1, <2>2
<1>4. ASSUME NEW w \in Handlers, WebhookFailure(w) PROVE StoredMeansBought'
  <2>1. CASE UpdateFailed(w) /\ UpgradeRow(w)
    BY <2>1, UpgradeKeepsBought DEF UpdateFailed
  <2>2. CASE ~ (UpdateFailed(w) /\ UpgradeRow(w))
    BY <1>4, <2>2, SameRows
       DEF WebhookFailure, CheckFailed, SettleFailed, ReadFailed, UpdateFailed, Abandon
  <2> QED
    BY <2>1, <2>2
<1>5. CASE ResetExpiredTiers
  <2>1. \A m \in Members : expiry[m] >= now => tier'[m] = tier[m]
    BY <1>5 DEF ResetExpiredTiers, Lapsed, Inv, TypeOK
  <2>2. \A m \in Members : Bought(m)' = Bought(m)
    BY <1>5 DEF ResetExpiredTiers, Bought
  <2> QED
    BY <1>5, <2>1, <2>2 DEF ResetExpiredTiers, StoredMeansBought
<1>6. CASE MarkExpired \/ UNCHANGED vars
  BY <1>6, SameRows DEF MarkExpired, vars
<1>7. CASE Tick
  <2>1. \A m \in Members : Bought(m)' = Bought(m) /\ (expiry'[m] >= now' => expiry[m] >= now)
    BY <1>7 DEF Tick, Bought, Inv, TypeOK
  <2> QED
    BY <1>7, <2>1 DEF Tick, StoredMeansBought
<1> QED
  BY <1>1, <1>2, <1>3, <1>4, <1>5, <1>6, <1>7 DEF Next

LEMMA BoughtActive == TypeOK /\ StoredMeansBought => ActiveMeansBought
<1> SUFFICES ASSUME TypeOK, StoredMeansBought,
                    NEW m \in Members, Bought(m) # {}, expiry[m] >= now
             PROVE  EffectiveTier(m) \in {TierOf[h] : h \in Bought(m)}
  BY DEF ActiveMeansBought
<1>1. PICK h \in Bought(m) : tier[m] = TierOf[h]
  BY DEF StoredMeansBought
<1>2. tier[m] # Free
  BY <1>1, PaymentsAssumption DEF Bought
<1>3. ~ (now > expiry[m])
  BY DEF TypeOK
<1> QED
  BY <1>1, <1>2, <1>3 DEF EffectiveTier

\* Once a payment has been granted, the member's effective tier is a bought one
\* for as long as the stored expiry has not passed, whatever requests of the
\* same member overlap and whenever the scheduler sweeps.
THEOREM PaidTierLasts == Spec => []ActiveMeansBought
<1>1. Init => StoredMeansBought
  BY DEF Init, StoredMeansBought, Bought
<1>2. Inv /\ StoredMeansBought /\ [Next]_vars => StoredMeansBought'
  BY StepBought
<1>3. Inv /\ StoredMeansBought => ActiveMeansBought
  BY BoughtActive DEF Inv
<1> QED
  BY <1>1, <1>2, <1>3, Invariance, PTL DEF Spec

-----------------------------------------------------------------------------
(* Refinement: the detailed system keeps the promise of TierGrants.tla.    *)

\* The abstract stages, as a function.
StageMap == [h \in Hashes |-> Stage(h)]

\* MarkSettled's UPDATE is the abstract purchase.
LEMMA SettleIsBuy ==
  ASSUME Inv, NEW h \in Hashes, SettleRow(h), UNCHANGED <<now, memberVars, granted>>
  PROVE  Promise!Buy(h)
<1> USE DEF Inv, TypeOK, SettleRow, memberVars, Unsettled
<1>1. Stage(h) = "open"
  BY DEF Stage
<1>2. \A i \in Hashes : Stage(i)' = IF i = h THEN "bought" ELSE Stage(i)
  <2>1. \A i \in Hashes \ {h} : status'[i] = status[i]
    OBVIOUS
  <2>2. status'[h] = "settled" /\ ~ (granted[h] > 0)
    OBVIOUS
  <2> QED
    BY <2>1, <2>2 DEF Stage
<1>3. StageMap' = [StageMap EXCEPT ![h] = "bought"]
  BY <1>2 DEF StageMap
<1> QED
  BY <1>1, <1>3 DEF Promise!Buy, StageMap

\* UpdateTier's UPDATE is the abstract grant.
LEMMA UpgradeIsGrant ==
  ASSUME Inv, NEW w \in Handlers, handler[w].phase = "priced", UpgradeRow(w),
         UNCHANGED <<now, payVars>>
  PROVE  Promise!Grant(handler[w].hash)
<1> DEFINE h == handler[w].hash
<1> USE DEF Inv, TypeOK, UpgradeRow, payVars
<1>1. /\ h \in Hashes
      /\ Owner[h] \in Members
      /\ status[h] = "settled"
      /\ granted[h] = 0
      /\ handler[w].until \in Nat
      /\ handler[w].until >= settledAt[h] + Period
  BY Fields DEF OwesSettled, OwesPeriod, Owes
<1>2. Stage(h) = "bought"
  BY <1>1 DEF Stage
<1>3. \A i \in Hashes : Stage(i)' = IF i = h THEN "granted" ELSE Stage(i)
  <2>1. \A i \in Hashes \ {h} : granted'[i] = granted[i]
    BY <1>1
  <2>2. granted'[h] > 0
    BY <1>1
  <2> QED
    BY <1>1, <2>1, <2>2 DEF Stage
<1>4. StageMap' = [StageMap EXCEPT ![h] = "granted"]
  BY <1>3 DEF StageMap
<1>5. /\ expiry'[Owner[h]] \in Nat
      /\ expiry'[Owner[h]] >= settledAt[h] + Period
      /\ expiry' = [expiry EXCEPT ![Owner[h]] = expiry'[Owner[h]]]
      /\ tier' = [tier EXCEPT ![Owner[h]] = TierOf[h]]
  BY <1>1
<1> QED
  BY <1>1, <1>2, <1>4, <1>5 DEF Promise!Grant, StageMap

\* MarkExpired closes the stale invoices.
LEMMA ExpireIsClose ==
  ASSUME Inv, MarkExpired
  PROVE  Promise!Close({h \in Hashes : Stale(h)})
<1> USE DEF Inv, TypeOK, MarkExpired, Stale, memberVars, historyVars
<1>1. \A h \in {i \in Hashes : Stale(i)} : StageMap[h] = "open"
  BY DEF StageMap, Stage
<1>2. StageMap' = [h \in Hashes |-> IF h \in {i \in Hashes : Stale(i)}
                                    THEN "closed" ELSE StageMap[h]]
  BY DEF StageMap, Stage
<1> QED
  BY <1>1, <1>2 DEF Promise!Close, StageMap

\* ResetExpiredTiers lapses the members whose tier has run out.
LEMMA ResetIsLapse ==
  ASSUME Inv, ResetExpiredTiers
  PROVE  Promise!Lapse({m \in Members : Lapsed(m)})
<1> USE DEF Inv, TypeOK, ResetExpiredTiers, Lapsed, payVars, historyVars
<1>1. tier' = [m \in Members |-> IF m \in {n \in Members : Lapsed(n)}
                                 THEN Free ELSE tier[m]]
  OBVIOUS
<1>2. StageMap' = StageMap
  BY DEF StageMap, Stage
<1> QED
  BY <1>1, <1>2 DEF Promise!Lapse, StageMap

\* Every step of the detailed system is an abstract step or a stutter.
LEMMA StepRefines == Inv /\ [Next]_vars => [Promise!Next]_(Promise!vars)
<1> SUFFICES ASSUME Inv, [Next]_vars PROVE Promise!Next \/ UNCHANGED Promise!vars
  OBVIOUS
<1> USE DEF payVars, memberVars, historyVars
<1>0. ASSUME UNCHANGED <<now, settledAt, memberVars>>, StageMap' = StageMap
      PROVE  UNCHANGED Promise!vars
  BY <1>0 DEF Promise!vars, StageMap
<1>1. ASSUME UNCHANGED <<status, granted>> PROVE StageMap' = StageMap
  BY <1>1 DEF StageMap, Stage
<1>2. ASSUME NEW h \in Hashes, HandleInvoice(h) PROVE UNCHANGED Promise!vars
  <2>1. \A i \in Hashes : Stage(i)' = Stage(i)
    BY <1>2 DEF HandleInvoice, Stage, Inv, TypeOK
  <2> QED
    BY <1>0, <1>2, <2>1 DEF HandleInvoice, StageMap
<1>3. ASSUME NEW h \in Hashes, Pay(h) PROVE UNCHANGED Promise!vars
  BY <1>0, <1>1, <1>3 DEF Pay
<1>4. ASSUME NEW w \in Handlers, NEW h \in Hashes, WebhookIgnored(w, h) \/ Lookup(w, h)
      PROVE  UNCHANGED Promise!vars
  BY <1>0, <1>1, <1>4 DEF WebhookIgnored, Lookup
<1>5. ASSUME NEW w \in Handlers, WebhookStep(w)
      PROVE  Promise!Next \/ UNCHANGED Promise!vars
  <2> USE Fields DEF Inv
  <2>1. CASE Verify(w) \/ Refuse(w) \/ AlreadyDecided(w) \/ ReadMember(w)
    BY <1>0, <1>1, <2>1 DEF Verify, Refuse, AlreadyDecided, ReadMember
  <2>2. CASE MarkSettled(w)
    BY <2>2, SettleIsBuy DEF MarkSettled, Promise!Next
  <2>3. CASE UpdateTier(w)
    BY <2>3, UpgradeIsGrant DEF UpdateTier, Promise!Next
  <2> QED
    BY <1>5, <2>1, <2>2, <2>3 DEF WebhookStep
<1>6. ASSUME NEW w \in Handlers, WebhookFailure(w)
      PROVE  Promise!Next \/ UNCHANGED Promise!vars
  <2> USE Fields DEF Inv
  <2>1. CASE CheckFailed(w) \/ ReadFailed(w) \/ Abandon(w)
    BY <1>0, <1>1, <2>1 DEF CheckFailed, ReadFailed, Abandon
  <2>2. CASE SettleFailed(w)
    <3>1. CASE UNCHANGED <<status, settledAt>>
      BY <1>0, <1>1, <2>2, <3>1 DEF SettleFailed
    <3>2. CASE SettleRow(handler[w].hash)
      BY <2>2, <3>2, SettleIsBuy DEF SettleFailed, Promise!Next
    <3> QED
      BY <2>2, <3>1, <3>2 DEF SettleFailed
  <2>3. CASE UpdateFailed(w)
    <3>1. CASE UNCHANGED <<tier, expiry, granted>>
      BY <1>0, <1>1, <2>3, <3>1 DEF UpdateFailed
    <3>2. CASE UpgradeRow(w)
      BY <2>3, <3>2, UpgradeIsGrant DEF UpdateFailed, Promise!Next
    <3> QED
      BY <2>3, <3>1, <3>2 DEF UpdateFailed
  <2> QED
    BY <1>6, <2>1, <2>2, <2>3 DEF WebhookFailure
<1>7. CASE ResetExpiredTiers
  BY <1>7, ResetIsLapse DEF Promise!Next
<1>8. CASE MarkExpired
  BY <1>8, ExpireIsClose DEF Promise!Next
<1>9. CASE Tick
  BY <1>1, <1>9 DEF Tick, Promise!Next, Promise!Advance, StageMap
<1>10. CASE UNCHANGED vars
  BY <1>0, <1>1, <1>10 DEF vars
<1> QED
  BY <1>2, <1>3, <1>4, <1>5, <1>6, <1>7, <1>8, <1>9, <1>10 DEF Next

\* The webhook, the tables and the scheduler implement the abstract promise:
\* bought once, granted once, for a full period.
THEOREM Refinement == Spec => ImplementsTierGrants
<1>1. Init => Promise!Init
  BY InitTypeOK DEF Init, Promise!Init, Stage, TypeOK
<1> QED
  BY <1>1, Invariance, StepRefines, PTL DEF Spec, ImplementsTierGrants, Promise!Spec
=============================================================================
