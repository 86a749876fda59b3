------------------------------ MODULE TierGrants ------------------------------
(***************************************************************************)
(* What the payment subsystem promises its members, with no webhook, no    *)
(* database row and no failure in sight: an invoice is bought at most      *)
(* once, a bought invoice is granted at most once, and a grant gives its   *)
(* owner the tier it was sold for, for at least a full period counted from *)
(* the purchase.  A tier is taken away only when it has run out.           *)
(*                                                                         *)
(* Payments.tla is shown to implement this specification.                  *)
(***************************************************************************)
EXTENDS Integers

CONSTANTS Hashes,     \* invoices, named by their payment hash
          Members,    \* pubkeys that have a row in nip43_members
          PaidTiers,  \* the purchasable tiers
          Free,       \* the free tier
          Owner,      \* [Hashes -> Members]: who an invoice was issued to
          TierOf,     \* [Hashes -> PaidTiers]: the tier it sells
          Period      \* the length of a paid period

VARIABLES stage,      \* [Hashes -> Stages]
          boughtAt,   \* [Hashes -> Nat]
          tier,       \* [Members -> PaidTiers \cup {Free}]
          expiry,     \* [Members -> Nat], 0 for "never"
          clock

vars == <<stage, boughtAt, tier, expiry, clock>>

Stages == {"open", "bought", "granted", "closed"}

Init ==
  /\ stage = [h \in Hashes |-> "open"]
  /\ boughtAt = [h \in Hashes |-> 0]
  /\ tier \in [Members -> PaidTiers \cup {Free}]
  /\ expiry \in [Members -> Nat]
  /\ clock \in Nat

\* A full payment is recorded, once.
Buy(h) ==
  /\ stage[h] = "open"
  /\ stage' = [stage EXCEPT ![h] = "bought"]
  /\ boughtAt' = [boughtAt EXCEPT ![h] = clock]
  /\ UNCHANGED <<tier, expiry, clock>>

\* The purchase takes effect, once, for at least a period.
Grant(h) ==
  /\ stage[h] = "bought"
  /\ stage' = [stage EXCEPT ![h] = "granted"]
  /\ tier' = [tier EXCEPT ![Owner[h]] = TierOf[h]]
  /\ expiry'[Owner[h]] \in Nat
  /\ expiry'[Owner[h]] >= boughtAt[h] + Period
  /\ expiry' = [expiry EXCEPT ![Owner[h]] = expiry'[Owner[h]]]
  /\ UNCHANGED <<boughtAt, clock>>

\* Invoices nobody paid in time are closed for good.
Close(H) ==
  /\ \A h \in H : stage[h] = "open"
  /\ stage' = [h \in Hashes |-> IF h \in H THEN "closed" ELSE stage[h]]
  /\ UNCHANGED <<boughtAt, tier, expiry, clock>>

\* Members whose tier has run out fall back to the free tier.
Lapse(M) ==
  /\ \A m \in M : expiry[m] # 0 /\ expiry[m] < clock
  /\ tier' = [m \in Members |-> IF m \in M THEN Free ELSE tier[m]]
  /\ UNCHANGED <<stage, boughtAt, expiry, clock>>

Advance ==
  /\ clock' = clock + 1
  /\ UNCHANGED <<stage, boughtAt, tier, expiry>>

Next ==
  \/ \E h \in Hashes : Buy(h) \/ Grant(h)
  \/ \E H \in SUBSET Hashes : Close(H)
  \/ \E M \in SUBSET Members : Lapse(M)
  \/ Advance

Spec == Init /\ [][Next]_vars
=============================================================================
