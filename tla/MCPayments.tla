------------------------------ MODULE MCPayments ------------------------------
(***************************************************************************)
(* One member with two invoices for different tiers, two webhook requests  *)
(* in flight: the smallest instance in which two replicas can handle the   *)
(* same payment, or two payments of the same member, at the same time.     *)
(***************************************************************************)
EXTENDS Payments, TLC

CONSTANTS m1, h1, h2, hybrid, premium, free

MCOwner == [h \in {h1, h2} |-> m1]
MCRows == {[tier |-> free, expiry |-> 0], [tier |-> hybrid, expiry |-> 0],
           [tier |-> premium, expiry |-> 2]}
MCTierOf == (h1 :> hybrid) @@ (h2 :> premium)
=============================================================================
