---------------------------- MODULE MCArbiterClaim ----------------------------
(***************************************************************************)
(* Three claims on one task, so that a holder can be displaced twice, and  *)
(* one publish more than claims, for a retry.                              *)
(***************************************************************************)
EXTENDS ArbiterClaim

MCClaims == 1..3
=============================================================================
