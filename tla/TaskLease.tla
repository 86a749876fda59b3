------------------------------ MODULE TaskLease ------------------------------
(***************************************************************************)
(* What a task claim promises, with no statement in flight and no call     *)
(* lost: a task has at most one owner at a time, an owner gives way only   *)
(* to a lower event id and only until the lease is sealed, and whoever     *)
(* acts on the task owns a sealed lease.                                   *)
(*                                                                         *)
(* ArbiterClaim.tla is shown to implement this specification.              *)
(***************************************************************************)
EXTENDS Integers

CONSTANTS Claims,  \* the claim events of one task, by event id
          None

VARIABLES owner,   \* Claims \cup {None}
          sealed,  \* the owner can no longer be displaced
          acted    \* the claimants that went on to act

vars == <<owner, sealed, acted>>

Init ==
  /\ owner = None
  /\ sealed = FALSE
  /\ acted = {}

\* The first claim, or a lower event id before the lease is sealed.
Take(c) ==
  /\ owner # None => owner > c /\ ~sealed
  /\ owner' = c
  /\ sealed' = FALSE
  /\ UNCHANGED acted

Seal ==
  /\ owner # None
  /\ sealed' = TRUE
  /\ UNCHANGED <<owner, acted>>

Act(c) ==
  /\ sealed
  /\ owner = c
  /\ acted' = acted \cup {c}
  /\ UNCHANGED <<owner, sealed>>

Next == Seal \/ \E c \in Claims : Take(c) \/ Act(c)

Spec == Init /\ [][Next]_vars
=============================================================================
