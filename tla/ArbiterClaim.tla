----------------------------- MODULE ArbiterClaim -----------------------------
(***************************************************************************)
(* Exclusive task claims: internal/arbiterclaim/store.go and handler.go,   *)
(* with the deadline of internal/dbcall.                                   *)
(*                                                                         *)
(* A claim event passes TryClaim before it is stored.  The claims of       *)
(* different tasks never meet (every statement names one task_id), so the  *)
(* model is the row of one task.  Postgres evaluates now() once, when a    *)
(* statement starts; the row is tested and written later, after any wait   *)
(* for another transaction's lock.  A call that outlives its deadline      *)
(* leaves its statement behind, and that statement may still commit.       *)
(*                                                                         *)
(* Event ids are natural numbers: only their order matters.                *)
(***************************************************************************)
EXTENDS Integers

CONSTANTS Claims,        \* the claim events of the task, by event id
          None,          \* no row
          SettleWindow,  \* Store.settleWindow
          MaxDelay,      \* assumed: longest time from a statement's now() to its effect
          MaxTime,       \* bound: the clock stops here
          MaxSubmits     \* bound: publishes and retries of claims in a behaviour

ASSUME ClaimAssumption ==
  /\ Claims \subseteq Nat
  /\ None \notin Nat
  /\ SettleWindow \in Nat \ {0}
  /\ MaxDelay \in Nat
  /\ MaxTime \in Nat
  /\ MaxSubmits \in Nat

VARIABLES
  now,        \* the database clock
  holder,     \* arbiter_claims.event_id, or None while there is no row
  claimedAt,  \* arbiter_claims.claimed_at
  call,       \* TryClaim for each claim event
  abandoned,  \* INSERTs whose caller gave up, still pending in the database
  submits,    \* publishes of a claim so far
  told,       \* history: when the claimant learnt that it holds, 0 for never
  acted       \* history: claimants that verified their token and acted

vars == <<now, holder, claimedAt, call, abandoned, submits, told, acted>>

CallRec == [phase : {"idle", "insert", "refused"}, start : Nat]
Statement == [claim : Claims, start : Nat]

TypeOK ==
  /\ now \in Nat
  /\ holder \in Claims \cup {None}
  /\ claimedAt \in Nat
  /\ call \in [Claims -> CallRec]
  /\ abandoned \in SUBSET Statement
  /\ submits \in Nat
  /\ told \in [Claims -> Nat]
  /\ acted \in SUBSET Claims

Init ==
  /\ now = 1
  /\ holder = None
  /\ claimedAt = 0
  /\ call = [c \in Claims |-> [phase |-> "idle", start |-> 0]]
  /\ abandoned = {}
  /\ submits = 0
  /\ told = [c \in Claims |-> 0]
  /\ acted = {}

-----------------------------------------------------------------------------
(* The statement.                                                          *)

\* Mutants: any claim displaces the holder inside the window; a lower id
\* displaces it at any time.
MutBeatsAny(c, start) == holder # None => holder # c /\ claimedAt + SettleWindow > start
MutBeatsAlways(c, start) == holder # None => holder > c

\* INSERT ... ON CONFLICT DO UPDATE ... WHERE: there is no row yet, or its
\* event id is higher and it was claimed within the settle window of now().
Beats(c, start) == holder # None => holder > c /\ claimedAt + SettleWindow > start

\* Mutant: the window is taken off the time that is stored.
MutTakeRow(c, start) ==
  /\ holder' = c
  /\ claimedAt' = start - SettleWindow

\* The row written by the statement; claimed_at is its now().
TakeRow(c, start) ==
  /\ holder' = c
  /\ claimedAt' = start

-----------------------------------------------------------------------------
(* TryClaim and its answer.                                                *)

Goto(c, p) == call' = [call EXCEPT ![c] = [phase |-> p, start |-> @.start]]

\* The claimant learns from an OK, or from a refusal naming its own event.
Learns(c) == told' = [told EXCEPT ![c] = IF @ = 0 THEN now ELSE @]

Submit(c) ==
  /\ call[c].phase = "idle"
  /\ submits < MaxSubmits
  /\ submits' = submits + 1
  /\ call' = [call EXCEPT ![c] = [phase |-> "insert", start |-> now]]
  /\ UNCHANGED <<now, holder, claimedAt, abandoned, told, acted>>

\* RETURNING event_id: the claim took the row and the event goes on.
Won(c) ==
  /\ call[c].phase = "insert"
  /\ Beats(c, call[c].start)
  /\ TakeRow(c, call[c].start)
  /\ Learns(c)
  /\ Goto(c, "idle")
  /\ UNCHANGED <<now, abandoned, submits, acted>>

\* Mutant: sql.ErrNoRows is taken for success.
MutRefused(c) ==
  /\ call[c].phase = "insert"
  /\ ~Beats(c, call[c].start)
  /\ Learns(c)
  /\ Goto(c, "idle")
  /\ UNCHANGED <<now, holder, claimedAt, abandoned, submits, acted>>

\* sql.ErrNoRows: the claim did not take; the holder is read next.
Refused(c) ==
  /\ call[c].phase = "insert"
  /\ ~Beats(c, call[c].start)
  /\ Goto(c, "refused")
  /\ UNCHANGED <<now, holder, claimedAt, abandoned, submits, told, acted>>

\* ErrLost with the event id the row holds by now, which may be the claim's
\* own: an earlier INSERT of it took the row.
Lost(c) ==
  /\ call[c].phase = "refused"
  /\ IF holder = c THEN Learns(c) ELSE UNCHANGED told
  /\ Goto(c, "idle")
  /\ UNCHANGED <<now, holder, claimedAt, abandoned, submits, acted>>

\* The call failed, or the holder could not be read: "store unavailable".
Unavailable(c) ==
  /\ call[c].phase \in {"insert", "refused"}
  /\ Goto(c, "idle")
  /\ UNCHANGED <<now, holder, claimedAt, abandoned, submits, told, acted>>

\* The deadline fired with the INSERT still pending in the database.
Abandon(c) ==
  /\ call[c].phase = "insert"
  /\ abandoned' = abandoned \cup {[claim |-> c, start |-> call[c].start]}
  /\ Goto(c, "idle")
  /\ UNCHANGED <<now, holder, claimedAt, submits, told, acted>>

\* An abandoned INSERT takes effect, or is cancelled, with nobody listening.
CommitLate(s) ==
  /\ abandoned' = abandoned \ {s}
  /\ Beats(s.claim, s.start)
  /\ TakeRow(s.claim, s.start)
  /\ UNCHANGED <<now, call, submits, told, acted>>

Dropped(s) ==
  /\ abandoned' = abandoned \ {s}
  /\ UNCHANGED <<now, holder, claimedAt, call, submits, told, acted>>

-----------------------------------------------------------------------------
\* The effect site (external): it waits until its lease cannot be displaced,
\* then compares its token with Holder and acts.
Act(c) ==
  /\ told[c] # 0
  /\ now >= told[c] + SettleWindow + MaxDelay
  /\ holder = c
  /\ acted' = acted \cup {c}
  /\ UNCHANGED <<now, holder, claimedAt, call, abandoned, submits, told>>

\* No statement is still pending MaxDelay after it started.
Tick ==
  /\ now < MaxTime
  /\ \A c \in Claims : call[c].phase = "insert" => now < call[c].start + MaxDelay
  /\ \A s \in abandoned : now < s.start + MaxDelay
  /\ now' = now + 1
  /\ UNCHANGED <<holder, claimedAt, call, abandoned, submits, told, acted>>

Next ==
  \/ \E c \in Claims :
       \/ Submit(c)
       \/ Won(c)
       \/ Refused(c)
       \/ Lost(c)
       \/ Unavailable(c)
       \/ Abandon(c)
       \/ Act(c)
  \/ \E s \in abandoned : CommitLate(s) \/ Dropped(s)
  \/ Tick

Spec == Init /\ [][Next]_vars

-----------------------------------------------------------------------------
(* Properties.                                                             *)

\* Two sessions never both act on the task: not when a slow INSERT displaces
\* a holder that has its OK, not when an abandoned INSERT commits after its
\* claimant was told to retry, not when a displaced holder is slow to act.
AtMostOneActs == \A c, d \in acted : c = d

\* A claimant that was told it holds the task either still does or has been
\* displaced by a lower event id: no answer is given to a claim that was never
\* recorded, and no claim is lost without a better one in its place.
ToldHolds == \A c \in Claims : told[c] # 0 => holder # None /\ holder <= c

\* "Outside it, the claim is final": a holder older than the settle window is
\* not displaced.
FinalAfterWindow ==
  [][holder # None /\ now > claimedAt + SettleWindow => holder' = holder]_vars

\* The lease is sealed once no statement that started inside the window can
\* still be pending.
Sealed == holder # None /\ now >= claimedAt + SettleWindow + MaxDelay

Promise == INSTANCE TaskLease WITH owner <- holder, sealed <- Sealed

\* Every behaviour is one of the abstract lease: the first claim takes the
\* row, only lower ids displace it, none does once it is sealed, and only a
\* sealed owner acts.
ImplementsTaskLease == Promise!Spec
=============================================================================
