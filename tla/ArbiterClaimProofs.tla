-------------------------- MODULE ArbiterClaimProofs --------------------------
(***************************************************************************)
(* Proofs about ArbiterClaim.tla for any claims, settle window and delay.  *)
(*                                                                         *)
(* AtMostOneActs is not inductive: what keeps a second claimant away is    *)
(* that the first one's lease is sealed, and sealing works because no      *)
(* pending statement is older than MaxDelay.  Inv says both.               *)
(***************************************************************************)
EXTENDS ArbiterClaim, TLAPS

\* A statement that took its now() at start can still be pending.
Recent(start) == start <= now /\ now <= start + MaxDelay

PendingRecent ==
  /\ \A c \in Claims : call[c].phase = "insert" => Recent(call[c].start)
  /\ \A s \in abandoned : Recent(s.start)

RowInPast == holder # None => claimedAt <= now

\* A holder learnt of its claim after the row was stamped.
ToldAfterClaim == \A c \in Claims : told[c] # 0 /\ holder = c => claimedAt <= told[c]

\* Whoever acted still holds the task, under a sealed lease.
ActedSealed == \A c \in acted : holder = c /\ Sealed

Inv ==
  /\ TypeOK
  /\ PendingRecent
  /\ RowInPast
  /\ ToldHolds
  /\ ToldAfterClaim
  /\ ActedSealed

-----------------------------------------------------------------------------
USE ClaimAssumption

\* The initial state satisfies the inductive invariant.
LEMMA InitInv == Init => Inv
BY DEF Init, Inv, TypeOK, PendingRecent, RowInPast, ToldHolds, ToldAfterClaim,
       ActedSealed, CallRec, Statement

\* A statement that beats the row finds an unsealed lease, on which nobody has
\* acted, and leaves behind only claimants with a higher id.
LEMMA TakeFacts ==
  ASSUME Inv, NEW c \in Claims, NEW start \in Nat,
         Recent(start), Beats(c, start), TakeRow(c, start), now' = now
  PROVE  /\ ~Sealed
         /\ ~Sealed'
         /\ acted = {}
         /\ RowInPast'
         /\ \A d \in Claims : told[d] # 0 => holder' # None /\ holder' < d
<1> USE DEF Inv, TypeOK, Recent, Beats, TakeRow
<1>1. c \in Nat /\ c # None
  OBVIOUS
<1>2. ~Sealed
  BY <1>1 DEF Sealed
<1>3. acted = {}
  BY <1>2 DEF ActedSealed
<1>4. RowInPast'
  BY DEF RowInPast
<1>5. ~Sealed'
  BY <1>1 DEF Sealed
<1>6. ASSUME NEW d \in Claims, told[d] # 0 PROVE holder' # None /\ holder' < d
  BY <1>1, <1>6 DEF ToldHolds
<1> QED
  BY <1>2, <1>3, <1>4, <1>5, <1>6

\* Every step preserves the inductive invariant.
LEMMA StepInv == Inv /\ [Next]_vars => Inv'
<1> SUFFICES ASSUME Inv, [Next]_vars PROVE Inv'
  OBVIOUS
<1> USE DEF Inv
<1>1. ASSUME NEW c \in Claims, Submit(c) PROVE Inv'
  <2> USE <1>1 DEF Submit, TypeOK, CallRec
  <2>1. TypeOK'
    OBVIOUS
  <2>2. PendingRecent'
    BY DEF PendingRecent, Recent
  <2> QED
    BY <2>1, <2>2 DEF RowInPast, ToldHolds, ToldAfterClaim, ActedSealed, Sealed
<1>2. ASSUME NEW c \in Claims, Won(c) PROVE Inv'
  <2> USE <1>2 DEF Won
  <2>1. TypeOK'
    BY DEF TypeOK, CallRec, Goto, Learns, TakeRow
  <2>2. call[c].start \in Nat /\ Recent(call[c].start) /\ now' = now
    BY DEF TypeOK, CallRec, PendingRecent
  <2>3. /\ ~Sealed'
        /\ acted = {}
        /\ RowInPast'
        /\ \A d \in Claims : told[d] # 0 => holder' # None /\ holder' < d
    BY <2>2, TakeFacts
  <2>4. PendingRecent'
    BY DEF PendingRecent, Recent, Goto, TypeOK, CallRec
  <2>5. told' = [told EXCEPT ![c] = IF @ = 0 THEN now ELSE @] /\ holder' = c /\ claimedAt' <= now
    BY <2>2 DEF Learns, TakeRow, Recent
  <2>6. ToldHolds' /\ ToldAfterClaim'
    <3> SUFFICES ASSUME NEW d \in Claims, told'[d] # 0
                 PROVE  /\ holder' # None /\ holder' <= d
                        /\ holder' = d => claimedAt' <= told'[d]
      BY DEF ToldHolds, ToldAfterClaim
    <3>1. CASE d = c
      BY <3>1, <2>3, <2>5 DEF TypeOK
    <3>2. CASE d # c
      BY <3>2, <2>3, <2>5 DEF TypeOK
    <3> QED
      BY <3>1, <3>2
  <2>7. ActedSealed'
    BY <2>3 DEF ActedSealed
  <2> QED
    BY <2>1, <2>3, <2>4, <2>6, <2>7
<1>3. ASSUME NEW c \in Claims, Refused(c) \/ Unavailable(c) \/ Abandon(c) PROVE Inv'
  <2> USE <1>3 DEF Refused, Unavailable, Abandon, TypeOK, CallRec, Goto
  <2>1. TypeOK'
    <3>1. call' \in [Claims -> CallRec]
      BY DEF CallRec
    <3>2. abandoned' \in SUBSET Statement
      BY DEF Statement
    <3> QED
      BY <3>1, <3>2
  <2>2. PendingRecent'
    BY DEF PendingRecent, Recent
  <2> QED
    BY <2>1, <2>2 DEF RowInPast, ToldHolds, ToldAfterClaim, ActedSealed, Sealed
<1>4. ASSUME NEW c \in Claims, Lost(c) PROVE Inv'
  <2> USE <1>4 DEF Lost, TypeOK, CallRec, Goto, Learns
  <2>1. TypeOK'
    OBVIOUS
  <2>2. PendingRecent'
    BY DEF PendingRecent, Recent
  <2>3. ToldHolds' /\ ToldAfterClaim'
    BY DEF ToldHolds, ToldAfterClaim, RowInPast
  <2> QED
    BY <2>1, <2>2, <2>3 DEF RowInPast, ActedSealed, Sealed
<1>5. ASSUME NEW c \in Claims, Act(c) PROVE Inv'
  <2> USE <1>5 DEF Act, TypeOK
  <2>1. Sealed
    BY DEF Sealed, ToldAfterClaim, ToldHolds
  <2>2. ActedSealed'
    BY <2>1 DEF ActedSealed, Sealed
  <2>3. PendingRecent'
    BY DEF PendingRecent, Recent
  <2> QED
    BY <2>2, <2>3 DEF RowInPast, ToldHolds, ToldAfterClaim
<1>6. ASSUME NEW s \in abandoned, CommitLate(s) PROVE Inv'
  <2> USE <1>6 DEF CommitLate
  <2>1. s.claim \in Claims /\ s.start \in Nat /\ Recent(s.start) /\ now' = now
    BY DEF TypeOK, Statement, PendingRecent
  <2>2. /\ ~Sealed'
        /\ acted = {}
        /\ RowInPast'
        /\ \A d \in Claims : told[d] # 0 => holder' # None /\ holder' < d
    BY <2>1, TakeFacts
  <2>3. TypeOK'
    BY <2>1 DEF TypeOK, TakeRow
  <2>4. PendingRecent'
    BY DEF PendingRecent, Recent
  <2>5. ToldHolds' /\ ToldAfterClaim'
    <3> SUFFICES ASSUME NEW d \in Claims, told'[d] # 0
                 PROVE  holder' # None /\ holder' < d
      <4>1. s.claim \in Nat /\ holder' = s.claim
        BY <2>1 DEF TakeRow
      <4> QED
        BY <4>1 DEF ToldHolds, ToldAfterClaim
    <3> QED
      BY <2>2
  <2>6. ActedSealed'
    BY <2>2 DEF ActedSealed
  <2> QED
    BY <2>2, <2>3, <2>4, <2>5, <2>6
<1>7. ASSUME NEW s \in abandoned, Dropped(s) PROVE Inv'
  BY <1>7 DEF Dropped, TypeOK, PendingRecent, Recent, RowInPast, ToldHolds,
              ToldAfterClaim, ActedSealed, Sealed
<1>8. CASE Tick
  <2> USE <1>8 DEF Tick, TypeOK
  <2>1. PendingRecent'
    BY DEF PendingRecent, Recent, CallRec, Statement
  <2>2. ActedSealed'
    BY DEF ActedSealed, Sealed
  <2> QED
    BY <2>1, <2>2 DEF RowInPast, ToldHolds, ToldAfterClaim
<1>9. CASE UNCHANGED vars
  BY <1>9 DEF vars, TypeOK, PendingRecent, Recent, RowInPast, ToldHolds,
              ToldAfterClaim, ActedSealed, Sealed
<1> QED
  BY <1>1, <1>2, <1>3, <1>4, <1>5, <1>6, <1>7, <1>8, <1>9 DEF Next

\* The inductive invariant holds in every reachable state.
LEMMA Invariance == Spec => []Inv
BY InitInv, StepInv, PTL DEF Spec

-----------------------------------------------------------------------------
\* Every variable keeps its type.
THEOREM TypeCorrect == Spec => []TypeOK
BY Invariance, PTL DEF Inv

\* No two claimants that wait for their lease to be sealed both act, however
\* many claims, retries, abandoned INSERTs and delays there are.
THEOREM OneActs == Spec => []AtMostOneActs
<1>1. Inv => AtMostOneActs
  BY DEF Inv, ActedSealed, AtMostOneActs
<1> QED
  BY <1>1, Invariance, PTL

\* What a claimant was told stays true until a lower id takes its place.
THEOREM ToldRemainsTrue == Spec => []ToldHolds
BY Invariance, PTL DEF Inv

\* A step of the relay is a step of the abstract lease or changes nothing in it.
LEMMA StepRefines == Inv /\ [Next]_vars => [Promise!Next]_(Promise!vars)
<1> SUFFICES ASSUME Inv, [Next]_vars PROVE Promise!Next \/ UNCHANGED Promise!vars
  OBVIOUS
<1> USE DEF Promise!vars
<1>1. ASSUME NEW c \in Claims, NEW start \in Nat, Recent(start), Beats(c, start),
             TakeRow(c, start), now' = now, acted' = acted
      PROVE  Promise!Take(c)
  <2>1. ~Sealed /\ ~Sealed'
    BY <1>1, TakeFacts
  <2> QED
    BY <1>1, <2>1 DEF Promise!Take, Beats, TakeRow, Sealed
<1>2. ASSUME NEW c \in Claims, Won(c) PROVE Promise!Next
  <2>1. call[c].start \in Nat /\ Recent(call[c].start)
    BY <1>2 DEF Inv, TypeOK, CallRec, PendingRecent, Won
  <2>2. Promise!Take(c)
    BY <1>1, <1>2, <2>1 DEF Won
  <2> QED
    BY <2>2 DEF Promise!Next
<1>3. ASSUME NEW s \in abandoned, CommitLate(s) PROVE Promise!Next
  <2>1. s.claim \in Claims /\ s.start \in Nat /\ Recent(s.start)
    BY DEF Inv, TypeOK, Statement, PendingRecent
  <2>2. Promise!Take(s.claim)
    BY <1>1, <1>3, <2>1 DEF CommitLate
  <2> QED
    BY <2>1, <2>2 DEF Promise!Next
<1>4. ASSUME NEW c \in Claims, Act(c) PROVE Promise!Next
  <2>1. Sealed
    BY <1>4 DEF Inv, TypeOK, Act, Sealed, ToldAfterClaim, ToldHolds
  <2>2. Promise!Act(c)
    BY <1>4, <2>1 DEF Promise!Act, Act, Sealed
  <2> QED
    BY <2>2 DEF Promise!Next
<1>5. CASE Tick
  <2>1. Sealed => Sealed'
    BY <1>5 DEF Inv, TypeOK, Tick, Sealed
  <2>2. CASE Sealed' = Sealed
    BY <1>5, <2>2 DEF Tick
  <2>3. CASE Sealed' /\ ~Sealed
    BY <1>5, <2>3 DEF Tick, Promise!Next, Promise!Seal, Sealed
  <2> QED
    BY <2>1, <2>2, <2>3 DEF Sealed
<1>6. ASSUME NEW c \in Claims,
             Submit(c) \/ Refused(c) \/ Lost(c) \/ Unavailable(c) \/ Abandon(c)
      PROVE  UNCHANGED Promise!vars
  BY <1>6 DEF Submit, Refused, Lost, Unavailable, Abandon, Sealed
<1>7. ASSUME NEW s \in abandoned, Dropped(s) PROVE UNCHANGED Promise!vars
  BY <1>7 DEF Dropped, Sealed
<1>8. CASE UNCHANGED vars
  BY <1>8 DEF vars, Sealed
<1> QED
  BY <1>2, <1>3, <1>4, <1>5, <1>6, <1>7, <1>8 DEF Next

\* Every behaviour of the relay is a behaviour of the abstract lease.
THEOREM Refinement == Spec => ImplementsTaskLease
<1>1. Init => Promise!Init
  BY DEF Init, Promise!Init, Sealed
<1> QED
  BY <1>1, Invariance, StepRefines, PTL DEF Spec, ImplementsTaskLease, Promise!Spec
=============================================================================
