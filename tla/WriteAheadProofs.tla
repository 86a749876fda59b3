--------------------------- MODULE WriteAheadProofs ---------------------------
(***************************************************************************)
(* Proofs about WriteAhead.tla for any pods, writes, faults and retry      *)
(* limit.  LossIsExplained needs to know, of the moment an entry is given  *)
(* up, that each of its retries was a failed save (RetriesCounted).        *)
(***************************************************************************)
EXTENDS WriteAhead, TLAPS

\* Every retry of an entry was a failed save of its event.
RetriesCounted ==
  /\ \A i \in DOMAIN queue : queue[i].retries <= saveFails[queue[i].event]
  /\ \A p \in Pods : drainer[p].phase # "idle" =>
       drainer[p].entry.retries <= saveFails[drainer[p].entry.event]

Inv ==
  /\ TypeOK
  /\ RetriesAreBounded
  /\ RetriesCounted
  /\ LossIsExplained

-----------------------------------------------------------------------------
USE WriteAheadAssumption

\* A pod with nothing in its hands, and a fresh entry, are well typed.
LEMMA FreshType ==
  /\ Idle \in DrainerRec /\ Idle.phase = "idle"
  /\ \A e \in Events : NewEntry(e) \in Entry /\ NewEntry(e).event = e /\ NewEntry(e).retries = 0
BY DEF Idle, DrainerRec, NewEntry, Entry

\* The initial state satisfies the inductive invariant.
LEMMA InitInv == Init => Inv
BY FreshType DEF Init, Inv, TypeOK, RetriesAreBounded, RetriesCounted, LossIsExplained

\* The head of the list is a bounded, counted entry, and the rest of the list
\* holds every other event.
LEMMA HeadTail ==
  ASSUME queue \in Seq(Entry), queue # <<>>
  PROVE  /\ 1 \in DOMAIN queue /\ Head(queue) = queue[1] /\ Head(queue) \in Entry
         /\ Tail(queue) \in Seq(Entry)
         /\ \A i \in DOMAIN Tail(queue) : i + 1 \in DOMAIN queue /\ Tail(queue)[i] = queue[i + 1]
         /\ \A i \in DOMAIN queue : i # 1 => i - 1 \in DOMAIN Tail(queue)
                                             /\ Tail(queue)[i - 1] = queue[i]
OBVIOUS

\* Pushing an entry keeps every entry of the list and adds that one.
LEMMA AppendFacts ==
  ASSUME queue \in Seq(Entry), NEW entry \in Entry, queue' = Append(queue, entry)
  PROVE  /\ queue' \in Seq(Entry)
         /\ \A i \in DOMAIN queue : i \in DOMAIN queue' /\ queue'[i] = queue[i]
         /\ \A i \in DOMAIN queue' : (i \in DOMAIN queue /\ queue'[i] = queue[i]) \/ queue'[i] = entry
         /\ \E i \in DOMAIN queue' : queue'[i] = entry
<1>1. Len(queue) + 1 \in DOMAIN queue' /\ queue'[Len(queue) + 1] = entry
  OBVIOUS
<1> QED
  BY <1>1

\* A pushed entry leaves every queued event queued, its own included.
LEMMA PushQueued ==
  ASSUME queue \in Seq(Entry), NEW entry \in Entry, queue' = Append(queue, entry)
  PROVE  /\ \A e \in Events : Queued(e) => Queued(e)'
         /\ Queued(entry.event)'
BY AppendFacts DEF Queued

\* A step that gives up what one pod holds leaves the other pods' entries.
LEMMA FinishFacts ==
  ASSUME TypeOK, NEW p \in Pods, Finish(p)
  PROVE  /\ drainer' \in [Pods -> DrainerRec]
         /\ \A q \in Pods : drainer'[q].phase # "idle" => q # p /\ drainer'[q] = drainer[q]
         /\ \A e \in Events : InFlight(e) => InFlight(e)' \/ drainer[p].entry.event = e
BY FreshType DEF TypeOK, Finish, InFlight

\* A write queues the event, or saves it, before it is acknowledged.
LEMMA WriteInv == ASSUME Inv, NEW e \in Events, Write(e) \/ WriteDirect(e) PROVE Inv'
<1> USE DEF Inv, Write, WriteDirect, Written, Fault, Push
<1>0. drainer' = drainer /\ saveFails' = saveFails /\ spilled' = spilled /\ acked' = acked \cup {e}
  OBVIOUS
<1>1. CASE queue' = Append(queue, NewEntry(e))
  <2>1. queue \in Seq(Entry) /\ NewEntry(e) \in Entry
    BY FreshType DEF TypeOK
  <2>2. TypeOK'
    BY <1>1, <2>1, AppendFacts DEF TypeOK
  <2>3. RetriesAreBounded' /\ RetriesCounted'
    <3>1. \A i \in DOMAIN queue' :
            queue'[i].retries < MaxRetries /\ queue'[i].retries <= saveFails[queue'[i].event]
      <4> SUFFICES ASSUME NEW i \in DOMAIN queue'
                   PROVE  queue'[i].retries < MaxRetries
                          /\ queue'[i].retries <= saveFails[queue'[i].event]
        OBVIOUS
      <4>1. CASE i \in DOMAIN queue /\ queue'[i] = queue[i]
        BY <4>1 DEF RetriesAreBounded, RetriesCounted
      <4>2. CASE queue'[i] = NewEntry(e)
        BY <4>2, FreshType DEF TypeOK
      <4> QED
        BY <1>1, <2>1, <4>1, <4>2, AppendFacts
    <3> QED
      BY <1>0, <3>1 DEF RetriesAreBounded, RetriesCounted
  <2>4. LossIsExplained'
    <3>1. Queued(e)' /\ \A f \in Events : Queued(f) => Queued(f)'
      BY <1>1, <2>1, FreshType, PushQueued
    <3>2. \A f \in Events : InFlight(f)' <=> InFlight(f)
      BY <1>0 DEF InFlight
    <3> QED
      BY <1>0, <3>1, <3>2 DEF LossIsExplained, TypeOK
  <2> QED
    BY <2>2, <2>3, <2>4
<1>2. CASE queue' = queue
  <2>1. e \in table'
    BY <1>2, FreshType DEF TypeOK
  <2>2. TypeOK'
    BY <1>2 DEF TypeOK
  <2>3. RetriesAreBounded' /\ RetriesCounted'
    BY <1>0, <1>2 DEF RetriesAreBounded, RetriesCounted
  <2>4. \A f \in Events : (InFlight(f)' <=> InFlight(f)) /\ (Queued(f)' <=> Queued(f))
    BY <1>0, <1>2 DEF InFlight, Queued
  <2> QED
    BY <1>0, <2>1, <2>2, <2>3, <2>4 DEF LossIsExplained, TypeOK
<1> QED
  BY <1>1, <1>2

\* A popped entry moves from the list to the pod's hands.
LEMMA PopInv == ASSUME Inv, NEW p \in Pods, Pop(p) PROVE Inv'
<1> USE DEF Inv, Pop, historyVars
<1>1. queue \in Seq(Entry) /\ queue # <<>>
  BY DEF TypeOK
<1> DEFINE hd == Head(queue)
<1>2. /\ 1 \in DOMAIN queue /\ hd = queue[1] /\ hd \in Entry
      /\ queue' \in Seq(Entry)
      /\ \A i \in DOMAIN queue' : i + 1 \in DOMAIN queue /\ queue'[i] = queue[i + 1]
      /\ \A i \in DOMAIN queue : i # 1 => i - 1 \in DOMAIN queue' /\ queue'[i - 1] = queue[i]
  BY <1>1, HeadTail
<1>3. /\ drainer' = [drainer EXCEPT ![p] = [phase |-> "popped", entry |-> hd]]
      /\ drainer' \in [Pods -> DrainerRec]
      /\ drainer[p].phase = "idle"
      /\ UNCHANGED <<table, acked, saveFails, spilled>>
  BY <1>2 DEF TypeOK, DrainerRec
<1> HIDE DEF hd
<1>4. TypeOK'
  BY <1>2, <1>3 DEF TypeOK
<1>5. RetriesAreBounded' /\ RetriesCounted'
  <2>1. hd.retries < MaxRetries /\ hd.retries <= saveFails[hd.event]
    BY <1>2 DEF RetriesAreBounded, RetriesCounted
  <2>2. \A i \in DOMAIN queue' :
          queue'[i].retries < MaxRetries /\ queue'[i].retries <= saveFails[queue'[i].event]
    BY <1>2 DEF RetriesAreBounded, RetriesCounted
  <2>3. ASSUME NEW q \in Pods, drainer'[q].phase # "idle"
        PROVE  /\ drainer'[q].entry.retries < MaxRetries
               /\ drainer'[q].entry.retries <= saveFails[drainer'[q].entry.event]
    <3>1. CASE q = p
      BY <1>3, <2>1, <3>1 DEF TypeOK
    <3>2. CASE q # p
      <4>1. drainer'[q] = drainer[q]
        BY <1>3, <3>2 DEF TypeOK
      <4> QED
        BY <2>3, <4>1 DEF RetriesAreBounded, RetriesCounted
    <3> QED
      BY <3>1, <3>2
  <2> QED
    BY <1>3, <2>2, <2>3 DEF RetriesAreBounded, RetriesCounted
<1>6. LossIsExplained'
  <2>1. ASSUME NEW e \in Events, Queued(e) PROVE Queued(e)' \/ InFlight(e)'
    <3>1. PICK i \in DOMAIN queue : queue[i].event = e
      BY <2>1 DEF Queued
    <3>2. CASE i = 1
      <4>1. drainer'[p].phase # "idle" /\ drainer'[p].entry.event = e
        BY <1>2, <1>3, <3>1, <3>2 DEF TypeOK
      <4> QED
        BY <4>1 DEF InFlight
    <3>3. CASE i # 1
      BY <1>2, <3>1, <3>3 DEF Queued
    <3> QED
      BY <3>2, <3>3
  <2>2. ASSUME NEW e \in Events, InFlight(e) PROVE InFlight(e)'
    <3>1. PICK q \in Pods : drainer[q].phase # "idle" /\ drainer[q].entry.event = e
      BY <2>2 DEF InFlight
    <3>2. drainer'[q] = drainer[q]
      BY <1>3, <3>1 DEF TypeOK
    <3> QED
      BY <3>1, <3>2 DEF InFlight
  <2> QED
    BY <1>3, <2>1, <2>2 DEF LossIsExplained, TypeOK
<1> QED
  BY <1>4, <1>5, <1>6

\* Giving up an entry that was saved, or whose loss is on record.
LEMMA GiveUpInv ==
  ASSUME Inv, TypeOK', NEW p \in Pods, Finish(p), UNCHANGED <<queue, acked, saveFails>>,
         table \subseteq table', spilled \subseteq spilled',
         drainer[p].entry.event \in table' \cup spilled'
  PROVE  Inv'
<1> USE DEF Inv
<1>1. RetriesAreBounded' /\ RetriesCounted'
  BY FinishFacts DEF RetriesAreBounded, RetriesCounted
<1>2. \A e \in Events : InFlight(e) => InFlight(e)' \/ e \in table' \cup spilled'
  BY FinishFacts
<1>3. \A e \in Events : Queued(e) => Queued(e)'
  BY DEF Queued
<1>4. LossIsExplained'
  BY <1>2, <1>3 DEF LossIsExplained, TypeOK
<1> QED
  BY <1>1, <1>4

\* DiscardOld, RequeueFailed, Crash and Save end with nothing in the pod's hands.
LEMMA EndInv ==
  ASSUME Inv, NEW p \in Pods, DiscardOld(p) \/ RequeueFailed(p) \/ Crash(p) \/ Save(p)
  PROVE  Inv'
<1> USE DEF Inv, DiscardOld, RequeueFailed, Crash, Save, historyVars, Fault
<1>1. Finish(p) /\ UNCHANGED <<queue, acked, saveFails>>
  OBVIOUS
<1>2. drainer[p].entry.event \in Events
  BY DEF TypeOK, DrainerRec, Entry
<1>3. TypeOK'
  BY <1>1, <1>2, FinishFacts DEF TypeOK
<1>4. /\ table \subseteq table' /\ spilled \subseteq spilled'
      /\ drainer[p].entry.event \in table' \cup spilled'
  OBVIOUS
<1> QED
  BY <1>1, <1>3, <1>4, GiveUpInv

\* A failed save is counted; the entry is kept or has failed MaxRetries times.
LEMMA SaveFailedInv == ASSUME Inv, NEW p \in Pods, SaveFailed(p) PROVE Inv'
<1> DEFINE entry == drainer[p].entry
           e == entry.event
           next == AfterFailure(entry)
<1> USE DEF Inv, SaveFailed, Fault
<1>1. entry \in Entry /\ e \in Events /\ drainer[p].phase = "popped"
  BY DEF TypeOK, DrainerRec, Entry
<1>2. entry.retries < MaxRetries /\ entry.retries <= saveFails[e]
  BY <1>1 DEF RetriesAreBounded, RetriesCounted
<1>3. /\ saveFails' = [saveFails EXCEPT ![e] = IF @ < MaxRetries THEN @ + 1 ELSE @]
      /\ drainer' = [drainer EXCEPT ![p] = next]
      /\ UNCHANGED <<queue, acked, spilled>>
      /\ table \subseteq table'
  OBVIOUS
<1>4. /\ next \in DrainerRec
      /\ next.entry.event = e /\ next.entry.retries = entry.retries + 1
      /\ next.phase # "idle" <=> entry.retries + 1 < MaxRetries
  BY <1>1 DEF AfterFailure, DrainerRec, Entry
<1>5. /\ saveFails' \in [Events -> Nat]
      /\ \A f \in Events : saveFails'[f] >= saveFails[f]
      /\ saveFails'[e] >= entry.retries + 1
  BY <1>1, <1>2, <1>3 DEF TypeOK, Entry
<1>6. drainer' \in [Pods -> DrainerRec]
  BY <1>3, <1>4 DEF TypeOK
<1>7. drainer'[p] = next /\ \A q \in Pods : q # p => drainer'[q] = drainer[q]
  BY <1>3, <1>4 DEF TypeOK
<1>8. TypeOK'
  <2>1. faults' \in Nat /\ writes' \in Nat /\ table' \in SUBSET Events
    BY <1>1 DEF TypeOK
  <2> QED
    BY <1>3, <1>5, <1>6, <2>1 DEF TypeOK
<1> HIDE DEF next, entry, e, SaveFailed
<1>9. \A q \in Pods : q # p /\ drainer[q].phase # "idle" => drainer[q].entry.event \in Events
                                                      /\ drainer[q].entry.retries \in Nat
  BY DEF TypeOK, DrainerRec, Entry
<1>10. RetriesAreBounded' /\ RetriesCounted'
  <2>1. \A i \in DOMAIN queue : queue[i].event \in Events /\ queue[i].retries \in Nat
    <3>1. queue \in Seq(Entry)
      BY DEF TypeOK
    <3>2. \A i \in DOMAIN queue : queue[i] \in Entry
      BY <3>1
    <3> QED
      BY <3>2 DEF Entry
  <2>2. \A i \in DOMAIN queue' :
          queue'[i].retries < MaxRetries /\ queue'[i].retries <= saveFails'[queue'[i].event]
    BY <1>3, <1>5, <2>1 DEF RetriesAreBounded, RetriesCounted, TypeOK
  <2>3. ASSUME NEW q \in Pods, drainer'[q].phase # "idle"
        PROVE  /\ drainer'[q].entry.retries < MaxRetries
               /\ drainer'[q].entry.retries <= saveFails'[drainer'[q].entry.event]
    <3>1. CASE q = p
      BY <1>1, <1>4, <1>5, <1>7, <2>3, <3>1 DEF Entry
    <3>2. CASE q # p
      BY <1>5, <1>7, <1>9, <2>3, <3>2 DEF RetriesAreBounded, RetriesCounted, TypeOK
    <3> QED
      BY <3>1, <3>2
  <2> QED
    BY <2>2, <2>3 DEF RetriesAreBounded, RetriesCounted
<1>11. LossIsExplained'
  <2>1. ASSUME NEW f \in Events, InFlight(f)
        PROVE  InFlight(f)' \/ saveFails'[f] >= MaxRetries
    <3>1. PICK q \in Pods : drainer[q].phase # "idle" /\ drainer[q].entry.event = f
      BY <2>1 DEF InFlight
    <3>2. CASE q # p
      BY <1>7, <3>1, <3>2 DEF InFlight
    <3>3. CASE q = p /\ entry.retries + 1 < MaxRetries
      BY <1>4, <1>7, <3>1, <3>3 DEF InFlight, entry, e
    <3>4. CASE q = p /\ ~(entry.retries + 1 < MaxRetries)
      <4>1. f = e
        BY <3>1, <3>4 DEF e, entry
      <4> QED
        BY <1>1, <1>5, <3>4, <4>1 DEF Entry
    <3> QED
      BY <3>2, <3>3, <3>4
  <2>2. \A f \in Events : Queued(f) => Queued(f)'
    BY <1>3 DEF Queued
  <2>3. \A f \in Events : saveFails[f] >= MaxRetries => saveFails'[f] >= MaxRetries
    BY <1>5 DEF TypeOK
  <2> QED
    BY <1>3, <2>1, <2>2, <2>3 DEF LossIsExplained, TypeOK
<1> QED
  BY <1>8, <1>10, <1>11

\* A requeued entry is back on the list before the pod lets go of it.
LEMMA RequeueInv == ASSUME Inv, NEW p \in Pods, Requeue(p) PROVE Inv'
<1> USE DEF Inv, Requeue, Push, historyVars
<1> DEFINE entry == drainer[p].entry
<1>1. entry \in Entry /\ queue \in Seq(Entry) /\ Finish(p) /\ drainer[p].phase = "retry"
  BY DEF TypeOK, DrainerRec
<1>2. queue' = Append(queue, entry) /\ UNCHANGED <<table, acked, saveFails, spilled>>
  OBVIOUS
<1>3. entry.retries < MaxRetries /\ entry.retries <= saveFails[entry.event]
  BY <1>1 DEF RetriesAreBounded, RetriesCounted
<1>4. TypeOK'
  BY <1>1, <1>2, AppendFacts, FinishFacts DEF TypeOK
<1>5. \A f \in Events : (Queued(f) => Queued(f)') /\ (InFlight(f) => InFlight(f)' \/ Queued(f)')
  BY <1>1, <1>2, PushQueued, FinishFacts
<1>6. \A i \in DOMAIN queue' : (i \in DOMAIN queue /\ queue'[i] = queue[i]) \/ queue'[i] = entry
  BY <1>1, <1>2, AppendFacts
<1>7. \A q \in Pods : drainer'[q].phase # "idle" => q # p /\ drainer'[q] = drainer[q]
  BY <1>1, FinishFacts
<1> HIDE DEF entry, Requeue
<1>8. RetriesAreBounded' /\ RetriesCounted'
  <2>1. \A i \in DOMAIN queue' :
          queue'[i].retries < MaxRetries /\ queue'[i].retries <= saveFails[queue'[i].event]
    BY <1>3, <1>6 DEF RetriesAreBounded, RetriesCounted
  <2> QED
    BY <1>2, <1>7, <2>1 DEF RetriesAreBounded, RetriesCounted
<1>9. LossIsExplained'
  BY <1>2, <1>5 DEF LossIsExplained, TypeOK
<1> QED
  BY <1>4, <1>8, <1>9

\* Growing old changes nothing but the age of the queued entries.
LEMMA OutageInv == ASSUME Inv, Outage PROVE Inv'
<1> USE DEF Inv, Outage, historyVars, Fault
<1>1. queue \in Seq(Entry) /\ UNCHANGED <<table, drainer, acked, saveFails, spilled>>
  BY DEF TypeOK
<1>2. \A i \in DOMAIN queue : queue[i] \in Entry
  BY <1>1
<1>3. /\ queue' \in Seq(Entry) /\ DOMAIN queue' = DOMAIN queue
      /\ \A i \in DOMAIN queue :
           queue'[i].event = queue[i].event /\ queue'[i].retries = queue[i].retries
  <2>1. \A i \in DOMAIN queue : [queue[i] EXCEPT !.old = TRUE] \in Entry
    BY <1>2 DEF Entry
  <2>2. queue' = [i \in 1..Len(queue) |-> [queue[i] EXCEPT !.old = TRUE]] /\ Len(queue) \in Nat
    BY <1>1
  <2>3. queue' \in Seq(Entry)
    BY <1>1, <2>1, <2>2
  <2> QED
    BY <1>2, <2>3 DEF Entry
<1>4. TypeOK'
  BY <1>1, <1>3 DEF TypeOK
<1>5. RetriesAreBounded' /\ RetriesCounted'
  BY <1>1, <1>3 DEF RetriesAreBounded, RetriesCounted
<1>6. \A f \in Events : (Queued(f) => Queued(f)') /\ (InFlight(f)' <=> InFlight(f))
  BY <1>1, <1>3 DEF Queued, InFlight
<1>7. LossIsExplained'
  BY <1>1, <1>6 DEF LossIsExplained, TypeOK
<1> QED
  BY <1>4, <1>5, <1>7

\* Every step preserves the inductive invariant.
LEMMA StepInv == Inv /\ [Next]_vars => Inv'
<1>1. Inv /\ UNCHANGED vars => Inv'
  BY DEF vars, historyVars, Inv, TypeOK, RetriesAreBounded, RetriesCounted, LossIsExplained,
         Queued, InFlight
<1> QED
  BY <1>1, WriteInv, PopInv, EndInv, SaveFailedInv, RequeueInv, OutageInv DEF Next, DrainStep

\* The inductive invariant holds in every reachable state.
LEMMA Invariance == Spec => []Inv
BY InitInv, StepInv, PTL DEF Spec

-----------------------------------------------------------------------------
\* Every variable keeps its type.
THEOREM TypeCorrect == Spec => []TypeOK
BY Invariance, PTL DEF Inv

\* Whatever the pods, the retries and the faults, an acknowledged event that is
\* gone was dropped by a crash, a failed push or the TTL, or failed MaxRetries times.
THEOREM LossesExplained == Spec => []LossIsExplained
BY Invariance, PTL DEF Inv

\* No entry is tried more than MaxRetries times.
THEOREM RetriesBounded == Spec => []RetriesAreBounded
BY Invariance, PTL DEF Inv
=============================================================================
