----------------------------- MODULE BlastrProofs -----------------------------
(***************************************************************************)
(* Type correctness of Blastr, and that no event is forgotten or given up   *)
(* early for any relay, for any number of pods, events, relays and faults.  *)
(***************************************************************************)
EXTENDS Blastr, TLAPS

LEMMA InitTyped == Init => TypeOK
BY BlastrAssumption DEF Init, TypeOK, PodRec, Down, Nothing

\* What ZADD and ZREM do to the list keeps due within it.
LEMMA ListTyped ==
  ASSUME TypeOK, NEW entry \in Entry, ZAdd(entry) \/ ZRem(entry)
  PROVE  retryList' \in SUBSET Entry /\ due' \in SUBSET retryList'
BY DEF TypeOK, ZAdd, ZRem

\* A failed publish leaves its histories typed.
LEMMA TriesTyped ==
  ASSUME TypeOK, NEW x \in Pair, PublishFails(x)
  PROVE  tries' \in [Pair -> 0..MaxRetries] /\ delivered' \in SUBSET Pair
BY BlastrAssumption DEF TypeOK, PublishFails

\* The type invariant is inductive.
LEMMA TypeStep == TypeOK /\ [Next]_vars => TypeOK'
<1> SUFFICES ASSUME TypeOK, [Next]_vars PROVE TypeOK'
  OBVIOUS
<1> USE BlastrAssumption
<1>1. CASE UNCHANGED vars
  BY <1>1 DEF TypeOK, vars, podVars, listVars, retryVars, historyVars
<1>2. ASSUME NEW p \in Pods, NEW e \in Events, Broadcast(p, e) \/ BroadcastDropped(p, e)
      PROVE  TypeOK'
  <2>1. queue' \in [Pods -> Seq(Events)] /\ \A q \in Pods : Len(queue'[q]) <= QueueSize
    <3>1. CASE Broadcast(p, e)
      <4>1. queue[p] \in Seq(Events) /\ Len(queue[p]) < QueueSize
        BY <3>1 DEF TypeOK, Broadcast, HasRoom
      <4>2. Append(queue[p], e) \in Seq(Events) /\ Len(Append(queue[p], e)) <= QueueSize
        BY <4>1
      <4> QED
        BY <3>1, <4>2 DEF TypeOK, Broadcast
    <3> QED
      BY <1>2, <3>1 DEF TypeOK, BroadcastDropped, podVars
  <2>2. spilled' \in SUBSET Pair /\ offered' \in SUBSET Events
    BY <1>2 DEF TypeOK, Broadcast, BroadcastDropped, Pair
  <2> QED
    BY <1>2, <2>1, <2>2
    DEF TypeOK, Broadcast, BroadcastDropped, podVars, listVars, retryVars
<1>3. ASSUME NEW p \in Pods, BringUp(p)
      PROVE  TypeOK'
  <2>1. pod' \in [Pods -> PodRec]
    <3>1. pod \in [Pods -> PodRec] /\ pod[p] \in PodRec
      BY DEF TypeOK
    <3>2. [pod[p] EXCEPT !.worker = TRUE, !.retrier = pod[p].rdb] \in PodRec
      BY <3>1 DEF PodRec
    <3>3. [pod[p] EXCEPT !.rdb = TRUE] \in PodRec
      BY <3>1 DEF PodRec
    <3>4. \E rec \in PodRec : pod' = [pod EXCEPT ![p] = rec]
      BY <1>3, <3>1, <3>2, <3>3 DEF BringUp, Start, SetRedisClient
    <3> QED
      BY <3>1, <3>4
  <2> QED
    BY <1>3, <2>1
    DEF TypeOK, BringUp, Start, SetRedisClient, listVars, retryVars, historyVars
<1>4. ASSUME NEW p \in Pods, TakeEvent(p)
      PROVE  TypeOK'
  <2>1. Head(queue[p]) \in Events /\ Tail(queue[p]) \in Seq(Events)
        /\ Len(Tail(queue[p])) <= QueueSize
    BY <1>4 DEF TypeOK, TakeEvent
  <2>2. {Head(queue[p])} \X Relays \in SUBSET Pair
    BY <2>1 DEF Pair
  <2> QED
    BY <1>4, <2>1, <2>2
    DEF TypeOK, TakeEvent, listVars, retryVars, historyVars
<1>5. ASSUME NEW p \in Pods, NEW x \in Pair, Published(p, x) \/ NotPublished(p, x)
      PROVE  TypeOK'
  <2>1. sending' \in [Pods -> [waiting : SUBSET Pair, failed : SUBSET Pair]]
    <3>1. sending[p] \in [waiting : SUBSET Pair, failed : SUBSET Pair]
      BY DEF TypeOK
    <3>2. \E rec \in [waiting : SUBSET Pair, failed : SUBSET Pair] :
            sending' = [sending EXCEPT ![p] = rec]
      BY <1>5, <3>1 DEF TypeOK, Published, NotPublished, Refused
    <3> QED
      BY <3>2 DEF TypeOK
  <2>2. tries' \in [Pair -> 0..MaxRetries] /\ delivered' \in SUBSET Pair
    BY <1>5, TriesTyped DEF TypeOK, Published, NotPublished
  <2> QED
    BY <1>5, <2>1, <2>2
    DEF TypeOK, Published, NotPublished, listVars, retryVars
<1>6. ASSUME NEW p \in Pods, NEW x \in Pair, QueueForRetry(p, x) \/ QueueForRetryFails(p, x)
      PROVE  TypeOK'
  <2>1. sending' \in [Pods -> [waiting : SUBSET Pair, failed : SUBSET Pair]]
    <3>1. sending[p] \in [waiting : SUBSET Pair, failed : SUBSET Pair]
      BY DEF TypeOK
    <3>2. \E rec \in [waiting : SUBSET Pair, failed : SUBSET Pair] :
            sending' = [sending EXCEPT ![p] = rec]
      BY <1>6, <3>1 DEF TypeOK, QueueForRetry, QueueForRetryFails, QueueNext
    <3> QED
      BY <3>2 DEF TypeOK
  <2>2. [to |-> x, attempts |-> 1, error |-> FirstError] \in Entry
    BY DEF Entry
  <2>3. retryList' \in SUBSET Entry /\ due' \in SUBSET retryList'
    BY <1>6, <2>2, ListTyped DEF TypeOK, QueueForRetry, QueueForRetryFails, listVars
  <2>4. faults' \in Nat /\ spilled' \in SUBSET Pair
    BY <1>6 DEF TypeOK, QueueForRetry, QueueForRetryFails, Fault, historyVars
  <2> QED
    BY <1>6, <2>1, <2>3, <2>4
    DEF TypeOK, QueueForRetry, QueueForRetryFails, retryVars, historyVars
<1>7. ASSUME NEW entry \in retryList, BackoffEnds(entry)
      PROVE  TypeOK'
  BY <1>7 DEF TypeOK, BackoffEnds, podVars, retryVars, historyVars
<1>8. ASSUME NEW p \in Pods, Fetch(p)
      PROVE  TypeOK'
  BY <1>8 DEF TypeOK, Fetch, podVars, listVars, historyVars
<1>9. ASSUME NEW p \in Pods, NEW entry \in batch[p], RemoveFirst(p, entry) \/ RemoveFails(p, entry)
      PROVE  TypeOK'
  <2>1. entry \in Entry
    BY <1>9 DEF TypeOK
  <2>2. retryList' \in SUBSET Entry /\ due' \in SUBSET retryList'
    BY <1>9, <2>1, ListTyped DEF TypeOK, RemoveFirst, RemoveFails, listVars
  <2>3. batch' \in [Pods -> SUBSET Entry] /\ retrying' \in [Pods -> Entry \cup {None}]
    BY <1>9, <2>1 DEF TypeOK, RemoveFirst, RemoveFails, NextEntry
  <2>4. faults' \in Nat
    BY <1>9 DEF TypeOK, RemoveFirst, RemoveFails, Fault
  <2> QED
    BY <1>9, <2>2, <2>3, <2>4
    DEF TypeOK, RemoveFirst, RemoveFails, podVars, historyVars
<1>10. ASSUME NEW p \in Pods, RetrySucceeds(p) \/ GiveUp(p)
       PROVE  TypeOK'
  <2>1. retrying[p] \in Entry /\ retrying[p].to \in Pair
    BY <1>10 DEF TypeOK, RetrySucceeds, GiveUp, Entry
  <2>2. tries' \in [Pair -> 0..MaxRetries] /\ delivered' \in SUBSET Pair
    BY <1>10, <2>1, TriesTyped DEF TypeOK, RetrySucceeds, GiveUp
  <2> QED
    BY <1>10, <2>1, <2>2
    DEF TypeOK, RetrySucceeds, GiveUp, Finish, podVars, listVars
<1>11. ASSUME NEW p \in Pods, NEW err \in Errors, RetryFails(p, err) \/ RequeueFails(p, err)
       PROVE  TypeOK'
  <2>1. retrying[p] \in Entry /\ retrying[p].to \in Pair
    BY <1>11 DEF TypeOK, RetryFails, RequeueFails, Entry
  <2>2. tries' \in [Pair -> 0..MaxRetries] /\ delivered' \in SUBSET Pair
    BY <1>11, <2>1, TriesTyped DEF RetryFails, RequeueFails
  <2>3. NextAttempt(retrying[p], err) \in Entry
    <3>1. retrying[p].attempts + 1 \in Nat \ {0}
      BY <2>1 DEF Entry
    <3> QED
      BY <2>1, <3>1 DEF NextAttempt, Entry
  <2>4. retryList' \in SUBSET Entry /\ due' \in SUBSET retryList'
    BY <1>11, <2>3, ListTyped DEF TypeOK, RetryFails, RequeueFails, listVars
  <2>5. retrying' \in [Pods -> Entry \cup {None}]
    BY <1>11 DEF TypeOK, RetryFails, RequeueFails, Finish
  <2>6. spilled' \in SUBSET Pair /\ faults' \in Nat
    BY <1>11, <2>1 DEF TypeOK, RetryFails, RequeueFails, Fault
  <2> QED
    BY <1>11, <2>2, <2>4, <2>5, <2>6
    DEF TypeOK, RetryFails, RequeueFails, podVars
<1>12. ASSUME NEW p \in Pods, Crash(p)
       PROVE  TypeOK'
  <2>1. Held(p) \in SUBSET Pair
    BY DEF Held
  <2> QED
    BY <1>12, <2>1
    DEF TypeOK, Crash, Finish, Fault, Down, Nothing, PodRec, listVars
<1> QED
  BY <1>1, <1>2, <1>3, <1>4, <1>5, <1>6, <1>7, <1>8, <1>9, <1>10, <1>11, <1>12
  DEF Next, WorkerStep, RetryStep

\* Everything stays well typed: the channel never exceeds its capacity, and an
\* entry is due only while it is on the list.
THEOREM TypeCorrect == Spec => []TypeOK
BY InitTyped, TypeStep, PTL DEF Spec

-----------------------------------------------------------------------------
\* Every attempt an entry counts was a failed publish of its event to its relay,
\* in whatever hands the entry is.
Tried(entry) == entry.attempts <= tries[entry.to]

AttemptsCounted ==
  /\ \A entry \in retryList : Tried(entry)
  /\ \A p \in Pods : \A entry \in batch[p] : Tried(entry)
  /\ \A p \in Pods : retrying[p] # None => Tried(retrying[p])
  /\ \A p \in Pods : \A x \in sending[p].failed : tries[x] >= 1

CountInv == TypeOK /\ AttemptsCounted /\ GivenUpIsTried

LEMMA InitCounted == Init => CountInv
BY InitTyped DEF Init, CountInv, AttemptsCounted, GivenUpIsTried, Nothing

\* tries only grows, up to MaxRetries.
LEMMA TriesGrow ==
  ASSUME TypeOK, NEW x \in Pair, PublishFails(x)
  PROVE  /\ \A y \in Pair : tries[y] \in 0..MaxRetries /\ tries'[y] \in 0..MaxRetries
                            /\ tries'[y] >= tries[y]
         /\ tries'[x] >= 1
         /\ \A n \in Nat : n <= tries[x] /\ n + 1 <= MaxRetries => n + 1 <= tries'[x]
         /\ \A n \in Nat : n <= tries[x] /\ n + 1 >= MaxRetries => tries'[x] = MaxRetries
BY BlastrAssumption DEF TypeOK, PublishFails

\* So a failed publish leaves every counted entry counted, every recorded
\* failure recorded, and every pair that was given up at MaxRetries.
LEMMA CountedStays ==
  ASSUME CountInv, NEW x \in Pair, PublishFails(x)
  PROVE  /\ \A entry \in Entry : Tried(entry) => Tried(entry)'
         /\ \A y \in Pair : tries[y] >= 1 => tries'[y] >= 1
         /\ \A y \in exhausted : tries'[y] = MaxRetries
<1>1. TypeOK /\ GivenUpIsTried
  BY DEF CountInv
<1>2. \A entry \in Entry : entry.to \in Pair /\ entry.attempts \in Nat
  BY DEF Entry
<1>3. \A y \in Pair : tries[y] \in Nat /\ tries'[y] \in Nat /\ tries'[y] >= tries[y]
                      /\ tries'[y] <= MaxRetries
  BY <1>1, TriesGrow
<1>4. exhausted \in SUBSET Pair
  BY <1>1 DEF TypeOK
<1> QED
  BY <1>1, <1>2, <1>3, <1>4, BlastrAssumption DEF Tried, GivenUpIsTried

\* No step uncounts an attempt.
LEMMA CountStep == CountInv /\ [Next]_vars => CountInv'
<1> SUFFICES ASSUME CountInv, [Next]_vars PROVE AttemptsCounted' /\ GivenUpIsTried'
  BY TypeStep DEF CountInv
<1>0. TypeOK /\ AttemptsCounted /\ GivenUpIsTried
  BY DEF CountInv
<1>1. CASE UNCHANGED vars
  BY <1>0, <1>1
  DEF AttemptsCounted, GivenUpIsTried, Tried, vars, podVars, listVars, retryVars, historyVars
<1>2. ASSUME NEW p \in Pods, NEW e \in Events, Broadcast(p, e) \/ BroadcastDropped(p, e)
      PROVE  AttemptsCounted' /\ GivenUpIsTried'
  BY <1>0, <1>2
  DEF AttemptsCounted, GivenUpIsTried, Tried, Broadcast, BroadcastDropped, podVars, listVars, retryVars
<1>3. ASSUME NEW p \in Pods, BringUp(p)
      PROVE  AttemptsCounted' /\ GivenUpIsTried'
  BY <1>0, <1>3
  DEF AttemptsCounted, GivenUpIsTried, Tried, BringUp, Start, SetRedisClient, listVars, retryVars, historyVars
<1>4. ASSUME NEW p \in Pods, TakeEvent(p)
      PROVE  AttemptsCounted' /\ GivenUpIsTried'
  BY <1>0, <1>4
  DEF TypeOK, AttemptsCounted, GivenUpIsTried, Tried, TakeEvent, listVars, retryVars, historyVars
<1>5. ASSUME NEW p \in Pods, NEW x \in Pair, Published(p, x)
      PROVE  AttemptsCounted' /\ GivenUpIsTried'
  BY <1>0, <1>5
  DEF TypeOK, AttemptsCounted, GivenUpIsTried, Tried, Published, listVars, retryVars
<1>6. ASSUME NEW p \in Pods, NEW x \in Pair, NotPublished(p, x)
      PROVE  AttemptsCounted' /\ GivenUpIsTried'
  <2>1. PublishFails(x) /\ sending' = [sending EXCEPT ![p] = Refused(p, x)]
        /\ UNCHANGED <<retryList, batch, retrying, exhausted>>
    BY <1>6 DEF NotPublished, listVars, retryVars
  <2>2. \A q \in Pods : \A y \in sending'[q].failed : y = x \/ y \in sending[q].failed
    BY <1>0, <2>1 DEF TypeOK, Refused
  <2>3. tries'[x] >= 1
    BY <1>0, <2>1, TriesGrow
  <2>4. \A q \in Pods : \A y \in sending'[q].failed : tries'[y] >= 1
    BY <1>0, <2>1, <2>2, <2>3, CountedStays DEF TypeOK, AttemptsCounted
  <2> QED
    BY <1>0, <2>1, <2>4, CountedStays DEF TypeOK, AttemptsCounted, GivenUpIsTried
<1>7. ASSUME NEW p \in Pods, NEW x \in Pair, QueueForRetry(p, x) \/ QueueForRetryFails(p, x)
      PROVE  AttemptsCounted' /\ GivenUpIsTried'
  <2> DEFINE first == [to |-> x, attempts |-> 1, error |-> FirstError]
  <2>1. Tried(first)'
    BY <1>0, <1>7 DEF AttemptsCounted, Tried, QueueForRetry, QueueForRetryFails, QueueNext, historyVars
  <2>2. retryList' \subseteq retryList \cup {first}
    BY <1>7 DEF QueueForRetry, QueueForRetryFails, ZAdd, listVars
  <2>3. \A q \in Pods : sending'[q].failed \subseteq sending[q].failed
    <3>1. \E rec \in [waiting : SUBSET Pair, failed : SUBSET Pair] :
            rec.failed \subseteq sending[p].failed /\ sending' = [sending EXCEPT ![p] = rec]
      <4>1. sending[p] \in [waiting : SUBSET Pair, failed : SUBSET Pair]
        BY <1>0 DEF TypeOK
      <4>2. sending' = [sending EXCEPT ![p] =
                          [waiting |-> sending[p].waiting, failed |-> sending[p].failed \ {x}]]
        BY <1>0, <1>7, <4>1 DEF TypeOK, QueueForRetry, QueueForRetryFails, QueueNext
      <4> QED
        BY <4>1, <4>2
    <3> QED
      BY <1>0, <3>1 DEF TypeOK
  <2>4. UNCHANGED <<tries, batch, retrying, exhausted>>
    BY <1>7 DEF QueueForRetry, QueueForRetryFails, retryVars, historyVars
  <2> QED
    BY <1>0, <2>1, <2>2, <2>3, <2>4 DEF AttemptsCounted, GivenUpIsTried, Tried
<1>8. ASSUME NEW entry \in retryList, BackoffEnds(entry)
      PROVE  AttemptsCounted' /\ GivenUpIsTried'
  BY <1>0, <1>8
  DEF AttemptsCounted, GivenUpIsTried, Tried, BackoffEnds, podVars, retryVars, historyVars
<1>9. ASSUME NEW p \in Pods, Fetch(p)
      PROVE  AttemptsCounted' /\ GivenUpIsTried'
  BY <1>0, <1>9
  DEF TypeOK, AttemptsCounted, GivenUpIsTried, Tried, Fetch, podVars, listVars, historyVars
<1>10. ASSUME NEW p \in Pods, NEW entry \in batch[p], RemoveFirst(p, entry) \/ RemoveFails(p, entry)
       PROVE  AttemptsCounted' /\ GivenUpIsTried'
  BY <1>0, <1>10
  DEF TypeOK, AttemptsCounted, GivenUpIsTried, Tried, RemoveFirst, RemoveFails, NextEntry, ZRem,
      podVars, listVars, historyVars
<1>11. ASSUME NEW p \in Pods, RetrySucceeds(p)
       PROVE  AttemptsCounted' /\ GivenUpIsTried'
  BY <1>0, <1>11
  DEF TypeOK, AttemptsCounted, GivenUpIsTried, Tried, RetrySucceeds, Finish, podVars, listVars
<1>12. ASSUME NEW p \in Pods, retrying[p] # None, PublishFails(retrying[p].to), Finish(p),
              UNCHANGED <<sending, batch>>
       PROVE  /\ retrying[p] \in Entry /\ retrying[p].to \in Pair /\ retrying[p].attempts \in Nat
              /\ retrying[p].attempts <= tries[retrying[p].to]
              /\ \A entry \in retryList : Tried(entry)'
              /\ \A q \in Pods : \A entry \in batch'[q] : Tried(entry)'
              /\ \A q \in Pods : retrying'[q] # None =>
                   retrying'[q].attempts <= tries'[retrying'[q].to]
              /\ \A q \in Pods : \A x \in sending'[q].failed : tries'[x] >= 1
              /\ \A x \in exhausted : tries'[x] = MaxRetries
  <2>1. retrying[p] \in Entry /\ retrying[p].to \in Pair /\ retrying[p].attempts \in Nat
    BY <1>0, <1>12 DEF TypeOK, Entry
  <2>2. \A q \in Pods : retrying'[q] # None => retrying'[q] = retrying[q]
    BY <1>0, <1>12 DEF TypeOK, Finish
  <2>3. \A q \in Pods : \A entry \in Entry : retrying[q] = entry => Tried(entry)'
    BY <1>0, <1>12, <2>1, CountedStays, BlastrAssumption DEF TypeOK, AttemptsCounted
  <2>4. \A q \in Pods : retrying'[q] # None =>
          retrying'[q] \in Entry /\ retrying'[q].attempts <= tries'[retrying'[q].to]
    BY <1>0, <2>2, <2>3 DEF TypeOK, Tried
  <2> QED
    BY <1>0, <1>12, <2>1, <2>4, CountedStays DEF TypeOK, AttemptsCounted, Tried
<1>13. ASSUME NEW p \in Pods, GiveUp(p)
       PROVE  AttemptsCounted' /\ GivenUpIsTried'
  <2>1. tries'[retrying[p].to] = MaxRetries
    BY <1>0, <1>12, <1>13, TriesGrow DEF GiveUp, LastAttempt, podVars
  <2> QED
    BY <1>12, <1>13, <2>1 DEF GiveUp, AttemptsCounted, GivenUpIsTried, Tried, podVars, listVars
<1>14. ASSUME NEW p \in Pods, NEW err \in Errors, RetryFails(p, err) \/ RequeueFails(p, err)
       PROVE  AttemptsCounted' /\ GivenUpIsTried'
  <2>0. PICK last \in Entry : last = retrying[p]
    BY <1>12, <1>14 DEF RetryFails, RequeueFails, podVars
  <2>1. retryList' \subseteq retryList \cup {NextAttempt(last, err)}
    BY <1>14, <2>0 DEF RetryFails, RequeueFails, ZAdd, listVars
  <2>2. Tried(NextAttempt(last, err))'
    <3>1. last.attempts \in Nat /\ last.attempts + 1 <= MaxRetries
      BY <1>12, <1>14, <2>0, BlastrAssumption DEF RetryFails, RequeueFails, LastAttempt, podVars
    <3>2. last.attempts + 1 <= tries'[last.to]
      BY <1>0, <1>12, <1>14, <2>0, <3>1, TriesGrow DEF RetryFails, RequeueFails, podVars
    <3> QED
      BY <3>2 DEF Tried, NextAttempt
  <2>3. UNCHANGED <<sending, batch, exhausted>>
    BY <1>14 DEF RetryFails, RequeueFails, podVars
  <2>4. AttemptsCounted'
    BY <1>12, <1>14, <2>1, <2>2, <2>3 DEF RetryFails, RequeueFails, AttemptsCounted, Tried
  <2>5. GivenUpIsTried'
    BY <1>12, <1>14, <2>3 DEF RetryFails, RequeueFails, GivenUpIsTried
  <2> QED
    BY <2>4, <2>5
<1>15. ASSUME NEW p \in Pods, Crash(p)
       PROVE  AttemptsCounted' /\ GivenUpIsTried'
  BY <1>0, <1>15
  DEF TypeOK, AttemptsCounted, GivenUpIsTried, Tried, Crash, Finish, Nothing, listVars
<1> QED
  BY <1>1, <1>2, <1>3, <1>4, <1>5, <1>6, <1>7, <1>8, <1>9, <1>10, <1>11, <1>13, <1>14, <1>15
  DEF Next, WorkerStep, RetryStep

\* An event is given up for a relay only after MaxRetries failed publishes to
\* it, whatever the pods that fetched the same entry do.
THEOREM GivenUpTried == Spec => []GivenUpIsTried
<1>1. CountInv => GivenUpIsTried
  BY DEF CountInv
<1> QED
  BY InitCounted, CountStep, <1>1, PTL DEF Spec

-----------------------------------------------------------------------------
\* Somebody still has x, or it is decided.
Kept(x) == Decided(x) \/ OnList(x) \/ \E p \in Pods : x \in Held(p)

KeepInv == TypeOK /\ NothingForgotten

LEMMA InitKept == Init => KeepInv
BY InitTyped DEF Init, KeepInv, NothingForgotten

\* What is decided stays decided, in every step.
LEMMA DecidedStays ==
  ASSUME TypeOK, [Next]_vars, NEW x \in Pair, Decided(x)
  PROVE  Decided(x)'
BY DEF Decided, Next, vars, podVars, listVars, retryVars, historyVars, Broadcast, BroadcastDropped,
       BringUp, Start, SetRedisClient, WorkerStep, TakeEvent, Published, NotPublished, PublishFails,
       QueueForRetry, QueueForRetryFails, BackoffEnds, RetryStep, Fetch, RemoveFirst, RemoveFails,
       RetrySucceeds, GiveUp, RetryFails, RequeueFails, Crash

\* An event taken from the channel, and the rest of the channel.
LEMMA TakeFacts ==
  ASSUME TypeOK, NEW p \in Pods, queue[p] # <<>>
  PROVE  \A i \in DOMAIN queue[p] :
           \/ queue[p][i] = Head(queue[p])
           \/ \E j \in DOMAIN Tail(queue[p]) : Tail(queue[p])[j] = queue[p][i]
<1>1. queue[p] \in Seq(Events)
  BY DEF TypeOK
<1> SUFFICES ASSUME NEW i \in DOMAIN queue[p], i # 1
             PROVE  \E j \in DOMAIN Tail(queue[p]) : Tail(queue[p])[j] = queue[p][i]
  BY <1>1
<1>2. i - 1 \in DOMAIN Tail(queue[p]) /\ Tail(queue[p])[i - 1] = queue[p][i]
  BY <1>1
<1> QED
  BY <1>2

\* A pod that keeps its channel, its publishes and its entry keeps its pairs.
LEMMA HeldStays ==
  ASSUME NEW q, queue'[q] = queue[q], sending'[q] = sending[q], retrying'[q] = retrying[q]
  PROVE  Held(q)' = Held(q)
BY DEF Held

\* Removing what pod p holds takes nothing else from anybody.
LEMMA FinishKeeps ==
  ASSUME TypeOK, NEW p \in Pods, Finish(p), UNCHANGED <<queue, sending>>,
         NEW x \in Pair, NEW q \in Pods, x \in Held(q)
  PROVE  x \in Held(q)' \/ (retrying[p] # None /\ x = retrying[p].to)
<1>1. CASE q = p
  BY <1>1 DEF TypeOK, Finish, Held
<1>2. CASE q # p
  BY <1>2, HeldStays DEF TypeOK, Finish
<1> QED
  BY <1>1, <1>2

\* No step forgets a pair that is kept.
LEMMA KeptStep ==
  ASSUME TypeOK, [Next]_vars, NEW x \in Pair, Kept(x)
  PROVE  Kept(x)'
<1>1. CASE Decided(x)
  BY <1>1, DecidedStays DEF Kept
<1>2. ASSUME UNCHANGED <<queue, sending, retrying, retryList>>, ~Decided(x)
      PROVE  Kept(x)'
  BY <1>2, HeldStays DEF Kept, OnList
<1>3. ASSUME NEW p \in Pods, NEW e \in Events, Broadcast(p, e), ~Decided(x)
      PROVE  Kept(x)'
  <2>1. queue[p] \in Seq(Events)
    BY DEF TypeOK
  <2>2. \A i \in DOMAIN queue[p] : i \in DOMAIN queue'[p] /\ queue'[p][i] = queue[p][i]
    BY <1>3, <2>1 DEF TypeOK, Broadcast
  <2>3. \A q \in Pods : x \in Held(q) => x \in Held(q)'
    <3> SUFFICES ASSUME NEW q \in Pods, x \in Held(q) PROVE x \in Held(q)'
      OBVIOUS
    <3>1. CASE q = p
      BY <1>3, <2>2, <3>1 DEF Held, Broadcast, retryVars
    <3>2. CASE q # p
      BY <1>3, <3>2, HeldStays DEF TypeOK, Broadcast, retryVars
    <3> QED
      BY <3>1, <3>2
  <2> QED
    BY <1>3, <2>3 DEF Kept, OnList, Broadcast, listVars
<1>4. ASSUME NEW p \in Pods, TakeEvent(p), ~Decided(x)
      PROVE  Kept(x)'
  <2>1. queue'[p] = Tail(queue[p]) /\ sending'[p].waiting = {Head(queue[p])} \X Relays
    BY <1>4 DEF TypeOK, TakeEvent
  <2>2. \A q \in Pods : x \in Held(q) => x \in Held(q)'
    <3> SUFFICES ASSUME NEW q \in Pods, x \in Held(q) PROVE x \in Held(q)'
      OBVIOUS
    <3>1. CASE q = p
      <4>1. x \in {x[1]} \X Relays
        BY DEF Pair
      <4>2. CASE \E i \in DOMAIN queue[p] : queue[p][i] = x[1]
        BY <1>4, <2>1, <3>1, <4>1, <4>2, TakeFacts DEF TakeEvent, Held
      <4>3. CASE retrying[p] # None /\ retrying[p].to = x
        BY <1>4, <3>1, <4>3 DEF TakeEvent, Held, retryVars
      <4> QED
        BY <1>4, <3>1, <4>2, <4>3 DEF TakeEvent, Held, Nothing
    <3>2. CASE q # p
      BY <1>4, <3>2, HeldStays DEF TypeOK, TakeEvent, retryVars
    <3> QED
      BY <3>1, <3>2
  <2> QED
    BY <1>4, <2>2 DEF Kept, OnList, TakeEvent, listVars
<1>5. ASSUME NEW p \in Pods, NEW y \in Pair, Published(p, y) \/ NotPublished(p, y), ~Decided(x)
      PROVE  Kept(x)'
  <2>1. sending'[p].waiting \cup sending'[p].failed \cup {y}
          = sending[p].waiting \cup sending[p].failed \cup {y}
        /\ (NotPublished(p, y) => y \in sending'[p].failed)
    <3>1. sending[p] \in [waiting : SUBSET Pair, failed : SUBSET Pair]
      BY DEF TypeOK
    <3>2. CASE Published(p, y)
      <4>1. ~NotPublished(p, y) \/ y \in sending'[p].failed
        BY <3>1, <3>2 DEF TypeOK, Published, NotPublished, Refused
      <4> QED
        BY <3>1, <3>2, <4>1 DEF TypeOK, Published
    <3>3. CASE NotPublished(p, y)
      BY <3>1, <3>3 DEF TypeOK, NotPublished, Refused
    <3> QED
      BY <1>5, <3>2, <3>3
  <2>2. UNCHANGED <<queue, retrying, retryList>>
    BY <1>5 DEF Published, NotPublished, listVars, retryVars
  <2>3. Published(p, y) => y \in delivered'
    BY DEF Published
  <2>4. \A q \in Pods : x \in Held(q) => x \in Held(q)' \/ x \in delivered'
    <3> SUFFICES ASSUME NEW q \in Pods, x \in Held(q) PROVE x \in Held(q)' \/ x \in delivered'
      OBVIOUS
    <3>1. CASE q = p
      BY <1>5, <2>1, <2>2, <2>3, <3>1 DEF Held
    <3>2. CASE q # p
      BY <1>5, <2>2, <3>2, HeldStays DEF TypeOK, Published, NotPublished
    <3> QED
      BY <3>1, <3>2
  <2> QED
    BY <1>5, <2>2, <2>4 DEF Kept, OnList, Decided
<1>6. ASSUME NEW p \in Pods, NEW y \in Pair, QueueForRetry(p, y) \/ QueueForRetryFails(p, y), ~Decided(x)
      PROVE  Kept(x)'
  <2>1. sending'[p].waiting = sending[p].waiting /\ sending'[p].failed = sending[p].failed \ {y}
    BY <1>6 DEF TypeOK, QueueForRetry, QueueForRetryFails, QueueNext
  <2>2. UNCHANGED <<queue, retrying>> /\ retryList \subseteq retryList'
    BY <1>6 DEF QueueForRetry, QueueForRetryFails, ZAdd, listVars, retryVars
  <2>3. OnList(y)' \/ y \in spilled'
    <3>1. CASE QueueForRetry(p, y)
      <4>1. [to |-> y, attempts |-> 1, error |-> FirstError] \in retryList'
        BY <3>1 DEF QueueForRetry, ZAdd
      <4> QED
        BY <4>1 DEF OnList
    <3>2. CASE QueueForRetryFails(p, y)
      BY <3>2 DEF QueueForRetryFails
    <3> QED
      BY <1>6, <3>1, <3>2
  <2>4. \A q \in Pods : x \in Held(q) => x \in Held(q)' \/ x = y
    <3> SUFFICES ASSUME NEW q \in Pods, x \in Held(q) PROVE x \in Held(q)' \/ x = y
      OBVIOUS
    <3>1. CASE q = p
      BY <2>1, <2>2, <3>1 DEF Held
    <3>2. CASE q # p
      BY <1>6, <2>2, <3>2, HeldStays DEF TypeOK, QueueForRetry, QueueForRetryFails, QueueNext
    <3> QED
      BY <3>1, <3>2
  <2> QED
    BY <1>6, <2>2, <2>3, <2>4 DEF Kept, OnList, Decided
<1>7. ASSUME NEW p \in Pods, NEW entry \in batch[p], RemoveFirst(p, entry) \/ RemoveFails(p, entry), ~Decided(x)
      PROVE  Kept(x)'
  <2>1. entry \in Entry /\ entry # None /\ retrying[p] = None /\ retrying'[p] = entry
    BY <1>7, BlastrAssumption DEF TypeOK, RemoveFirst, RemoveFails, NextEntry
  <2>2. UNCHANGED <<queue, sending>> /\ retryList \subseteq retryList' \cup {entry}
    BY <1>7 DEF RemoveFirst, RemoveFails, ZRem, podVars, listVars
  <2>3. entry.to = x => x \in Held(p)'
    BY <2>1 DEF Held
  <2>4. \A q \in Pods : x \in Held(q) => x \in Held(q)'
    <3> SUFFICES ASSUME NEW q \in Pods, x \in Held(q) PROVE x \in Held(q)'
      OBVIOUS
    <3>1. CASE q = p
      BY <2>1, <2>2, <3>1 DEF Held
    <3>2. CASE q # p
      BY <1>7, <2>2, <3>2, HeldStays DEF TypeOK, RemoveFirst, RemoveFails, NextEntry
    <3> QED
      BY <3>1, <3>2
  <2>5. OnList(x) => OnList(x)' \/ entry.to = x
    BY <2>2 DEF OnList
  <2> QED
    BY <1>7, <2>3, <2>4, <2>5 DEF Kept
<1>8. ASSUME NEW p \in Pods, Finish(p), retrying[p] # None, UNCHANGED <<queue, sending>>,
             retryList \subseteq retryList', ~Decided(x),
             \/ retrying[p].to \in delivered' \cup exhausted' \cup spilled'
             \/ \E entry \in retryList' : entry.to = retrying[p].to
      PROVE  Kept(x)'
  BY <1>8, FinishKeeps DEF Kept, OnList, Decided
<1>9. ASSUME NEW p \in Pods, RetrySucceeds(p) \/ GiveUp(p), ~Decided(x)
      PROVE  Kept(x)'
  BY <1>8, <1>9 DEF RetrySucceeds, GiveUp, podVars, listVars
<1>10. ASSUME NEW p \in Pods, NEW err \in Errors, RetryFails(p, err) \/ RequeueFails(p, err), ~Decided(x)
       PROVE  Kept(x)'
  <2>1. CASE RetryFails(p, err)
    <3>1. NextAttempt(retrying[p], err) \in retryList' /\ retryList \subseteq retryList'
      BY <2>1 DEF RetryFails, ZAdd
    <3>2. NextAttempt(retrying[p], err).to = retrying[p].to
      BY DEF NextAttempt
    <3> QED
      BY <1>8, <1>10, <2>1, <3>1, <3>2 DEF RetryFails, podVars
  <2>2. CASE RequeueFails(p, err)
    <3>1. retryList \subseteq retryList' /\ retrying[p].to \in spilled'
      BY <2>2 DEF RequeueFails, ZAdd, listVars
    <3> QED
      BY <1>8, <1>10, <2>2, <3>1 DEF RequeueFails, podVars
  <2> QED
    BY <1>10, <2>1, <2>2
<1>11. ASSUME NEW p \in Pods, Crash(p), ~Decided(x)
       PROVE  Kept(x)'
  <2>1. \A q \in Pods : q # p => Held(q)' = Held(q)
    BY <1>11, HeldStays DEF TypeOK, Crash, Finish
  <2> QED
    BY <1>11, <2>1 DEF Kept, OnList, Decided, Crash, listVars
<1>12. CASE UNCHANGED vars
  BY <1>1, <1>2, <1>12 DEF vars, podVars, listVars, retryVars
<1>13. ASSUME NEW p \in Pods, NEW e \in Events, BroadcastDropped(p, e)
       PROVE  Kept(x)'
  BY <1>1, <1>2, <1>13 DEF BroadcastDropped, podVars, listVars, retryVars
<1>14. ASSUME NEW p \in Pods, BringUp(p) \/ Fetch(p)
       PROVE  Kept(x)'
  BY <1>1, <1>2, <1>14 DEF BringUp, Start, SetRedisClient, Fetch, podVars, listVars, retryVars
<1>15. ASSUME NEW entry \in retryList, BackoffEnds(entry)
       PROVE  Kept(x)'
  BY <1>1, <1>2, <1>15 DEF BackoffEnds, podVars, retryVars
<1> QED
  BY <1>1, <1>3, <1>4, <1>5, <1>6, <1>7, <1>9, <1>10, <1>11, <1>12, <1>13, <1>14, <1>15
  DEF Next, WorkerStep, RetryStep

\* An event is offered only by Broadcast, which queues it or drops it.
LEMMA OfferedKept ==
  ASSUME TypeOK, [Next]_vars, NEW x \in Pair, x[1] \in offered', x[1] \notin offered
  PROVE  Kept(x)'
<1>1. PICK p \in Pods : Broadcast(p, x[1]) \/ BroadcastDropped(p, x[1])
  BY DEF Next, vars, podVars, listVars, retryVars, historyVars, Broadcast, BroadcastDropped,
         BringUp, Start, SetRedisClient, WorkerStep, TakeEvent, Published, NotPublished,
         QueueForRetry, QueueForRetryFails, BackoffEnds, RetryStep, Fetch, RemoveFirst, RemoveFails,
         RetrySucceeds, GiveUp, RetryFails, RequeueFails, Crash
<1>2. CASE Broadcast(p, x[1])
  <2>1. queue[p] \in Seq(Events) /\ queue'[p] = Append(queue[p], x[1])
    BY <1>2 DEF TypeOK, Broadcast
  <2>2. x[1] \in Events
    BY DEF Pair
  <2>3. Len(queue[p]) + 1 \in DOMAIN queue'[p] /\ queue'[p][Len(queue[p]) + 1] = x[1]
    BY <2>1, <2>2
  <2> QED
    BY <2>3 DEF Kept, Held
<1>3. CASE BroadcastDropped(p, x[1])
  <2>1. x \in {x[1]} \X Relays
    BY DEF Pair
  <2> QED
    BY <1>3, <2>1 DEF Kept, Decided, BroadcastDropped
<1> QED
  BY <1>1, <1>2, <1>3

\* No event is forgotten for any relay: it is delivered, given up, or in
\* somebody's hands, unless the channel was full, Redis refused it or a pod died
\* with it.
THEOREM NothingIsForgotten == Spec => []NothingForgotten
<1>1. KeepInv /\ [Next]_vars => KeepInv'
  <2> SUFFICES ASSUME KeepInv, [Next]_vars PROVE NothingForgotten'
    BY TypeStep DEF KeepInv
  <2>1. TypeOK /\ \A x \in Pair : x[1] \in offered => Kept(x)
    BY DEF KeepInv, NothingForgotten, Kept
  <2>2. \A x \in Pair : x[1] \in offered' => Kept(x)'
    BY <2>1, KeptStep, OfferedKept
  <2> QED
    BY <2>2 DEF NothingForgotten, Kept
<1>2. KeepInv => NothingForgotten
  BY DEF KeepInv
<1> QED
  BY InitKept, <1>1, <1>2, PTL DEF Spec
===============================================================================
