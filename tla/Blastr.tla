-------------------------------- MODULE Blastr --------------------------------
(***************************************************************************)
(* Outbox broadcasting with retries: internal/haven/blastr.go, and the     *)
(* order in which RegisterFullSystem and main bring it up.                 *)
(*                                                                         *)
(* Every pod has a bounded channel of events and one worker that publishes *)
(* each event to every relay.  What could not be published goes to a       *)
(* sorted set in Redis that all pods share, each of whose entries is one   *)
(* event for one relay, scored with the time of its next attempt; every    *)
(* pod that started a retry worker takes due entries off it.  Time is      *)
(* abstracted: an entry becomes due at some moment after its ZADD.         *)
(***************************************************************************)
EXTENDS Naturals, Sequences, FiniteSets

CONSTANTS Events,      \* events routed to the owner's outbox
          Relays,      \* BlastrRelays
          Pods,
          Errors,      \* LastError texts
          FirstError,  \* "initial broadcast failed"
          None,        \* no entry
          QueueSize,   \* capacity of eventQueue
          BatchSize,   \* entries fetched in one round
          MaxRetries,  \* BlastrMaxRetries
          StartFirst,  \* Start is called before SetRedisClient
          MaxFaults    \* bound: failed Redis commands and crashes

Pair == Events \X Relays
Entry == [to : Pair, attempts : Nat \ {0}, error : Errors]

ASSUME BlastrAssumption ==
  /\ FirstError \in Errors
  /\ None \notin Entry
  /\ QueueSize \in Nat \ {0}
  /\ BatchSize \in Nat \ {0}
  /\ MaxRetries \in Nat \ {0}
  /\ StartFirst \in BOOLEAN
  /\ MaxFaults \in Nat

VARIABLES
  pod,        \* what has been called on each pod's Blastr
  queue,      \* eventQueue of each pod
  sending,    \* broadcastEvent of each pod: publishes under way, and failed
  retryList,  \* the sorted set of retries
  due,        \* the entries of it whose score has passed
  batch,      \* fetched by a pod's retry worker, not looked at yet
  retrying,   \* the entry a pod's retry worker is publishing
  offered,    \* events given to Broadcast
  delivered,  \* history: pairs whose relay has the event
  tries,      \* history: failed publishes of each pair, up to MaxRetries
  exhausted,  \* history: pairs given up after max retries
  spilled,    \* history: pairs dropped by a full queue, a failed ZADD or a crash
  faults

podVars == <<pod, queue, sending>>
listVars == <<retryList, due>>
retryVars == <<batch, retrying>>
historyVars == <<offered, delivered, tries, exhausted, spilled>>
vars == <<podVars, listVars, retryVars, historyVars, faults>>

PodRec == [worker : BOOLEAN, rdb : BOOLEAN, retrier : BOOLEAN]
Down == [worker |-> FALSE, rdb |-> FALSE, retrier |-> FALSE]
Nothing == [waiting |-> {}, failed |-> {}]

TypeOK ==
  /\ pod \in [Pods -> PodRec]
  /\ queue \in [Pods -> Seq(Events)]
  /\ \A p \in Pods : Len(queue[p]) <= QueueSize
  /\ sending \in [Pods -> [waiting : SUBSET Pair, failed : SUBSET Pair]]
  /\ retryList \in SUBSET Entry
  /\ due \in SUBSET retryList
  /\ batch \in [Pods -> SUBSET Entry]
  /\ retrying \in [Pods -> Entry \cup {None}]
  /\ offered \in SUBSET Events
  /\ delivered \in SUBSET Pair
  /\ tries \in [Pair -> 0..MaxRetries]
  /\ exhausted \in SUBSET Pair
  /\ spilled \in SUBSET Pair
  /\ faults \in Nat

Init ==
  /\ pod = [p \in Pods |-> Down]
  /\ queue = [p \in Pods |-> <<>>]
  /\ sending = [p \in Pods |-> Nothing]
  /\ retryList = {}
  /\ due = {}
  /\ batch = [p \in Pods |-> {}]
  /\ retrying = [p \in Pods |-> None]
  /\ offered = {}
  /\ delivered = {}
  /\ tries = [x \in Pair |-> 0]
  /\ exhausted = {}
  /\ spilled = {}
  /\ faults = 0

Fault == faults < MaxFaults /\ faults' = faults + 1

\* ZADD and ZREM.  Adding a member that is there already changes its score.
ZAdd(entry) ==
  /\ retryList' = retryList \cup {entry}
  /\ due' = due \ {entry}

ZRem(entry) ==
  /\ retryList' = retryList \ {entry}
  /\ due' = due \ {entry}

\* A publish of x fails, though the relay may have taken the event.
PublishFails(x) ==
  /\ tries' = [tries EXCEPT ![x] = IF @ < MaxRetries THEN @ + 1 ELSE @]
  /\ delivered' \in {delivered, delivered \cup {x}}

-----------------------------------------------------------------------------
(* Bringing a pod up.  The retry worker is started by Start, if the Redis   *)
(* client is set by then; nothing starts it later.                          *)
Start(p) ==
  /\ ~pod[p].worker
  /\ StartFirst \/ pod[p].rdb
  /\ pod' = [pod EXCEPT ![p].worker = TRUE, ![p].retrier = pod[p].rdb]
  /\ UNCHANGED <<queue, sending, listVars, retryVars, historyVars, faults>>

SetRedisClient(p) ==
  /\ ~pod[p].rdb
  /\ StartFirst => pod[p].worker
  /\ pod' = [pod EXCEPT ![p].rdb = TRUE]
  /\ UNCHANGED <<queue, sending, listVars, retryVars, historyVars, faults>>

\* main serves clients after both.
Serving(p) == pod[p].worker /\ pod[p].rdb

-----------------------------------------------------------------------------
(* Broadcast, called after an outbox event was saved, by the pod that saved *)
(* it: once for each event.                                                *)

\* Mutant: one event too many.
MutHasRoom(p) == Len(queue[p]) <= QueueSize

HasRoom(p) == Len(queue[p]) < QueueSize

Broadcast(p, e) ==
  /\ Serving(p)
  /\ e \notin offered
  /\ HasRoom(p)
  /\ queue' = [queue EXCEPT ![p] = Append(@, e)]
  /\ offered' = offered \cup {e}
  /\ UNCHANGED <<pod, sending, listVars, retryVars, delivered, tries, exhausted, spilled, faults>>

BroadcastDropped(p, e) ==
  /\ Serving(p)
  /\ e \notin offered
  /\ ~HasRoom(p)
  /\ offered' = offered \cup {e}
  /\ spilled' = spilled \cup ({e} \X Relays)
  /\ UNCHANGED <<podVars, listVars, retryVars, delivered, tries, exhausted, faults>>

-----------------------------------------------------------------------------
(* The worker: broadcastEvent.  The relays are published to in parallel;    *)
(* when all have answered the failures are queued one by one.               *)
TakeEvent(p) ==
  /\ pod[p].worker
  /\ sending[p] = Nothing
  /\ queue[p] # <<>>
  /\ sending' = [sending EXCEPT ![p] = [waiting |-> {Head(queue[p])} \X Relays, failed |-> {}]]
  /\ queue' = [queue EXCEPT ![p] = Tail(@)]
  /\ UNCHANGED <<pod, listVars, retryVars, historyVars, faults>>

Published(p, x) ==
  /\ x \in sending[p].waiting
  /\ sending' = [sending EXCEPT ![p].waiting = @ \ {x}]
  /\ delivered' = delivered \cup {x}
  /\ UNCHANGED <<pod, queue, listVars, retryVars, offered, tries, exhausted, spilled, faults>>

\* Mutant: the failure is not recorded.
MutRefused(p, x) == [sending[p] EXCEPT !.waiting = @ \ {x}]

Refused(p, x) == [waiting |-> sending[p].waiting \ {x}, failed |-> sending[p].failed \cup {x}]

NotPublished(p, x) ==
  /\ x \in sending[p].waiting
  /\ sending' = [sending EXCEPT ![p] = Refused(p, x)]
  /\ PublishFails(x)
  /\ UNCHANGED <<pod, queue, listVars, retryVars, offered, exhausted, spilled, faults>>

QueueNext(p, x) ==
  /\ sending[p].waiting = {}
  /\ x \in sending[p].failed
  /\ sending' = [sending EXCEPT ![p].failed = @ \ {x}]

QueueForRetry(p, x) ==
  /\ QueueNext(p, x)
  /\ pod[p].rdb
  /\ ZAdd([to |-> x, attempts |-> 1, error |-> FirstError])
  /\ UNCHANGED <<pod, queue, retryVars, historyVars, faults>>

\* A failed ZADD is only logged; it may have taken effect.
QueueForRetryFails(p, x) ==
  /\ QueueNext(p, x)
  /\ Fault
  /\ \/ UNCHANGED listVars
     \/ ZAdd([to |-> x, attempts |-> 1, error |-> FirstError])
  /\ spilled' = spilled \cup {x}
  /\ UNCHANGED <<pod, queue, retryVars, offered, delivered, tries, exhausted>>

WorkerStep(p) ==
  \/ TakeEvent(p)
  \/ \E x \in Pair : Published(p, x) \/ NotPublished(p, x) \/ QueueForRetry(p, x)

-----------------------------------------------------------------------------
(* The retry worker: processRetryQueue.                                    *)
BackoffEnds(entry) ==
  /\ entry \in retryList \ due
  /\ due' = due \cup {entry}
  /\ UNCHANGED <<podVars, retryList, retryVars, historyVars, faults>>

\* Two pods may fetch the same entries.
Fetch(p) ==
  /\ pod[p].retrier
  /\ batch[p] = {}
  /\ retrying[p] = None
  /\ due # {}
  /\ \E S \in SUBSET due :
       /\ \/ Cardinality(S) = BatchSize
          \/ S = due /\ Cardinality(due) < BatchSize
       /\ batch' = [batch EXCEPT ![p] = S]
  /\ UNCHANGED <<podVars, listVars, retrying, historyVars, faults>>

NextEntry(p, entry) ==
  /\ retrying[p] = None
  /\ entry \in batch[p]
  /\ batch' = [batch EXCEPT ![p] = @ \ {entry}]
  /\ retrying' = [retrying EXCEPT ![p] = entry]

\* The entry is removed before it is tried, whether or not it is still there.
RemoveFirst(p, entry) ==
  /\ NextEntry(p, entry)
  /\ ZRem(entry)
  /\ UNCHANGED <<podVars, historyVars, faults>>

\* The result of this ZREM is ignored.
RemoveFails(p, entry) ==
  /\ NextEntry(p, entry)
  /\ Fault
  /\ UNCHANGED <<podVars, listVars, historyVars>>

Finish(p) == retrying' = [retrying EXCEPT ![p] = None]

RetrySucceeds(p) ==
  /\ retrying[p] # None
  /\ delivered' = delivered \cup {retrying[p].to}
  /\ Finish(p)
  /\ UNCHANGED <<podVars, listVars, batch, offered, tries, exhausted, spilled, faults>>

\* Mutants: given up one attempt early; attempts not counted.
MutLastAttempt(entry) == entry.attempts + 1 >= MaxRetries - 1
MutNextAttempt(entry, err) == [to |-> entry.to, attempts |-> entry.attempts, error |-> err]

\* This failure brings the entry to max retries.
LastAttempt(entry) == entry.attempts + 1 >= MaxRetries

GiveUp(p) ==
  /\ retrying[p] # None
  /\ LastAttempt(retrying[p])
  /\ PublishFails(retrying[p].to)
  /\ exhausted' = exhausted \cup {retrying[p].to}
  /\ Finish(p)
  /\ UNCHANGED <<podVars, listVars, batch, offered, spilled, faults>>

\* The entry as it is queued again.
NextAttempt(entry, err) == [to |-> entry.to, attempts |-> entry.attempts + 1, error |-> err]

\* The publish fails, and requeue puts the entry back.
RetryFails(p, err) ==
  /\ retrying[p] # None
  /\ ~LastAttempt(retrying[p])
  /\ PublishFails(retrying[p].to)
  /\ ZAdd(NextAttempt(retrying[p], err))
  /\ Finish(p)
  /\ UNCHANGED <<podVars, batch, offered, exhausted, spilled, faults>>

\* The ZADD of requeue fails too; it may have taken effect.
RequeueFails(p, err) ==
  /\ retrying[p] # None
  /\ ~LastAttempt(retrying[p])
  /\ Fault
  /\ PublishFails(retrying[p].to)
  /\ UNCHANGED listVars \/ ZAdd(NextAttempt(retrying[p], err))
  /\ spilled' = spilled \cup {retrying[p].to}
  /\ Finish(p)
  /\ UNCHANGED <<podVars, batch, offered, exhausted>>

RetryStep(p) ==
  \/ Fetch(p)
  \/ \E entry \in batch[p] : RemoveFirst(p, entry)
  \/ RetrySucceeds(p)
  \/ GiveUp(p)
  \/ \E err \in Errors : RetryFails(p, err)

-----------------------------------------------------------------------------
\* What is lost with a pod: its channel, the event it is broadcasting and the
\* entry it has removed from the list.
Held(p) ==
  {x \in Pair : \/ \E i \in DOMAIN queue[p] : queue[p][i] = x[1]
                \/ x \in sending[p].waiting \cup sending[p].failed
                \/ retrying[p] # None /\ retrying[p].to = x}

Crash(p) ==
  /\ pod[p] # Down
  /\ Fault
  /\ spilled' = spilled \cup Held(p)
  /\ pod' = [pod EXCEPT ![p] = Down]
  /\ queue' = [queue EXCEPT ![p] = <<>>]
  /\ sending' = [sending EXCEPT ![p] = Nothing]
  /\ batch' = [batch EXCEPT ![p] = {}]
  /\ Finish(p)
  /\ UNCHANGED <<listVars, offered, delivered, tries, exhausted>>

BringUp(p) == Start(p) \/ SetRedisClient(p)

Next ==
  \/ \E p \in Pods, e \in Events : Broadcast(p, e) \/ BroadcastDropped(p, e)
  \/ \E p \in Pods : BringUp(p) \/ WorkerStep(p) \/ RetryStep(p) \/ Crash(p)
  \/ \E p \in Pods, x \in Pair : QueueForRetryFails(p, x)
  \/ \E p \in Pods : \E entry \in batch[p] : RemoveFails(p, entry)
  \/ \E p \in Pods, err \in Errors : RequeueFails(p, err)
  \/ \E entry \in retryList : BackoffEnds(entry)

\* A pod comes up and goes on publishing (a publish has a timeout), the tickers
\* of the retry workers that were started keep firing, and time passes.
Fairness ==
  /\ \A p \in Pods : WF_vars(BringUp(p)) /\ WF_vars(WorkerStep(p)) /\ WF_vars(RetryStep(p))
  /\ WF_vars(\E entry \in retryList : BackoffEnds(entry))

Spec == Init /\ [][Next]_vars /\ Fairness

-----------------------------------------------------------------------------
(* Properties.                                                             *)
OnList(x) == \E entry \in retryList : entry.to = x

Decided(x) == x \in delivered \cup exhausted \cup spilled

\* No event is forgotten for any relay between the channel, the worker, the
\* sorted set and the retry workers of all pods, which remove an entry before
\* they try it: it is delivered, given up, or somebody still has it, unless
\* the queue was full, Redis refused it or a pod died with it.
NothingForgotten ==
  \A x \in Pair : x[1] \in offered => Decided(x) \/ OnList(x) \/ \E p \in Pods : x \in Held(p)

\* An event is given up for a relay only after MaxRetries publishes to it have
\* failed, even if several pods fetched the same entry and each counts on.
GivenUpIsTried == \A x \in exhausted : tries[x] = MaxRetries

\* Every event offered to Broadcast is in the end decided for every relay, even
\* for one that is down for good: no entry stays on the list or goes round for
\* ever.
BroadcastIsDecided == \A x \in Pair : x[1] \in offered ~> Decided(x)

\* "Call this before Start() to enable retry functionality", and main logs
\* "HAVEN Blastr retry queue enabled": what was put on the retry list is tried
\* again, so it leaves the list.
FailedIsRetried == \A x \in Pair : OnList(x) ~> ~OnList(x)
=============================================================================
