------------------------------ MODULE WriteAhead ------------------------------
(***************************************************************************)
(* The write-ahead log of internal/writeahead: events are acknowledged     *)
(* once they are on a Redis list and drained to PostgreSQL by a worker in  *)
(* every pod.  All pods share the list; a worker pops an entry before it   *)
(* saves it.  Redis and PostgreSQL are external: a call to either may      *)
(* fail, with or without having taken effect.                              *)
(*                                                                         *)
(* drainAll is not here: it runs from Stop, which the relay's main never   *)
(* reaches.                                                                *)
(***************************************************************************)
EXTENDS Integers, Sequences

CONSTANTS Events,      \* the events clients publish
          Pods,        \* the relay's replicas, one drain worker each
          MaxRetries,  \* Config.MaxRetries
          MaxWrites,   \* bound: writes in a behaviour
          MaxFaults    \* bound: failed calls, crashes and outages beyond EventTTL

ASSUME WriteAheadAssumption ==
  /\ Events # {}
  /\ MaxRetries \in Nat \ {0}
  /\ MaxWrites \in Nat
  /\ MaxFaults \in Nat

VARIABLES
  queue,      \* the Redis list
  table,      \* the rows in PostgreSQL
  drainer,    \* the worker of each pod and the entry it has popped
  acked,      \* history: events acknowledged to a client
  writes,     \* writes so far
  faults,     \* faults so far
  saveFails,  \* history: failed saves of each event, counted to MaxRetries
  spilled     \* history: events a crash, a failed push or the TTL dropped

historyVars == <<acked, saveFails, spilled>>
vars == <<queue, table, drainer, writes, faults, historyVars>>

\* walEvent; of its timestamp only whether it is older than EventTTL matters.
Entry == [event : Events, retries : Nat, old : BOOLEAN]

DrainerRec == [phase : {"idle", "popped", "retry"}, entry : Entry]

TypeOK ==
  /\ queue \in Seq(Entry)
  /\ table \in SUBSET Events
  /\ drainer \in [Pods -> DrainerRec]
  /\ acked \in SUBSET Events
  /\ writes \in Nat
  /\ faults \in Nat
  /\ saveFails \in [Events -> Nat]
  /\ spilled \in SUBSET Events

NewEntry(e) == [event |-> e, retries |-> 0, old |-> FALSE]
Idle == [phase |-> "idle", entry |-> NewEntry(CHOOSE e \in Events : TRUE)]

Init ==
  /\ queue = <<>>
  /\ table = {}
  /\ drainer = [p \in Pods |-> Idle]
  /\ acked = {}
  /\ writes = 0
  /\ faults = 0
  /\ saveFails = [e \in Events |-> 0]
  /\ spilled = {}

Fault == faults < MaxFaults /\ faults' = faults + 1

Finish(p) == drainer' = [drainer EXCEPT ![p] = Idle]

Push(entry) == queue' = Append(queue, entry)

-----------------------------------------------------------------------------
(* Write.  Nothing looks for the event on the list or in the table first: a *)
(* client that publishes to two pods has it queued twice.                   *)
Written == writes < MaxWrites /\ writes' = writes + 1

Write(e) ==
  /\ Written
  /\ Push(NewEntry(e))
  /\ acked' = acked \cup {e}
  /\ UNCHANGED <<table, drainer, faults, saveFails, spilled>>

\* RPUSH failed, perhaps after it took effect: the event is saved directly.
WriteDirect(e) ==
  /\ Written
  /\ Fault
  /\ UNCHANGED queue \/ Push(NewEntry(e))
  /\ table' = table \cup {e}
  /\ acked' = acked \cup {e}
  /\ UNCHANGED <<drainer, saveFails, spilled>>

-----------------------------------------------------------------------------
(* drainBatch.                                                             *)
Pop(p) ==
  /\ drainer[p].phase = "idle"
  /\ queue # <<>>
  /\ drainer' = [drainer EXCEPT ![p] = [phase |-> "popped", entry |-> Head(queue)]]
  /\ queue' = Tail(queue)
  /\ UNCHANGED <<table, writes, faults, historyVars>>

\* The failsafe: an entry older than EventTTL is discarded.
DiscardOld(p) ==
  /\ drainer[p].phase = "popped"
  /\ drainer[p].entry.old
  /\ spilled' = spilled \cup {drainer[p].entry.event}
  /\ Finish(p)
  /\ UNCHANGED <<queue, table, writes, faults, acked, saveFails>>

Save(p) ==
  /\ drainer[p].phase = "popped"
  /\ ~drainer[p].entry.old
  /\ drainer[p].entry.event \notin table
  /\ table' = table \cup {drainer[p].entry.event}
  /\ Finish(p)
  /\ UNCHANGED <<queue, writes, faults, historyVars>>

\* Mutants: Retries is not counted, one attempt too few, and
\* attempts left counted down past zero.
MutUncounted(entry) ==
  [phase |-> IF entry.retries + 1 < MaxRetries THEN "retry" ELSE "idle", entry |-> entry]
MutTooFew(entry) ==
  [phase |-> IF entry.retries + 2 < MaxRetries THEN "retry" ELSE "idle",
   entry |-> [entry EXCEPT !.retries = @ + 1]]
MutCountDown(entry) ==
  [phase |-> IF entry.retries > -MaxRetries THEN "retry" ELSE "idle",
   entry |-> [entry EXCEPT !.retries = @ - 1]]

\* A failed save is tried again until it has failed MaxRetries times.
AfterFailure(entry) ==
  [phase |-> IF entry.retries + 1 < MaxRetries THEN "retry" ELSE "idle",
   entry |-> [entry EXCEPT !.retries = @ + 1]]

SaveFailed(p) ==
  LET e == drainer[p].entry.event IN
  /\ drainer[p].phase = "popped"
  /\ ~drainer[p].entry.old
  /\ \/ e \in table /\ UNCHANGED <<table, faults>>          \* ErrDupEvent
     \/ Fault /\ (UNCHANGED table \/ table' = table \cup {e})
  /\ saveFails' = [saveFails EXCEPT ![e] = IF @ < MaxRetries THEN @ + 1 ELSE @]
  /\ drainer' = [drainer EXCEPT ![p] = AfterFailure(drainer[p].entry)]
  /\ UNCHANGED <<queue, writes, acked, spilled>>

Requeue(p) ==
  /\ drainer[p].phase = "retry"
  /\ Push(drainer[p].entry)
  /\ Finish(p)
  /\ UNCHANGED <<table, writes, faults, historyVars>>

\* The result of this RPUSH is ignored.
RequeueFailed(p) ==
  /\ drainer[p].phase = "retry"
  /\ Fault
  /\ spilled' = spilled \cup {drainer[p].entry.event}
  /\ Finish(p)
  /\ UNCHANGED <<queue, table, writes, acked, saveFails>>

-----------------------------------------------------------------------------
\* A pod dies with the entry it has popped, and starts again.
Crash(p) ==
  /\ drainer[p].phase # "idle"
  /\ Fault
  /\ spilled' = spilled \cup {drainer[p].entry.event}
  /\ Finish(p)
  /\ UNCHANGED <<queue, table, writes, acked, saveFails>>

\* Nothing is drained for EventTTL: everything on the list is too old now.
Outage ==
  /\ queue # <<>>
  /\ Fault
  /\ queue' = [i \in DOMAIN queue |-> [queue[i] EXCEPT !.old = TRUE]]
  /\ UNCHANGED <<table, drainer, writes, historyVars>>

DrainStep(p) == Pop(p) \/ DiscardOld(p) \/ Save(p) \/ SaveFailed(p) \/ Requeue(p)

Next ==
  \/ \E e \in Events : Write(e) \/ WriteDirect(e)
  \/ \E p \in Pods : DrainStep(p) \/ RequeueFailed(p) \/ Crash(p)
  \/ Outage

\* The ticker of every worker keeps firing.
Fairness == \A p \in Pods : WF_vars(DrainStep(p))

Spec == Init /\ [][Next]_vars /\ Fairness

-----------------------------------------------------------------------------
(* Properties.                                                             *)
Queued(e) == \E i \in DOMAIN queue : queue[i].event = e
InFlight(e) == \E p \in Pods : drainer[p].phase # "idle" /\ drainer[p].entry.event = e

\* "Events are kept in WAL until confirmed written to PostgreSQL": an
\* acknowledged event is saved, or still on the list, or in a worker's hands.
AckedIsKept == \A e \in acked : e \in table \/ Queued(e) \/ InFlight(e)

\* An acknowledged event disappears only through a crash, a failed push or
\* the TTL, or after MaxRetries failed saves: popping, retrying and requeueing
\* by any number of workers lose nothing by themselves.
LossIsExplained ==
  \A e \in acked :
    \/ e \in table \/ Queued(e) \/ InFlight(e)
    \/ e \in spilled
    \/ saveFails[e] >= MaxRetries

\* The list drains: no entry goes round for ever, not even one whose event is
\* in the table already and can never be saved again.
ListDrains == <>[](queue = <<>> /\ \A p \in Pods : drainer[p].phase = "idle")

\* An entry is tried at most MaxRetries times by all the workers together.
RetriesAreBounded ==
  /\ \A i \in DOMAIN queue : queue[i].retries < MaxRetries
  /\ \A p \in Pods : drainer[p].phase # "idle" => drainer[p].entry.retries < MaxRetries
=============================================================================
