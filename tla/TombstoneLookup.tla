---------------------------- MODULE TombstoneLookup ----------------------------
(***************************************************************************)
(* The deletion check of an incoming event (internal/storage/tombstone.go):*)
(* a lookup of its tombstone in one of a few slots, with a deadline and a  *)
(* retry.  A lookup abandoned at its deadline keeps its slot until its     *)
(* connection dies.  The database may answer, fail, or hang for ever.      *)
(***************************************************************************)
EXTENDS Naturals, FiniteSets

CONSTANTS Checks,    \* events being checked, each by its connection's goroutine
          Slots      \* maxInflightTombstoneLookups

ASSUME LookupAssumption == IsFiniteSet(Checks) /\ Slots \in Nat \ {0}

VARIABLES
  check,      \* where each check is: "idle", "waits" for a slot, "looks", or its verdict
  attempt,    \* 1 or 2
  abandoned,  \* lookups nobody waits for any more that hold a slot
  deleted,    \* deleted_event: which of the events have a tombstone
  since       \* history: events that had a tombstone when their check began

LookupVars == <<check, attempt, abandoned, deleted, since>>
Verdicts == {"admitted", "blocked", "refused", "clientGone"}

LookupInit ==
  /\ check = [e \in Checks |-> "idle"] /\ attempt = [e \in Checks |-> 1]
  /\ abandoned = 0 /\ deleted = {} /\ since = {}

SlotsTaken == abandoned + Cardinality({e \in Checks : check[e] = "looks"})

\* RecordTombstone, from a deletion on any replica.
RecordTombstone(e) ==
  /\ deleted' = deleted \union {e}
  /\ UNCHANGED <<check, attempt, abandoned, since>>

\* RejectRepublishedDeletionEvent, for an event that is not ephemeral.
Begin(e) ==
  /\ check[e] = "idle"
  /\ check' = [check EXCEPT ![e] = "waits"] /\ attempt' = [attempt EXCEPT ![e] = 1]
  /\ since' = IF e \in deleted THEN since \union {e} ELSE since \ {e}
  /\ UNCHANGED <<abandoned, deleted>>

TakeSlot(e) ==
  /\ check[e] = "waits" /\ SlotsTaken < Slots
  /\ check' = [check EXCEPT ![e] = "looks"]
  /\ UNCHANGED <<attempt, abandoned, deleted, since>>

\* IsTombstoned: the row decides.
Answered(e) ==
  /\ check[e] = "looks"
  /\ check' = [check EXCEPT ![e] = IF e \in deleted THEN "blocked" ELSE "admitted"]
  /\ UNCHANGED <<attempt, abandoned, deleted, since>>

\* One retry after a broken connection or a deadline; then the event is refused.
MutAfterFailure(e) == IF attempt[e] = 1 THEN "waits" ELSE "admitted"   \* slip: fails open
AfterFailure(e) == IF attempt[e] = 1 THEN "waits" ELSE "refused"
GiveUpAttempt(e) ==
  /\ check' = [check EXCEPT ![e] = AfterFailure(e)]
  /\ attempt' = [attempt EXCEPT ![e] = 2]
  /\ UNCHANGED <<deleted, since>>

\* isConnError: the goroutine has ended and gives its slot back.
ConnError(e) ==
  /\ check[e] = "looks"
  /\ GiveUpAttempt(e)
  /\ UNCHANGED abandoned

\* Any other error of the query is not retried.
QueryError(e) ==
  /\ check[e] = "looks"
  /\ check' = [check EXCEPT ![e] = "refused"]
  /\ UNCHANGED <<attempt, abandoned, deleted, since>>

\* Slip: the deadline starts with the lookup, not with the wait for a slot.
MutDeadline(e) ==
  /\ check[e] = "looks"
  /\ GiveUpAttempt(e)
  /\ abandoned' = abandoned + 1

\* tombstoneAttemptTimeout: during the wait, or during the lookup.
Deadline(e) ==
  /\ check[e] \in {"waits", "looks"}
  /\ GiveUpAttempt(e)
  /\ abandoned' = IF check[e] = "looks" THEN abandoned + 1 ELSE abandoned

\* The client leaves: its context is cancelled, the attempt is abandoned.
ClientGone(e) ==
  /\ check[e] \in {"waits", "looks"}
  /\ check' = [check EXCEPT ![e] = "clientGone"]
  /\ abandoned' = IF check[e] = "looks" THEN abandoned + 1 ELSE abandoned
  /\ UNCHANGED <<attempt, deleted, since>>

\* TCP_USER_TIMEOUT: the abandoned read returns at last.
SocketDies ==
  /\ abandoned > 0
  /\ abandoned' = abandoned - 1
  /\ UNCHANGED <<check, attempt, deleted, since>>

\* The verdict has been sent; the event may come again.
Again(e) ==
  /\ check[e] \in Verdicts
  /\ check' = [check EXCEPT ![e] = "idle"]
  /\ UNCHANGED <<attempt, abandoned, deleted, since>>

LookupNext ==
  \/ SocketDies
  \/ \E e \in Checks :
       \/ RecordTombstone(e) \/ Begin(e) \/ TakeSlot(e) \/ Answered(e)
       \/ ConnError(e) \/ QueryError(e) \/ Deadline(e) \/ ClientGone(e) \/ Again(e)

\* Only the deadlines are the relay's own; no answer is owed by the database,
\* and an abandoned lookup may hold its slot for ever.
LookupFair == \A e \in Checks : WF_LookupVars(Deadline(e))
LookupSpec == LookupInit /\ [][LookupNext]_LookupVars /\ LookupFair

--------------------------------------------------------------------------------
LookupTypeOK ==
  /\ check \in [Checks -> {"idle", "waits", "looks"} \union Verdicts]
  /\ attempt \in [Checks -> {1, 2}] /\ abandoned \in Nat
  /\ deleted \subseteq Checks /\ since \subseteq Checks

\* The pool is never drained: live and abandoned lookups together stay within
\* the slots; and whatever fails or hangs, an event whose deletion was recorded
\* before its check began is not admitted (tombstone.go:159, 229).
SlotsAndDeletionsHold ==
  /\ SlotsTaken <= Slots
  /\ \A e \in since : check[e] # "admitted"

\* Every check is answered even when the database never answers: with all the
\* slots abandoned, waiting for one ends at the deadline (tombstone.go:169).
CheckIsAnswered ==
  \A e \in Checks : check[e] \in {"waits", "looks"} ~> check[e] \in Verdicts
================================================================================
