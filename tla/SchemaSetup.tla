----------------------------- MODULE SchemaSetup -----------------------------
(***************************************************************************)
(* How the replicas start against one database (main.go, internal/startup, *)
(* internal/storage/ddllock.go, indexes.go, internal/search/search.go):    *)
(* connect and set up the schema under an advisory lock, become ready, and *)
(* then, under a second lock, build the search index and fill in the       *)
(* search vectors while clients already read and write.  CREATE INDEX      *)
(* CONCURRENTLY waits for every transaction that still holds a snapshot.   *)
(***************************************************************************)
EXTENDS Integers, FiniteSets, FiniteSetsExt

CONSTANTS Instances, Nobody_,
          SearchRows,        \* ids of events of the searchable kinds
          MaxSetupFaults     \* bound: statements that fail, timeouts, restarts

ASSUME SetupAssumption ==
  Nobody_ \notin Instances /\ SearchRows \subseteq Nat /\ MaxSetupFaults \in Nat

VARIABLES
  phase,        \* how far each instance is
  ddlHolder, searchHolder,   \* who has each advisory lock
  column, trigger,           \* search_tsv and search_tsv_update exist
  index,        \* search_tsv_idx: "none", "invalid" or "valid"
  vector,       \* search_tsv of each row: "absent" (no row), "null" or "set"
  lastId,       \* Backfill: the last id of each instance
  gaveUp,       \* instances whose backfill failed
  reading,      \* a client has a read open
  setupFaults

SetupVars == <<phase, ddlHolder, searchHolder, column, trigger, index, vector, lastId,
               gaveUp, reading, setupFaults>>

Starting == {"connect", "waitDdl", "init", "optimize", "tombstones"}
Ready == {"waitSearch", "ddl", "check", "build", "backfill", "clear", "active"}

SetupInit ==
  /\ phase = [i \in Instances |-> "connect"]
  /\ ddlHolder = Nobody_ /\ searchHolder = Nobody_
  /\ \E made \in {"no", "column", "both"} :   \* as an earlier version left it
       column = (made # "no") /\ trigger = (made = "both")
  /\ index = "none"
  /\ vector \in [SearchRows -> {"absent", "null"}]
  /\ lastId = [i \in Instances |-> -1]
  /\ gaveUp = {} /\ reading = FALSE /\ setupFaults = 0

Goto(i, p) == phase' = [phase EXCEPT ![i] = p]
Fault == setupFaults < MaxSetupFaults /\ setupFaults' = setupFaults + 1
search == <<column, trigger, index, vector, lastId, gaveUp>>

\* Instances whose connection keeps a snapshot: none, because waiting for a
\* lock is a short statement every 200 ms.
MutSnapshots == {i \in Instances : phase[i] \in {"waitDdl", "waitSearch"}}
Snapshots == {}

--------------------------------------------------------------------------------
(* RetryConnect, AcquireDDLLock *)

ConnectDatabase(i) ==
  /\ phase[i] = "connect"
  /\ Goto(i, "waitDdl")
  /\ UNCHANGED <<ddlHolder, searchHolder, search, reading, setupFaults>>

TryDdlLock(i) ==
  /\ phase[i] = "waitDdl" /\ ddlHolder = Nobody_
  /\ ddlHolder' = i /\ Goto(i, "init")
  /\ UNCHANGED <<searchHolder, search, reading, setupFaults>>

\* The deadline of the lock.
DdlTimeout(i) ==
  /\ phase[i] = "waitDdl" /\ Fault
  /\ Goto(i, "connect")
  /\ UNCHANGED <<ddlHolder, searchHolder, search, reading>>

\* NewPostgresBackend and NewRawConnection; on an error the lock is closed.
InitBackend(i) ==
  /\ phase[i] = "init"
  /\ \/ Goto(i, "optimize") /\ UNCHANGED <<ddlHolder, setupFaults>>
     \/ Fault /\ Goto(i, "connect") /\ ddlHolder' = Nobody_
  /\ UNCHANGED <<searchHolder, search, reading>>

\* OptimizeIndexes: indexes are built and dropped CONCURRENTLY; errors are logged.
OptimizeIndexes(i) ==
  /\ phase[i] = "optimize"
  /\ ~reading /\ Snapshots \ {i} = {}
  /\ Goto(i, "tombstones")
  /\ UNCHANGED <<ddlHolder, searchHolder, search, reading, setupFaults>>

\* EnsureTombstoneTable is fatal; then the lock is given back and the instance
\* is marked ready.
EnsureTombstoneTable(i) ==
  /\ phase[i] = "tombstones"
  /\ \/ Goto(i, "waitSearch") /\ UNCHANGED setupFaults
     \/ Fault /\ Goto(i, "connect")
  /\ ddlHolder' = Nobody_
  /\ UNCHANGED <<searchHolder, search, reading>>

--------------------------------------------------------------------------------
(* Activate: InitSchema, until it succeeds *)

TrySearchLock(i) ==
  /\ phase[i] = "waitSearch" /\ searchHolder = Nobody_
  /\ searchHolder' = i /\ Goto(i, "ddl")
  /\ UNCHANGED <<ddlHolder, search, reading, setupFaults>>

MutTriggerAfter == trigger \/ ~column
TriggerAfter == TRUE

\* One transaction: what is missing is made, and waits for reads, for 5 s.
InitTransaction(i) ==
  /\ phase[i] = "ddl"
  /\ (column /\ trigger) \/ ~reading
  /\ column' = TRUE /\ trigger' = TriggerAfter
  /\ Goto(i, "check")
  /\ UNCHANGED <<ddlHolder, searchHolder, index, vector, lastId, gaveUp, reading, setupFaults>>

\* Any statement may fail, the transaction by its lock_timeout: release and retry.
InitFails(i) ==
  /\ phase[i] \in {"ddl", "check", "build"} /\ Fault
  /\ searchHolder' = Nobody_ /\ Goto(i, "waitSearch")
  /\ UNCHANGED <<ddlHolder, search, reading>>

\* A valid index is kept; what a failed build left is dropped first, and until a
\* build ends the index is invalid.
CheckIndex(i) ==
  /\ phase[i] = "check"
  /\ IF index = "valid"
     THEN Goto(i, "backfill") /\ searchHolder' = Nobody_ /\ UNCHANGED index
     ELSE index' = "invalid" /\ Goto(i, "build") /\ UNCHANGED searchHolder
  /\ UNCHANGED <<ddlHolder, column, trigger, vector, lastId, gaveUp, reading, setupFaults>>

FinishIndex(i) ==
  /\ phase[i] = "build" /\ ~reading /\ Snapshots \ {i} = {}
  /\ index' = "valid"
  /\ searchHolder' = Nobody_ /\ Goto(i, "backfill")
  /\ UNCHANGED <<ddlHolder, column, trigger, vector, lastId, gaveUp, reading, setupFaults>>

--------------------------------------------------------------------------------
(* Activate: Backfill, ClearNonSearchable, store *)

NullRows(after) == {id \in SearchRows : id > after /\ vector[id] = "null"}

BackfillBatch(i) ==
  /\ phase[i] = "backfill"
  /\ IF NullRows(lastId[i]) = {}
     THEN Goto(i, "clear") /\ UNCHANGED <<vector, lastId>>
     ELSE LET id == Min(NullRows(lastId[i])) IN
          /\ vector' = [vector EXCEPT ![id] = "set"]
          /\ lastId' = [lastId EXCEPT ![i] = id]
          /\ UNCHANGED phase
  /\ UNCHANGED <<ddlHolder, searchHolder, column, trigger, index, gaveUp, reading, setupFaults>>

\* An error, or the timeout of 30 minutes: search is activated all the same.
BackfillFails(i) ==
  /\ phase[i] = "backfill" /\ Fault
  /\ gaveUp' = gaveUp \union {i} /\ Goto(i, "clear")
  /\ UNCHANGED <<ddlHolder, searchHolder, column, trigger, index, vector, lastId, reading>>

Activate(i) ==
  /\ phase[i] = "clear"
  /\ Goto(i, "active")
  /\ UNCHANGED <<ddlHolder, searchHolder, search, reading, setupFaults>>

--------------------------------------------------------------------------------
(* Meanwhile *)

\* A ready instance stores a searchable event.
InsertRow(id) ==
  /\ \E i \in Instances : phase[i] \in Ready
  /\ vector[id] = "absent"
  /\ vector' = [vector EXCEPT ![id] = IF trigger THEN "set" ELSE "null"]
  /\ UNCHANGED <<phase, ddlHolder, searchHolder, column, trigger, index, lastId, gaveUp,
                 reading, setupFaults>>

OpenRead ==
  /\ ~reading /\ \E i \in Instances : phase[i] \in Ready
  /\ Fault /\ reading' = TRUE
  /\ UNCHANGED <<phase, ddlHolder, searchHolder, search>>
CloseRead ==
  /\ reading /\ reading' = FALSE
  /\ UNCHANGED <<phase, ddlHolder, searchHolder, search, setupFaults>>

\* The instance is killed; its sessions end, and with them its locks.
KillInstance(i) ==
  /\ phase[i] # "connect" /\ Fault
  /\ Goto(i, "connect")
  /\ ddlHolder' = IF ddlHolder = i THEN Nobody_ ELSE ddlHolder
  /\ searchHolder' = IF searchHolder = i THEN Nobody_ ELSE searchHolder
  /\ lastId' = [lastId EXCEPT ![i] = -1] /\ gaveUp' = gaveUp \ {i}
  /\ UNCHANGED <<column, trigger, index, vector, reading>>

SetupStep(i) ==
  \/ ConnectDatabase(i) \/ TryDdlLock(i) \/ InitBackend(i) \/ OptimizeIndexes(i)
  \/ EnsureTombstoneTable(i) \/ TrySearchLock(i) \/ InitTransaction(i)
  \/ CheckIndex(i) \/ FinishIndex(i) \/ BackfillBatch(i) \/ Activate(i)
SetupNext ==
  \/ \E i \in Instances : SetupStep(i) \/ DdlTimeout(i) \/ InitFails(i) \/ BackfillFails(i) \/ KillInstance(i)
  \/ \E id \in SearchRows : InsertRow(id)
  \/ OpenRead \/ CloseRead

\* An instance runs as long as it is not killed, and a read comes to its end.
SetupFair == WF_SetupVars(CloseRead) /\ \A i \in Instances : WF_SetupVars(SetupStep(i))

SetupSpec == SetupInit /\ [][SetupNext]_SetupVars /\ SetupFair

--------------------------------------------------------------------------------
SetupTypeOK ==
  /\ phase \in [Instances -> Starting \union Ready]
  /\ ddlHolder \in Instances \union {Nobody_} /\ searchHolder \in Instances \union {Nobody_}
  /\ column \in BOOLEAN /\ trigger \in BOOLEAN /\ reading \in BOOLEAN
  /\ index \in {"none", "invalid", "valid"}
  /\ vector \in [SearchRows -> {"absent", "null", "set"}]
  /\ lastId \in [Instances -> SearchRows \union {-1}]
  /\ gaveUp \subseteq Instances /\ setupFaults \in 0..MaxSetupFaults

\* Search that is on finds every searchable event: those stored before the index
\* existed, those another replica stores while it is built, and those stored
\* since, and its index is valid; unless this instance's backfill failed, which
\* does not keep search off (search.go:275).
ActiveSearchIsComplete ==
  \A i \in Instances : phase[i] = "active" =>
    /\ index = "valid"
    /\ i \in gaveUp \/ \A id \in SearchRows : vector[id] # "null"
================================================================================
