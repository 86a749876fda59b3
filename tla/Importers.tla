------------------------------- MODULE Importers -------------------------------
(***************************************************************************)
(* What fetches events addressed to an owner from other relays             *)
(* (internal/haven).  With one owner, Importer polls each remote relay and *)
(* keeps in memory how far it has come with each.  With many users,        *)
(* ImporterManager queues a job for the user that visits the relays in     *)
(* turn, and keeps one time for all of them in the user's settings row.    *)
(* "multi" says which of the two runs.                                     *)
(*                                                                         *)
(* An event is its created_at, in ticks.  It may reach a remote late.      *)
(***************************************************************************)
EXTENDS Integers, Sequences, FiniteSets, FiniteSetsExt

CONSTANTS Remotes,      \* the sequence of relays to fetch from
          Workers,      \* goroutines; one for each remote when there is one owner
          QueueSize, Lookback,
          FetchLimit,   \* Limit of the filter
          MaxClock, MaxEvents, MaxRuns, MaxMishaps  \* bounds

Remote == {Remotes[i] : i \in 1..Len(Remotes)}
Times == 0..MaxClock
None == -1

ASSUME ImportAssumption ==
  /\ QueueSize \in Nat \ {0} /\ FetchLimit \in Nat \ {0} /\ Lookback \in Nat
  /\ Remotes \in Seq(Workers) /\ "row" \notin Remote
  /\ MaxClock \in Nat /\ MaxEvents \in Nat /\ MaxRuns \in Nat /\ MaxMishaps \in Nat

VARIABLES
  multi,
  now,
  remote,    \* [Remote -> events it holds]
  stored,    \* our events
  seen,      \* seenEvents
  mark,      \* lastFetch of each remote, and last_import_time as "row"
  queue,     \* jobQueue: Since of each job
  job,       \* what each worker is doing
  explained, \* history: <<remote, event>> given up for a reason the code knows
  runs, mishaps

ImportVars == <<multi, now, remote, stored, seen, mark, queue, job, explained, runs, mishaps>>

Key(r) == IF multi THEN "row" ELSE r
SinceOf(key, time) ==
  IF mark[key] # None THEN mark[key]
  ELSE IF time > Lookback THEN time - Lookback ELSE 0

\* Relays to visit, the events of the answer still to store, and why others
\* of the job will not be.
NoJob == [since |-> None, left |-> <<>>, got |-> {}, asked |-> {},
          imported |-> FALSE, held |-> {}, missed |-> {}]
NewJob(since, relays) == [NoJob EXCEPT !.since = since, !.left = relays]

ImportInit ==
  /\ multi \in BOOLEAN
  /\ now = 0 /\ remote = [r \in Remote |-> {}] /\ stored = {} /\ seen = {}
  /\ mark = [k \in Remote \union {"row"} |-> None]
  /\ queue = <<>> /\ job = [w \in Workers |-> NoJob]
  /\ explained = {} /\ runs = 0 /\ mishaps = 0

\* An event the relay will never ask for: older than any later Since.
TooOld(time) == {x \in Remote \X Times : x[2] < SinceOf(Key(x[1]), time)}

--------------------------------------------------------------------------------
(* The world *)

Clock ==
  /\ now < MaxClock
  /\ now' = now + 1
  /\ explained' = explained \union   \* nothing fetched yet: the lookback moves on
       {x \in TooOld(now + 1) : mark[Key(x[1])] = None}
  /\ UNCHANGED <<multi, remote, stored, seen, mark, queue, job, runs, mishaps>>

\* A remote gets an event: new, or one it had not heard of.
Publish(r, t) ==
  /\ t <= now /\ t \notin remote[r]
  /\ Cardinality(UNION {remote[s] : s \in Remote} \union {t}) <= MaxEvents
  /\ remote' = [remote EXCEPT ![r] = @ \union {t}]
  /\ explained' = IF <<r, t>> \in TooOld(now) THEN explained \union {<<r, t>>} ELSE explained
  /\ UNCHANGED <<multi, now, stored, seen, mark, queue, job, runs, mishaps>>

--------------------------------------------------------------------------------
(* Who starts a fetch *)

\* pollAllRelays: waits for every poll before the next.
Poll ==
  /\ ~multi /\ runs < MaxRuns /\ \A w \in Workers : job[w] = NoJob
  /\ runs' = runs + 1
  /\ job' = [w \in Workers |-> IF w \in Remote THEN NewJob(SinceOf(w, now), <<w>>) ELSE NoJob]
  /\ UNCHANGED <<multi, now, remote, stored, seen, mark, queue, explained, mishaps>>

\* Slip: one too many.
MutQueueHasRoom == Len(queue) <= QueueSize
QueueHasRoom == Len(queue) < QueueSize

\* scheduleAllUsers, and queueJob, which skips the user when the queue is full.
Schedule ==
  /\ multi /\ runs < MaxRuns
  /\ runs' = runs + 1
  /\ queue' = IF QueueHasRoom THEN Append(queue, SinceOf("row", now)) ELSE queue
  /\ UNCHANGED <<multi, now, remote, stored, seen, mark, job, explained, mishaps>>

TakeJob(w) ==
  /\ multi /\ job[w] = NoJob /\ queue # <<>>
  /\ job' = [job EXCEPT ![w] = NewJob(Head(queue), Remotes)]
  /\ queue' = Tail(queue)
  /\ UNCHANGED <<multi, now, remote, stored, seen, mark, explained, runs, mishaps>>

--------------------------------------------------------------------------------
(* importFromRelay, pollRelay *)

Busy(w) == job[w] # NoJob
Asking(w) == Busy(w) /\ job[w].got = {} /\ job[w].left # <<>>
Matching(r, since) == {t \in remote[r] : t >= since}
Newest(S) == {t \in S : Cardinality({u \in S : u > t}) < FetchLimit}

\* Late is what came after the settings were saved, for a Since of before.
Query(w) ==
  /\ Asking(w)
  /\ LET r == Head(job[w].left)
         all == Matching(r, job[w].since)
         late == {t \in remote[r] : SinceOf(Key(r), now) <= t /\ t < job[w].since}
     IN job' = [job EXCEPT ![w] = [job[w] EXCEPT
          !.left = Tail(@), !.asked = @ \union {r},
          !.got = Newest(all),
          !.held = @ \union ({r} \X remote[r]),
          !.missed = @ \union ({r} \X (late \union (all \ Newest(all))))]]
  /\ UNCHANGED <<multi, now, remote, stored, seen, mark, queue, explained, runs, mishaps>>

\* The relay does not answer: a poll ends, a job goes on with the next relay.
QueryFails(w) ==
  /\ Asking(w) /\ mishaps < MaxMishaps
  /\ mishaps' = mishaps + 1
  /\ job' = [job EXCEPT ![w] = IF multi THEN [job[w] EXCEPT !.left = Tail(@)] ELSE NoJob]
  /\ UNCHANGED <<multi, now, remote, stored, seen, mark, queue, explained, runs>>

\* One event of the answer: seen before, stored, or a duplicate.
StoreEvent(w, t) ==
  /\ t \in job[w].got
  /\ stored' = stored \union {t}
  /\ seen' = IF t \in stored THEN seen ELSE seen \union {t}
  /\ job' = [job EXCEPT ![w] = [job[w] EXCEPT !.got = @ \ {t},
                        !.imported = @ \/ (t \notin seen /\ t \notin stored)]]
  /\ UNCHANGED <<multi, now, remote, mark, queue, explained, runs, mishaps>>

StoreFails(w, t) ==
  /\ t \in job[w].got \ seen /\ mishaps < MaxMishaps
  /\ mishaps' = mishaps + 1
  /\ job' = [job EXCEPT ![w] = [job[w] EXCEPT !.got = @ \ {t},
                        !.missed = @ \union (job[w].asked \X {t})]]
  /\ UNCHANGED <<multi, now, remote, stored, seen, mark, queue, explained, runs>>

\* lastFetch moves after every answer, last_import_time only if an event came.
MutAdvances(w) == TRUE   \* slip: the time moves even when every relay failed
Advances(w) == ~multi \/ job[w].imported
Reaches(w) == IF multi THEN {"row"} ELSE job[w].asked
\* What the move gives up: what a relay got after it had answered, what it held
\* back for the limit or could not be stored, and all a failing relay had.
GivesUp(w) ==
  {x \in Remote \X Times : Key(x[1]) \in Reaches(w) /\ x[2] \in remote[x[1]] /\
     (x \notin job[w].held \/ x \in job[w].missed)}

Finish(w) ==
  /\ Busy(w) /\ job[w].left = <<>> /\ job[w].got = {}
  /\ job' = [job EXCEPT ![w] = NoJob]
  /\ mark' = IF Advances(w) THEN [k \in DOMAIN mark |-> IF k \in Reaches(w) THEN now ELSE mark[k]]
             ELSE mark
  /\ explained' = IF (multi /\ job[w].imported) \/ (~multi /\ job[w].asked # {})
                  THEN explained \union GivesUp(w) ELSE explained
  /\ UNCHANGED <<multi, now, remote, stored, seen, queue, runs, mishaps>>

--------------------------------------------------------------------------------
(* What else touches the state *)

\* cleanupSeenEvents, when there are too many.
ForgetSeen ==
  /\ seen # {} /\ mishaps < MaxMishaps
  /\ seen' = {} /\ mishaps' = mishaps + 1
  /\ UNCHANGED <<multi, now, remote, stored, mark, queue, job, explained, runs>>

\* The process restarts; only the settings row is left.
Restart ==
  /\ mishaps < MaxMishaps
  /\ mishaps' = mishaps + 1
  /\ seen' = {} /\ queue' = <<>> /\ job' = [w \in Workers |-> NoJob]
  /\ mark' = [k \in DOMAIN mark |-> IF k = "row" THEN mark[k] ELSE None]
  /\ explained' = IF multi THEN explained ELSE explained \union
       {x \in Remote \X Times : x[2] < now - Lookback}
  /\ UNCHANGED <<multi, now, remote, stored, runs>>

\* The user publishes settings: HavenSettingsWatcher saves a row without
\* last_import_time.
SaveSettings ==
  /\ multi /\ mishaps < MaxMishaps
  /\ mishaps' = mishaps + 1
  /\ mark' = [mark EXCEPT !["row"] = None]
  /\ explained' = explained \union {x \in Remote \X Times : x[2] < now - Lookback}
  /\ UNCHANGED <<multi, now, remote, stored, seen, queue, job, runs>>

ImportNext ==
  \/ Clock \/ Poll \/ Schedule \/ ForgetSeen \/ Restart \/ SaveSettings
  \/ \E r \in Remote, t \in Times : Publish(r, t)
  \/ \E w \in Workers :
       \/ TakeJob(w) \/ Query(w) \/ QueryFails(w) \/ Finish(w)
       \/ \E t \in Times : StoreEvent(w, t) \/ StoreFails(w, t)

ImportSpec == ImportInit /\ [][ImportNext]_ImportVars

--------------------------------------------------------------------------------
JobState == [since : Times \union {None}, left : Seq(Remote), got : SUBSET Times,
             asked : SUBSET Remote, imported : BOOLEAN,
             held : SUBSET (Remote \X Times), missed : SUBSET (Remote \X Times)]

ImportTypeOK ==
  /\ multi \in BOOLEAN /\ now \in Times
  /\ remote \in [Remote -> SUBSET Times] /\ stored \subseteq Times /\ seen \subseteq Times
  /\ mark \in [Remote \union {"row"} -> Times \union {None}]
  /\ queue \in Seq(Times) /\ Len(queue) <= QueueSize
  /\ job \in [Workers -> JobState]
  /\ explained \subseteq Remote \X Times
  /\ runs \in 0..MaxRuns /\ mishaps \in 0..MaxMishaps

\* An event that is not here will be asked for again, or was given up for a
\* reason: it reached the remote late or after the answer, exceeded the limit,
\* could not be stored, or its relay failed while another one delivered, or
\* the time was lost, which a job that was queued before does not know.  Jobs
\* that overlap, wait in the queue, or end in another order than they began lose
\* nothing else (importer_manager.go:261).
LostImportsAreExplained ==
  \A r \in Remote : \A t \in remote[r] :
    t \in stored \/ <<r, t>> \in explained \/ t >= SinceOf(Key(r), now)
================================================================================
