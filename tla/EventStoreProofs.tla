--------------------------- MODULE EventStoreProofs ---------------------------
(***************************************************************************)
(* Proofs about EventStore.tla for any events, authors and publishes.      *)
(*                                                                         *)
(* TombstonedIsGone holds because a publish in flight never carries a      *)
(* tombstoned event that is not revivable (PublishIsAllowed).              *)
(* NewestIsKept holds because a publish only ever deletes a lower-ranked   *)
(* version of its own author (ReplacesOlder), wherever it learnt of it:    *)
(* the cache may be stale, but it never mixes up authors (CacheIsSorted).  *)
(***************************************************************************)
EXTENDS EventStore, TLAPS

PublishIsAllowed ==
  \A p \in Publishers : publish[p].phase # "idle" =>
    publish[p].event \in Events /\ publish[p].event \notin tombs \ revivable

Comparing(p) == publish[p].phase \in {"caching", "replacing"}

CacheIsSorted == \A a \in Authors : profile[a] # None => AuthorOf[profile[a]] = a

\* What a publish has found is a version of its event's author, and it deletes
\* that version only for an event that outranks it.
ReplacesOlder ==
  \A p \in Publishers :
    /\ publish[p].phase = "admitted" => publish[p].event \in Profiles
    /\ publish[p].phase = "admitted" => publish[p].prev = None
    /\ publish[p].phase = "idle" => publish[p].prev = None
    /\ Comparing(p) \/ publish[p].phase = "burying" => publish[p].prev # None
    /\ publish[p].prev # None =>
         /\ publish[p].event \in Profiles
         /\ AuthorOf[publish[p].prev] = AuthorOf[publish[p].event]
         /\ Comparing(p) \/ Rank[publish[p].prev] < Rank[publish[p].event]

Inv ==
  /\ TypeOK
  /\ PublishIsAllowed
  /\ CacheIsSorted
  /\ ReplacesOlder
  /\ TombstonedIsGone
  /\ deletion.phase # "idle" => deletion.event \in Events
  /\ deletion.phase = "caching" => deletion.event \in Profiles

-----------------------------------------------------------------------------
USE EventStoreAssumption DEF Events

\* The initial state satisfies the inductive invariant.
LEMMA InitInv == Init => Inv /\ NewestIsKept
BY DEF Init, Inv, TypeOK, PublishIsAllowed, CacheIsSorted, ReplacesOlder, TombstonedIsGone,
       NewestIsKept, PublishRec, DeletionRec, NoPublish, NoDeletion, Comparing, Newest

\* Caching a version keeps the cache well typed and sorted by author.
LEMMA CacheSetFacts ==
  ASSUME TypeOK, CacheIsSorted, NEW v \in Profiles, CacheSet(v)
  PROVE  /\ byId' \in SUBSET Profiles
         /\ profile' \in [Authors -> Profiles \cup {None}]
         /\ CacheIsSorted'
<1>1. AuthorOf[v] \in Authors
  OBVIOUS
<1>2. profile' = [profile EXCEPT ![AuthorOf[v]] = v]
  BY DEF CacheSet
<1>3. profile' \in [Authors -> Profiles \cup {None}]
  BY <1>1, <1>2 DEF TypeOK
<1>4. ASSUME NEW a \in Authors, profile'[a] # None PROVE AuthorOf[profile'[a]] = a
  BY <1>2, <1>4 DEF TypeOK, CacheIsSorted
<1> QED
  BY <1>3, <1>4 DEF TypeOK, CacheSet, CacheIsSorted

\* A publish that ends leaves the others as they were.
LEMMA FinishFacts ==
  ASSUME TypeOK, NEW p \in Publishers, Finish(p)
  PROVE  /\ publish' \in [Publishers -> PublishRec]
         /\ publish'[p] = NoPublish
         /\ \A q \in Publishers : q # p => publish'[q] = publish[q]
BY DEF TypeOK, Finish, NoPublish, PublishRec

\* A publish that moves to another phase keeps its event, and leaves the others
\* as they were.
LEMMA GotoFacts ==
  ASSUME TypeOK, NEW p \in Publishers,
         NEW ph \in {"admitted", "caching", "replacing", "burying", "storing"}, Goto(p, ph)
  PROVE  /\ publish' \in [Publishers -> PublishRec]
         /\ publish'[p] = [phase |-> ph, event |-> publish[p].event, prev |-> publish[p].prev]
         /\ \A q \in Publishers : q # p => publish'[q] = publish[q]
BY DEF TypeOK, Goto, PublishRec

\* The same for one that has found a version to compare with.
LEMMA ReplacesFacts ==
  ASSUME TypeOK, NEW p \in Publishers, NEW ph \in {"caching", "replacing"},
         NEW v \in Profiles, Replaces(p, ph, v)
  PROVE  /\ publish' \in [Publishers -> PublishRec]
         /\ publish'[p] = [phase |-> ph, event |-> publish[p].event, prev |-> v]
         /\ \A q \in Publishers : q # p => publish'[q] = publish[q]
BY DEF TypeOK, Replaces, PublishRec

\* RecordTombstone forbids no event that is being published.
LEMMA BuryFacts ==
  ASSUME TypeOK, PublishIsAllowed, TombstonedIsGone, NEW e \in Events, Bury(e)
  PROVE  /\ tombs' \in SUBSET Events
         /\ revivable' \in SUBSET Events
         /\ \A p \in Publishers : publish[p].phase # "idle" =>
              publish[p].event \notin tombs' \ revivable'
         /\ (tombs' \ revivable') \cap table = {}
BY DEF TypeOK, PublishIsAllowed, TombstonedIsGone, Bury, BeingPublished

\* Steps that leave the publishes alone.
LEMMA FrameReplaces ==
  ASSUME ReplacesOlder, UNCHANGED publish
  PROVE  ReplacesOlder'
BY DEF ReplacesOlder, Comparing

\* A publish that ends leaves the invariant's parts about publishes true.
LEMMA FinishKeeps ==
  ASSUME TypeOK, PublishIsAllowed, ReplacesOlder, NEW p \in Publishers, Finish(p),
         tombs' \ revivable' \subseteq tombs \ revivable
  PROVE  PublishIsAllowed' /\ ReplacesOlder'
<1>1. /\ publish'[p] = NoPublish
      /\ \A q \in Publishers : q # p => publish'[q] = publish[q]
  BY FinishFacts
<1>2. PublishIsAllowed'
  BY <1>1 DEF PublishIsAllowed, NoPublish
<1>3. ReplacesOlder'
  BY <1>1 DEF ReplacesOlder, NoPublish, Comparing
<1> QED
  BY <1>2, <1>3

-----------------------------------------------------------------------------
(* One lemma for each group of actions.                                    *)

\* The steps of a publish preserve the inductive invariant.
LEMMA PublishInv ==
  ASSUME Inv, NEW p \in Publishers,
         PublishStep(p) \/ PublishFails(p) \/ \E e \in Events : Admit(p, e)
  PROVE  Inv'
<1> USE DEF Inv
<1>1. ASSUME NEW e \in Events, Admit(p, e) PROVE Inv'
  <2> DEFINE r == [phase |-> IF e \in Profiles THEN "admitted" ELSE "storing",
                   event |-> e, prev |-> None]
  <2>1. publish' = [publish EXCEPT ![p] = r] /\ publishes' = publishes + 1
    BY <1>1 DEF Admit, Started
  <2>2. r \in PublishRec
    BY DEF PublishRec
  <2>3. /\ publish'[p] = r
        /\ \A q \in Publishers : q # p => publish'[q] = publish[q]
        /\ publish' \in [Publishers -> PublishRec]
    BY <2>1, <2>2 DEF TypeOK
  <2>4. UNCHANGED <<table, tombs, byId, profile, deletion, reading, deletes, faults,
                    accepted, removed, lost, revivable>> /\ e \notin tombs
    BY <1>1 DEF Admit, cacheVars, historyVars
  <2>5. TypeOK'
    BY <2>1, <2>3, <2>4 DEF TypeOK
  <2>6. PublishIsAllowed'
    BY <2>3, <2>4 DEF PublishIsAllowed
  <2>7. ReplacesOlder'
    BY <2>3 DEF ReplacesOlder, Comparing
  <2> QED
    BY <2>4, <2>5, <2>6, <2>7 DEF CacheIsSorted, TombstonedIsGone
<1>2. ASSUME NEW ph \in {"caching", "replacing"}, NEW v \in Profiles, Replaces(p, ph, v),
             AuthorOf[v] = AuthorOf[publish[p].event], publish[p].phase = "admitted",
             UNCHANGED <<table, tombs, cacheVars, deletion, reading, publishes, deletes,
                         faults, historyVars>>
      PROVE  Inv'
  <2>1. /\ publish' \in [Publishers -> PublishRec]
        /\ publish'[p] = [phase |-> ph, event |-> publish[p].event, prev |-> v]
        /\ \A q \in Publishers : q # p => publish'[q] = publish[q]
    BY <1>2, ReplacesFacts
  <2>2. TypeOK'
    BY <1>2, <2>1 DEF TypeOK, cacheVars, historyVars
  <2>3. PublishIsAllowed'
    BY <1>2, <2>1 DEF PublishIsAllowed, historyVars
  <2>4. ReplacesOlder'
    BY <1>2, <2>1 DEF ReplacesOlder, Comparing
  <2> QED
    BY <1>2, <2>2, <2>3, <2>4 DEF CacheIsSorted, TombstonedIsGone, cacheVars, historyVars
<1>3. ASSUME FindInCache(p) PROVE Inv'
  <2>1. publish[p].event \in Profiles /\ AuthorOf[publish[p].event] \in Authors
    BY <1>3 DEF FindInCache, ReplacesOlder, TypeOK
  <2>2. profile[AuthorOf[publish[p].event]] \in Profiles
    BY <1>3, <2>1 DEF FindInCache, TypeOK
  <2> QED
    BY <1>2, <1>3, <2>1, <2>2 DEF FindInCache, CacheIsSorted
<1>4. ASSUME NEW ph \in {"replacing", "burying", "storing"}, Goto(p, ph),
             publish[p].phase \in {"admitted", "caching", "replacing", "burying"},
             ph = "replacing" => publish[p].phase = "caching",
             ph = "burying" => publish[p].phase = "replacing"
                               /\ Rank[publish[p].prev] < Rank[publish[p].event],
             ph = "storing" => publish[p].phase \in {"admitted", "burying"},
             \A q \in Publishers : publish[q].phase # "idle" =>
               publish[q].event \notin tombs' \ revivable'
      PROVE  PublishIsAllowed' /\ ReplacesOlder' /\ publish' \in [Publishers -> PublishRec]
  <2>1. /\ publish' \in [Publishers -> PublishRec]
        /\ publish'[p] = [phase |-> ph, event |-> publish[p].event, prev |-> publish[p].prev]
        /\ \A q \in Publishers : q # p => publish'[q] = publish[q]
    BY <1>4, GotoFacts
  <2>2. PublishIsAllowed'
    BY <1>4, <2>1 DEF PublishIsAllowed
  <2>3. ReplacesOlder'
    BY <1>4, <2>1 DEF ReplacesOlder, Comparing
  <2> QED
    BY <2>1, <2>2, <2>3
<1>5. \A q \in Publishers : publish[q].phase # "idle" =>
        publish[q].event \notin tombs \ revivable
  BY DEF PublishIsAllowed
<1>6. ASSUME FindInTable(p) PROVE Inv'
  <2> DEFINE V == VersionsOf(AuthorOf[publish[p].event])
  <2>1. CASE \E v \in Newest(V) : Replaces(p, "caching", v)
    BY <1>2, <1>6, <2>1 DEF FindInTable, Newest, VersionsOf
  <2>2. CASE Goto(p, "storing")
    <3>1. UNCHANGED <<tombs, revivable>> /\ publish[p].phase = "admitted"
      BY <1>6 DEF FindInTable, historyVars
    <3>2. PublishIsAllowed' /\ ReplacesOlder' /\ publish' \in [Publishers -> PublishRec]
      BY <1>4, <1>5, <2>2, <3>1
    <3> QED
      BY <1>6, <3>2 DEF FindInTable, TypeOK, CacheIsSorted, TombstonedIsGone, cacheVars,
                        historyVars
  <2> QED
    BY <1>6, <2>1, <2>2 DEF FindInTable
<1>7. ASSUME CachePrevious(p) PROVE Inv'
  <2>1. publish[p].prev \in Profiles /\ CacheSet(publish[p].prev)
    BY <1>7 DEF CachePrevious, ReplacesOlder, Comparing, TypeOK, PublishRec
  <2>2. /\ byId' \in SUBSET Profiles
        /\ profile' \in [Authors -> Profiles \cup {None}]
        /\ CacheIsSorted'
    BY <2>1, CacheSetFacts
  <2>3. UNCHANGED <<tombs, revivable>> /\ publish[p].phase = "caching" /\ Goto(p, "replacing")
    BY <1>7 DEF CachePrevious, historyVars
  <2>4. PublishIsAllowed' /\ ReplacesOlder' /\ publish' \in [Publishers -> PublishRec]
    BY <1>4, <1>5, <2>3
  <2> QED
    BY <1>7, <2>2, <2>4 DEF CachePrevious, TypeOK, TombstonedIsGone, historyVars
<1>8. ASSUME DeletePrevious(p) PROVE Inv'
  <2>1. /\ UNCHANGED <<tombs, revivable>> /\ publish[p].phase = "replacing"
        /\ Goto(p, "burying") /\ Rank[publish[p].prev] < Rank[publish[p].event]
    BY <1>8 DEF DeletePrevious, Outranks, historyVars
  <2>2. PublishIsAllowed' /\ ReplacesOlder' /\ publish' \in [Publishers -> PublishRec]
    BY <1>4, <1>5, <2>1
  <2>3. table' \subseteq table /\ faults' \in Nat
    BY <1>8 DEF DeletePrevious, Fault, TypeOK
  <2> QED
    BY <1>8, <2>2, <2>3 DEF DeletePrevious, TypeOK, CacheIsSorted, TombstonedIsGone,
                            cacheVars, historyVars
<1>9. ASSUME BuryPrevious(p) PROVE Inv'
  <2>1. publish[p].prev \in Events /\ publish[p].phase = "burying" /\ Goto(p, "storing")
    BY <1>9 DEF BuryPrevious, ReplacesOlder, TypeOK, PublishRec
  <2>2. /\ tombs' \in SUBSET Events
        /\ revivable' \in SUBSET Events
        /\ \A q \in Publishers : publish[q].phase # "idle" =>
             publish[q].event \notin tombs' \ revivable'
        /\ (tombs' \ revivable') \cap table = {}
    <3>1. CASE Bury(publish[p].prev)
      BY <2>1, <3>1, BuryFacts
    <3>2. CASE UNCHANGED <<tombs, revivable>>
      BY <1>5, <3>2 DEF TypeOK, TombstonedIsGone
    <3> QED
      BY <1>9, <3>1, <3>2 DEF BuryPrevious
  <2>3. PublishIsAllowed' /\ ReplacesOlder' /\ publish' \in [Publishers -> PublishRec]
    BY <1>4, <2>1, <2>2
  <2>4. faults' \in Nat
    BY <1>9 DEF BuryPrevious, Fault, TypeOK
  <2> QED
    BY <1>9, <2>2, <2>3, <2>4 DEF BuryPrevious, TypeOK, CacheIsSorted, TombstonedIsGone,
                                  cacheVars
<1>10. ASSUME Outranked(p) PROVE Inv'
  <2>1. Finish(p) /\ UNCHANGED <<tombs, revivable>>
    BY <1>10 DEF Outranked, historyVars
  <2>2. PublishIsAllowed' /\ ReplacesOlder' /\ publish' \in [Publishers -> PublishRec]
    BY <2>1, FinishKeeps, FinishFacts
  <2> QED
    BY <1>10, <2>2 DEF Outranked, TypeOK, CacheIsSorted, TombstonedIsGone, cacheVars,
                       historyVars
<1>11. ASSUME Store(p) PROVE Inv'
  <2>1. Finish(p) /\ UNCHANGED <<tombs, revivable>>
    BY <1>11 DEF Store
  <2>2. PublishIsAllowed' /\ ReplacesOlder' /\ publish' \in [Publishers -> PublishRec]
    BY <2>1, FinishKeeps, FinishFacts
  <2>3. publish[p].event \in Events /\ publish[p].event \notin tombs \ revivable
    BY <1>11 DEF Store, PublishIsAllowed
  <2> QED
    BY <1>11, <2>2, <2>3 DEF Store, TypeOK, CacheIsSorted, TombstonedIsGone, cacheVars
<1>12. ASSUME PublishFails(p) PROVE Inv'
  <2>1. Finish(p) /\ UNCHANGED <<tombs, revivable>>
    BY <1>12 DEF PublishFails
  <2>2. PublishIsAllowed' /\ ReplacesOlder' /\ publish' \in [Publishers -> PublishRec]
    BY <2>1, FinishKeeps, FinishFacts
  <2>3. lost' \in SUBSET Events /\ faults' \in Nat
    BY <1>12 DEF PublishFails, Fault, TypeOK, PublishRec
  <2> QED
    BY <1>12, <2>2, <2>3 DEF PublishFails, TypeOK, CacheIsSorted, TombstonedIsGone, cacheVars
<1> QED
  BY <1>1, <1>3, <1>6, <1>7, <1>8, <1>9, <1>10, <1>11, <1>12 DEF PublishStep

\* So do the steps of a deletion request.
LEMMA DeletionInv ==
  ASSUME Inv, DeletionStep \/ DeletionFails \/ \E e \in Events : FindTarget(e)
  PROVE  Inv'
<1> USE DEF Inv
<1>1. UNCHANGED publish
  BY DEF DeletionStep, DeletionFails, FindTarget, CacheTarget, DeleteTarget, BuryTarget
<1>2. ReplacesOlder'
  BY <1>1, FrameReplaces
<1>3. ASSUME NEW e \in Events, FindTarget(e) PROVE Inv'
  <2>1. /\ deletion' \in DeletionRec /\ deletion'.event = e
        /\ deletion'.phase = "caching" => e \in Profiles
    BY <1>3 DEF FindTarget, DeletionRec
  <2>2. deletes' \in Nat
    BY <1>3 DEF FindTarget, TypeOK
  <2> QED
    BY <1>2, <1>3, <2>1, <2>2 DEF FindTarget, TypeOK, PublishIsAllowed, CacheIsSorted,
       TombstonedIsGone, cacheVars, historyVars
<1>4. ASSUME CacheTarget PROVE Inv'
  <2>1. deletion.event \in Profiles /\ CacheSet(deletion.event)
    BY <1>4 DEF CacheTarget
  <2>2. /\ byId' \in SUBSET Profiles
        /\ profile' \in [Authors -> Profiles \cup {None}]
        /\ CacheIsSorted'
    BY <2>1, CacheSetFacts
  <2>3. /\ deletion' \in DeletionRec /\ deletion'.event = deletion.event
        /\ deletion'.phase = "deleting"
    BY <1>4 DEF CacheTarget, TypeOK, DeletionRec
  <2> QED
    BY <1>2, <1>4, <2>1, <2>2, <2>3 DEF CacheTarget, TypeOK, PublishIsAllowed,
       TombstonedIsGone, historyVars
<1>5. ASSUME DeleteTarget PROVE Inv'
  <2>1. /\ deletion' \in DeletionRec /\ deletion'.event = deletion.event
        /\ deletion'.phase = "burying" /\ deletion.event \in Events
    BY <1>5 DEF DeleteTarget, TypeOK, DeletionRec
  <2> QED
    BY <1>2, <1>5, <2>1 DEF DeleteTarget, TypeOK, PublishIsAllowed, CacheIsSorted,
       TombstonedIsGone, cacheVars
<1>6. ASSUME BuryTarget PROVE Inv'
  <2>1. deletion.event \in Events /\ Bury(deletion.event)
    BY <1>6 DEF BuryTarget
  <2>2. /\ tombs' \in SUBSET Events
        /\ revivable' \in SUBSET Events
        /\ \A q \in Publishers : publish[q].phase # "idle" =>
             publish[q].event \notin tombs' \ revivable'
        /\ (tombs' \ revivable') \cap table = {}
    BY <2>1, BuryFacts
  <2>3. deletion' \in DeletionRec /\ deletion'.phase = "idle"
    BY <1>6 DEF BuryTarget, NoDeletion, DeletionRec
  <2> QED
    BY <1>2, <1>6, <2>2, <2>3 DEF BuryTarget, TypeOK, PublishIsAllowed, CacheIsSorted,
       TombstonedIsGone, cacheVars
<1>7. ASSUME DeletionFails PROVE Inv'
  <2>1. deletion' \in DeletionRec /\ deletion'.phase = "idle" /\ faults' \in Nat
    BY <1>7 DEF DeletionFails, NoDeletion, DeletionRec, Fault, TypeOK
  <2> QED
    BY <1>2, <1>7, <2>1 DEF DeletionFails, TypeOK, PublishIsAllowed, CacheIsSorted,
       TombstonedIsGone, cacheVars, historyVars
<1> QED
  BY <1>3, <1>4, <1>5, <1>6, <1>7 DEF DeletionStep

\* So do a client's query and the cache's TTL.
LEMMA CacheInv ==
  ASSUME Inv,
         \/ CacheRow
         \/ \E a \in Authors : ReadProfile(a) \/ ExpireProfile(a)
         \/ \E v \in Profiles : ExpireId(v)
  PROVE  Inv'
<1> USE DEF Inv
<1>1. UNCHANGED <<publish, table, tombs, revivable, deletion>>
  BY DEF CacheRow, ReadProfile, ExpireProfile, ExpireId, historyVars
<1>2. ReplacesOlder' /\ PublishIsAllowed' /\ TombstonedIsGone'
  BY <1>1, FrameReplaces DEF PublishIsAllowed, TombstonedIsGone
<1>3. CASE CacheRow
  <2>1. PICK v \in Newest(reading) : CacheSet(v) /\ reading' = reading \ {v}
    BY <1>3 DEF CacheRow
  <2>2. v \in Profiles
    BY DEF Newest, TypeOK
  <2>3. /\ byId' \in SUBSET Profiles
        /\ profile' \in [Authors -> Profiles \cup {None}]
        /\ CacheIsSorted'
    BY <2>1, <2>2, CacheSetFacts
  <2> QED
    BY <1>1, <1>2, <1>3, <2>1, <2>3 DEF CacheRow, TypeOK, historyVars
<1>4. CASE \E a \in Authors : ReadProfile(a)
  BY <1>1, <1>2, <1>4 DEF ReadProfile, Newest, VersionsOf, TypeOK, CacheIsSorted, cacheVars,
     historyVars
<1>5. CASE \E a \in Authors : ExpireProfile(a)
  <2>1. PICK a \in Authors : ExpireProfile(a)
    BY <1>5
  <2>2. profile' \in [Authors -> Profiles \cup {None}]
    BY <2>1 DEF ExpireProfile, TypeOK
  <2>3. CacheIsSorted'
    BY <2>1 DEF ExpireProfile, TypeOK, CacheIsSorted
  <2> QED
    BY <1>1, <1>2, <2>1, <2>2, <2>3 DEF ExpireProfile, TypeOK, historyVars
<1>6. CASE \E v \in Profiles : ExpireId(v)
  BY <1>1, <1>2, <1>6 DEF ExpireId, TypeOK, CacheIsSorted, historyVars
<1> QED
  BY <1>3, <1>4, <1>5, <1>6

\* The inductive invariant is inductive.
LEMMA StepInv == Inv /\ [Next]_vars => Inv'
<1> SUFFICES ASSUME Inv, [Next]_vars PROVE Inv'
  OBVIOUS
<1>1. CASE Next
  BY <1>1, PublishInv, DeletionInv, CacheInv DEF Next
<1>2. CASE UNCHANGED vars
  BY <1>2 DEF vars, cacheVars, historyVars, Inv, TypeOK, PublishIsAllowed, CacheIsSorted,
     ReplacesOlder, TombstonedIsGone, Comparing
<1> QED
  BY <1>1, <1>2

-----------------------------------------------------------------------------
(* The newest version.                                                     *)

\* While nothing is stored, it is enough that what kept a version still does.
LEMMA KeptFrame ==
  ASSUME NewestIsKept, accepted' = accepted,
         \A v \in accepted \cap Profiles :
           v \in table \cup removed \cup lost \/ MakingWay(v) =>
             v \in table' \cup removed' \cup lost' \/ MakingWay(v)'
  PROVE  NewestIsKept'
BY DEF NewestIsKept, Newest

\* A publish that was not about to store keeps nothing out of the table.
LEMMA MakingWayFrame ==
  ASSUME NEW p \in Publishers, \A q \in Publishers : q # p => publish'[q] = publish[q],
         \/ publish[p].phase \notin {"burying", "storing"}
         \/ /\ publish'[p].prev = publish[p].prev
            /\ publish'[p].phase \in {"burying", "storing"},
         NEW v, MakingWay(v)
  PROVE  MakingWay(v)'
BY DEF MakingWay

\* Every step of a publish keeps the newest version.
LEMMA PublishKeeps ==
  ASSUME Inv, NewestIsKept, NEW p \in Publishers,
         PublishStep(p) \/ PublishFails(p) \/ \E e \in Events : Admit(p, e)
  PROVE  NewestIsKept'
<1> USE DEF Inv
<1>0. ASSUME NEW ph \in {"burying", "storing"}, Goto(p, ph)
      PROVE  /\ publish'[p].phase = ph /\ publish'[p].prev = publish[p].prev
             /\ \A q \in Publishers : q # p => publish'[q] = publish[q]
  <2>1. /\ publish'[p] = [phase |-> ph, event |-> publish[p].event, prev |-> publish[p].prev]
        /\ \A q \in Publishers : q # p => publish'[q] = publish[q]
    BY <1>0, GotoFacts
  <2> QED
    BY <2>1
<1>1. CASE \E e \in Events : Admit(p, e)
  <2>1. /\ publish[p].phase = "idle" /\ UNCHANGED <<table, accepted, removed, lost>>
        /\ \A q \in Publishers : q # p => publish'[q] = publish[q]
    BY <1>1 DEF Admit, Started, historyVars, TypeOK
  <2> QED
    BY <2>1, MakingWayFrame, KeptFrame
<1>2. CASE FindInCache(p) \/ FindInTable(p) \/ CachePrevious(p) \/ Outranked(p)
  <2>1. /\ publish[p].phase \in {"admitted", "caching", "replacing"}
        /\ UNCHANGED <<table, accepted, removed, lost>>
    BY <1>2 DEF FindInCache, FindInTable, CachePrevious, Outranked, historyVars
  <2>2. \A q \in Publishers : q # p => publish'[q] = publish[q]
    BY <1>2 DEF FindInCache, FindInTable, CachePrevious, Outranked, Replaces, Goto, Finish,
       TypeOK
  <2> QED
    BY <2>1, <2>2, MakingWayFrame, KeptFrame
<1>3. CASE DeletePrevious(p)
  <2>1. /\ publish'[p].phase = "burying" /\ publish'[p].prev = publish[p].prev
        /\ \A q \in Publishers : q # p => publish'[q] = publish[q]
    BY <1>3, <1>0 DEF DeletePrevious
  <2>2. ASSUME NEW v, v = publish[p].prev PROVE MakingWay(v)'
    BY <2>1, <2>2 DEF MakingWay
  <2>3. UNCHANGED <<accepted, removed, lost>> /\ table \ {publish[p].prev} \subseteq table'
    BY <1>3 DEF DeletePrevious, historyVars
  <2>4. publish[p].phase \notin {"burying", "storing"}
    BY <1>3 DEF DeletePrevious
  <2>5. \A v : MakingWay(v) => MakingWay(v)'
    BY <2>1, <2>4, MakingWayFrame
  <2>6. ASSUME NEW v \in accepted \cap Profiles,
               v \in table \cup removed \cup lost \/ MakingWay(v)
        PROVE  v \in table' \cup removed' \cup lost' \/ MakingWay(v)'
    BY <2>2, <2>3, <2>5, <2>6
  <2> QED
    BY <2>3, <2>6, KeptFrame
<1>4. CASE BuryPrevious(p)
  <2>1. /\ publish'[p].phase = "storing" /\ publish'[p].prev = publish[p].prev
        /\ \A q \in Publishers : q # p => publish'[q] = publish[q]
        /\ UNCHANGED <<table, accepted, removed, lost>>
    BY <1>4, <1>0 DEF BuryPrevious
  <2>2. \A v : MakingWay(v) => MakingWay(v)'
    BY <2>1, MakingWayFrame
  <2> QED
    BY <2>1, <2>2, KeptFrame
<1>5. CASE Store(p)
  <2> DEFINE e == publish[p].event
  <2>1. /\ table' = table \cup {e} /\ accepted' = accepted \cup {e}
        /\ UNCHANGED <<removed, lost>> /\ Finish(p) /\ publish[p].phase = "storing"
    BY <1>5 DEF Store
  <2>2. \A q \in Publishers : q # p => publish'[q] = publish[q]
    BY <2>1, FinishFacts
  <2> SUFFICES ASSUME NEW a \in Authors,
                      NEW v \in Newest({w \in accepted' \cap Profiles : AuthorOf[w] = a}),
                      v # e
               PROVE  v \in table' \cup removed' \cup lost' \/ MakingWay(v)'
    BY <2>1 DEF NewestIsKept
  <2>3. v \in Newest({w \in accepted \cap Profiles : AuthorOf[w] = a})
    BY <2>1 DEF Newest
  <2>4. v \in Profiles /\ AuthorOf[v] = a
    BY DEF Newest
  <2>5. v \in table \cup removed \cup lost \/ MakingWay(v)
    BY <2>3 DEF NewestIsKept
  <2>6. ASSUME publish[p].prev = v PROVE FALSE
    <3>1. /\ e \in Profiles /\ AuthorOf[v] = AuthorOf[e] /\ Rank[v] < Rank[e]
      BY <2>1, <2>4, <2>6 DEF ReplacesOlder, Comparing
    <3>2. Rank[e] <= Rank[v]
      BY <2>1, <2>4, <3>1 DEF Newest
    <3> QED
      BY <2>4, <3>1, <3>2
  <2>7. ASSUME MakingWay(v) PROVE MakingWay(v)'
    BY <2>2, <2>6, <2>7 DEF MakingWay
  <2> QED
    BY <2>1, <2>5, <2>7
<1>6. CASE PublishFails(p)
  <2>1. /\ UNCHANGED <<table, accepted, removed>> /\ Finish(p)
        /\ lost' = IF publish[p].phase \in {"burying", "storing"} /\ publish[p].prev # None
                   THEN lost \cup {publish[p].prev} ELSE lost
    BY <1>6 DEF PublishFails
  <2>2. \A q \in Publishers : q # p => publish'[q] = publish[q]
    BY <2>1, FinishFacts
  <2>3. ASSUME NEW v \in Profiles, MakingWay(v) PROVE v \in lost' \/ MakingWay(v)'
    BY <2>1, <2>2, <2>3 DEF MakingWay
  <2>4. lost \subseteq lost'
    BY <2>1
  <2> QED
    BY <2>1, <2>3, <2>4, KeptFrame
<1> QED
  BY <1>1, <1>2, <1>3, <1>4, <1>5, <1>6 DEF PublishStep

\* So does every other step.
LEMMA StepKeeps == Inv /\ NewestIsKept /\ [Next]_vars => NewestIsKept'
<1> SUFFICES ASSUME Inv, NewestIsKept, [Next]_vars PROVE NewestIsKept'
  OBVIOUS
<1>1. CASE \E p \in Publishers :
             PublishStep(p) \/ PublishFails(p) \/ \E e \in Events : Admit(p, e)
  BY <1>1, PublishKeeps
<1>2. CASE DeleteTarget
  <2>1. /\ UNCHANGED <<accepted, lost, publish>>
        /\ table \cup removed \subseteq table' \cup removed'
    BY <1>2 DEF DeleteTarget
  <2>2. \A v : MakingWay(v) => MakingWay(v)'
    BY <2>1 DEF MakingWay
  <2> QED
    BY <2>1, <2>2, KeptFrame
<1>3. CASE UNCHANGED <<table, accepted, removed, lost, publish>>
  BY <1>3, KeptFrame DEF MakingWay
<1>4. CASE \/ \E e \in Events : FindTarget(e)
           \/ CacheTarget \/ BuryTarget \/ DeletionFails \/ CacheRow
           \/ \E a \in Authors : ReadProfile(a) \/ ExpireProfile(a)
           \/ \E v \in Profiles : ExpireId(v)
           \/ UNCHANGED vars
  BY <1>3, <1>4 DEF FindTarget, CacheTarget, BuryTarget, DeletionFails, CacheRow, ReadProfile,
     ExpireProfile, ExpireId, historyVars, vars
<1> QED
  BY <1>1, <1>2, <1>4 DEF Next, DeletionStep

-----------------------------------------------------------------------------
(* Theorems.                                                               *)

\* Every reachable state satisfies the inductive invariant and keeps the newest.
LEMMA Invariance == Spec => [](Inv /\ NewestIsKept)
<1>1. Init => Inv /\ NewestIsKept
  BY InitInv
<1>2. Inv /\ NewestIsKept /\ [Next]_vars => (Inv /\ NewestIsKept)'
  BY StepInv, StepKeeps
<1> QED
  BY <1>1, <1>2, PTL DEF Spec

\* The table, the tombstones, the cache and the requests in flight stay well
\* typed; in particular only cacheable kinds reach the cache.
THEOREM TypeCorrect == Spec => []TypeOK
<1>1. Inv => TypeOK
  BY DEF Inv
<1> QED
  BY <1>1, Invariance, PTL

\* An event whose id is in deleted_event is in no table again, whatever the
\* publishes, replaces and caches do meanwhile.
THEOREM TombstonedStayGone == Spec => []TombstonedIsGone
<1>1. Inv => TombstonedIsGone
  BY DEF Inv
<1> QED
  BY <1>1, Invariance, PTL

\* However the publishes of one author overlap, an older version never takes the
\* place of the newest one that was stored.
THEOREM NewestStays == Spec => []NewestIsKept
BY Invariance, PTL
=============================================================================
