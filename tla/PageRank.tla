-------------------------------- MODULE PageRank -------------------------------
(***************************************************************************)
(* Trust levels by PageRank (internal/wot/pagerank.go): each replica       *)
(* computes the scores of the follow graph at every interval, keeps them   *)
(* in memory and writes them, key by key, to the Redis keys that all the   *)
(* replicas read first.                                                    *)
(*                                                                         *)
(* The graph goes through the versions Graphs lists.  What the iteration   *)
(* makes of a version is the level each node reaches in it; a node that is *)
(* not in the graph has no score.  A computation ends within the tick it   *)
(* begins in (ComputeInterval is an hour, one tick).                       *)
(***************************************************************************)
EXTENDS Naturals, Sequences

CONSTANTS RankReplicas, RankNodes,
          Graphs,          \* versions of wot_follows: [large, level]
          TrustRoots,      \* nodes at level 0 whatever the scores
          MaxRankClock,    \* bound: ticks
          MaxRankFaults    \* bound: queries and pipelines that fail

RankLevels == {"follow", "followOfFollow", "unknown"}
NoScore == "none"

ASSUME RankAssumption ==
  /\ Graphs \in Seq([large : BOOLEAN, level : [RankNodes -> RankLevels \cup {NoScore}]])
  /\ Graphs # <<>> /\ TrustRoots \in SUBSET RankNodes
  /\ MaxRankClock \in Nat /\ MaxRankFaults \in Nat

Versions == 1..Len(Graphs)
RankTtl == 2       \* SetPageRankBatch: twice the compute interval
StillCurrent == MaxRankClock + 1

VARIABLES
  rankClock,
  version,    \* of the graph in the table
  replaced,   \* [Versions -> tick it was replaced at, or StillCurrent]
  scores,     \* [RankReplicas -> version its scores are of, 0 before the first]
  behind,     \* replicas whose last computation kept the scores of an earlier one
  rankRows,   \* [RankNodes -> the Redis key: version and age, or NoRankRow]
  dueRanks,   \* replicas whose ticker has fired
  ranking,    \* [RankReplicas -> its computation]
  asker,      \* a request for the level of an author
  reply,      \* what it was told
  rankFaults

followGraph == <<version, replaced>>
RankVars == <<rankClock, followGraph, scores, behind, rankRows, dueRanks, ranking,
              asker, reply, rankFaults>>

NoRankRow == [of |-> 0, age |-> 0]
RankRows == [of : 0..Len(Graphs), age : 0..RankTtl]
NoRanking == [step |-> "idle", of |-> 0, left |-> {}]
Rankings == [step : {"idle", "fetched", "writing"}, of : 0..Len(Graphs),
             left : SUBSET RankNodes]
NoAsker == [step |-> "idle"]
AskerStates == {NoAsker} \cup
  [step : {"shared", "own"}, at : RankReplicas, node : RankNodes]
NoReply == [node |-> "nobody"]
Replies == {NoReply} \cup
  [node : RankNodes, level : RankLevels \cup {"owner"}, at : 0..MaxRankClock,
   version : Versions, behind : BOOLEAN]

RankInit ==
  /\ rankClock = 0 /\ version = 1
  /\ replaced = [v \in Versions |-> StillCurrent]
  /\ scores = [r \in RankReplicas |-> 0]
  /\ behind = {}
  /\ rankRows = [n \in RankNodes |-> NoRankRow]
  /\ dueRanks = RankReplicas                         \* Start computes at once
  /\ ranking = [r \in RankReplicas |-> NoRanking]
  /\ asker = NoAsker /\ reply = NoReply
  /\ rankFaults = 0

RankFails == rankFaults < MaxRankFaults /\ rankFaults' = rankFaults + 1

--------------------------------------------------------------------------------
(* computePageRank *)

GiveUp(r) == behind' = behind \cup {r} /\ ranking' = [ranking EXCEPT ![r] = NoRanking]

\* GetAllFollows; a failed query or a graph below minPageRankSize ends it.
Fetch(r) ==
  /\ r \in dueRanks /\ ranking[r] = NoRanking
  /\ dueRanks' = dueRanks \ {r}
  /\ \/ /\ Graphs[version].large
        /\ ranking' = [ranking EXCEPT ![r].step = "fetched", ![r].of = version]
        /\ UNCHANGED <<behind, rankFaults>>
     \/ ~Graphs[version].large /\ GiveUp(r) /\ UNCHANGED rankFaults
     \/ RankFails /\ GiveUp(r)
  /\ UNCHANGED <<rankClock, followGraph, scores, rankRows, asker, reply>>

Scored(v) == {n \in RankNodes : Graphs[v].level[n] # NoScore}

KeepScores(r) ==
  /\ ranking[r].step = "fetched"
  /\ scores' = [scores EXCEPT ![r] = ranking[r].of]
  /\ behind' = behind \ {r}
  /\ ranking' = [ranking EXCEPT ![r].step = "writing", ![r].left = Scored(ranking[r].of)]
  /\ UNCHANGED <<rankClock, followGraph, rankRows, dueRanks, asker, reply, rankFaults>>

\* One SET of the pipeline; those of two replicas may alternate.
WriteRow(r) ==
  /\ ranking[r].step = "writing"
  /\ \E n \in ranking[r].left :
       /\ rankRows' = [rankRows EXCEPT ![n] = [of |-> ranking[r].of, age |-> 0]]
       /\ ranking' = [ranking EXCEPT ![r].left = @ \ {n}]
  /\ UNCHANGED <<rankClock, followGraph, scores, behind, dueRanks, asker, reply,
                 rankFaults>>

\* The pipeline is through, or fails with some of its keys unwritten.
EndJob(r) ==
  /\ ranking[r].step = "writing"
  /\ \/ ranking[r].left = {} /\ UNCHANGED rankFaults
     \/ ranking[r].left # {} /\ RankFails
  /\ ranking' = [ranking EXCEPT ![r] = NoRanking]
  /\ UNCHANGED <<rankClock, followGraph, scores, behind, rankRows, dueRanks, asker,
                 reply>>

--------------------------------------------------------------------------------
(* GetTrustLevelFromPageRank *)

LevelIn(v, n) ==
  IF v = 0 \/ Graphs[v].level[n] = NoScore THEN "unknown" ELSE Graphs[v].level[n]

Tell(level, excused) ==
  /\ reply' = [node |-> asker.node, level |-> level, at |-> rankClock,
               version |-> version, behind |-> excused]
  /\ asker' = NoAsker

AskLevel(r, n) ==
  /\ asker = NoAsker
  /\ IF n \in TrustRoots
     THEN /\ reply' = [node |-> n, level |-> "owner", at |-> rankClock,
                       version |-> version, behind |-> FALSE]
          /\ UNCHANGED asker
     ELSE asker' = [step |-> "shared", at |-> r, node |-> n] /\ UNCHANGED reply
  /\ UNCHANGED <<rankClock, followGraph, scores, behind, rankRows, dueRanks, ranking,
                 rankFaults>>

\* A key Redis does not have and a failed GET both lead to the map in memory.
ReadShared ==
  /\ asker.step = "shared"
  /\ LET row == rankRows[asker.node] IN
     \/ row # NoRankRow /\ Tell(LevelIn(row.of, asker.node), FALSE) /\ UNCHANGED rankFaults
     \/ /\ \/ row = NoRankRow /\ UNCHANGED rankFaults
           \/ RankFails
        /\ asker' = [asker EXCEPT !.step = "own"]
        /\ UNCHANGED reply
  /\ UNCHANGED <<rankClock, followGraph, scores, behind, rankRows, dueRanks, ranking>>

ReadOwn ==
  /\ asker.step = "own"
  /\ LET r == asker.at IN
     Tell(LevelIn(scores[r], asker.node), r \in behind \/ scores[r] = 0)
  /\ UNCHANGED <<rankClock, followGraph, scores, behind, rankRows, dueRanks, ranking,
                 rankFaults>>

--------------------------------------------------------------------------------
(* Kind 3 events change the followGraph; time passes *)

ChangeGraph ==
  /\ version < Len(Graphs)
  /\ version' = version + 1
  /\ replaced' = [replaced EXCEPT ![version] = rankClock]
  /\ UNCHANGED <<rankClock, scores, behind, rankRows, dueRanks, ranking, asker,
                 reply, rankFaults>>

OlderRow(row) ==
  IF row = NoRankRow \/ row.age = RankTtl THEN NoRankRow ELSE [row EXCEPT !.age = @ + 1]

RankTick ==
  /\ rankClock < MaxRankClock
  /\ dueRanks = {} /\ \A r \in RankReplicas : ranking[r] = NoRanking
  /\ asker = NoAsker
  /\ rankClock' = rankClock + 1
  /\ rankRows' = [n \in RankNodes |-> OlderRow(rankRows[n])]
  /\ dueRanks' = RankReplicas
  /\ UNCHANGED <<followGraph, scores, behind, ranking, asker, reply, rankFaults>>

RankNext ==
  \/ \E r \in RankReplicas :
       \/ Fetch(r) \/ KeepScores(r) \/ WriteRow(r) \/ EndJob(r)
       \/ \E n \in RankNodes : AskLevel(r, n)
  \/ ReadShared \/ ReadOwn
  \/ ChangeGraph \/ RankTick

RankSpec == RankInit /\ [][RankNext]_RankVars

--------------------------------------------------------------------------------
RankTypeOK ==
  /\ rankClock \in 0..MaxRankClock /\ version \in Versions
  /\ replaced \in [Versions -> 0..StillCurrent]
  /\ scores \in [RankReplicas -> 0..Len(Graphs)]
  /\ behind \in SUBSET RankReplicas
  /\ rankRows \in [RankNodes -> RankRows]
  /\ dueRanks \in SUBSET RankReplicas
  /\ ranking \in [RankReplicas -> Rankings]
  /\ asker \in AskerStates /\ reply \in Replies
  /\ rankFaults \in 0..MaxRankFaults

\* A level told for an author who is no root is the one a followGraph gave that was in
\* the table within the TTL of the shared keys, though replicas overwrite each
\* other's keys in any order.  A replica whose own computation was skipped or
\* failed, or that has made none, is excused when Redis has no answer for it.
RanksAreRecent ==
  reply # NoReply /\ reply.node \notin TrustRoots /\ ~reply.behind =>
    \E v \in 1..reply.version :
      /\ LevelIn(v, reply.node) = reply.level
      /\ replaced[v] + RankTtl >= reply.at
================================================================================
