------------------------------ MODULE MCRequests ------------------------------
(***************************************************************************)
(* Nine components that decide on requests, in one run: a behaviour is one *)
(* of them from its initial states on ("part"), the others stay where they *)
(* began.  They are composed where the code composes them (Gates holds the *)
(* order of the gates, Reading that of a query), not here.                 *)
(***************************************************************************)
EXTENDS WotTrust, PageRank, Importers, HavenRouting, GroupStore, GroupOwnership,
        Gates, Reading, AdminSessions

VARIABLE part
Parts == {"wot", "rank", "import", "box", "group", "ownership", "gate", "gates", "read", "admin"}

--------------------------------------------------------------------------------
(* Values of the constants *)

MCAt == [l \in Lookups |-> IF l = "l1" THEN "A" ELSE "B"]

\* A graph, one that lost a node, and one below minPageRankSize.
RankGraph(large, x, o) == [large |-> large, level |-> [n \in RankNodes |-> IF n = "x" THEN x ELSE o]]
MCGraphs == <<RankGraph(TRUE, "follow", NoScore), RankGraph(TRUE, NoScore, NoScore),
              RankGraph(FALSE, NoScore, NoScore)>>

MCRemotes == <<"x", "y">>

\* Every kind by either author, to nobody, to the owner, to both; filters that
\* name an author's outbox, two users and a public kind, nothing, two boxes.
MCBoxEvents ==
  {[kind |-> k, author |-> a, tags |-> t, ref |-> IF k = "reaction" THEN "o" ELSE "nobody"] :
     k \in BoxKinds, a \in BoxUsers, t \in {<<>>, <<"o">>, <<"w", "o">>}}
BoxFilter(kinds, authors, tags) == [kinds |-> kinds, authors |-> authors, tags |-> tags]
MCBoxFilters ==
  {BoxFilter({}, <<"o">>, <<>>), BoxFilter({"public"}, <<"w", "o">>, <<"w">>),
   BoxFilter({}, <<>>, <<>>), BoxFilter({"private", "chat"}, <<>>, <<>>)}

\* Events that take each way through the gates.
GateEvent(i, k, a, protected, flaw) ==
  [id |-> i, kind |-> k, author |-> a, mined |-> FALSE, protected |-> protected, flaw |-> flaw]
Claim == GateEvent("claim", "claim", "a", FALSE, "none")
Rival == GateEvent("rival", "claim", "b", TRUE, "none")
Collab == GateEvent("collab", "collab", "a", FALSE, "none")
MCGateEvents ==
  {Claim, Rival, Collab, GateEvent("join", "join", "b", TRUE, "none"),
   GateEvent("plain", "join", "b", FALSE, "none"), GateEvent("connect", "connect", "b", FALSE, "none"),
   GateEvent("forged", "note", "b", FALSE, "signature"),
   GateEvent("zap", "zap", "b", FALSE, "receipt"), GateEvent("bad", "claim", "b", FALSE, "claim")}
MCSends == [i \in GateRequests |-> MCGateEvents]
MCRate == [paid |-> 2, follow |-> 0, unknown |-> 1]

\* A gift wrap and a profile that expire, a note to a group; filters for wraps,
\* a search, a profile by its author, and COUNTs of all and of the group.
ReadEvent(i, k, to, g, x) == [id |-> i, kind |-> k, to |-> to, group |-> g, expirations |-> x]
MCStored == {ReadEvent("w", "wrap", "x", "none", <<1>>), ReadEvent("n", "note", "y", "g", <<>>),
             ReadEvent("p", "profile", "y", "none", <<1>>)}
MCReadFilters ==
  {[NoFilter EXCEPT !.kinds = {"wrap"}, !.to = {"x", "y"}],
   [NoFilter EXCEPT !.to = {"y"}, !.search = TRUE],
   [NoFilter EXCEPT !.kinds = {"profile"}, !.lookup = TRUE],
   [NoFilter EXCEPT !.count = TRUE],
   [NoFilter EXCEPT !.groups = {"g"}, !.count = TRUE]}

--------------------------------------------------------------------------------
RequestsVars == <<part, WotVars, RankVars, ImportVars, BoxVars, GroupVars, OwnershipVars,
                  GateVars, ReadVars, AdminVars>>

\* A part that does not run rests in one of its initial states.
RequestsInit ==
  /\ part \in Parts
  /\ RankInit /\ GroupInit /\ AdminInit
  /\ WotInit /\ (part # "wot" => follows = {})
  /\ ImportInit /\ (part # "import" => multi)
  /\ BoxInit /\ (part # "box" => single)
  /\ OwnershipInit /\ (part # "ownership" => patterned)
  /\ GateInit /\ (part \notin {"gate", "gates"} => authWrite /\ authed = NoAuthor /\ tier = {})
  /\ ReadInit /\ (part # "read" => readAuth /\ wrapsGated /\ private = {} /\ readerKey = NoReader)

\* "gate" is one event of any sort; "gates" is a claim, and next to it a rival's
\* or an ephemeral event of the same author, one tick and a
\* deletion of the claim.
InScope ==
  \/ part = "gate" /\ gate'[2] = "idle"
  \/ /\ part = "gates" /\ ticks_' <= 1 /\ tombs' \subseteq {Claim.id}
     /\ gate'[1] # "idle" => sent'[1] = Claim
     /\ gate'[2] # "idle" => sent'[2] \in {Rival, Collab}

\* Each part steps when it is the one that runs.
RequestsNext ==
  /\ UNCHANGED part
  /\ IF part = "wot" THEN WotNext ELSE UNCHANGED WotVars
  /\ IF part = "rank" THEN RankNext ELSE UNCHANGED RankVars
  /\ IF part = "import" THEN ImportNext ELSE UNCHANGED ImportVars
  /\ IF part = "box" THEN BoxNext ELSE UNCHANGED BoxVars
  /\ IF part = "group" THEN GroupNext ELSE UNCHANGED GroupVars
  /\ IF part = "ownership" THEN OwnershipNext ELSE UNCHANGED OwnershipVars
  /\ IF part \in {"gate", "gates"} THEN GateNext /\ InScope ELSE UNCHANGED GateVars
  /\ IF part = "read" THEN ReadNext ELSE UNCHANGED ReadVars
  /\ IF part = "admin" THEN AdminNext ELSE UNCHANGED AdminVars

RequestsSpec == RequestsInit /\ [][RequestsNext]_RequestsVars

--------------------------------------------------------------------------------
\* Every part keeps its types; jobQueue never holds more than its capacity.
TypeOK ==
  /\ part \in Parts
  /\ CASE part = "wot" -> WotTypeOK [] part = "rank" -> RankTypeOK
       [] part = "import" -> ImportTypeOK [] part = "box" -> BoxTypeOK
       [] part = "group" -> GroupTypeOK [] part = "ownership" -> OwnershipTypeOK
       [] part \in {"gate", "gates"} -> GateTypeOK [] part = "read" -> ReadTypeOK
       [] part = "admin" -> AdminTypeOK

\* The level an author is given, by the walk (TrustIsRecent) or by PageRank
\* (RanksAreRecent), is one that the follow lists gave within the caches' time.
StandingIsRecent == TrustIsRecent /\ RanksAreRecent

\* Who is a member of a group, who owns it and how often an invite was used
\* (GroupViewsAgree, OwnerWasChosen, InviteUsesAreBounded).
GroupsHold == GroupViewsAgree /\ OwnerWasChosen /\ InviteUsesAreBounded
================================================================================
