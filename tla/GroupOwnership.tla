---------------------------- MODULE GroupOwnership ----------------------------
(***************************************************************************)
(* Who may publish the metadata of one group (internal/groups/resolve.go,  *)
(* reject_metadata.go): the owner that the stored events themselves name,  *)
(* by a chain of transfers, the keys the owner lists for the member list,  *)
(* and the relay.  A publisher is checked first and the event stored       *)
(* later; another may be stored in between.                                *)
(***************************************************************************)
EXTENDS Integers, FiniteSets, FiniteSetsExt

CONSTANTS Writers,      \* keys that publish
          RelayKey, PrefixOwner, NoOwner,
          MaxTransferDepth,
          MaxCreatedAt, MaxPublications  \* bounds

ASSUME OwnershipAssumption ==
  /\ IsFiniteSet(Writers) /\ RelayKey \in Writers /\ PrefixOwner \in Writers /\ NoOwner \notin Writers
  /\ MaxTransferDepth \in Nat /\ MaxCreatedAt \in Nat /\ MaxPublications \in Nat

VARIABLES
  patterned,   \* the group's id has the prefix of PrefixOwner in it
  metadata,    \* stored kind 39000 of each author: [t, to], or NoMetadata
  adminList,   \* stored kind 39001 of each author: [t, keys] that may add users
  admitted,    \* what each author may store next, or NotAdmitted
  chosen,      \* history: who may own the group, by their predecessors' word
  publications

OwnershipVars == <<patterned, metadata, adminList, admitted, chosen, publications>>

CreatedAt == 1..MaxCreatedAt
NoMetadata == [t |-> 0, to |-> NoOwner]
NoAdminList == [t |-> 0, keys |-> {}]
NotAdmitted == [kind |-> "none", t |-> 0, to |-> NoOwner, keys |-> {}]

OwnershipInit ==
  /\ patterned \in BOOLEAN
  /\ metadata = [w \in Writers |-> NoMetadata]
  /\ adminList = [w \in Writers |-> NoAdminList]
  /\ admitted = [w \in Writers |-> NotAdmitted] /\ publications = 0
  /\ chosen = IF patterned THEN {RelayKey, PrefixOwner} ELSE {RelayKey}

--------------------------------------------------------------------------------
(* ResolveOwner *)

\* walkTransferChain: follow "transfer-to" until there is none, it returns to a key
\* already visited, or maxTransferDepth keys have been passed.  An event is replaced
\* by its author's next, so latestEventFrom is the one stored.
Trails == (SUBSET Writers) \X Writers   \* the keys visited, and the last of them
WalkEnds(trail) ==
  \/ metadata[trail[2]].to \in {NoOwner} \union trail[1]
  \/ Cardinality(trail[1]) > MaxTransferDepth
Walked[trail \in Trails] ==
  LET successor == metadata[trail[2]].to
  IN IF WalkEnds(trail) THEN trail[2] ELSE Walked[<<trail[1] \union {successor}, successor>>]
WalkTransferChain(start) == Walked[<<{start}, start>>]

Published == {w \in Writers : metadata[w] # NoMetadata}
\* Ties are broken by the id; here by a fixed order of the authors.
EarliestAuthor == CHOOSE w \in Published : \A v \in Published : metadata[w].t <= metadata[v].t

ResolveOwner ==
  IF patterned
  THEN IF PrefixOwner \in Published THEN WalkTransferChain(PrefixOwner) ELSE PrefixOwner
  ELSE IF Published = {} THEN NoOwner ELSE WalkTransferChain(EarliestAuthor)

IsDelegated(w) == ResolveOwner # NoOwner /\ w \in adminList[ResolveOwner].keys

\* RejectExternalMetadata and IsAuthorizedMetadataWriter.
IsAuthorized(w, kind) ==
  \/ w = RelayKey
  \/ w = ResolveOwner
  \/ kind = "members" /\ ~(patterned /\ PrefixOwner \notin Published) /\ IsDelegated(w)

--------------------------------------------------------------------------------
Admit(w, ev) ==
  /\ admitted[w] = NotAdmitted /\ publications < MaxPublications
  /\ IsAuthorized(w, ev.kind)
  /\ publications' = publications + 1
  /\ admitted' = [admitted EXCEPT ![w] = ev]
  /\ UNCHANGED <<patterned, metadata, adminList, chosen>>

\* The store keeps one event per author and kind, the newest.
SaveMetadata(w) ==
  /\ admitted[w].kind = "metadata"
  /\ IF admitted[w].t > metadata[w].t
     THEN /\ metadata' = [metadata EXCEPT ![w] = [t |-> admitted[w].t, to |-> admitted[w].to]]
          /\ chosen' = IF w \in chosen THEN chosen \union ({admitted[w].to} \ {NoOwner}) ELSE chosen
     ELSE UNCHANGED <<metadata, chosen>>
  /\ admitted' = [admitted EXCEPT ![w] = NotAdmitted]
  /\ UNCHANGED <<patterned, adminList, publications>>

\* A member list (kind 39002) changes nothing here.
SaveList(w) ==
  /\ admitted[w].kind \in {"admins", "members"}
  /\ adminList' = IF admitted[w].kind = "admins" /\ admitted[w].t > adminList[w].t
                  THEN [adminList EXCEPT ![w] = [t |-> admitted[w].t, keys |-> admitted[w].keys]]
                  ELSE adminList
  /\ admitted' = [admitted EXCEPT ![w] = NotAdmitted]
  /\ UNCHANGED <<patterned, metadata, chosen, publications>>

\* The author deletes an event of theirs (kind 5), or it expires.
DeleteMetadata(w) ==
  /\ metadata[w] # NoMetadata
  /\ metadata' = [metadata EXCEPT ![w] = NoMetadata]
  /\ UNCHANGED <<patterned, adminList, admitted, chosen, publications>>

OwnershipNext == \E w \in Writers :
  \/ SaveMetadata(w) \/ SaveList(w) \/ DeleteMetadata(w)
  \/ \E t \in CreatedAt :
       \/ \E to \in Writers \union {NoOwner} :
            Admit(w, [kind |-> "metadata", t |-> t, to |-> to, keys |-> {}])
       \/ \E v \in Writers : Admit(w, [kind |-> "admins", t |-> t, to |-> NoOwner, keys |-> {v}])
       \/ Admit(w, [kind |-> "members", t |-> t, to |-> NoOwner, keys |-> {}])

OwnershipSpec == OwnershipInit /\ [][OwnershipNext]_OwnershipVars

--------------------------------------------------------------------------------
StoredMetadata == [t : 0..MaxCreatedAt, to : Writers \union {NoOwner}]
StoredLists == [t : 0..MaxCreatedAt, keys : SUBSET Writers]
Publications == [kind : {"none", "metadata", "admins", "members"}, t : 0..MaxCreatedAt,
                 to : Writers \union {NoOwner}, keys : SUBSET Writers]

OwnershipTypeOK ==
  /\ patterned \in BOOLEAN
  /\ metadata \in [Writers -> StoredMetadata] /\ adminList \in [Writers -> StoredLists]
  /\ admitted \in [Writers -> Publications]
  /\ chosen \subseteq Writers /\ publications \in 0..MaxPublications

\* Whatever is stored late, replaced, deleted or back-dated, the owner that the
\* events resolve to (resolve.go:53) is one whom the first owner, or somebody so
\* chosen, has named: a key that may only edit the member list cannot become it.
OwnerWasChosen == ResolveOwner \in chosen \union {NoOwner}
================================================================================
