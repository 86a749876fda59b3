------------------------------ MODULE GroupStore ------------------------------
(***************************************************************************)
(* NIP-29 groups as internal/groups (handler.go, store.go) keeps them: the *)
(* nip29_* tables and a copy of them in memory.  Every question is         *)
(* answered from the copy; every change goes first to a table and then, in *)
(* a second step, to the copy, and requests run concurrently.              *)
(* (main wires the gate of reject_metadata.go and relay29, not this store.)*)
(***************************************************************************)
EXTENDS Integers, FiniteSets

CONSTANTS GroupIds, Pubkeys, NoKey, Codes,
          GroupAdmins,      \* AdminPubkeys: who may create groups
          MaxGroupsPerUser,
          MaxUses,          \* of an invite
          GroupCallers,     \* requests under way at once
          MaxGroupCalls, MaxGroupFaults   \* bounds

ASSUME GroupAssumption ==
  /\ NoKey \notin Pubkeys /\ GroupAdmins \subseteq Pubkeys
  /\ "none" \notin GroupIds \union Codes /\ IsFiniteSet(GroupCallers)
  /\ MaxGroupsPerUser \in Nat \ {0} /\ MaxUses \in Nat \ {0}
  /\ MaxGroupCalls \in Nat /\ MaxGroupFaults \in Nat

VARIABLES
  groupRows,   \* nip29_groups: [by, privacy], or NoRow
  memberRows,  \* nip29_members: [GroupIds -> [Pubkeys -> role, "" or absent]]
  inviteRows,  \* nip29_invites: [Codes -> [group, uses, expired] or NoInvite]
  groupCache,  \* Store.cache: the group and its Members and Admins, or NoRow
  groupCall,   \* what each request is doing
  mayDiffer,   \* history: <<group, pubkey>> on which table and copy may disagree
  raced,       \* history: codes that two requests found usable at the same time
  groupCalls, groupFaults

GroupVars == <<groupRows, memberRows, inviteRows, groupCache, groupCall, mayDiffer, raced,
               groupCalls, groupFaults>>
tables == <<groupRows, memberRows, inviteRows>>
groupHistory == <<mayDiffer, raced>>

MemberRole == {"absent", "", "admin"}
Privacies == {"open", "restricted", "closed", ""}   \* "" after an edit without the tag
CanJoin(privacy) == privacy # "closed"
NoRow == [by |-> NoKey, privacy |-> ""]
NoGroupCopy == [known |-> FALSE, privacy |-> "", members |-> {}, admins |-> {}]
NoInvite == [group |-> "none", uses |-> 0, expired |-> FALSE]
Nobodies == [p \in Pubkeys |-> "absent"]
NoCall == [at |-> "idle", op |-> "none", group |-> "none", actor |-> NoKey, who |-> NoKey,
           role |-> "", privacy |-> "", code |-> "none"]

\* loadCache.
CopyOf(rows, members) ==
  [g \in GroupIds |->
     IF rows[g] = NoRow THEN NoGroupCopy
     ELSE [known |-> TRUE, privacy |-> rows[g].privacy,
           members |-> {p \in Pubkeys : members[g][p] # "absent"},
           admins |-> {p \in Pubkeys : members[g][p] = "admin"}]]

GroupInit ==
  /\ groupRows = [g \in GroupIds |-> NoRow]
  /\ memberRows = [g \in GroupIds |-> Nobodies]
  /\ inviteRows = [k \in Codes |-> NoInvite]
  /\ groupCache = CopyOf(groupRows, memberRows)
  /\ groupCall = [c \in GroupCallers |-> NoCall]
  /\ mayDiffer = {} /\ raced = {} /\ groupCalls = 0 /\ groupFaults = 0

IsAdmin(g, p) == p \in groupCache[g].admins
Moderation == {"delete", "add", "remove", "edit", "invite"}

--------------------------------------------------------------------------------
(* RejectEvent: the author is authenticated; the copy decides. *)

Admitted(op, g, actor) ==
  IF op = "create" THEN actor \in GroupAdmins
  ELSE /\ groupCache[g].known
       /\ op \in Moderation => IsAdmin(g, actor)
       /\ op = "join" => CanJoin(groupCache[g].privacy)

\* The event is accepted and saved; OnEventSaved runs later.
Accept(c, op, g, actor, who, role, privacy, code) ==
  /\ groupCall[c] = NoCall /\ groupCalls < MaxGroupCalls
  /\ Admitted(op, g, actor)
  /\ groupCalls' = groupCalls + 1
  /\ groupCall' = [groupCall EXCEPT ![c] =
       [at |-> "saved", op |-> op, group |-> g, actor |-> actor, who |-> who,
        role |-> role, privacy |-> privacy, code |-> code]]
  /\ UNCHANGED <<tables, groupCache, groupHistory, groupFaults>>

Is(c, op, stage) == groupCall[c].op = op /\ groupCall[c].at = stage
Goes(c, stage) == groupCall' = [groupCall EXCEPT ![c].at = stage]
Ends(c) == groupCall' = [groupCall EXCEPT ![c] = NoCall]
Fails(c) ==
  /\ groupFaults < MaxGroupFaults /\ groupFaults' = groupFaults + 1
  /\ Ends(c)

\* Two requests between table and copy for the same pair may end in either
\* order.
Touches(call, g, p) == call.at = "copy" /\ call.group = g /\ (call.op \in {"create", "delete"} \/ call.who = p)
Overlapping(c, g, P) == {<<g, p>> : p \in {q \in P : \E d \in GroupCallers \ {c} : Touches(groupCall[d], g, q)}}

--------------------------------------------------------------------------------
(* CreateGroup: count, insert the group under a new id, insert the creator,  *)
(* copy.                                                                     *)

CountGroups(c) ==
  /\ Is(c, "create", "saved")
  /\ IF Cardinality({g \in GroupIds : groupRows[g].by = groupCall[c].actor}) >= MaxGroupsPerUser
     THEN Ends(c) ELSE Goes(c, "insert")
  /\ UNCHANGED <<tables, groupCache, groupHistory, groupCalls, groupFaults>>

InsertGroup(c, g) ==
  /\ Is(c, "create", "insert")
  /\ groupRows[g] = NoRow /\ ~groupCache[g].known
  /\ \A d \in GroupCallers : groupCall[d].group # g   \* generateID: never used before
  /\ groupRows' = [groupRows EXCEPT ![g] = [by |-> groupCall[c].actor, privacy |-> groupCall[c].privacy]]
  /\ groupCall' = [groupCall EXCEPT ![c].at = "creator", ![c].group = g]
  /\ UNCHANGED <<memberRows, inviteRows, groupCache, groupHistory, groupCalls, groupFaults>>

InsertCreator(c) ==
  LET g == groupCall[c].group IN
  /\ Is(c, "create", "creator")
  /\ \/ /\ memberRows' = [memberRows EXCEPT ![g][groupCall[c].actor] = "admin"]
        /\ Goes(c, "copy")
        /\ UNCHANGED <<mayDiffer, groupFaults>>
     \/ /\ Fails(c)    \* a group nobody belongs to, and the copy lacks
        /\ mayDiffer' = mayDiffer \union ({g} \X Pubkeys)
        /\ UNCHANGED memberRows
  /\ UNCHANGED <<groupRows, inviteRows, groupCache, raced, groupCalls>>

CopyGroup(c) ==
  LET g == groupCall[c].group IN
  /\ Is(c, "create", "copy")
  /\ groupCache' = [groupCache EXCEPT ![g] =
       [known |-> TRUE, privacy |-> groupCall[c].privacy,
        members |-> {groupCall[c].actor}, admins |-> {groupCall[c].actor}]]
  /\ Ends(c)
  /\ UNCHANGED <<tables, groupHistory, groupCalls, groupFaults>>

--------------------------------------------------------------------------------
(* DeleteGroup, UpdateGroupMetadata *)

DeleteRow(c) ==
  LET g == groupCall[c].group IN
  /\ Is(c, "delete", "saved")
  /\ IF groupRows[g] = NoRow THEN Ends(c) ELSE Goes(c, "copy")
  /\ groupRows' = [groupRows EXCEPT ![g] = NoRow]
  /\ memberRows' = [memberRows EXCEPT ![g] = Nobodies]   \* ON DELETE CASCADE
  /\ inviteRows' = [k \in Codes |-> IF inviteRows[k].group = g THEN NoInvite ELSE inviteRows[k]]
  /\ mayDiffer' = mayDiffer \union Overlapping(c, g, Pubkeys)
  /\ UNCHANGED <<groupCache, raced, groupCalls, groupFaults>>

DeleteCopy(c) ==
  /\ Is(c, "delete", "copy")
  /\ groupCache' = [groupCache EXCEPT ![groupCall[c].group] = NoGroupCopy]
  /\ Ends(c)
  /\ UNCHANGED <<tables, groupHistory, groupCalls, groupFaults>>

UpdateRow(c) ==
  LET g == groupCall[c].group IN
  /\ Is(c, "edit", "saved")
  /\ groupRows' = IF groupRows[g] = NoRow THEN groupRows
                  ELSE [groupRows EXCEPT ![g].privacy = groupCall[c].privacy]
  /\ Goes(c, "copy")
  /\ UNCHANGED <<memberRows, inviteRows, groupCache, groupHistory, groupCalls, groupFaults>>

UpdateCopy(c) ==
  LET g == groupCall[c].group IN
  /\ Is(c, "edit", "copy")
  /\ groupCache' = IF ~groupCache[g].known THEN groupCache
                   ELSE [groupCache EXCEPT ![g].privacy = groupCall[c].privacy]
  /\ Ends(c)
  /\ UNCHANGED <<tables, groupHistory, groupCalls, groupFaults>>

--------------------------------------------------------------------------------
(* AddMember, for an add-user event, a join request and an invite *)

\* A member who holds a role and is added without one keeps it in the copy only.
AddRow(c) ==
  LET g == groupCall[c].group  p == groupCall[c].who IN
  /\ \/ Is(c, "add", "saved")
     \/ Is(c, "join", "saved") /\ groupCall[c].code = "none"
          /\ groupCache[g].known /\ groupCache[g].privacy \in {"open", "restricted"}
     \/ Is(c, "join", "used")
  /\ IF groupRows[g] = NoRow   \* the foreign key
     THEN Ends(c) /\ UNCHANGED <<memberRows, mayDiffer>>
     ELSE /\ memberRows' = [memberRows EXCEPT ![g][p] = groupCall[c].role]
          /\ mayDiffer' = mayDiffer \union Overlapping(c, g, {p})
               \union {<<g, q>> : q \in {p} \intersect {q \in groupCache[g].admins : groupCall[c].role = ""}}
          /\ Goes(c, "copy")
  /\ UNCHANGED <<groupRows, inviteRows, groupCache, raced, groupCalls, groupFaults>>

AddCopy(c) ==
  LET g == groupCall[c].group  p == groupCall[c].who IN
  /\ groupCall[c].op \in {"add", "join"} /\ groupCall[c].at = "copy"
  /\ groupCache' = IF ~groupCache[g].known THEN groupCache
       ELSE [groupCache EXCEPT ![g].members = @ \union {p},
                               ![g].admins = IF groupCall[c].role # "" THEN @ \union {p} ELSE @]
  /\ Ends(c)
  /\ UNCHANGED <<tables, groupHistory, groupCalls, groupFaults>>

\* The group went away or does not take requests any more.
JoinIgnored(c) ==
  LET g == groupCall[c].group IN
  /\ Is(c, "join", "saved") /\ groupCall[c].code = "none"
  /\ ~groupCache[g].known \/ groupCache[g].privacy \notin {"open", "restricted"}
  /\ Ends(c)
  /\ UNCHANGED <<tables, groupCache, groupHistory, groupCalls, groupFaults>>

--------------------------------------------------------------------------------
(* RemoveMember, for a remove-user event and a leave request *)

RemoveRow(c) ==
  LET g == groupCall[c].group  p == groupCall[c].who IN
  /\ groupCall[c].op \in {"remove", "leave"} /\ groupCall[c].at = "saved"
  /\ IF memberRows[g][p] = "absent"    \* ErrNotMember
     THEN Ends(c) /\ UNCHANGED <<memberRows, mayDiffer>>
     ELSE /\ memberRows' = [memberRows EXCEPT ![g][p] = "absent"]
          /\ mayDiffer' = mayDiffer \union Overlapping(c, g, {p})
          /\ Goes(c, "copy")
  /\ UNCHANGED <<groupRows, inviteRows, groupCache, raced, groupCalls, groupFaults>>

MutRemoveCopy(c) ==
  /\ groupCall[c].op \in {"remove", "leave"} /\ groupCall[c].at = "copy"
  /\ groupCache' = [groupCache EXCEPT ![groupCall[c].group].members = @ \ {groupCall[c].who}]
  /\ Ends(c)
  /\ UNCHANGED <<tables, groupHistory, groupCalls, groupFaults>>
RemoveCopy(c) ==
  LET g == groupCall[c].group  p == groupCall[c].who IN
  /\ groupCall[c].op \in {"remove", "leave"} /\ groupCall[c].at = "copy"
  /\ groupCache' = [groupCache EXCEPT ![g].members = @ \ {p}, ![g].admins = @ \ {p}]
  /\ Ends(c)
  /\ UNCHANGED <<tables, groupHistory, groupCalls, groupFaults>>

--------------------------------------------------------------------------------
(* Invites *)

CreateInvite(c, k) ==
  LET g == groupCall[c].group IN
  /\ Is(c, "invite", "saved") /\ inviteRows[k] = NoInvite
  /\ \A d \in GroupCallers : groupCall[d].code # k    \* a fresh code
  /\ inviteRows' = IF groupRows[g] = NoRow THEN inviteRows   \* the foreign key
                   ELSE [inviteRows EXCEPT ![k] = [NoInvite EXCEPT !.group = g]]
  /\ Ends(c)
  /\ UNCHANGED <<groupRows, memberRows, groupCache, groupHistory, groupCalls, groupFaults>>

InviteExpires(k) ==
  /\ inviteRows[k] # NoInvite /\ ~inviteRows[k].expired
  /\ inviteRows' = [inviteRows EXCEPT ![k].expired = TRUE]
  /\ UNCHANGED <<groupRows, memberRows, groupCache, groupCall, groupHistory, groupCalls, groupFaults>>

\* UseInvite: read and check; count the use; then AddMember to the invite's own
\* group, whichever group the request named.
Usable(k) == inviteRows[k] # NoInvite /\ ~inviteRows[k].expired /\ inviteRows[k].uses < MaxUses
CheckInvite(c) ==
  LET k == groupCall[c].code IN
  /\ Is(c, "join", "saved") /\ k # "none"
  /\ groupCall' = IF Usable(k)
                  THEN [groupCall EXCEPT ![c].at = "checked", ![c].group = inviteRows[k].group]
                  ELSE [groupCall EXCEPT ![c] = NoCall]
  /\ raced' = IF Usable(k) /\ \E d \in GroupCallers : groupCall[d].code = k /\ groupCall[d].at = "checked"
              THEN raced \union {k} ELSE raced
  /\ UNCHANGED <<tables, groupCache, mayDiffer, groupCalls, groupFaults>>

CountUse(c) ==
  LET k == groupCall[c].code IN
  /\ Is(c, "join", "checked")
  /\ inviteRows' = IF inviteRows[k] = NoInvite THEN inviteRows
                   ELSE [inviteRows EXCEPT ![k].uses = @ + 1]
  /\ Goes(c, "used")
  /\ UNCHANGED <<groupRows, memberRows, groupCache, groupHistory, groupCalls, groupFaults>>

\* Any statement may fail.
StatementFails(c) ==
  /\ groupCall[c].at \in {"saved", "insert", "checked", "used"}
  /\ Fails(c)
  /\ UNCHANGED <<tables, groupCache, groupHistory, groupCalls>>

RestartGroups ==
  /\ groupFaults < MaxGroupFaults /\ groupFaults' = groupFaults + 1
  /\ groupCache' = CopyOf(groupRows, memberRows)
  /\ groupCall' = [c \in GroupCallers |-> NoCall]
  /\ mayDiffer' = {}
  /\ UNCHANGED <<tables, raced, groupCalls>>

GroupNext ==
  \/ \E c \in GroupCallers, p \in Pubkeys, g \in GroupIds :
       \/ Accept(c, "create", "none", p, p, "admin", "restricted", "none")
       \/ Accept(c, "delete", g, p, NoKey, "", "", "none")
       \/ \E q \in Pubkeys, role \in {"", "admin"} : Accept(c, "add", g, p, q, role, "", "none")
       \/ \E q \in Pubkeys : Accept(c, "remove", g, p, q, "", "", "none")
       \/ \E v \in {"closed", ""} : Accept(c, "edit", g, p, NoKey, "", v, "none")
       \/ Accept(c, "invite", g, p, NoKey, "", "", "none")
       \/ \E k \in Codes \union {"none"} : Accept(c, "join", g, p, p, "", "", k)
       \/ Accept(c, "leave", g, p, p, "", "", "none")
  \/ \E c \in GroupCallers :
       \/ CountGroups(c) \/ InsertCreator(c) \/ CopyGroup(c)
       \/ DeleteRow(c) \/ DeleteCopy(c) \/ UpdateRow(c) \/ UpdateCopy(c)
       \/ AddRow(c) \/ AddCopy(c) \/ JoinIgnored(c) \/ RemoveRow(c) \/ RemoveCopy(c)
       \/ CheckInvite(c) \/ CountUse(c) \/ StatementFails(c)
       \/ \E g \in GroupIds : InsertGroup(c, g)
       \/ \E k \in Codes : CreateInvite(c, k)
  \/ \E k \in Codes : InviteExpires(k)
  \/ RestartGroups

GroupSpec == GroupInit /\ [][GroupNext]_GroupVars

--------------------------------------------------------------------------------
CopyStates == [known : BOOLEAN, privacy : Privacies, members : SUBSET Pubkeys,
               admins : SUBSET Pubkeys]

GroupTypeOK ==
  /\ \A g \in GroupIds :
       /\ groupRows[g].by \in Pubkeys \union {NoKey} /\ groupRows[g].privacy \in Privacies
       /\ memberRows[g] \in [Pubkeys -> MemberRole]
       /\ groupCache[g] \in CopyStates
  /\ \A k \in Codes : inviteRows[k].group \in GroupIds \union {"none"} /\ inviteRows[k].uses \in Nat
  /\ \A c \in GroupCallers :
       /\ groupCall[c].at \in {"idle", "saved", "insert", "creator", "copy", "checked", "used"}
       /\ groupCall[c].actor \in Pubkeys \union {NoKey}
       /\ groupCall[c].group \in GroupIds \union {"none"}
  /\ mayDiffer \subseteq GroupIds \X Pubkeys /\ raced \subseteq Codes
  /\ groupCalls \in 0..MaxGroupCalls /\ groupFaults \in 0..MaxGroupFaults

\* What the gates are told of a member, by the copy, is what the tables hold and
\* a restart will load, once no request is between the two (store.go:286, 320);
\* except where two requests for the same member overlapped, a member with a
\* role was added without one, or the creator's row could not be written.
CopyAgrees(g, p) ==
  /\ (p \in groupCache[g].members) = (memberRows[g][p] # "absent")
  /\ (p \in groupCache[g].admins) = (memberRows[g][p] = "admin")
Settled(g, p) == \A c \in GroupCallers :
  ~Touches(groupCall[c], g, p) /\ ~(groupCall[c].at = "creator" /\ groupCall[c].group = g)
GroupViewsAgree ==
  \A g \in GroupIds, p \in Pubkeys :
    Settled(g, p) /\ <<g, p>> \notin mayDiffer => CopyAgrees(g, p)

\* An invite is checked and counted in two steps (store.go:397, 412).  It is
\* used more than max_uses times only when two requests found it usable at the
\* same time, and then by no more than the others under way.
InviteUsesAreBounded ==
  \A k \in Codes :
    inviteRows[k].uses > MaxUses =>
      k \in raced /\ inviteRows[k].uses < MaxUses + Cardinality(GroupCallers)
================================================================================
