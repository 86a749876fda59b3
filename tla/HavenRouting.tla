------------------------------ MODULE HavenRouting ------------------------------
(***************************************************************************)
(* The boxes (internal/haven: router.go, handlers.go): how an event or a   *)
(* filter is routed to a user's private, chat, inbox or outbox box, and    *)
(* the checks its owner's settings and lists (internal/wot, the user       *)
(* settings) put it to.  With one owner ("single") the rules are fixed;    *)
(* with many, they are rows that change while a request is being checked,  *)
(* and a lookup that fails lets the request go on.                         *)
(***************************************************************************)
EXTENDS Integers, Sequences, FiniteSets, SequencesExt

CONSTANTS BoxUsers, Nobody,
          SingleOwner,    \* OwnerPubkey in single-owner mode
          Events,         \* events that arrive, see BoxEvents
          Filters,        \* filters that arrive, see BoxFilters
          MaxRuleChanges, MaxLookupFaults   \* bounds

BoxKinds == {"private", "chat", "reaction", "note"}
BoxEvents == [kind : BoxKinds, author : BoxUsers, tags : Seq(BoxUsers),
              ref : BoxUsers \union {Nobody}]
BoxFilters == [kinds : SUBSET {"private", "chat", "public"}, authors : Seq(BoxUsers),
               tags : Seq(BoxUsers)]

ASSUME BoxAssumption ==
  /\ Nobody \notin BoxUsers /\ SingleOwner \in BoxUsers
  /\ Events \subseteq BoxEvents /\ Filters \subseteq BoxFilters
  /\ MaxRuleChanges \in Nat /\ MaxLookupFaults \in Nat

VARIABLES
  single,    \* single-owner mode
  boxes,     \* members whose tier has HAVEN boxes
  rule,      \* haven_user_settings: "none", or what the owner lets others do
  blocks,    \* wot_user_settings: <<owner, blocked sender>>
  trusts,    \* wot_user_settings: <<owner, trusted sender>>
  at,        \* how far the request is
  request,   \* the event or filter, and who is authenticated
  todo,      \* boxes still to be checked
  passed,    \* boxes that let the request pass
  allowed,   \* history: <<"inbox" or "outbox", owner>> open at some moment since
  unblocked, \* history: owners who at some moment since did not block the author
  changed, faulted

BoxVars == <<single, boxes, rule, blocks, trusts, at, request, todo, passed,
             allowed, unblocked, changed, faulted>>
rows == <<single, boxes, rule, blocks, trusts>>

NoRequest == [write |-> FALSE, event |-> [kind |-> "none"], authed |-> Nobody]
Route(box, owner) == [box |-> box, owner |-> owner]
Unrouted == Route("unknown", Nobody)

\* UserSettings as far as others are concerned; no row means both are open.
Rules == {"none", "open", "inboxClosed", "outboxClosed"}
Open(ru) == {<<"inbox", u>> : u \in {v \in BoxUsers : ru[v] # "inboxClosed"}} \union
            {<<"outbox", u>> : u \in {v \in BoxUsers : ru[v] # "outboxClosed"}}
NotBlocking(bl, author) == {u \in BoxUsers : <<u, author>> \notin bl \/ author = u}

BoxInit ==
  /\ single \in BOOLEAN
  /\ boxes = {SingleOwner} /\ rule = [u \in BoxUsers |-> "none"]
  /\ blocks = {} /\ trusts = {}
  /\ at = "idle" /\ request = NoRequest /\ todo = <<>> /\ passed = {}
  /\ allowed = {} /\ unblocked = {} /\ changed = 0 /\ faulted = 0

--------------------------------------------------------------------------------
(* Router *)

\* RouteEventForUser, when the lookups of the users in failing fail.
FirstMember(tags, ok) == SelectInSeq(tags, LAMBDA u : u \in ok)
RouteEventForUser(ev, authed, failing) ==
  LET ok == boxes \ failing
      own == ev.author = authed /\ authed \in ok
      tagged == FirstMember(ev.tags, ok)
  IN CASE ev.kind = "private" -> IF own THEN Route("private", authed) ELSE Unrouted
       [] ev.kind = "chat" -> Route("chat", IF authed \in ok THEN authed ELSE Nobody)
       [] ev.kind \notin {"private", "chat"} /\ own -> Route("outbox", authed)
       [] ev.kind \notin {"private", "chat"} /\ ~own /\ tagged > 0 -> Route("inbox", ev.tags[tagged])
       [] ev.kind = "reaction" /\ ~own /\ tagged = 0 /\ ev.ref \in ok -> Route("inbox", ev.ref)
       [] OTHER -> Unrouted

\* RouteEvent: the same for the one owner, who need not be authenticated.
RouteEvent(ev) ==
  LET own == ev.author = SingleOwner
      addressed == SingleOwner \in Range(ev.tags)
                     \/ (ev.kind = "reaction" /\ ev.ref = SingleOwner)
      box == CASE ev.kind = "private" -> IF own THEN "private" ELSE "unknown"
               [] ev.kind = "chat" -> "chat"
               [] ev.kind \notin {"private", "chat"} ->
                    IF own THEN "outbox" ELSE IF addressed THEN "inbox" ELSE "unknown"
  IN Route(box, SingleOwner)

\* RouteFilter: the one owner's boxes that the kinds, authors and tags name.
RouteFilter(f, authed) ==
  LET named == (f.kinds \intersect {"private", "chat"})
               \union {b \in {"outbox"} : SingleOwner \in Range(f.authors)}
               \union {b \in {"inbox"} : SingleOwner \in Range(f.tags)}
      boxed == IF named # {} THEN named
               ELSE IF f.authors # <<>> THEN {}
               ELSE IF authed = SingleOwner THEN {"private", "chat", "inbox", "outbox"}
               ELSE {"outbox"}
  IN {Route(b, SingleOwner) : b \in boxed}

\* The members in a list of authors or tags, in its order.
MembersIn[lookup \in Seq(BoxUsers) \X (SUBSET BoxUsers)] ==
  LET users == lookup[1]  ok == lookup[2]
  IN IF users = <<>> THEN <<>>
     ELSE (IF Head(users) \in ok THEN <<Head(users)>> ELSE <<>>) \o MembersIn[<<Tail(users), ok>>]

\* RouteFilterForUser: outboxes of the authors, inboxes of the tagged, or else
\* the asker's own boxes.
RouteFilterForUser(f, authed, failing) ==
  LET ok == boxes \ failing
      authors == MembersIn[<<f.authors, ok>>]
      tagged == MembersIn[<<f.tags, ok>>]
      named == [i \in 1..Len(authors) |-> Route("outbox", authors[i])]
               \o [i \in 1..Len(tagged) |-> Route("inbox", tagged[i])]
  IN IF named # <<>> THEN named
     ELSE IF authed \in ok THEN <<Route("outbox", authed), Route("inbox", authed),
                                  Route("private", authed), Route("chat", authed)>>
     ELSE <<>>

\* CanAccessUserBox for somebody else's box, whose settings say ru.
CanAccessUserBox(r, authed, ru, write) ==
  \/ authed = r.owner /\ r.owner # Nobody
  \/ r.owner = Nobody /\ r.box = "chat" /\ authed # Nobody
  \/ r.owner # Nobody /\ CASE r.box = "outbox" -> ~write /\ ru # "outboxClosed"
                           [] r.box = "inbox" -> write /\ ru # "inboxClosed"
                           [] r.box = "chat" -> authed # Nobody
                           [] r.box \in {"private", "unknown"} -> FALSE

--------------------------------------------------------------------------------
(* A request *)

Receive(write, ev, authed) ==
  /\ at = "idle"
  /\ at' = "route"
  /\ request' = [write |-> write, event |-> ev, authed |-> authed]
  /\ todo' = <<>> /\ passed' = {}
  /\ allowed' = Open(rule)
  /\ unblocked' = IF write THEN NotBlocking(blocks, ev.author) ELSE {}
  /\ UNCHANGED <<rows, changed, faulted>>

\* A lookup that fails while the request is routed counts as "no member".
RouteForUsers ==
  /\ at = "route" /\ ~single
  /\ \E failing \in {{}} \union {F \in SUBSET BoxUsers : faulted < MaxLookupFaults} :
       /\ faulted' = IF failing = {} THEN faulted ELSE faulted + 1
       /\ todo' = IF request.write
                  THEN <<RouteEventForUser(request.event, request.authed, failing)>>
                  ELSE RouteFilterForUser(request.event, request.authed, failing)
  /\ at' = IF todo' = <<>> THEN "passed" ELSE IF todo'[1] = Unrouted THEN "refused" ELSE "access"
  /\ UNCHANGED <<rows, request, passed, allowed, unblocked, changed>>

\* RejectEvent and RejectFilter with one owner: nothing is looked up, and only
\* the refusals that the switch names are refusals.
WriteRefused(r, ev, authed) ==
  \/ r.box = "unknown"
  \/ r.box \in {"private", "outbox"} /\ authed # SingleOwner
  \/ r.box = "chat" /\ authed = Nobody   \* RequireAuthForChat
  \/ authed # Nobody /\ ev.author # authed
ReadRefused(r, authed) ==
  \/ r.box \in {"private", "inbox"} /\ authed # SingleOwner
  \/ r.box = "chat" /\ authed = Nobody

RouteForOwner ==
  /\ at = "route" /\ single
  /\ LET routed == IF request.write THEN {RouteEvent(request.event)}
                   ELSE RouteFilter(request.event, request.authed)
         refused == \E r \in routed : IF request.write
                      THEN WriteRefused(r, request.event, request.authed)
                      ELSE ReadRefused(r, request.authed)
     IN at' = (IF refused THEN "refused" ELSE "passed") /\ passed' = (IF refused THEN {} ELSE routed)
  /\ UNCHANGED <<rows, request, todo, allowed, unblocked, changed, faulted>>

\* CanAccessUserBox reads the owner's settings; on an error the default holds.
CheckAccess ==
  /\ at = "access"
  /\ LET r == Head(todo)
         ok(ru) == CanAccessUserBox(r, request.authed, ru, request.write)
         now == IF r.owner = Nobody THEN "none" ELSE rule[r.owner]
     IN \/ /\ at' = IF ok(now) THEN "lists" ELSE "reason"
           /\ UNCHANGED faulted
        \/ /\ faulted < MaxLookupFaults /\ faulted' = faulted + 1
           /\ at' = IF ok("none") THEN "lists" ELSE "reason"
  /\ UNCHANGED <<rows, request, todo, passed, allowed, unblocked, changed>>

\* Why it may not: the settings are read once more, and a box that has been
\* opened meanwhile, or an error, lets the request go on.
Closed(r) == IF request.write THEN r.box = "inbox" /\ rule[r.owner] = "inboxClosed"
             ELSE r.box = "outbox" /\ rule[r.owner] = "outboxClosed"
\* Slip: the settings are asked about any owned box.
MutRereadApplies(r) == r.owner # Nobody
RereadApplies(r) == r.owner # Nobody /\ r.box = (IF request.write THEN "inbox" ELSE "outbox")
ExplainRefusal ==
  /\ at = "reason"
  /\ \/ /\ at' = IF RereadApplies(Head(todo)) /\ ~Closed(Head(todo)) THEN "lists" ELSE "refused"
        /\ UNCHANGED faulted
     \/ /\ RereadApplies(Head(todo)) /\ faulted < MaxLookupFaults
        /\ faulted' = faulted + 1 /\ at' = "lists"
  /\ UNCHANGED <<rows, request, todo, passed, allowed, unblocked, changed>>

\* ShouldAllowToInbox, for an event to an owned inbox: blocked, then trusted.
\* Then the author must be the one who is authenticated.
Admits == request.authed = Nobody \/ request.event.author = request.authed
CheckLists ==
  /\ at = "lists" /\ request.write
  /\ LET r == Head(todo)
         listed == r.box = "inbox" /\ <<r.owner, request.event.author>> \in blocks
         end == IF Admits THEN "passed" ELSE "refused"
     IN \/ /\ at' = (IF listed THEN "refused" ELSE end)
           /\ passed' = (IF at' = "passed" THEN {r} ELSE {})
           /\ UNCHANGED faulted
        \/ /\ r.box = "inbox" /\ faulted < MaxLookupFaults
           /\ faulted' = faulted + 1
           /\ at' = end /\ passed' = (IF end = "passed" THEN {r} ELSE {})
  /\ UNCHANGED <<rows, request, todo, allowed, unblocked, changed>>

NextBox ==
  /\ at = "lists" /\ ~request.write
  /\ passed' = passed \union {Head(todo)}
  /\ todo' = Tail(todo)
  /\ at' = IF Tail(todo) = <<>> THEN "passed" ELSE "access"
  /\ UNCHANGED <<rows, request, allowed, unblocked, changed, faulted>>

Reply ==
  /\ at \in {"passed", "refused"}
  /\ at' = "idle" /\ request' = NoRequest /\ todo' = <<>> /\ passed' = {}
  /\ allowed' = {} /\ unblocked' = {}
  /\ UNCHANGED <<rows, changed, faulted>>

--------------------------------------------------------------------------------
(* What changes meanwhile, in many-user mode *)

Changes ==
  /\ ~single /\ changed < MaxRuleChanges /\ changed' = changed + 1
  /\ UNCHANGED <<single, at, request, todo, passed, faulted>>

\* The settings watchers: a settings event replaces the whole row.
SaveHavenSettings(u, ru) ==
  /\ Changes
  /\ rule' = [rule EXCEPT ![u] = ru]
  /\ allowed' = IF at = "idle" THEN {} ELSE allowed \union Open(rule')
  /\ UNCHANGED <<boxes, blocks, trusts, unblocked>>

SaveWotSettings(u, blocked, trusted) ==
  /\ Changes
  /\ blocks' = {b \in blocks : b[1] # u} \union ({u} \X blocked)
  /\ trusts' = {t \in trusts : t[1] # u} \union ({u} \X trusted)
  /\ unblocked' = IF at = "idle" \/ ~request.write THEN {}
                  ELSE unblocked \union NotBlocking(blocks', request.event.author)
  /\ UNCHANGED <<boxes, rule, allowed>>

\* A tier is bought or lapses.
TierChanges(u) ==
  /\ Changes
  /\ boxes' = IF u \in boxes THEN boxes \ {u} ELSE boxes \union {u}
  /\ UNCHANGED <<rule, blocks, trusts, allowed, unblocked>>

BoxNext ==
  \/ \E ev \in Events, authed \in BoxUsers \union {Nobody} : Receive(TRUE, ev, authed)
  \/ \E f \in Filters, authed \in BoxUsers \union {Nobody} : Receive(FALSE, f, authed)
  \/ RouteForUsers \/ RouteForOwner \/ CheckAccess \/ ExplainRefusal
  \/ CheckLists \/ NextBox \/ Reply
  \/ \E u \in BoxUsers :
       \/ TierChanges(u)
       \/ \E ru \in {"open", "inboxClosed", "outboxClosed"} : SaveHavenSettings(u, ru)
       \/ \E v \in BoxUsers : SaveWotSettings(u, {v}, {}) \/ SaveWotSettings(u, {}, {v})

BoxSpec == BoxInit /\ [][BoxNext]_BoxVars

--------------------------------------------------------------------------------
Routes == [box : {"private", "chat", "inbox", "outbox", "unknown"}, owner : BoxUsers \union {Nobody}]

BoxTypeOK ==
  /\ single \in BOOLEAN /\ boxes \subseteq BoxUsers
  /\ rule \in [BoxUsers -> Rules]
  /\ blocks \subseteq BoxUsers \X BoxUsers /\ trusts \subseteq BoxUsers \X BoxUsers
  /\ at \in {"idle", "route", "access", "reason", "lists", "passed", "refused"}
  /\ request = NoRequest \/ (request.event \in Events \union Filters)
  /\ todo \in Seq(Routes) /\ passed \subseteq Routes
  /\ allowed \subseteq {"inbox", "outbox"} \X BoxUsers /\ unblocked \subseteq BoxUsers
  /\ changed \in 0..MaxRuleChanges /\ faulted \in 0..MaxLookupFaults

\* A request passes only boxes whose owner allowed it at some moment while it
\* was being checked, however settings, lists and tiers change in between and
\* although they are read several times (handlers.go:513, 603): strangers write
\* to an open inbox of an owner who does not block them and read an open outbox,
\* nobody else's private or chat box; unless a lookup failed, which opens.
OwnersRulesHold ==
  (at = "passed" /\ faulted = 0) =>
    \A r \in passed :
      LET mine == request.authed = r.owner IN
      /\ r.box = "private" => mine
      /\ r.box = "inbox" /\ ~request.write => mine
      /\ r.box = "outbox" => mine \/ (~request.write /\ <<"outbox", r.owner>> \in allowed)
      /\ r.box = "inbox" /\ request.write =>
           mine \/ (<<"inbox", r.owner>> \in allowed /\ r.owner \in unblocked)
      /\ r.box = "chat" => request.authed # Nobody
================================================================================
