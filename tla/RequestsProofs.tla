---------------------------- MODULE RequestsProofs -----------------------------
(***************************************************************************)
(* The components that decide on requests, for all values of their         *)
(* constants: the boxes of a HAVEN user, the imports into them, the write  *)
(* gates, a query and the admin interface's sessions, then all nine in one *)
(* run (MCRequests).                                                       *)
(***************************************************************************)
EXTENDS MCRequests, StandingProofs, SequenceTheorems

-----------------------------------------------------------------------------
(* The boxes                                                                 *)

\* One step down a list of users.
MembersNext(f, look) ==
  IF look[1] = <<>> THEN <<>>
  ELSE (IF Head(look[1]) \in look[2] THEN <<Head(look[1])>> ELSE <<>>)
         \o f[<<Tail(look[1]), look[2]>>]
MemberLookups == Seq(BoxUsers) \X (SUBSET BoxUsers)

LEMMA ShorterLookup ==
  ASSUME NEW look \in MemberLookups, look[1] # <<>>
  PROVE  /\ <<Tail(look[1]), look[2]>> \in MemberLookups /\ Len(Tail(look[1])) = Len(look[1]) - 1
         /\ Len(look[1]) \in Nat \ {0} /\ Head(look[1]) \in BoxUsers
<1> DEFINE users == look[1]
<1>1. users \in Seq(BoxUsers) /\ users # <<>> /\ look[2] \in SUBSET BoxUsers
  BY DEF MemberLookups
<1> HIDE DEF users
<1>2. /\ Tail(users) \in Seq(BoxUsers) /\ Len(Tail(users)) = Len(users) - 1
      /\ Head(users) \in BoxUsers /\ Len(users) \in Nat /\ Len(users) # 0
  BY <1>1, HeadTailProperties, EmptySeq
<1> QED
  BY <1>1, <1>2 DEF MemberLookups, users

LEMMA MembersUnfold ==
  \A look \in MemberLookups : MembersIn[look] = MembersNext(MembersIn, look)
<1> DEFINE Good(f, n) == \A look \in MemberLookups : Len(look[1]) <= n => f[look] = MembersNext(f, look)
           T == {n \in Nat : \E f : f = [look \in MemberLookups |-> f[look]] /\ Good(f, n)}
<1>1. 0 \in T
  <2> DEFINE f == [look \in MemberLookups |-> <<>>]
  <2>1. ASSUME NEW look \in MemberLookups, Len(look[1]) <= 0 PROVE f[look] = MembersNext(f, look)
    <3>1. look[1] = <<>>
      BY <2>1, ShorterLookup
    <3> QED
      BY <3>1 DEF MembersNext
  <2>2. f = [look \in MemberLookups |-> f[look]]
    OBVIOUS
  <2> HIDE DEF f
  <2> QED
    BY <2>1, <2>2
<1>2. ASSUME NEW n \in Nat, n \in T PROVE n + 1 \in T
  <2>1. PICK f : f = [look \in MemberLookups |-> f[look]] /\ Good(f, n)
    BY <1>2
  <2> DEFINE g == [look \in MemberLookups |-> MembersNext(f, look)]
  <2>2. \A look \in MemberLookups : Len(look[1]) <= n => g[look] = f[look]
    BY <2>1
  <2>3. ASSUME NEW look \in MemberLookups, Len(look[1]) <= n + 1
        PROVE  g[look] = MembersNext(g, look)
    <3>1. g[look] = MembersNext(f, look)
      OBVIOUS
    <3> HIDE DEF g
    <3>2. CASE look[1] = <<>>
      BY <3>1, <3>2 DEF MembersNext
    <3>3. CASE look[1] # <<>>
      <4> DEFINE rest == <<Tail(look[1]), look[2]>>
      <4>1. rest \in MemberLookups /\ Len(rest[1]) <= n
        BY <2>3, <3>3, ShorterLookup
      <4>2. g[rest] = f[rest]
        BY <2>2, <4>1
      <4> QED
        BY <3>1, <3>3, <4>2 DEF MembersNext
    <3> QED
      BY <3>2, <3>3
  <2>4. g = [look \in MemberLookups |-> g[look]]
    OBVIOUS
  <2> HIDE DEF g
  <2> QED
    BY <2>3, <2>4
<1>3. \A n \in Nat : \E f : Good(f, n)
  <2> HIDE DEF T
  <2>1. Nat \subseteq T
    BY <1>1, <1>2, NumberInduction
  <2> QED
    BY <2>1 DEF T
<1> DEFINE G == [n \in Nat |-> CHOOSE f : Good(f, n)]
           Same == {m \in Nat : \A look \in MemberLookups, j \in Nat, k \in Nat :
                      Len(look[1]) <= m /\ m <= j /\ m <= k => G[j][look] = G[k][look]}
           F == [look \in MemberLookups |-> G[Len(look[1])][look]]
<1>4. \A n \in Nat : Good(G[n], n)
  <2> HIDE DEF Good
  <2> QED
    BY <1>3
<1> HIDE DEF G, T
<1>5. 0 \in Same
  <2> SUFFICES ASSUME NEW look \in MemberLookups, NEW j \in Nat, NEW k \in Nat, Len(look[1]) <= 0
               PROVE  G[j][look] = G[k][look]
    OBVIOUS
  <2>1. look[1] = <<>>
    BY ShorterLookup
  <2>2. Len(look[1]) <= j /\ Len(look[1]) <= k
    BY <2>1
  <2>3. G[j][look] = MembersNext(G[j], look) /\ G[k][look] = MembersNext(G[k], look)
    BY <1>4, <2>2
  <2> QED
    BY <2>1, <2>3 DEF MembersNext
<1>6. ASSUME NEW m \in Nat, m \in Same PROVE m + 1 \in Same
  <2> SUFFICES ASSUME NEW look \in MemberLookups, NEW j \in Nat, NEW k \in Nat,
                      Len(look[1]) <= m + 1, m + 1 <= j, m + 1 <= k
               PROVE  G[j][look] = G[k][look]
    OBVIOUS
  <2>0. Len(look[1]) \in Nat
    BY DEF MemberLookups
  <2>1. G[j][look] = MembersNext(G[j], look) /\ G[k][look] = MembersNext(G[k], look)
    BY <1>4, <2>0
  <2>2. CASE look[1] = <<>>
    BY <2>1, <2>2 DEF MembersNext
  <2>3. CASE look[1] # <<>>
    <3> DEFINE rest == <<Tail(look[1]), look[2]>>
    <3>1. rest \in MemberLookups /\ Len(rest[1]) <= m
      BY <2>3, ShorterLookup
    <3>2. m <= j /\ m <= k
      OBVIOUS
    <3>3. G[j][rest] = G[k][rest]
      <4> HIDE DEF rest
      <4> QED
        BY <1>6, <3>1, <3>2
    <3> QED
      BY <2>1, <2>3, <3>3 DEF MembersNext
  <2> QED
    BY <2>2, <2>3
<1>7. Nat \subseteq Same
  <2> HIDE DEF Same
  <2> QED
    BY <1>5, <1>6, NumberInduction
<1>8. ASSUME NEW look \in MemberLookups
      PROVE  F[look] = MembersNext(F, look)
  <2> DEFINE n == Len(look[1])
  <2>0. n \in Nat
    BY DEF MemberLookups
  <2>1. F[look] = MembersNext(G[n], look)
    BY <1>4, <2>0
  <2>2. CASE look[1] = <<>>
    BY <2>1, <2>2 DEF MembersNext
  <2>3. CASE look[1] # <<>>
    <3> DEFINE rest == <<Tail(look[1]), look[2]>>
    <3>1. rest \in MemberLookups /\ Len(rest[1]) = n - 1 /\ n - 1 \in Nat
      BY <2>3, ShorterLookup
    <3>2. n - 1 \in Same
      BY <1>7, <3>1
    <3>3. G[n][rest] = G[n - 1][rest]
      <4> HIDE DEF rest
      <4>1. n - 1 <= n /\ n - 1 <= n - 1
        BY <2>0
      <4> HIDE DEF n
      <4> QED
        BY <2>0, <3>1, <3>2, <4>1
    <3>4. F[rest] = G[n - 1][rest]
      BY <3>1
    <3> HIDE DEF F
    <3> QED
      BY <2>1, <2>3, <3>3, <3>4 DEF MembersNext
  <2> QED
    BY <2>2, <2>3
<1> HIDE DEF F
<1>9. F = [look \in MemberLookups |-> MembersNext(F, look)]
  BY <1>8 DEF F
<1>10. MembersIn = CHOOSE h : h = [look \in MemberLookups |-> MembersNext(h, look)]
  BY DEF MembersIn, MembersNext, MemberLookups
<1>11. MembersIn = [look \in MemberLookups |-> MembersNext(MembersIn, look)]
  BY <1>9, <1>10
<1> QED
  BY <1>11

\* Who is found in a list is a member, and a user.
LEMMA MembersInType ==
  ASSUME NEW users \in Seq(BoxUsers), NEW ok \in SUBSET BoxUsers
  PROVE  MembersIn[<<users, ok>>] \in Seq(BoxUsers)
<1> DEFINE T == {n \in Nat : \A look \in MemberLookups : Len(look[1]) <= n => MembersIn[look] \in Seq(BoxUsers)}
<1>1. ASSUME NEW n \in Nat, NEW look \in MemberLookups, Len(look[1]) <= n, n = 0 \/ n - 1 \in T
      PROVE  MembersIn[look] \in Seq(BoxUsers)
  <2>1. CASE look[1] = <<>>
    <3>1. MembersIn[look] = MembersNext(MembersIn, look)
      BY MembersUnfold
    <3>2. MembersIn[look] = <<>>
      BY <2>1, <3>1 DEF MembersNext
    <3>3. <<>> \in Seq(BoxUsers)
      BY EmptySeq
    <3> QED
      BY <3>2, <3>3
  <2>2. CASE look[1] # <<>>
    <3> DEFINE rest == <<Tail(look[1]), look[2]>>
    <3>1. rest \in MemberLookups /\ Len(rest[1]) <= n - 1 /\ n # 0 /\ Head(look[1]) \in BoxUsers
      BY <1>1, <2>2, ShorterLookup
    <3>2. MembersIn[rest] \in Seq(BoxUsers)
      BY <1>1, <3>1
    <3>3. MembersIn[look] = (IF Head(look[1]) \in look[2] THEN <<Head(look[1])>> ELSE <<>>) \o MembersIn[rest]
      BY <2>2, MembersUnfold DEF MembersNext
    <3> QED
      BY <3>1, <3>2, <3>3
  <2> QED
    BY <2>1, <2>2
<1>2. 0 \in T /\ \A n \in Nat : n \in T => n + 1 \in T
  BY <1>1
<1> HIDE DEF T
<1>3. Nat \subseteq T
  BY <1>2, NumberInduction
<1>4. <<users, ok>> \in MemberLookups /\ Len(users) \in T
  BY <1>3 DEF MemberLookups
<1> QED
  BY <1>4 DEF T

Askers == BoxUsers \union {Nobody}

LEMMA RouteInType ==
  ASSUME NEW b \in {"private", "chat", "inbox", "outbox", "unknown"}, NEW u \in Askers
  PROVE  Route(b, u) \in Routes /\ Route(b, u).box = b /\ Route(b, u).owner = u
BY DEF Route, Routes, Askers

LEMMA EventFields ==
  ASSUME NEW ev \in Events
  PROVE  /\ ev.kind \in BoxKinds /\ ev.author \in BoxUsers /\ ev.tags \in Seq(BoxUsers)
         /\ ev.ref \in Askers
BY BoxAssumption DEF BoxEvents, Askers

LEMMA FilterFields ==
  ASSUME NEW f \in Filters
  PROVE  /\ f.kinds \subseteq {"private", "chat", "public"}
         /\ f.authors \in Seq(BoxUsers) /\ f.tags \in Seq(BoxUsers)
BY BoxAssumption DEF BoxFilters

\* The first member among the tags is one of them.
LEMMA FirstMemberFound ==
  ASSUME NEW tags \in Seq(BoxUsers), NEW ok \in SUBSET BoxUsers
  PROVE  FirstMember(tags, ok) = 0 \/ (/\ FirstMember(tags, ok) \in 1..Len(tags)
                                       /\ tags[FirstMember(tags, ok)] \in ok)
<1> DEFINE I == {i \in 1..Len(tags) : tags[i] \in ok}
<1>1. Len(tags) \in Nat
  OBVIOUS
<1>2. FirstMember(tags, ok) = IF I = {} THEN 0 ELSE CHOOSE x \in I : \A y \in I : x <= y
  BY DEF FirstMember, SelectInSeq, Min
<1>3. CASE I = {}
  BY <1>2, <1>3
<1>4. CASE I # {}
  <2>1. \E x \in I : \A y \in I : x <= y
    <3>1. I \subseteq Nat
      BY <1>1
    <3> HIDE DEF I
    <3> QED
      BY <1>4, <3>1, LeastNumber
  <2>2. FirstMember(tags, ok) \in I
    <3> HIDE DEF I
    <3> QED
      BY <1>2, <1>4, <2>1
  <2> QED
    BY <2>2
<1> QED
  BY <1>3, <1>4

LEMMA RouteEventForUserInType ==
  ASSUME NEW ev \in Events, NEW who \in Askers, NEW failing, boxes \subseteq BoxUsers
  PROVE  RouteEventForUser(ev, who, failing) \in Routes
<1> DEFINE ok == boxes \ failing
           own == ev.author = who /\ who \in ok
           tagged == FirstMember(ev.tags, ok)
<1>1. ok \subseteq BoxUsers
  OBVIOUS
<1>2. tagged = 0 \/ (tagged \in 1..Len(ev.tags) /\ ev.tags[tagged] \in ok)
  BY <1>1, EventFields, FirstMemberFound
<1>3. tagged > 0 => ev.tags[tagged] \in Askers
  BY <1>1, <1>2 DEF Askers
<1>4. Nobody \in Askers /\ ev.ref \in Askers
  BY EventFields DEF Askers
<1>5. RouteEventForUser(ev, who, failing) =
        CASE ev.kind = "private" -> IF own THEN Route("private", who) ELSE Unrouted
          [] ev.kind = "chat" -> Route("chat", IF who \in ok THEN who ELSE Nobody)
          [] ev.kind \notin {"private", "chat"} /\ own -> Route("outbox", who)
          [] ev.kind \notin {"private", "chat"} /\ ~own /\ tagged > 0 -> Route("inbox", ev.tags[tagged])
          [] ev.kind = "reaction" /\ ~own /\ tagged = 0 /\ ev.ref \in ok -> Route("inbox", ev.ref)
          [] OTHER -> Unrouted
  BY DEF RouteEventForUser
<1> HIDE DEF ok, own, tagged
<1>6. /\ Route("private", who) \in Routes /\ Route("outbox", who) \in Routes
      /\ Unrouted \in Routes /\ Route("inbox", ev.ref) \in Routes
      /\ Route("chat", who) \in Routes /\ Route("chat", Nobody) \in Routes
      /\ tagged > 0 => Route("inbox", ev.tags[tagged]) \in Routes
  BY <1>3, <1>4, RouteInType DEF Unrouted
<1> QED
  BY <1>5, <1>6

LEMMA RouteEventInType ==
  ASSUME NEW ev \in Events
  PROVE  /\ RouteEvent(ev) \in Routes /\ RouteEvent(ev).owner = SingleOwner
         /\ RouteEvent(ev).box \in {"private", "chat", "inbox", "outbox", "unknown"}
<1>1. PICK b \in {"private", "chat", "inbox", "outbox", "unknown"} : RouteEvent(ev) = Route(b, SingleOwner)
  BY EventFields DEF RouteEvent, BoxKinds
<1>2. SingleOwner \in Askers
  BY BoxAssumption DEF Askers
<1> QED
  BY <1>1, <1>2, RouteInType

LEMMA RouteFilterInType ==
  ASSUME NEW f \in Filters, NEW who \in Askers, NEW r \in RouteFilter(f, who)
  PROVE  /\ r \in Routes /\ r.owner = SingleOwner
         /\ r.box \in {"private", "chat", "inbox", "outbox"}
<1>1. PICK b \in {"private", "chat", "inbox", "outbox"} : r = Route(b, SingleOwner)
  <2> DEFINE named == (f.kinds \intersect {"private", "chat"})
               \union {b \in {"outbox"} : SingleOwner \in Range(f.authors)}
               \union {b \in {"inbox"} : SingleOwner \in Range(f.tags)}
             boxed == IF named # {} THEN named
               ELSE IF f.authors # <<>> THEN {}
               ELSE IF who = SingleOwner THEN {"private", "chat", "inbox", "outbox"}
               ELSE {"outbox"}
  <2>1. boxed \subseteq {"private", "chat", "inbox", "outbox"}
    OBVIOUS
  <2>2. RouteFilter(f, who) = {Route(b, SingleOwner) : b \in boxed}
    BY DEF RouteFilter
  <2> HIDE DEF boxed
  <2> QED
    BY <2>1, <2>2
<1>2. SingleOwner \in Askers
  BY BoxAssumption DEF Askers
<1> QED
  BY <1>1, <1>2, RouteInType

LEMMA RoutesAlong ==
  ASSUME NEW b \in {"private", "chat", "inbox", "outbox", "unknown"}, NEW users \in Seq(BoxUsers)
  PROVE  [i \in 1..Len(users) |-> Route(b, users[i])] \in Seq(Routes)
<1>1. \A i \in 1..Len(users) : Route(b, users[i]) \in Routes
  BY RouteInType DEF Askers
<1>2. Len(users) \in Nat
  OBVIOUS
<1> QED
  BY <1>1, <1>2

LEMMA RouteFilterForUserInType ==
  ASSUME NEW f \in Filters, NEW who \in Askers, NEW failing, boxes \subseteq BoxUsers
  PROVE  RouteFilterForUser(f, who, failing) \in Seq(Routes)
<1> DEFINE ok == boxes \ failing
           authors == MembersIn[<<f.authors, ok>>]
           tagged == MembersIn[<<f.tags, ok>>]
           named == [i \in 1..Len(authors) |-> Route("outbox", authors[i])]
                    \o [i \in 1..Len(tagged) |-> Route("inbox", tagged[i])]
           mine == <<Route("outbox", who), Route("inbox", who),
                     Route("private", who), Route("chat", who)>>
<1>1. authors \in Seq(BoxUsers) /\ tagged \in Seq(BoxUsers)
  <2>1. ok \in SUBSET BoxUsers
    OBVIOUS
  <2> HIDE DEF ok
  <2> QED
    BY <2>1, FilterFields, MembersInType
<1>2. named \in Seq(Routes)
  <2> HIDE DEF authors, tagged
  <2>1. /\ [i \in 1..Len(authors) |-> Route("outbox", authors[i])] \in Seq(Routes)
        /\ [i \in 1..Len(tagged) |-> Route("inbox", tagged[i])] \in Seq(Routes)
    BY <1>1, RoutesAlong
  <2> QED
    BY <2>1, ConcatProperties
<1>3. mine \in Seq(Routes)
  <2>1. /\ Route("outbox", who) \in Routes /\ Route("inbox", who) \in Routes
        /\ Route("private", who) \in Routes /\ Route("chat", who) \in Routes
    BY RouteInType
  <2> QED
    BY <2>1
<1>4. <<>> \in Seq(Routes)
  BY EmptySeq
<1>5. RouteFilterForUser(f, who, failing) =
        IF named # <<>> THEN named ELSE IF who \in ok THEN mine ELSE <<>>
  BY DEF RouteFilterForUser
<1> HIDE DEF ok, named, mine
<1> QED
  BY <1>2, <1>3, <1>4, <1>5

\* Whether the owner's rules let the request into the box so far, and the lists too.
MayEnter(r, req, open) ==
  LET mine == req.authed = r.owner IN
  /\ r.box = "private" => mine
  /\ r.box = "inbox" /\ ~req.write => mine
  /\ r.box = "outbox" => mine \/ (~req.write /\ <<"outbox", r.owner>> \in open)
  /\ r.box = "inbox" /\ req.write => mine \/ <<"inbox", r.owner>> \in open
  /\ r.box = "chat" => req.authed # Nobody
Cleared(r, req, open, free) ==
  /\ MayEnter(r, req, open)
  /\ r.box = "inbox" /\ req.write => req.authed = r.owner \/ r.owner \in free

BoxRequests == [write : {TRUE}, event : Events, authed : Askers]
               \union [write : {FALSE}, event : Filters, authed : Askers]

\* Types: an idle relay holds no request, and a box that is being checked is on
\* the list of boxes.
BoxTypes ==
  /\ BoxTypeOK
  /\ at = "idle" => request = NoRequest /\ passed = {}
  /\ at # "idle" => request \in BoxRequests
  /\ at \in {"access", "reason", "lists"} => todo # <<>>
\* One owner's rules never change.
SingleRules == single => rule = [u \in BoxUsers |-> "none"] /\ blocks = {}
\* What is open now, and who does not block the author now, is in the history.
HistoryKept ==
  at # "idle" =>
    /\ Open(rule) \subseteq allowed
    /\ request.write => NotBlocking(blocks, request.event.author) \subseteq unblocked
\* As long as no look failed, the boxes passed were open to the request, and so
\* is the box whose lists are read.
PassedCleared ==
  faulted = 0 =>
    /\ \A r \in passed : Cleared(r, request, allowed, unblocked)
    /\ at = "lists" => MayEnter(Head(todo), request, allowed)
BoxInv == BoxTypes /\ SingleRules /\ HistoryKept /\ PassedCleared

LEMMA RequestFields ==
  ASSUME NEW req \in BoxRequests
  PROVE  /\ req.write \in BOOLEAN /\ req.authed \in Askers
         /\ req.write => req.event \in Events
         /\ ~req.write => req.event \in Filters
BY DEF BoxRequests

LEMMA NewRequest ==
  ASSUME NEW write \in BOOLEAN, NEW ev, NEW who \in Askers,
         write => ev \in Events, ~write => ev \in Filters
  PROVE  /\ [write |-> write, event |-> ev, authed |-> who] \in BoxRequests
         /\ [write |-> write, event |-> ev, authed |-> who].write = write
         /\ [write |-> write, event |-> ev, authed |-> who].event = ev
         /\ [write |-> write, event |-> ev, authed |-> who].authed = who
<1>1. CASE write = TRUE
  BY <1>1 DEF BoxRequests
<1>2. CASE write = FALSE
  BY <1>2 DEF BoxRequests
<1> QED
  BY <1>1, <1>2

LEMMA RouteFields ==
  ASSUME NEW r \in Routes
  PROVE  /\ r.box \in {"private", "chat", "inbox", "outbox", "unknown"}
         /\ r.owner \in Askers
BY DEF Routes, Askers

\* What an owner's settings allow is open.
LEMMA OpenHolds ==
  ASSUME NEW ru, NEW u \in BoxUsers
  PROVE  /\ ru[u] # "inboxClosed" => <<"inbox", u>> \in Open(ru)
         /\ ru[u] # "outboxClosed" => <<"outbox", u>> \in Open(ru)
BY DEF Open

LEMMA OpenType ==
  ASSUME NEW ru PROVE Open(ru) \subseteq {"inbox", "outbox"} \X BoxUsers
BY DEF Open

\* Opening more boxes, or being blocked less, keeps a request cleared.
LEMMA ClearedKept ==
  ASSUME NEW r, NEW req, NEW open, NEW open2, NEW free, NEW free2,
         open \subseteq open2, req.write => free \subseteq free2,
         Cleared(r, req, open, free)
  PROVE  Cleared(r, req, open2, free2)
BY DEF Cleared, MayEnter

LEMMA MayEnterKept ==
  ASSUME NEW r, NEW req, NEW open, NEW open2, open \subseteq open2, MayEnter(r, req, open)
  PROVE  MayEnter(r, req, open2)
BY DEF MayEnter

LEMMA AccessMayEnter ==
  ASSUME NEW r \in Routes, NEW req \in BoxRequests, NEW ru, NEW open, Open(ru) \subseteq open,
         CanAccessUserBox(r, req.authed, IF r.owner = Nobody THEN "none" ELSE ru[r.owner], req.write)
  PROVE  MayEnter(r, req, open)
<1>1. Nobody \notin BoxUsers
  BY BoxAssumption
<1>2. CASE req.authed = r.owner /\ r.owner # Nobody
  BY <1>1, <1>2 DEF MayEnter
<1>3. CASE r.owner = Nobody /\ r.box = "chat" /\ req.authed # Nobody
  BY <1>1, <1>3 DEF MayEnter
<1>4. CASE r.owner # Nobody /\ ~(req.authed = r.owner)
  <2>1. r.owner \in BoxUsers
    BY <1>4, RouteFields DEF Askers
  <2>2. CASE r.box = "outbox"
    <3>1. ~req.write /\ ru[r.owner] # "outboxClosed"
      BY <1>4, <2>2 DEF CanAccessUserBox
    <3> QED
      BY <2>1, <2>2, <3>1, OpenHolds DEF MayEnter
  <2>3. CASE r.box = "inbox"
    <3>1. req.write /\ ru[r.owner] # "inboxClosed"
      BY <1>4, <2>3 DEF CanAccessUserBox
    <3> QED
      BY <2>1, <2>3, <3>1, OpenHolds DEF MayEnter
  <2>4. CASE r.box = "chat"
    BY <1>4, <2>4 DEF CanAccessUserBox, MayEnter
  <2>5. CASE r.box \in {"private", "unknown"}
    BY <1>4, <2>5 DEF CanAccessUserBox
  <2> QED
    BY <2>2, <2>3, <2>4, <2>5, RouteFields
<1> QED
  BY <1>2, <1>3, <1>4 DEF CanAccessUserBox

LEMMA BoxFirst == BoxInit => BoxInv
<1> SUFFICES ASSUME BoxInit PROVE BoxInv
  OBVIOUS
<1> USE DEF BoxInit
<1>1. BoxTypes
  <2>1. rule \in [BoxUsers -> Rules]
    BY DEF Rules
  <2>2. todo \in Seq(Routes)
    BY EmptySeq
  <2> QED
    BY <2>1, <2>2, BoxAssumption DEF BoxTypes, BoxTypeOK
<1>2. SingleRules /\ HistoryKept
  BY DEF SingleRules, HistoryKept
<1>3. PassedCleared
  BY DEF PassedCleared
<1> QED
  BY <1>1, <1>2, <1>3 DEF BoxInv

LEMMA ReceiveKeeps ==
  ASSUME BoxInv, NEW write \in BOOLEAN, NEW ev, NEW who \in Askers,
         write => ev \in Events, ~write => ev \in Filters, Receive(write, ev, who)
  PROVE  BoxInv'
<1> DEFINE req == [write |-> write, event |-> ev, authed |-> who]
<1>1. /\ at' = "route" /\ request' = req /\ todo' = <<>> /\ passed' = {}
      /\ allowed' = Open(rule) /\ UNCHANGED <<single, boxes, rule, blocks, trusts, changed, faulted>>
  BY DEF Receive, rows
<1>2. unblocked' = IF write THEN NotBlocking(blocks, ev.author) ELSE {}
  BY DEF Receive
<1>3. req \in BoxRequests /\ req.write = write /\ req.event = ev
  BY NewRequest
<1> HIDE DEF req
<1>4. req.event \in Events \union Filters
  BY <1>3
<1>5. NotBlocking(blocks, ev.author) \subseteq BoxUsers
  BY DEF NotBlocking
<1>6. BoxTypeOK
  BY DEF BoxInv, BoxTypes
<1>7. BoxTypes'
  <2>1. allowed' \subseteq {"inbox", "outbox"} \X BoxUsers
    BY <1>1, OpenType
  <2>2. unblocked' \subseteq BoxUsers
    BY <1>2, <1>5
  <2>3. todo' \in Seq(Routes)
    BY <1>1, EmptySeq
  <2>4. (request.event \in Events \union Filters)'
    BY <1>1, <1>4
  <2>5. BoxTypeOK'
    BY <1>1, <1>6, <2>1, <2>2, <2>3, <2>4 DEF BoxTypeOK
  <2> QED
    BY <1>1, <1>3, <2>5 DEF BoxTypes
<1>8. SingleRules'
  BY <1>1 DEF BoxInv, SingleRules
<1>9. HistoryKept'
  <2>1. Open(rule)' = Open(rule)
    BY <1>1 DEF Open
  <2>2. request'.write = write /\ request'.event = ev
    BY <1>1, <1>3
  <2>3. NotBlocking(blocks', request'.event.author) = NotBlocking(blocks, ev.author)
    BY <1>1, <2>2
  <2> QED
    BY <1>1, <1>2, <2>1, <2>2, <2>3 DEF HistoryKept
<1>10. PassedCleared'
  BY <1>1 DEF PassedCleared
<1> QED
  BY <1>7, <1>8, <1>9, <1>10 DEF BoxInv

\* What all the steps of a request between its arrival and the reply leave alone.
LEMMA CheckingKeeps ==
  ASSUME BoxInv, at \notin {"idle"}, at' \notin {"idle"},
         UNCHANGED <<single, boxes, rule, blocks, trusts, request, allowed, unblocked, changed>>
  PROVE  SingleRules' /\ HistoryKept' /\ Open(rule) \subseteq allowed /\ request \in BoxRequests
<1>1. SingleRules'
  BY DEF BoxInv, SingleRules
<1>2. HistoryKept /\ at # "idle"
  BY DEF BoxInv
<1>3. Open(rule)' = Open(rule)
  BY DEF Open
<1>4. HistoryKept'
  BY <1>2, <1>3 DEF HistoryKept
<1>5. Open(rule) \subseteq allowed
  BY <1>2 DEF HistoryKept
<1> QED
  BY <1>1, <1>4, <1>5 DEF BoxInv, BoxTypes

LEMMA CheckingTypes ==
  ASSUME BoxInv, at \notin {"idle"},
         UNCHANGED <<single, boxes, rule, blocks, trusts, request, allowed, unblocked, changed>>,
         at' \in {"route", "access", "reason", "lists", "passed", "refused"},
         todo' \in Seq(Routes), passed' \subseteq Routes, faulted' \in 0..MaxLookupFaults,
         at' \in {"access", "reason", "lists"} => todo' # <<>>
  PROVE  BoxTypes'
<1>1. BoxTypeOK'
  BY DEF BoxInv, BoxTypes, BoxTypeOK
<1> QED
  BY <1>1 DEF BoxInv, BoxTypes

LEMMA RouteForUsersKeeps == ASSUME BoxInv, RouteForUsers PROVE BoxInv'
<1>1. PICK failing \in {{}} \union {F \in SUBSET BoxUsers : faulted < MaxLookupFaults} :
        /\ faulted' = IF failing = {} THEN faulted ELSE faulted + 1
        /\ todo' = IF request.write
                   THEN <<RouteEventForUser(request.event, request.authed, failing)>>
                   ELSE RouteFilterForUser(request.event, request.authed, failing)
  BY DEF RouteForUsers
<1>2. /\ at = "route" /\ UNCHANGED <<single, boxes, rule, blocks, trusts, request, passed, allowed, unblocked, changed>>
      /\ at' = IF todo' = <<>> THEN "passed" ELSE IF todo'[1] = Unrouted THEN "refused" ELSE "access"
  BY DEF RouteForUsers, rows
<1>3. /\ request \in BoxRequests /\ boxes \subseteq BoxUsers /\ passed \subseteq Routes
      /\ faulted \in 0..MaxLookupFaults
  BY <1>2 DEF BoxInv, BoxTypes, BoxTypeOK
<1>4. todo' \in Seq(Routes)
  <2>1. CASE request.write
    <3>1. RouteEventForUser(request.event, request.authed, failing) \in Routes
      BY <1>3, <2>1, RequestFields, RouteEventForUserInType
    <3> QED
      BY <1>1, <2>1, <3>1
  <2>2. CASE ~request.write
    <3>1. RouteFilterForUser(request.event, request.authed, failing) \in Seq(Routes)
      BY <1>3, <2>2, RequestFields, RouteFilterForUserInType
    <3> QED
      BY <1>1, <2>2, <3>1
  <2> QED
    BY <2>1, <2>2
<1>5. faulted' \in 0..MaxLookupFaults /\ (faulted' = 0 => faulted = 0)
  BY <1>1, <1>3, BoxAssumption
<1>6. BoxTypes'
  BY <1>2, <1>3, <1>4, <1>5, CheckingTypes
<1>7. SingleRules' /\ HistoryKept'
  BY <1>2, CheckingKeeps
<1>8. PassedCleared'
  BY <1>2, <1>5 DEF BoxInv, PassedCleared
<1> QED
  BY <1>6, <1>7, <1>8 DEF BoxInv

LEMMA RouteForOwnerKeeps == ASSUME BoxInv, RouteForOwner PROVE BoxInv'
<1> DEFINE routed == IF request.write THEN {RouteEvent(request.event)}
                     ELSE RouteFilter(request.event, request.authed)
           refused == \E r \in routed : IF request.write
                        THEN WriteRefused(r, request.event, request.authed)
                        ELSE ReadRefused(r, request.authed)
<1>1. /\ at = "route" /\ single
      /\ UNCHANGED <<single, boxes, rule, blocks, trusts, request, todo, allowed, unblocked, changed, faulted>>
      /\ at' = (IF refused THEN "refused" ELSE "passed") /\ passed' = (IF refused THEN {} ELSE routed)
  BY DEF RouteForOwner, rows
<1>2. /\ request \in BoxRequests /\ todo \in Seq(Routes)
      /\ faulted \in 0..MaxLookupFaults
  BY <1>1 DEF BoxInv, BoxTypes, BoxTypeOK
<1>3. SingleOwner \in BoxUsers
  BY BoxAssumption
<1>4. <<"outbox", SingleOwner>> \in allowed /\ <<"inbox", SingleOwner>> \in allowed
  <2>1. rule = [u \in BoxUsers |-> "none"]
    BY <1>1 DEF BoxInv, SingleRules
  <2>2. rule[SingleOwner] = "none"
    BY <1>3, <2>1
  <2>3. Open(rule) \subseteq allowed
    BY <1>1 DEF BoxInv, HistoryKept
  <2> QED
    BY <1>3, <2>2, <2>3, OpenHolds
<1>5. request.write => SingleOwner \in unblocked
  <2>1. blocks = {}
    BY <1>1 DEF BoxInv, SingleRules
  <2> QED
    BY <1>1, <1>3, <2>1 DEF BoxInv, HistoryKept, NotBlocking
<1>6. ASSUME NEW r \in routed, ~refused
      PROVE  r \in Routes /\ Cleared(r, request, allowed, unblocked)
  <2>1. CASE request.write
    <3>1. r = RouteEvent(request.event) /\ request.event \in Events
      BY <1>2, <1>6, <2>1, RequestFields
    <3>2. r \in Routes /\ r.owner = SingleOwner
      BY <3>1, RouteEventInType
    <3>3. ~WriteRefused(r, request.event, request.authed)
      BY <1>6, <2>1
    <3> QED
      BY <1>4, <1>5, <2>1, <3>2, <3>3 DEF Cleared, MayEnter, WriteRefused
  <2>2. CASE ~request.write
    <3>1. r \in RouteFilter(request.event, request.authed)
      BY <1>6, <2>2
    <3>2. r \in Routes /\ r.owner = SingleOwner
      BY <1>2, <2>2, <3>1, RequestFields, RouteFilterInType
    <3>3. ~ReadRefused(r, request.authed)
      BY <1>6, <2>2
    <3> QED
      BY <1>4, <2>2, <3>2, <3>3 DEF Cleared, MayEnter, ReadRefused
  <2> QED
    BY <2>1, <2>2
<1> HIDE DEF routed, refused
<1>7. /\ passed' \subseteq Routes /\ at' \in {"refused", "passed"}
      /\ \A r \in passed' : Cleared(r, request, allowed, unblocked)
  BY <1>1, <1>6
<1>8. BoxTypes'
  BY <1>1, <1>2, <1>7, CheckingTypes
<1>9. SingleRules' /\ HistoryKept'
  BY <1>1, <1>7, CheckingKeeps
<1>10. PassedCleared'
  BY <1>1, <1>7 DEF PassedCleared
<1> QED
  BY <1>8, <1>9, <1>10 DEF BoxInv

LEMMA CheckAccessKeeps == ASSUME BoxInv, CheckAccess PROVE BoxInv'
<1> DEFINE r == Head(todo)
           ruling == IF r.owner = Nobody THEN "none" ELSE rule[r.owner]
<1>1. at = "access" /\ UNCHANGED <<single, boxes, rule, blocks, trusts, request, todo, passed, allowed, unblocked, changed>>
  BY DEF CheckAccess, rows
<1>2. \/ /\ at' = IF CanAccessUserBox(r, request.authed, ruling, request.write) THEN "lists" ELSE "reason"
         /\ faulted' = faulted
      \/ /\ faulted < MaxLookupFaults /\ faulted' = faulted + 1
         /\ at' = IF CanAccessUserBox(r, request.authed, "none", request.write) THEN "lists" ELSE "reason"
  BY DEF CheckAccess
<1>3. /\ todo \in Seq(Routes) /\ todo # <<>> /\ passed \subseteq Routes
      /\ faulted \in 0..MaxLookupFaults
  BY <1>1 DEF BoxInv, BoxTypes, BoxTypeOK
<1>4. faulted' \in 0..MaxLookupFaults /\ (faulted' = 0 => faulted = 0 /\ faulted' = faulted)
  BY <1>2, <1>3, BoxAssumption
<1>5. at' \in {"lists", "reason"}
  BY <1>2
<1>6. BoxTypes'
  BY <1>1, <1>3, <1>4, <1>5, CheckingTypes
<1>7. SingleRules' /\ HistoryKept' /\ Open(rule) \subseteq allowed /\ request \in BoxRequests
  BY <1>1, <1>5, CheckingKeeps
<1>8. r \in Routes
  BY <1>3, HeadTailProperties
<1>9. faulted' = 0 /\ at' = "lists" => MayEnter(r, request, allowed)
  <2> SUFFICES ASSUME faulted' = 0, at' = "lists" PROVE MayEnter(r, request, allowed)
    OBVIOUS
  <2>1. faulted' # faulted + 1
    BY <1>3, <1>4
  <2>2. CanAccessUserBox(r, request.authed, ruling, request.write)
    BY <1>2, <2>1
  <2> HIDE DEF r
  <2> QED
    BY <1>7, <1>8, <2>2, AccessMayEnter
<1>10. PassedCleared'
  BY <1>1, <1>4, <1>9 DEF BoxInv, PassedCleared
<1> QED
  BY <1>6, <1>7, <1>10 DEF BoxInv

LEMMA ExplainRefusalKeeps == ASSUME BoxInv, ExplainRefusal PROVE BoxInv'
<1> DEFINE r == Head(todo)
<1>1. at = "reason" /\ UNCHANGED <<single, boxes, rule, blocks, trusts, request, todo, passed, allowed, unblocked, changed>>
  BY DEF ExplainRefusal, rows
<1>2. \/ /\ at' = IF RereadApplies(r) /\ ~Closed(r) THEN "lists" ELSE "refused"
         /\ faulted' = faulted
      \/ /\ faulted < MaxLookupFaults /\ faulted' = faulted + 1 /\ at' = "lists"
  BY DEF ExplainRefusal
<1>3. /\ todo \in Seq(Routes) /\ todo # <<>> /\ passed \subseteq Routes
      /\ faulted \in 0..MaxLookupFaults
  BY <1>1 DEF BoxInv, BoxTypes, BoxTypeOK
<1>4. faulted' \in 0..MaxLookupFaults /\ (faulted' = 0 => faulted = 0 /\ faulted' = faulted)
  BY <1>2, <1>3, BoxAssumption
<1>5. at' \in {"lists", "refused"}
  BY <1>2
<1>6. BoxTypes'
  BY <1>1, <1>3, <1>4, <1>5, CheckingTypes
<1>7. SingleRules' /\ HistoryKept' /\ Open(rule) \subseteq allowed /\ request \in BoxRequests
  BY <1>1, <1>5, CheckingKeeps
<1>8. r \in Routes
  BY <1>3, HeadTailProperties
<1>9. faulted' = 0 /\ at' = "lists" => MayEnter(r, request, allowed)
  <2> SUFFICES ASSUME faulted' = 0, at' = "lists" PROVE MayEnter(r, request, allowed)
    OBVIOUS
  <2>1. faulted' # faulted + 1
    BY <1>3, <1>4
  <2>2. RereadApplies(r) /\ ~Closed(r)
    BY <1>2, <2>1
  <2> HIDE DEF r
  <2>3. r.owner \in BoxUsers
    BY <1>8, <2>2, RouteFields DEF RereadApplies, Askers
  <2>4. CASE request.write
    <3>1. r.box = "inbox" /\ rule[r.owner] # "inboxClosed"
      BY <2>2, <2>4 DEF RereadApplies, Closed
    <3> QED
      BY <1>7, <2>3, <2>4, <3>1, OpenHolds DEF MayEnter
  <2>5. CASE ~request.write
    <3>1. r.box = "outbox" /\ rule[r.owner] # "outboxClosed"
      BY <2>2, <2>5 DEF RereadApplies, Closed
    <3> QED
      BY <1>7, <2>3, <2>5, <3>1, OpenHolds DEF MayEnter
  <2> QED
    BY <2>4, <2>5
<1>10. PassedCleared'
  BY <1>1, <1>4, <1>9 DEF BoxInv, PassedCleared
<1> QED
  BY <1>6, <1>7, <1>10 DEF BoxInv

LEMMA CheckListsKeeps == ASSUME BoxInv, CheckLists PROVE BoxInv'
<1> DEFINE r == Head(todo)
           blocked == r.box = "inbox" /\ <<r.owner, request.event.author>> \in blocks
           end == IF Admits THEN "passed" ELSE "refused"
<1>1. /\ at = "lists" /\ request.write
      /\ UNCHANGED <<single, boxes, rule, blocks, trusts, request, todo, allowed, unblocked, changed>>
  BY DEF CheckLists, rows
<1>2. \/ /\ at' = (IF blocked THEN "refused" ELSE end)
         /\ passed' = (IF at' = "passed" THEN {r} ELSE {})
         /\ faulted' = faulted
      \/ /\ r.box = "inbox" /\ faulted < MaxLookupFaults
         /\ faulted' = faulted + 1
         /\ at' = end /\ passed' = (IF end = "passed" THEN {r} ELSE {})
  BY DEF CheckLists
<1>3. todo \in Seq(Routes) /\ todo # <<>> /\ faulted \in 0..MaxLookupFaults
  BY <1>1 DEF BoxInv, BoxTypes, BoxTypeOK
<1>4. faulted' \in 0..MaxLookupFaults /\ (faulted' = 0 => faulted = 0 /\ faulted' = faulted)
  BY <1>2, <1>3, BoxAssumption
<1>5. at' \in {"passed", "refused"} /\ passed' \in {{}, {r}}
  BY <1>2
<1>6. r \in Routes
  BY <1>3, HeadTailProperties
<1>7. BoxTypes'
  BY <1>1, <1>3, <1>4, <1>5, <1>6, CheckingTypes
<1>8. SingleRules' /\ HistoryKept' /\ request \in BoxRequests
  BY <1>1, <1>5, CheckingKeeps
<1>9. faulted' = 0 /\ passed' # {} => Cleared(r, request, allowed, unblocked)
  <2> SUFFICES ASSUME faulted' = 0, passed' # {} PROVE Cleared(r, request, allowed, unblocked)
    OBVIOUS
  <2>1. faulted' # faulted + 1
    BY <1>3, <1>4
  <2>2. ~blocked
    <3>1. at' = "passed"
      BY <1>2, <2>1
    <3> QED
      BY <1>2, <2>1, <3>1
  <2>3. MayEnter(r, request, allowed)
    BY <1>1, <1>4 DEF BoxInv, PassedCleared
  <2>4. r.box = "inbox" /\ r.owner \in BoxUsers => r.owner \in unblocked
    <3>1. NotBlocking(blocks, request.event.author) \subseteq unblocked
      BY <1>1 DEF BoxInv, HistoryKept
    <3> QED
      BY <2>2, <3>1 DEF NotBlocking
  <2>5. r.box = "inbox" /\ ~(request.authed = r.owner) => r.owner \in BoxUsers
    <3>1. allowed \subseteq {"inbox", "outbox"} \X BoxUsers
      BY DEF BoxInv, BoxTypes, BoxTypeOK
    <3>2. r.box = "inbox" /\ ~(request.authed = r.owner) => <<"inbox", r.owner>> \in allowed
      BY <1>1, <2>3 DEF MayEnter
    <3> HIDE DEF r
    <3> QED
      BY <3>1, <3>2
  <2> HIDE DEF r
  <2> QED
    BY <2>3, <2>4, <2>5 DEF Cleared
<1>10. PassedCleared'
  <2> HIDE DEF r
  <2> QED
    BY <1>1, <1>5, <1>9 DEF PassedCleared
<1> QED
  BY <1>7, <1>8, <1>10 DEF BoxInv

LEMMA NextBoxKeeps == ASSUME BoxInv, NextBox PROVE BoxInv'
<1> DEFINE r == Head(todo)
<1>1. /\ at = "lists" /\ ~request.write /\ passed' = passed \union {r} /\ todo' = Tail(todo)
      /\ at' = IF Tail(todo) = <<>> THEN "passed" ELSE "access"
      /\ UNCHANGED <<single, boxes, rule, blocks, trusts, request, allowed, unblocked, changed, faulted>>
  BY DEF NextBox, rows
<1>2. /\ todo \in Seq(Routes) /\ todo # <<>> /\ faulted \in 0..MaxLookupFaults
      /\ passed \subseteq Routes
  BY <1>1 DEF BoxInv, BoxTypes, BoxTypeOK
<1>3. r \in Routes /\ Tail(todo) \in Seq(Routes)
  BY <1>2, HeadTailProperties
<1>4. at' \in {"passed", "access"} /\ (at' = "access" => todo' # <<>>)
  BY <1>1
<1>5. BoxTypes'
  BY <1>1, <1>2, <1>3, <1>4, CheckingTypes
<1>6. SingleRules' /\ HistoryKept'
  BY <1>1, <1>4, CheckingKeeps
<1>7. faulted = 0 => Cleared(r, request, allowed, unblocked)
  BY <1>1 DEF BoxInv, PassedCleared, Cleared
<1>8. PassedCleared'
  <2> HIDE DEF r
  <2> QED
    BY <1>1, <1>4, <1>7 DEF BoxInv, PassedCleared
<1> QED
  BY <1>5, <1>6, <1>8 DEF BoxInv

LEMMA ReplyKeeps == ASSUME BoxInv, Reply PROVE BoxInv'
<1>1. /\ at' = "idle" /\ request' = NoRequest /\ todo' = <<>> /\ passed' = {}
      /\ allowed' = {} /\ unblocked' = {}
      /\ UNCHANGED <<single, boxes, rule, blocks, trusts, changed, faulted>>
  BY DEF Reply, rows
<1>2. BoxTypes'
  <2>1. todo' \in Seq(Routes)
    BY <1>1, EmptySeq
  <2> QED
    BY <1>1, <2>1 DEF BoxInv, BoxTypes, BoxTypeOK
<1>3. SingleRules'
  BY <1>1 DEF BoxInv, SingleRules
<1>4. HistoryKept' /\ PassedCleared'
  BY <1>1 DEF HistoryKept, PassedCleared
<1> QED
  BY <1>2, <1>3, <1>4 DEF BoxInv

\* A change of the rules only adds to the history of the request under way.
LEMMA RulesChangeKeeps ==
  ASSUME BoxInv, Changes, BoxTypeOK', HistoryKept',
         allowed \subseteq allowed' \/ at = "idle",
         (request.write => unblocked \subseteq unblocked') \/ at = "idle"
  PROVE  BoxInv'
<1>1. ~single /\ UNCHANGED <<single, at, request, todo, passed, faulted>>
  BY DEF Changes
<1>2. BoxTypes'
  BY <1>1 DEF BoxInv, BoxTypes
<1>3. SingleRules'
  BY <1>1 DEF SingleRules
<1>4. PassedCleared'
  <2>1. CASE at = "idle"
    BY <1>1, <2>1 DEF BoxInv, BoxTypes, PassedCleared
  <2>2. CASE at # "idle"
    <3>1. allowed \subseteq allowed' /\ (request.write => unblocked \subseteq unblocked')
      BY <2>2
    <3>2. ASSUME faulted = 0, NEW r \in passed PROVE Cleared(r, request, allowed', unblocked')
      <4>1. Cleared(r, request, allowed, unblocked)
        BY <3>2 DEF BoxInv, PassedCleared
      <4> QED
        BY <3>1, <4>1, ClearedKept
    <3>3. faulted = 0 /\ at = "lists" => MayEnter(Head(todo), request, allowed')
      BY <3>1, MayEnterKept DEF BoxInv, PassedCleared
    <3> QED
      BY <1>1, <3>2, <3>3 DEF PassedCleared
  <2> QED
    BY <2>1, <2>2
<1> QED
  BY <1>2, <1>3, <1>4 DEF BoxInv

LEMMA ChangesCounted ==
  ASSUME BoxInv, Changes PROVE changed' \in 0..MaxRuleChanges
BY BoxAssumption DEF BoxInv, BoxTypes, BoxTypeOK, Changes

LEMMA SaveHavenSettingsKeeps ==
  ASSUME BoxInv, NEW u \in BoxUsers, NEW ru \in {"open", "inboxClosed", "outboxClosed"},
         SaveHavenSettings(u, ru)
  PROVE  BoxInv'
<1>1. /\ Changes /\ UNCHANGED <<single, at, request, todo, passed, faulted, boxes, blocks, trusts, unblocked>>
      /\ rule' = [rule EXCEPT ![u] = ru]
  BY DEF SaveHavenSettings, Changes
<1>2. allowed' = IF at = "idle" THEN {} ELSE allowed \union Open(rule')
  BY DEF SaveHavenSettings
<1>3. BoxTypeOK
  BY DEF BoxInv, BoxTypes
<1>4. rule' \in [BoxUsers -> Rules]
  BY <1>1, <1>3 DEF BoxTypeOK, Rules
<1>5. allowed' \subseteq {"inbox", "outbox"} \X BoxUsers
  BY <1>2, <1>3, OpenType DEF BoxTypeOK
<1>6. BoxTypeOK'
  BY <1>1, <1>3, <1>4, <1>5, ChangesCounted DEF BoxTypeOK
<1>7. HistoryKept'
  <2>1. at # "idle" => Open(rule') \subseteq allowed'
    BY <1>2
  <2>2. Open(rule)' = Open(rule')
    BY DEF Open
  <2> QED
    BY <1>1, <2>1, <2>2 DEF BoxInv, HistoryKept
<1>8. allowed \subseteq allowed' \/ at = "idle"
  BY <1>2
<1> QED
  BY <1>1, <1>6, <1>7, <1>8, RulesChangeKeeps

LEMMA SaveWotSettingsKeeps ==
  ASSUME BoxInv, NEW u \in BoxUsers, NEW blocked \in SUBSET BoxUsers, NEW trusted \in SUBSET BoxUsers,
         SaveWotSettings(u, blocked, trusted)
  PROVE  BoxInv'
<1>1. /\ Changes /\ UNCHANGED <<single, at, request, todo, passed, faulted, boxes, rule, allowed>>
      /\ blocks' = {b \in blocks : b[1] # u} \union ({u} \X blocked)
      /\ trusts' = {t \in trusts : t[1] # u} \union ({u} \X trusted)
  BY DEF SaveWotSettings, Changes
<1>2. unblocked' = IF at = "idle" \/ ~request.write THEN {}
                   ELSE unblocked \union NotBlocking(blocks', request.event.author)
  BY DEF SaveWotSettings
<1>3. BoxTypeOK
  BY DEF BoxInv, BoxTypes
<1>4. blocks' \subseteq BoxUsers \X BoxUsers /\ trusts' \subseteq BoxUsers \X BoxUsers
  BY <1>1, <1>3 DEF BoxTypeOK
<1>5. unblocked' \subseteq BoxUsers
  BY <1>2, <1>3 DEF BoxTypeOK, NotBlocking
<1>6. BoxTypeOK'
  BY <1>1, <1>3, <1>4, <1>5, ChangesCounted DEF BoxTypeOK
<1>7. HistoryKept'
  <2>1. at # "idle" /\ request.write => NotBlocking(blocks', request.event.author) \subseteq unblocked'
    BY <1>2
  <2>2. Open(rule)' = Open(rule)
    BY <1>1 DEF Open
  <2> QED
    BY <1>1, <2>1, <2>2 DEF BoxInv, HistoryKept
<1>8. (request.write => unblocked \subseteq unblocked') \/ at = "idle"
  BY <1>2
<1> QED
  BY <1>1, <1>6, <1>7, <1>8, RulesChangeKeeps

LEMMA TierChangesKeeps ==
  ASSUME BoxInv, NEW u \in BoxUsers, TierChanges(u)
  PROVE  BoxInv'
<1>1. /\ Changes
      /\ UNCHANGED <<single, at, request, todo, passed, faulted, rule, blocks, trusts, allowed, unblocked>>
      /\ boxes' = IF u \in boxes THEN boxes \ {u} ELSE boxes \union {u}
  BY DEF TierChanges, Changes
<1>2. BoxTypeOK
  BY DEF BoxInv, BoxTypes
<1>3. BoxTypeOK'
  BY <1>1, <1>2, ChangesCounted DEF BoxTypeOK
<1>4. HistoryKept'
  <2>1. Open(rule)' = Open(rule)
    BY <1>1 DEF Open
  <2> QED
    BY <1>1, <2>1 DEF BoxInv, HistoryKept
<1> QED
  BY <1>1, <1>3, <1>4, RulesChangeKeeps

LEMMA BoxStep == BoxInv /\ [BoxNext]_BoxVars => BoxInv'
<1> SUFFICES ASSUME BoxInv, [BoxNext]_BoxVars PROVE BoxInv'
  OBVIOUS
<1>1. ASSUME NEW ev \in Events, NEW who \in Askers, Receive(TRUE, ev, who) PROVE BoxInv'
  BY <1>1, ReceiveKeeps
<1>2. ASSUME NEW f \in Filters, NEW who \in Askers, Receive(FALSE, f, who) PROVE BoxInv'
  BY <1>2, ReceiveKeeps
<1>3. CASE RouteForUsers \/ RouteForOwner \/ CheckAccess \/ ExplainRefusal
  BY <1>3, RouteForUsersKeeps, RouteForOwnerKeeps, CheckAccessKeeps, ExplainRefusalKeeps
<1>4. CASE CheckLists \/ NextBox \/ Reply
  BY <1>4, CheckListsKeeps, NextBoxKeeps, ReplyKeeps
<1>5. ASSUME NEW u \in BoxUsers, TierChanges(u) PROVE BoxInv'
  BY <1>5, TierChangesKeeps
<1>6. ASSUME NEW u \in BoxUsers, NEW ru \in {"open", "inboxClosed", "outboxClosed"},
             SaveHavenSettings(u, ru)
      PROVE  BoxInv'
  BY <1>6, SaveHavenSettingsKeeps
<1>7. ASSUME NEW u \in BoxUsers, NEW v \in BoxUsers,
             SaveWotSettings(u, {v}, {}) \/ SaveWotSettings(u, {}, {v})
      PROVE  BoxInv'
  BY <1>7, SaveWotSettingsKeeps
<1>8. CASE UNCHANGED BoxVars
  <2>1. UNCHANGED <<single, boxes, rule, blocks, trusts, at, request, todo, passed,
                    allowed, unblocked, changed, faulted>>
    BY <1>8 DEF BoxVars
  <2>2. BoxTypes'
    BY <2>1 DEF BoxInv, BoxTypes, BoxTypeOK
  <2>3. Open(rule)' = Open(rule)
    BY <2>1 DEF Open
  <2>4. SingleRules' /\ HistoryKept' /\ PassedCleared'
    BY <2>1, <2>3 DEF BoxInv, SingleRules, HistoryKept, PassedCleared
  <2> QED
    BY <2>2, <2>4 DEF BoxInv
<1> QED
  BY <1>1, <1>2, <1>3, <1>4, <1>5, <1>6, <1>7, <1>8 DEF BoxNext, Askers

LEMMA BoxInvariant == BoxInit /\ [][BoxNext]_BoxVars => []BoxInv
<1> QED
  BY BoxFirst, BoxStep, PTL

\* The boxes' state keeps its type: routing ends in the boxes of members, the
\* list of boxes is not empty while one of them is checked, and a request is an
\* event or a filter that arrived.
THEOREM BoxTypeCorrect == BoxSpec => []BoxTypeOK
<1>1. BoxInv => BoxTypeOK
  BY DEF BoxInv, BoxTypes
<1> QED
  BY <1>1, BoxInvariant, PTL DEF BoxSpec

\* A request passes only boxes whose owner allowed it at some moment while it was
\* checked, for any users, settings and lists that change in between.
THEOREM OwnersRules == BoxSpec => []OwnersRulesHold
<1>1. BoxInv => OwnersRulesHold
  BY DEF BoxInv, PassedCleared, Cleared, MayEnter, OwnersRulesHold
<1> QED
  BY <1>1, BoxInvariant, PTL DEF BoxSpec

-----------------------------------------------------------------------------
(* Imports                                                                   *)

\* Here already, or given up for a reason the code knows.
Covered(r, t, here, reasons) == t \in here \/ <<r, t>> \in reasons

\* What a worker's relays held when they answered is settled, still to be stored,
\* or marked as what this job misses.
Accounted(j, here, reasons) ==
  \A r \in Remote, t \in Times : <<r, t>> \in j.held =>
    /\ r \in j.asked
    /\ <<r, t>> \notin j.missed => Covered(r, t, here, reasons) \/ t \in j.got
JobsAccounted == \A w \in Workers : Accounted(job[w], stored, explained)
ImportInv == ImportTypeOK /\ LostImportsAreExplained /\ JobsAccounted

LEMMA RemotesListed == Remotes \in Seq(Remote) /\ Remote \subseteq Workers
<1>1. Remotes \in Seq(Workers)
  BY ImportAssumption
<1>2. Len(Remotes) \in Nat /\ Remotes \in [1..Len(Remotes) -> Workers]
  BY <1>1
<1>3. \A i \in 1..Len(Remotes) : Remotes[i] \in Remote
  BY DEF Remote
<1>4. Remotes \in [1..Len(Remotes) -> Remote]
  BY <1>2, <1>3
<1>5. Remotes \in Seq(Remote)
  BY <1>2, <1>4, SeqDef
<1> QED
  BY <1>2, <1>5 DEF Remote

LEMMA NoJobInType == NoJob \in JobState
<1>1. <<>> \in Seq(Remote)
  BY EmptySeq
<1> QED
  BY <1>1 DEF NoJob, JobState

LEMMA NoJobFields ==
  /\ NoJob.since = None /\ NoJob.left = <<>> /\ NoJob.got = {} /\ NoJob.asked = {}
  /\ NoJob.imported = FALSE /\ NoJob.held = {} /\ NoJob.missed = {}
BY DEF NoJob

LEMMA NewJobInType ==
  ASSUME NEW since \in Times, NEW relays \in Seq(Remote)
  PROVE  /\ NewJob(since, relays) \in JobState
         /\ NewJob(since, relays).held = {}
BY DEF NewJob, NoJob, JobState

LEMMA JobFields ==
  ASSUME NEW j \in JobState
  PROVE  /\ j.since \in Times \union {None} /\ j.left \in Seq(Remote) /\ j.got \subseteq Times
         /\ j.asked \subseteq Remote /\ j.imported \in BOOLEAN
         /\ j.held \subseteq Remote \X Times /\ j.missed \subseteq Remote \X Times
BY DEF JobState

LEMMA SinceInType ==
  ASSUME ImportTypeOK, NEW key \in Remote \union {"row"}
  PROVE  SinceOf(key, now) \in Times
<1>1. now \in Times /\ mark[key] \in Times \union {None}
  BY DEF ImportTypeOK
<1> QED
  BY <1>1, ImportAssumption DEF SinceOf, Times

LEMMA KeyInType == ASSUME NEW r \in Remote PROVE Key(r) \in Remote \union {"row"}
BY DEF Key

LEMMA ImportFirst == ImportInit => ImportInv
<1> SUFFICES ASSUME ImportInit PROVE ImportInv
  OBVIOUS
<1> USE DEF ImportInit
<1>1. ImportTypeOK
  <2>1. job \in [Workers -> JobState]
    BY NoJobInType
  <2>2. queue \in Seq(Times) /\ Len(queue) <= QueueSize
    BY EmptySeq, ImportAssumption
  <2>3. now \in Times
    BY ImportAssumption DEF Times
  <2>4. runs \in 0..MaxRuns /\ mishaps \in 0..MaxMishaps
    BY ImportAssumption
  <2>5. mark \in [Remote \union {"row"} -> Times \union {None}]
    OBVIOUS
  <2>6. remote \in [Remote -> SUBSET Times]
    OBVIOUS
  <2> QED
    BY <2>1, <2>2, <2>3, <2>4, <2>5, <2>6 DEF ImportTypeOK
<1>2. LostImportsAreExplained
  BY DEF LostImportsAreExplained
<1>3. JobsAccounted
  BY NoJobFields DEF JobsAccounted, Accounted
<1> QED
  BY <1>1, <1>2, <1>3 DEF ImportInv

\* The jobs' accounts stay right while nothing that is settled stops being so.
LEMMA AccountKept ==
  ASSUME NEW j, NEW here, NEW here2, NEW reasons, NEW reasons2,
         here \subseteq here2, reasons \subseteq reasons2, Accounted(j, here, reasons)
  PROVE  Accounted(j, here2, reasons2)
BY DEF Accounted, Covered

LEMMA AccountsKept ==
  ASSUME JobsAccounted, stored \subseteq stored', explained \subseteq explained',
         \A w \in Workers : job'[w] = job[w] \/ job'[w].held = {}
  PROVE  JobsAccounted'
<1>1. ASSUME NEW w \in Workers PROVE Accounted(job'[w], stored', explained')
  <2>1. CASE job'[w] = job[w]
    <3>1. Accounted(job[w], stored, explained)
      BY DEF JobsAccounted
    <3>2. Accounted(job[w], stored', explained')
      BY <3>1, AccountKept
    <3> QED
      BY <2>1, <3>2
  <2>2. CASE job'[w].held = {}
    BY <2>2 DEF Accounted
  <2> QED
    BY <2>1, <2>2
<1> QED
  BY <1>1 DEF JobsAccounted

LEMMA OneJobAccounted ==
  ASSUME ImportInv, NEW w \in Workers, NEW next, job' = [job EXCEPT ![w] = next],
         stored \subseteq stored', explained \subseteq explained',
         Accounted(next, stored', explained')
  PROVE  JobsAccounted'
<1>1. job \in [Workers -> JobState]
  BY DEF ImportInv, ImportTypeOK
<1>2. ASSUME NEW v \in Workers PROVE Accounted(job'[v], stored', explained')
  <2>1. CASE v = w
    <3>1. job'[v] = next
      BY <1>1, <2>1
    <3> QED
      BY <3>1
  <2>2. CASE v # w
    <3>1. job'[v] = job[v] /\ Accounted(job[v], stored, explained)
      BY <1>1, <2>2 DEF ImportInv, JobsAccounted
    <3>2. Accounted(job[v], stored', explained')
      BY <3>1, AccountKept
    <3> QED
      BY <3>1, <3>2
  <2> QED
    BY <2>1, <2>2
<1> QED
  BY <1>2 DEF JobsAccounted

\* Nothing is lost while no relay gets an event and no time moves.
LEMMA LossesKept ==
  ASSUME LostImportsAreExplained, stored \subseteq stored', explained \subseteq explained',
         UNCHANGED <<multi, now, remote, mark>>
  PROVE  LostImportsAreExplained'
<1> SUFFICES ASSUME NEW r \in Remote, NEW t \in remote[r]
             PROVE  t \in stored' \/ <<r, t>> \in explained' \/ t >= SinceOf(Key(r), now)'
  BY DEF LostImportsAreExplained
<1>1. SinceOf(Key(r), now)' = SinceOf(Key(r), now)
  BY DEF SinceOf, Key
<1> QED
  BY <1>1 DEF LostImportsAreExplained

LEMMA ClockKeeps == ASSUME ImportInv, Clock PROVE ImportInv'
<1> DEFINE tooOld == {x \in TooOld(now + 1) : mark[Key(x[1])] = None}
<1>1. /\ now < MaxClock /\ now' = now + 1 /\ explained' = explained \union tooOld
      /\ UNCHANGED <<multi, remote, stored, seen, mark, queue, job, runs, mishaps>>
  BY DEF Clock
<1>2. ImportTypeOK
  BY DEF ImportInv
<1>3. tooOld \subseteq Remote \X Times
  BY DEF TooOld
<1>4. ImportTypeOK'
  <2>1. now' \in Times
    BY <1>1, <1>2, ImportAssumption DEF ImportTypeOK, Times
  <2>2. explained' \subseteq Remote \X Times
    BY <1>1, <1>2, <1>3 DEF ImportTypeOK
  <2> QED
    BY <1>1, <1>2, <2>1, <2>2 DEF ImportTypeOK
<1>5. ASSUME NEW r \in Remote, NEW t \in remote[r]
      PROVE  t \in stored \/ <<r, t>> \in explained' \/ t >= SinceOf(Key(r), now)'
  <2>1. Key(r)' = Key(r)
    BY <1>1 DEF Key
  <2>2. SinceOf(Key(r), now)' = SinceOf(Key(r), now + 1)
    BY <1>1, <2>1 DEF SinceOf
  <2>3. CASE mark[Key(r)] # None
    <3>1. SinceOf(Key(r), now + 1) = SinceOf(Key(r), now)
      BY <2>3 DEF SinceOf
    <3> QED
      BY <1>1, <2>2, <3>1 DEF ImportInv, LostImportsAreExplained
  <2>4. CASE mark[Key(r)] = None
    <3>1. t \in Times
      BY <1>2 DEF ImportTypeOK
    <3>2. SinceOf(Key(r), now + 1) \in Int /\ t \in Int
      BY <1>2, <2>4, <3>1, ImportAssumption DEF SinceOf, ImportTypeOK, Times
    <3>3. t < SinceOf(Key(r), now + 1) => <<r, t>> \in tooOld
      BY <2>4, <3>1 DEF TooOld
    <3> HIDE DEF tooOld
    <3> QED
      BY <1>1, <2>2, <3>2, <3>3
  <2> QED
    BY <2>3, <2>4
<1>6. LostImportsAreExplained'
  BY <1>1, <1>5 DEF LostImportsAreExplained
<1>7. JobsAccounted'
  BY <1>1, AccountsKept DEF ImportInv
<1> QED
  BY <1>4, <1>6, <1>7 DEF ImportInv

LEMMA PublishKeeps ==
  ASSUME ImportInv, NEW r \in Remote, NEW t \in Times, Publish(r, t)
  PROVE  ImportInv'
<1>1. /\ remote' = [remote EXCEPT ![r] = @ \union {t}]
      /\ explained' = IF <<r, t>> \in TooOld(now) THEN explained \union {<<r, t>>} ELSE explained
      /\ UNCHANGED <<multi, now, stored, seen, mark, queue, job, runs, mishaps>>
  BY DEF Publish
<1>2. ImportTypeOK
  BY DEF ImportInv
<1>3. ImportTypeOK'
  BY <1>1, <1>2 DEF ImportTypeOK
<1>4. ASSUME NEW s \in Remote, NEW u \in remote'[s]
      PROVE  u \in stored \/ <<s, u>> \in explained' \/ u >= SinceOf(Key(s), now)'
  <2>1. SinceOf(Key(s), now)' = SinceOf(Key(s), now)
    BY <1>1 DEF SinceOf, Key
  <2>2. CASE u \in remote[s]
    BY <1>1, <2>1, <2>2 DEF ImportInv, LostImportsAreExplained
  <2>3. CASE s = r /\ u = t
    <3>1. SinceOf(Key(s), now) \in Int /\ t \in Int
      BY <1>2, KeyInType, SinceInType DEF Times
    <3>2. t < SinceOf(Key(s), now) => <<r, t>> \in TooOld(now)
      BY <2>3 DEF TooOld
    <3> QED
      BY <1>1, <2>1, <2>3, <3>1, <3>2
  <2>4. u \in remote[s] \/ (s = r /\ u = t)
    BY <1>1, <1>2 DEF ImportTypeOK
  <2> QED
    BY <2>2, <2>3, <2>4
<1>5. LostImportsAreExplained'
  BY <1>1, <1>4 DEF LostImportsAreExplained
<1>6. JobsAccounted'
  BY <1>1, AccountsKept DEF ImportInv
<1> QED
  BY <1>3, <1>5, <1>6 DEF ImportInv

\* A step that only starts, drops or queues jobs.
LEMMA JobsOnly ==
  ASSUME ImportInv, UNCHANGED <<multi, now, remote, mark, stored, explained>>,
         ImportTypeOK', \A w \in Workers : job'[w] = job[w] \/ job'[w].held = {}
  PROVE  ImportInv'
<1>1. LostImportsAreExplained'
  BY LossesKept DEF ImportInv
<1>2. JobsAccounted'
  BY AccountsKept DEF ImportInv
<1> QED
  BY <1>1, <1>2 DEF ImportInv

LEMMA PollKeeps == ASSUME ImportInv, Poll PROVE ImportInv'
<1>1. /\ runs < MaxRuns /\ runs' = runs + 1
      /\ job' = [w \in Workers |-> IF w \in Remote THEN NewJob(SinceOf(w, now), <<w>>) ELSE NoJob]
      /\ UNCHANGED <<multi, now, remote, stored, seen, mark, queue, explained, mishaps>>
  BY DEF Poll
<1>2. ImportTypeOK
  BY DEF ImportInv
<1>3. ASSUME NEW w \in Workers PROVE job'[w] \in JobState /\ job'[w].held = {}
  <2>1. CASE w \in Remote
    <3>1. SinceOf(w, now) \in Times /\ <<w>> \in Seq(Remote)
      BY <1>2, <2>1, SinceInType
    <3>2. job'[w] = NewJob(SinceOf(w, now), <<w>>)
      BY <1>1, <2>1
    <3> QED
      BY <3>1, <3>2, NewJobInType
  <2>2. CASE w \notin Remote
    BY <1>1, <2>2, NoJobInType, NoJobFields
  <2> QED
    BY <2>1, <2>2
<1>4. job' \in [Workers -> JobState]
  BY <1>1, <1>3
<1>5. runs' \in 0..MaxRuns
  BY <1>1, <1>2, ImportAssumption DEF ImportTypeOK
<1>6. ImportTypeOK'
  BY <1>1, <1>2, <1>4, <1>5 DEF ImportTypeOK
<1> QED
  BY <1>1, <1>3, <1>6, JobsOnly

LEMMA ScheduleKeeps == ASSUME ImportInv, Schedule PROVE ImportInv'
<1>1. /\ runs < MaxRuns /\ runs' = runs + 1
      /\ queue' = IF QueueHasRoom THEN Append(queue, SinceOf("row", now)) ELSE queue
      /\ UNCHANGED <<multi, now, remote, stored, seen, mark, job, explained, mishaps>>
  BY DEF Schedule
<1>2. ImportTypeOK
  BY DEF ImportInv
<1>3. queue' \in Seq(Times) /\ Len(queue') <= QueueSize
  <2>1. queue \in Seq(Times) /\ Len(queue) <= QueueSize /\ Len(queue) \in Nat
    BY <1>2 DEF ImportTypeOK
  <2>2. SinceOf("row", now) \in Times
    BY <1>2, SinceInType
  <2>3. CASE QueueHasRoom
    <3>1. queue' = Append(queue, SinceOf("row", now)) /\ Len(queue) < QueueSize
      BY <1>1, <2>3 DEF QueueHasRoom
    <3>2. queue' \in Seq(Times) /\ Len(queue') = Len(queue) + 1
      BY <2>1, <2>2, <3>1, AppendProperties
    <3> QED
      BY <2>1, <3>1, <3>2, ImportAssumption
  <2>4. CASE ~QueueHasRoom
    BY <1>1, <2>1, <2>4
  <2> QED
    BY <2>3, <2>4
<1>4. runs' \in 0..MaxRuns
  BY <1>1, <1>2, ImportAssumption DEF ImportTypeOK
<1>5. ImportTypeOK'
  BY <1>1, <1>2, <1>3, <1>4 DEF ImportTypeOK
<1> QED
  BY <1>1, <1>5, JobsOnly

LEMMA TakeJobKeeps == ASSUME ImportInv, NEW w \in Workers, TakeJob(w) PROVE ImportInv'
<1>1. /\ queue # <<>> /\ job' = [job EXCEPT ![w] = NewJob(Head(queue), Remotes)]
      /\ queue' = Tail(queue)
      /\ UNCHANGED <<multi, now, remote, stored, seen, mark, explained, runs, mishaps>>
  BY DEF TakeJob
<1>2. ImportTypeOK
  BY DEF ImportInv
<1>3. /\ Head(queue) \in Times /\ Tail(queue) \in Seq(Times) /\ Len(Tail(queue)) = Len(queue) - 1
      /\ Len(queue) \in Nat /\ Len(queue) <= QueueSize
  BY <1>1, <1>2, HeadTailProperties DEF ImportTypeOK
<1>4. NewJob(Head(queue), Remotes) \in JobState /\ NewJob(Head(queue), Remotes).held = {}
  BY <1>3, NewJobInType, RemotesListed
<1>5. queue' \in Seq(Times) /\ Len(queue') <= QueueSize
  BY <1>1, <1>3, ImportAssumption
<1>6. job' \in [Workers -> JobState]
  BY <1>1, <1>2, <1>4 DEF ImportTypeOK
<1>7. ImportTypeOK'
  BY <1>1, <1>2, <1>5, <1>6 DEF ImportTypeOK
<1>8. \A v \in Workers : job'[v] = job[v] \/ job'[v].held = {}
  BY <1>1, <1>2, <1>4 DEF ImportTypeOK
<1> QED
  BY <1>1, <1>7, <1>8, JobsOnly

LEMMA QueryFailsKeeps == ASSUME ImportInv, NEW w \in Workers, QueryFails(w) PROVE ImportInv'
<1> DEFINE j == job[w]
           next == IF multi THEN [j EXCEPT !.left = Tail(j.left)] ELSE NoJob
<1>1. /\ Asking(w) /\ mishaps < MaxMishaps /\ mishaps' = mishaps + 1
      /\ job' = [job EXCEPT ![w] = next]
      /\ UNCHANGED <<multi, now, remote, stored, seen, mark, queue, explained, runs>>
  BY DEF QueryFails
<1>2. ImportTypeOK
  BY DEF ImportInv
<1>3. j \in JobState /\ job \in [Workers -> JobState]
  BY <1>2 DEF ImportTypeOK
<1>4. j.left \in Seq(Remote) /\ j.left # <<>>
  BY <1>1, <1>3, JobFields DEF Asking
<1>5. Tail(j.left) \in Seq(Remote)
  BY <1>4, HeadTailProperties
<1>6. /\ [j EXCEPT !.left = Tail(j.left)] \in JobState
      /\ [j EXCEPT !.left = Tail(j.left)].held = j.held
      /\ [j EXCEPT !.left = Tail(j.left)].missed = j.missed
      /\ [j EXCEPT !.left = Tail(j.left)].got = j.got
      /\ [j EXCEPT !.left = Tail(j.left)].asked = j.asked
  <2> HIDE DEF j
  <2> QED
    BY <1>3, <1>5 DEF JobState
<1>7. next \in JobState /\ Accounted(next, stored, explained)
  <2>1. Accounted(j, stored, explained)
    BY DEF ImportInv, JobsAccounted
  <2> HIDE DEF j
  <2> QED
    BY <1>6, <2>1, NoJobInType, NoJobFields DEF Accounted
<1> HIDE DEF j, next
<1>8. job' \in [Workers -> JobState]
  BY <1>1, <1>3, <1>7
<1>9. mishaps' \in 0..MaxMishaps
  BY <1>1, <1>2, ImportAssumption DEF ImportTypeOK
<1>10. ImportTypeOK'
  BY <1>1, <1>2, <1>8, <1>9 DEF ImportTypeOK
<1>11. LostImportsAreExplained'
  BY <1>1, LossesKept DEF ImportInv
<1>12. JobsAccounted'
  BY <1>1, <1>7, OneJobAccounted
<1> QED
  BY <1>10, <1>11, <1>12 DEF ImportInv

LEMMA ImportQueryKeeps == ASSUME ImportInv, NEW w \in Workers, Query(w) PROVE ImportInv'
<1> DEFINE j == job[w]
           r == Head(j.left)
           all == Matching(r, j.since)
           late == {t \in remote[r] : SinceOf(Key(r), now) <= t /\ t < j.since}
           visited == j.asked \union {r}
           held == j.held \union ({r} \X remote[r])
           missed == j.missed \union ({r} \X (late \union (all \ Newest(all))))
           next == [j EXCEPT !.left = Tail(j.left), !.asked = visited, !.got = Newest(all),
                             !.held = held, !.missed = missed]
<1>1. /\ Asking(w)
      /\ job' = [job EXCEPT ![w] = next]
      /\ UNCHANGED <<multi, now, remote, stored, seen, mark, queue, explained, runs, mishaps>>
  BY DEF Query
<1>2. ImportTypeOK
  BY DEF ImportInv
<1>3. j \in JobState /\ job \in [Workers -> JobState]
  BY <1>2 DEF ImportTypeOK
<1>4. j.left \in Seq(Remote) /\ j.left # <<>> /\ j.got = {}
  BY <1>1, <1>3, JobFields DEF Asking
<1>5. Tail(j.left) \in Seq(Remote) /\ r \in Remote
  BY <1>4, HeadTailProperties
<1>6. remote[r] \subseteq Times
  BY <1>2, <1>5 DEF ImportTypeOK
<1>7. Newest(all) \subseteq Times /\ all \subseteq remote[r]
  BY <1>6 DEF Newest, Matching
<1>8. visited \subseteq Remote /\ held \subseteq Remote \X Times /\ missed \subseteq Remote \X Times
  <2>1. late \union (all \ Newest(all)) \subseteq Times
    BY <1>6, <1>7
  <2>2. /\ j.asked \subseteq Remote
        /\ j.held \subseteq Remote \X Times /\ j.missed \subseteq Remote \X Times
    BY <1>3, JobFields
  <2> HIDE DEF j, r, all, late
  <2> QED
    BY <1>5, <1>6, <2>1, <2>2
<1>9. /\ next \in JobState /\ next.held = held /\ next.missed = missed /\ next.got = Newest(all)
      /\ next.asked = visited
  <2> HIDE DEF j, r, all, late, visited, held, missed
  <2> QED
    BY <1>3, <1>5, <1>7, <1>8 DEF JobState
<1>10. ASSUME NEW s \in Remote, NEW t \in Times, <<s, t>> \in held
       PROVE  /\ s \in visited
              /\ <<s, t>> \notin missed => Covered(s, t, stored, explained) \/ t \in Newest(all)
  <2>1. CASE <<s, t>> \in j.held
    <3>1. Accounted(j, stored, explained)
      BY DEF ImportInv, JobsAccounted
    <3>2. s \in j.asked /\ (<<s, t>> \notin j.missed => Covered(s, t, stored, explained))
      <4> HIDE DEF j
      <4> QED
        BY <1>4, <2>1, <3>1 DEF Accounted
    <3> HIDE DEF j, r, all, late
    <3> QED
      BY <3>2
  <2>2. ASSUME s = r /\ t \in remote[r], <<s, t>> \notin missed
        PROVE  Covered(s, t, stored, explained) \/ t \in Newest(all)
    <3>1. /\ j.since \in Times \union {None} /\ t \in Times
          /\ SinceOf(Key(r), now) \in Times
      BY <1>2, <1>3, <1>5, <1>10, JobFields, KeyInType, SinceInType
    <3>2. t \notin late /\ (t \notin all \/ t \in Newest(all))
      <4> HIDE DEF r, all, late
      <4> QED
        BY <1>10, <2>2
    <3>3. CASE t >= j.since
      BY <2>2, <3>2, <3>3 DEF Matching
    <3>4. CASE t < j.since
      <4>1. ~(SinceOf(Key(r), now) <= t)
        BY <2>2, <3>2, <3>4
      <4>2. t < SinceOf(Key(r), now)
        BY <3>1, <4>1 DEF Times
      <4> HIDE DEF r, all, late
      <4>3. t \in stored \/ <<r, t>> \in explained
        <5>1. t \in stored \/ <<r, t>> \in explained \/ t >= SinceOf(Key(r), now)
          BY <1>5, <2>2 DEF ImportInv, LostImportsAreExplained
        <5> QED
          BY <3>1, <4>2, <5>1 DEF Times
      <4> QED
        BY <2>2, <4>3 DEF Covered
    <3> QED
      BY <3>1, <3>3, <3>4 DEF Times, None
  <2>3. <<s, t>> \in j.held \/ (s = r /\ t \in remote[r])
    <3> HIDE DEF j, r
    <3> QED
      BY <1>10
  <2>4. CASE s = r /\ t \in remote[r]
    <3>1. s \in visited
      BY <2>4
    <3> QED
      BY <2>2, <2>4, <3>1
  <2> QED
    BY <2>1, <2>3, <2>4
<1> HIDE DEF j, r, all, late, visited, held, missed, next
<1>11. job' \in [Workers -> JobState]
  BY <1>1, <1>3, <1>9
<1>12. ImportTypeOK'
  BY <1>1, <1>2, <1>11 DEF ImportTypeOK
<1>13. LostImportsAreExplained'
  BY <1>1, LossesKept DEF ImportInv
<1>14. JobsAccounted'
  <2>1. Accounted(next, stored, explained)
    BY <1>9, <1>10 DEF Accounted
  <2> QED
    BY <1>1, <2>1, OneJobAccounted
<1> QED
  BY <1>12, <1>13, <1>14 DEF ImportInv

LEMMA StoreEventKeeps ==
  ASSUME ImportInv, NEW w \in Workers, NEW t \in Times, StoreEvent(w, t)
  PROVE  ImportInv'
<1> DEFINE j == job[w]
           imported == j.imported \/ (t \notin seen /\ t \notin stored)
           next == [j EXCEPT !.got = j.got \ {t}, !.imported = imported]
<1>1. /\ t \in j.got /\ stored' = stored \union {t}
      /\ seen' = IF t \in stored THEN seen ELSE seen \union {t}
      /\ job' = [job EXCEPT ![w] = next]
      /\ UNCHANGED <<multi, now, remote, mark, queue, explained, runs, mishaps>>
  BY DEF StoreEvent
<1>2. ImportTypeOK
  BY DEF ImportInv
<1>3. j \in JobState /\ job \in [Workers -> JobState]
  BY <1>2 DEF ImportTypeOK
<1>4. imported \in BOOLEAN
  BY <1>3, JobFields
<1>5. /\ next \in JobState /\ next.held = j.held /\ next.missed = j.missed
      /\ next.got = j.got \ {t} /\ next.asked = j.asked
  <2> HIDE DEF j, imported
  <2> QED
    BY <1>3, <1>4 DEF JobState
<1>6. Accounted(j, stored, explained)
  BY DEF ImportInv, JobsAccounted
<1> HIDE DEF j, imported, next
<1>7. job' \in [Workers -> JobState]
  BY <1>1, <1>3, <1>5
<1>8. ImportTypeOK'
  BY <1>1, <1>2, <1>7 DEF ImportTypeOK
<1>9. LostImportsAreExplained'
  BY <1>1, LossesKept DEF ImportInv
<1>10. JobsAccounted'
  <2>1. Accounted(next, stored', explained')
    BY <1>1, <1>5, <1>6 DEF Accounted, Covered
  <2> QED
    BY <1>1, <2>1, OneJobAccounted
<1> QED
  BY <1>8, <1>9, <1>10 DEF ImportInv

LEMMA StoreFailsKeeps ==
  ASSUME ImportInv, NEW w \in Workers, NEW t \in Times, StoreFails(w, t)
  PROVE  ImportInv'
<1> DEFINE j == job[w]
           missed == j.missed \union (j.asked \X {t})
           next == [j EXCEPT !.got = j.got \ {t}, !.missed = missed]
<1>1. /\ t \in j.got /\ mishaps < MaxMishaps /\ mishaps' = mishaps + 1
      /\ job' = [job EXCEPT ![w] = next]
      /\ UNCHANGED <<multi, now, remote, stored, seen, mark, queue, explained, runs>>
  BY DEF StoreFails
<1>2. ImportTypeOK
  BY DEF ImportInv
<1>3. j \in JobState /\ job \in [Workers -> JobState]
  BY <1>2 DEF ImportTypeOK
<1>4. missed \subseteq Remote \X Times
  <2>1. j.missed \subseteq Remote \X Times /\ j.asked \subseteq Remote
    BY <1>3, JobFields
  <2> HIDE DEF j
  <2> QED
    BY <2>1
<1>5. /\ next \in JobState /\ next.held = j.held /\ next.missed = missed
      /\ next.got = j.got \ {t} /\ next.asked = j.asked
  <2> HIDE DEF j, missed
  <2> QED
    BY <1>3, <1>4 DEF JobState
<1>6. Accounted(j, stored, explained)
  BY DEF ImportInv, JobsAccounted
<1>7. Accounted(next, stored, explained)
  <2> HIDE DEF j, next
  <2> QED
    BY <1>5, <1>6 DEF Accounted
<1> HIDE DEF j, missed, next
<1>8. job' \in [Workers -> JobState]
  BY <1>1, <1>3, <1>5
<1>9. mishaps' \in 0..MaxMishaps
  BY <1>1, <1>2, ImportAssumption DEF ImportTypeOK
<1>10. ImportTypeOK'
  BY <1>1, <1>2, <1>8, <1>9 DEF ImportTypeOK
<1>11. LostImportsAreExplained'
  BY <1>1, LossesKept DEF ImportInv
<1>12. JobsAccounted'
  BY <1>1, <1>7, OneJobAccounted
<1> QED
  BY <1>10, <1>11, <1>12 DEF ImportInv

LEMMA FinishKeeps == ASSUME ImportInv, NEW w \in Workers, Finish(w) PROVE ImportInv'
<1> DEFINE moves == (multi /\ job[w].imported) \/ (~multi /\ job[w].asked # {})
<1>1. /\ job[w].left = <<>> /\ job[w].got = {}
      /\ job' = [job EXCEPT ![w] = NoJob]
      /\ mark' = IF Advances(w) THEN [k \in DOMAIN mark |-> IF k \in Reaches(w) THEN now ELSE mark[k]]
                 ELSE mark
      /\ explained' = IF moves THEN explained \union GivesUp(w) ELSE explained
      /\ UNCHANGED <<multi, now, remote, stored, seen, queue, runs, mishaps>>
  BY DEF Finish
<1>2. ImportTypeOK
  BY DEF ImportInv
<1>3. job \in [Workers -> JobState] /\ job[w] \in JobState /\ now \in Times
  BY <1>2 DEF ImportTypeOK
<1>4. /\ mark \in [Remote \union {"row"} -> Times \union {None}]
      /\ mark' \in [Remote \union {"row"} -> Times \union {None}]
      /\ \A k \in Remote \union {"row"} :
           mark'[k] = mark[k] \/ (mark'[k] = now /\ Advances(w) /\ k \in Reaches(w))
  <2>1. mark \in [Remote \union {"row"} -> Times \union {None}]
    BY <1>2 DEF ImportTypeOK
  <2>2. CASE Advances(w)
    <3>1. mark' = [k \in Remote \union {"row"} |-> IF k \in Reaches(w) THEN now ELSE mark[k]]
      BY <1>1, <2>1, <2>2
    <3> QED
      BY <1>3, <2>1, <2>2, <3>1
  <2>3. CASE ~Advances(w)
    BY <1>1, <2>1, <2>3
  <2> QED
    BY <2>1, <2>2, <2>3
<1>5. GivesUp(w) \subseteq Remote \X Times
  BY DEF GivesUp
<1>6. explained \subseteq explained'
  BY <1>1
<1>7. ImportTypeOK'
  <2>1. job' \in [Workers -> JobState]
    BY <1>1, <1>3, NoJobInType
  <2>2. explained' \subseteq Remote \X Times
    BY <1>1, <1>2, <1>5 DEF ImportTypeOK
  <2> QED
    BY <1>1, <1>2, <1>4, <2>1, <2>2 DEF ImportTypeOK
<1>8. ASSUME NEW r \in Remote, NEW t \in remote[r]
      PROVE  t \in stored \/ <<r, t>> \in explained' \/ t >= SinceOf(Key(r), now)'
  <2>1. Key(r)' = Key(r) /\ Key(r) \in Remote \union {"row"}
    BY <1>1, KeyInType DEF Key
  <2>2. CASE mark'[Key(r)] = mark[Key(r)]
    <3>1. SinceOf(Key(r), now)' = SinceOf(Key(r), now)
      BY <1>1, <2>1, <2>2 DEF SinceOf
    <3> QED
      BY <1>6, <3>1 DEF ImportInv, LostImportsAreExplained
  <2>3. CASE Advances(w) /\ Key(r) \in Reaches(w)
    <3>1. t \in Times
      BY <1>2 DEF ImportTypeOK
    <3>2. moves
      BY <2>3 DEF Advances, Reaches
    <3>3. CASE <<r, t>> \notin job[w].held \/ <<r, t>> \in job[w].missed
      <4>1. <<r, t>> \in GivesUp(w)
        BY <2>3, <3>1, <3>3 DEF GivesUp
      <4> QED
        BY <1>1, <3>2, <4>1
    <3>4. CASE <<r, t>> \in job[w].held /\ <<r, t>> \notin job[w].missed
      <4>1. Accounted(job[w], stored, explained)
        BY DEF ImportInv, JobsAccounted
      <4>2. Covered(r, t, stored, explained)
        BY <1>1, <3>1, <3>4, <4>1 DEF Accounted
      <4> QED
        BY <1>6, <4>2 DEF Covered
    <3> QED
      BY <3>3, <3>4
  <2> QED
    BY <1>4, <2>1, <2>2, <2>3
<1>9. LostImportsAreExplained'
  BY <1>1, <1>8 DEF LostImportsAreExplained
<1>10. JobsAccounted'
  <2>1. \A v \in Workers : job'[v] = job[v] \/ job'[v].held = {}
    BY <1>1, <1>3, NoJobFields
  <2> QED
    BY <1>1, <1>6, <2>1, AccountsKept DEF ImportInv
<1> QED
  BY <1>7, <1>9, <1>10 DEF ImportInv

LEMMA ForgetSeenKeeps == ASSUME ImportInv, ForgetSeen PROVE ImportInv'
<1>1. /\ mishaps < MaxMishaps /\ mishaps' = mishaps + 1 /\ seen' = {}
      /\ UNCHANGED <<multi, now, remote, stored, mark, queue, job, explained, runs>>
  BY DEF ForgetSeen
<1>2. ImportTypeOK'
  <2>1. ImportTypeOK
    BY DEF ImportInv
  <2>2. mishaps' \in 0..MaxMishaps
    BY <1>1, <2>1, ImportAssumption DEF ImportTypeOK
  <2> QED
    BY <1>1, <2>1, <2>2 DEF ImportTypeOK
<1> QED
  BY <1>1, <1>2, JobsOnly

\* Once a time is lost, what is older than the lookback is given up.
LEMMA LookbackExplains ==
  ASSUME ImportInv, UNCHANGED <<multi, now, remote, stored>>,
         NEW r \in Remote, NEW t \in remote[r], mark'[Key(r)] = None,
         \A x \in Remote \X Times : x[2] < now - Lookback => x \in explained'
  PROVE  <<r, t>> \in explained' \/ t >= SinceOf(Key(r), now)'
<1>1. now \in Times /\ t \in Times
  BY DEF ImportInv, ImportTypeOK
<1>2. Key(r)' = Key(r)
  BY DEF Key
<1>3. SinceOf(Key(r), now)' = IF now > Lookback THEN now - Lookback ELSE 0
  BY <1>2 DEF SinceOf
<1>4. t < now - Lookback => <<r, t>> \in explained'
  BY <1>1
<1> QED
  BY <1>1, <1>3, <1>4, ImportAssumption DEF Times

LEMMA RestartKeeps == ASSUME ImportInv, Restart PROVE ImportInv'
<1> DEFINE old == {x \in Remote \X Times : x[2] < now - Lookback}
<1>1. /\ mishaps < MaxMishaps /\ mishaps' = mishaps + 1
      /\ seen' = {} /\ queue' = <<>> /\ job' = [w \in Workers |-> NoJob]
      /\ mark' = [k \in DOMAIN mark |-> IF k = "row" THEN mark[k] ELSE None]
      /\ explained' = (IF multi THEN explained ELSE explained \union old)
      /\ UNCHANGED <<multi, now, remote, stored, runs>>
  BY DEF Restart
<1>2. ImportTypeOK
  BY DEF ImportInv
<1>3. mark' = [k \in Remote \union {"row"} |-> IF k = "row" THEN mark[k] ELSE None]
  BY <1>1, <1>2 DEF ImportTypeOK
<1>4. ImportTypeOK'
  <2>1. job' \in [Workers -> JobState]
    BY <1>1, NoJobInType
  <2>2. queue' \in Seq(Times) /\ Len(queue') <= QueueSize
    BY <1>1, EmptySeq, ImportAssumption
  <2>3. mishaps' \in 0..MaxMishaps
    BY <1>1, <1>2, ImportAssumption DEF ImportTypeOK
  <2>4. mark' \in [Remote \union {"row"} -> Times \union {None}]
    BY <1>2, <1>3 DEF ImportTypeOK
  <2>5. explained' \subseteq Remote \X Times
    BY <1>1, <1>2 DEF ImportTypeOK
  <2> QED
    BY <1>1, <1>2, <2>1, <2>2, <2>3, <2>4, <2>5 DEF ImportTypeOK
<1>5. explained \subseteq explained'
  BY <1>1
<1>6. ASSUME NEW r \in Remote, NEW t \in remote[r]
      PROVE  t \in stored \/ <<r, t>> \in explained' \/ t >= SinceOf(Key(r), now)'
  <2>1. CASE multi
    <3>1. Key(r) = "row" /\ Key(r)' = "row" /\ mark'["row"] = mark["row"]
      BY <1>1, <1>3, <2>1 DEF Key
    <3>2. SinceOf(Key(r), now)' = SinceOf(Key(r), now)
      BY <1>1, <3>1 DEF SinceOf
    <3> QED
      BY <1>5, <3>2 DEF ImportInv, LostImportsAreExplained
  <2>2. CASE ~multi
    <3>1. mark'[Key(r)] = None
      BY <1>3, <2>2, ImportAssumption DEF Key
    <3>2. \A x \in Remote \X Times : x[2] < now - Lookback => x \in explained'
      BY <1>1, <2>2
    <3> HIDE DEF old
    <3> QED
      BY <1>1, <3>1, <3>2, LookbackExplains
  <2> QED
    BY <2>1, <2>2
<1>7. LostImportsAreExplained'
  BY <1>1, <1>6 DEF LostImportsAreExplained
<1>8. JobsAccounted'
  <2>1. \A v \in Workers : job'[v].held = {}
    BY <1>1, NoJobFields
  <2> QED
    BY <1>1, <1>5, <2>1, AccountsKept DEF ImportInv
<1> QED
  BY <1>4, <1>7, <1>8 DEF ImportInv

LEMMA SaveSettingsKeeps == ASSUME ImportInv, SaveSettings PROVE ImportInv'
<1> DEFINE old == {x \in Remote \X Times : x[2] < now - Lookback}
<1>1. /\ multi /\ mishaps < MaxMishaps /\ mishaps' = mishaps + 1
      /\ mark' = [mark EXCEPT !["row"] = None]
      /\ explained' = explained \union old
      /\ UNCHANGED <<multi, now, remote, stored, seen, queue, job, runs>>
  BY DEF SaveSettings
<1>2. ImportTypeOK
  BY DEF ImportInv
<1>3. ImportTypeOK'
  <2>1. mishaps' \in 0..MaxMishaps
    BY <1>1, <1>2, ImportAssumption DEF ImportTypeOK
  <2>2. mark' \in [Remote \union {"row"} -> Times \union {None}]
    BY <1>1, <1>2 DEF ImportTypeOK
  <2>3. explained' \subseteq Remote \X Times
    BY <1>1, <1>2 DEF ImportTypeOK
  <2> QED
    BY <1>1, <1>2, <2>1, <2>2, <2>3 DEF ImportTypeOK
<1>4. ASSUME NEW r \in Remote, NEW t \in remote[r]
      PROVE  t \in stored \/ <<r, t>> \in explained' \/ t >= SinceOf(Key(r), now)'
  <2>1. mark'[Key(r)] = None
    BY <1>1, <1>2 DEF Key, ImportTypeOK
  <2>2. \A x \in Remote \X Times : x[2] < now - Lookback => x \in explained'
    BY <1>1
  <2> HIDE DEF old
  <2> QED
    BY <1>1, <2>1, <2>2, LookbackExplains
<1>5. LostImportsAreExplained'
  BY <1>1, <1>4 DEF LostImportsAreExplained
<1>6. JobsAccounted'
  BY <1>1, AccountsKept DEF ImportInv
<1> QED
  BY <1>3, <1>5, <1>6 DEF ImportInv

LEMMA ImportStep == ImportInv /\ [ImportNext]_ImportVars => ImportInv'
<1> SUFFICES ASSUME ImportInv, [ImportNext]_ImportVars PROVE ImportInv'
  OBVIOUS
<1>1. CASE Clock \/ Poll \/ Schedule \/ ForgetSeen \/ Restart \/ SaveSettings
  BY <1>1, ClockKeeps, PollKeeps, ScheduleKeeps, ForgetSeenKeeps, RestartKeeps, SaveSettingsKeeps
<1>2. ASSUME NEW r \in Remote, NEW t \in Times, Publish(r, t) PROVE ImportInv'
  BY <1>2, PublishKeeps
<1>3. ASSUME NEW w \in Workers, TakeJob(w) \/ Query(w) \/ QueryFails(w) \/ Finish(w) PROVE ImportInv'
  BY <1>3, TakeJobKeeps, ImportQueryKeeps, QueryFailsKeeps, FinishKeeps
<1>4. ASSUME NEW w \in Workers, NEW t \in Times, StoreEvent(w, t) \/ StoreFails(w, t) PROVE ImportInv'
  BY <1>4, StoreEventKeeps, StoreFailsKeeps
<1>5. CASE UNCHANGED ImportVars
  <2>1. UNCHANGED <<multi, now, remote, stored, seen, mark, queue, job, explained, runs, mishaps>>
    BY <1>5 DEF ImportVars
  <2>2. ImportTypeOK'
    BY <2>1 DEF ImportInv, ImportTypeOK
  <2> QED
    BY <2>1, <2>2, JobsOnly
<1> QED
  BY <1>1, <1>2, <1>3, <1>4, <1>5 DEF ImportNext

LEMMA ImportInvariant == ImportInit /\ [][ImportNext]_ImportVars => []ImportInv
<1> QED
  BY ImportFirst, ImportStep, PTL

\* The importers' state keeps its type: the queue never exceeds its size, and a
\* worker's answer and accounts are about the relays it visits.
THEOREM ImportTypeCorrect == ImportSpec => []ImportTypeOK
<1>1. ImportInv => ImportTypeOK
  BY DEF ImportInv
<1> QED
  BY <1>1, ImportInvariant, PTL DEF ImportSpec

\* No import is lost without a reason, for any relays, workers, limits and
\* interleaving of their jobs.
THEOREM ImportsExplained == ImportSpec => []LostImportsAreExplained
<1>1. ImportInv => LostImportsAreExplained
  BY DEF ImportInv
<1> QED
  BY <1>1, ImportInvariant, PTL DEF ImportSpec

-----------------------------------------------------------------------------
(* The write gates                                                           *)

Open_ == {"auth", "tombstone", "bans", "claim", "trust", "paid", "join", "protected"}
PastAuth == {"tombstone", "bans", "claim", "trust", "paid", "join", "protected"}
PastTombstone == {"bans", "claim", "trust", "paid", "join", "protected"}
PastBans == {"claim", "trust", "paid", "join", "protected"}
Accepted == {"stored", "relayed"}
TurnedAway == {"pow", "auth-required", "restricted", "protected"}

\* What a request is owed at the gate it has come to: g is the gate, e the event,
\* ans what it was told, m and s what it has met and what held throughout.
Owed(g, e, ans, m, s, strict) ==
  /\ ans # "none" => g = "done"
  /\ g = "idle" => m = {}
  /\ g \in PastAuth \/ ans \in Accepted => (strict = TRUE /\ e.kind \notin AuthExempt => "auth" \in m)
  /\ g \in PastTombstone \/ ans \in Accepted => (e.kind \notin Ephemeral => "undeleted" \in m)
  /\ g \in PastBans \/ ans \in Accepted => "unbanned" \in m
  /\ ans \in Accepted /\ e.protected => "auth" \in m
  /\ "auth" \in s => ans \notin TurnedAway
\* A request that cost a database call.
Paying(g, e, m, strict) ==
  /\ g \notin {"idle", "auth"}
  /\ strict = TRUE /\ e.kind \notin AuthExempt => "auth" \in m

RequestsOwed ==
  \A r \in GateRequests :
    /\ Owed(gate[r], sent[r], answer[r], met[r], steady[r], authWrite)
    /\ r \in asked => Paying(gate[r], sent[r], met[r], authWrite)

\* A request that took the claim row: past the claim gate, it ends stored, limited,
\* in an error, or the connection was not the author's throughout.
Vetted(g, e, ans, m, s, row, strict) ==
  /\ e.id = row /\ e.kind = "claim"
  /\ g \in {"trust", "paid", "join", "protected", "done"}
  /\ {"unbanned", "undeleted"} \subseteq m
  /\ strict = TRUE /\ e.kind \notin AuthExempt => "auth" \in m
  /\ g = "done" => ans \in {"stored", "rate-limited", "error"} \/ "auth" \notin s
ClaimVetted ==
  claimRow # NoId =>
    \E r \in GateRequests : Vetted(gate[r], sent[r], answer[r], met[r], steady[r], claimRow, authWrite)

\* How long ago an author can have been paid whom the cache, or an answer under way,
\* says is paid.
PaidAges ==
  /\ \A a \in GateAuthors :
       /\ a \in tier => lapsed[a] = 0
       /\ paidCache[a].paid = TRUE /\ paidCache[a].age < PaidTtl => lapsed[a] <= paidCache[a].age + MaxWait
  /\ \A r \in GateRequests :
       /\ paidRead[r] # NoRead => gate[r] = "paid"
       /\ paidRead[r].paid = TRUE => lapsed[sent[r].author] <= paidRead[r].waited
  /\ PaidStandingIsRecent

GateInv == GateTypeOK /\ RequestsOwed /\ ClaimVetted /\ PaidAges

LEMMA GateNumbers ==
  /\ PaidTtl \in Nat \ {0} /\ MaxWait \in Nat /\ MaxAuths \in Nat /\ MaxEdits \in Nat
  /\ MaxTicks_ \in Nat /\ MaxGateFaults \in Nat /\ LongAgo \in Nat
BY GateAssumption DEF LongAgo

LEMMA GateEventFields ==
  ASSUME NEW e \in GateEvents
  PROVE  /\ e.id \in Ids /\ e.id # NoId /\ e.kind \in GateKinds /\ e.author \in GateAuthors
         /\ e.author # NoAuthor /\ e.mined \in BOOLEAN /\ e.protected \in BOOLEAN /\ e.flaw \in Flaws
<1>1. e \in WellFormedEvents
  BY GateAssumption
<1>2. e.id \in Ids
  BY DEF Ids
<1> QED
  BY <1>1, <1>2, GateAssumption DEF WellFormedEvents

LEMMA LevelInType ==
  ASSUME NEW a, NEW paid \in BOOLEAN
  PROVE  LevelOf(a, paid) \in PolicyLevels /\ (LevelOf(a, paid) = "paid" => paid = TRUE)
<1>1. CASE paid = TRUE
  BY <1>1 DEF LevelOf, PolicyLevels
<1>2. CASE paid = FALSE
  BY <1>2 DEF LevelOf, PolicyLevels
<1> QED
  BY <1>1, <1>2

LEMMA LeastInType ==
  ASSUME NEW i \in Nat, NEW j \in Nat
  PROVE  Least(i, j) \in Nat /\ Least(i, j) <= j /\ Least(i, j) <= i
BY DEF Least

LEMMA PaidFields ==
  /\ \A c \in CachedPaid : c.paid \in BOOLEAN /\ c.age \in 0 .. PaidTtl
  /\ \A p \in PaidReads : p.paid \in BOOLEAN /\ p.waited \in -1 .. MaxWait
  /\ \A b \in Buckets : b.limit \in Nat /\ b.tokens \in Nat
  /\ NoRead.paid = FALSE /\ NoRead.waited = -1 /\ NoRead \in PaidReads
  /\ NoBucket.limit = 0 /\ NoBucket.tokens = 0 /\ NoBucket \in Buckets
  /\ Uncached.paid = FALSE /\ Uncached.age = PaidTtl /\ Uncached \in CachedPaid
BY GateNumbers DEF CachedPaid, PaidReads, Buckets, NoRead, NoBucket, Uncached

LEMMA HoldsType ==
  ASSUME NEW e, NEW key, NEW b, NEW t
  PROVE  /\ Holds(e, key, b, t) \subseteq Witnessed
         /\ "auth" \in Holds(e, key, b, t) <=> key = e.author
         /\ "unbanned" \in Holds(e, key, b, t) <=> ~Banned(e, b)
         /\ "undeleted" \in Holds(e, key, b, t) <=> e.id \notin t
BY DEF Holds, Witnessed

LEMMA GateFirst == GateInit => GateInv
<1> SUFFICES ASSUME GateInit PROVE GateInv
  OBVIOUS
<1>1. NoEvent \in GateEvents
  BY GateAssumption DEF NoEvent
<1>2. GateTypeOK
  <2>1. authWrite \in BOOLEAN /\ authed \in GateAuthors \union {NoAuthor}
    BY GateAssumption DEF GateInit
  <2>2. /\ gate \in [GateRequests -> GateNames] /\ sent \in [GateRequests -> GateEvents]
        /\ answer \in [GateRequests -> Answers]
    BY <1>1 DEF GateInit, GateNames, Answers
  <2>3. /\ tombs \subseteq Ids /\ bans \subseteq BanTargets
        /\ claimRow \in Ids \union {NoId} /\ tier \subseteq GateAuthors
    BY DEF GateInit
  <2>4. /\ paidCache \in [GateAuthors -> CachedPaid] /\ paidRead \in [GateRequests -> PaidReads]
        /\ bucket \in [BucketNames -> Buckets]
        /\ \A n \in BucketNames : bucket[n].tokens <= 2 * bucket[n].limit
    BY PaidFields DEF GateInit
  <2>5. /\ asked \subseteq GateRequests
        /\ met \in [GateRequests -> SUBSET Witnessed] /\ steady \in [GateRequests -> SUBSET Witnessed]
    BY DEF GateInit
  <2>6. lapsed \in [GateAuthors -> 0 .. LongAgo] /\ stalest \in 0 .. LongAgo
    <3>1. 0 \in 0 .. LongAgo /\ LongAgo \in 0 .. LongAgo
      BY GateNumbers
    <3> QED
      BY <3>1 DEF GateInit
  <2>7. /\ auths \in 0 .. MaxAuths /\ edits \in 0 .. MaxEdits /\ ticks_ \in 0 .. MaxTicks_
        /\ gateFaults \in 0 .. MaxGateFaults
    BY GateNumbers DEF GateInit
  <2> QED
    BY <2>1, <2>2, <2>3, <2>4, <2>5, <2>6, <2>7 DEF GateTypeOK
<1>3. RequestsOwed
  BY DEF GateInit, RequestsOwed, Owed, Accepted, TurnedAway, PastAuth, PastTombstone, PastBans
<1>4. ClaimVetted
  BY DEF GateInit, ClaimVetted
<1>5. PaidAges
  <2>1. \A a \in GateAuthors : a \in tier => lapsed[a] = 0
    BY DEF GateInit
  <2>2. \A a \in GateAuthors : paidCache[a] = Uncached
    BY DEF GateInit
  <2>3. \A r \in GateRequests : paidRead[r] = NoRead
    BY DEF GateInit
  <2>4. PaidStandingIsRecent
    BY GateNumbers DEF GateInit, PaidStandingIsRecent
  <2> QED
    BY <2>1, <2>2, <2>3, <2>4, PaidFields DEF PaidAges
<1> QED
  BY <1>2, <1>3, <1>4, <1>5 DEF GateInv

Moved(r, g, why) ==
  /\ gate' = [gate EXCEPT ![r] = g]
  /\ answer' = [answer EXCEPT ![r] = why]

\* Watch, request by request.
LEMMA Watched ==
  ASSUME GateTypeOK, Watch, NEW q \in GateRequests
  PROVE  LET h == Holds(sent'[q], authed', bans', tombs') IN
         /\ gate'[q] = "idle" => met'[q] = {} /\ steady'[q] = {}
         /\ gate'[q] # "idle" /\ gate[q] = "done" => met'[q] = met[q] /\ steady'[q] = steady[q]
         /\ gate'[q] # "idle" /\ gate[q] = "idle" => met'[q] = met[q] \union h /\ steady'[q] = h
         /\ gate'[q] # "idle" /\ gate[q] \notin {"idle", "done"} =>
              met'[q] = met[q] \union h /\ steady'[q] = steady[q] \cap h
<1> DEFINE h(r) == Holds(sent'[r], authed', bans', tombs')
<1>1. met' = [r \in GateRequests |->
        IF gate'[r] = "idle" THEN {} ELSE IF gate[r] = "done" THEN met[r] ELSE met[r] \union h(r)]
  BY DEF Watch
<1>2. steady' = [r \in GateRequests |->
        IF gate'[r] = "idle" THEN {} ELSE IF gate[r] = "done" THEN steady[r]
        ELSE IF gate[r] = "idle" THEN h(r) ELSE steady[r] \cap h(r)]
  BY DEF Watch
<1> HIDE DEF h
<1> QED
  BY <1>1, <1>2 DEF h

LEMMA HistoryInType ==
  ASSUME GateTypeOK, Watch
  PROVE  /\ met' \in [GateRequests -> SUBSET Witnessed]
         /\ steady' \in [GateRequests -> SUBSET Witnessed]
<1>1. /\ met \in [GateRequests -> SUBSET Witnessed]
      /\ steady \in [GateRequests -> SUBSET Witnessed]
  BY DEF GateTypeOK
<1>2. ASSUME NEW q \in GateRequests
      PROVE  met'[q] \subseteq Witnessed /\ steady'[q] \subseteq Witnessed
  <2>1. Holds(sent'[q], authed', bans', tombs') \subseteq Witnessed
    BY HoldsType
  <2>2. met[q] \subseteq Witnessed /\ steady[q] \subseteq Witnessed
    BY <1>1
  <2> QED
    BY <2>1, <2>2, Watched
<1>3. met' = [q \in GateRequests |-> met'[q]] /\ steady' = [q \in GateRequests |-> steady'[q]]
  BY DEF Watch
<1> QED
  BY <1>2, <1>3

\* What is owed to a request stays paid while the request itself does not move.
LEMMA OwedKept ==
  ASSUME GateInv, Watch, NEW q \in GateRequests,
         gate'[q] = gate[q], sent'[q] = sent[q], answer'[q] = answer[q]
  PROVE  /\ Owed(gate'[q], sent'[q], answer'[q], met'[q], steady'[q], authWrite)
         /\ q \in asked => Paying(gate'[q], sent'[q], met'[q], authWrite)
         /\ \A row : Vetted(gate[q], sent[q], answer[q], met[q], steady[q], row, authWrite)
                    => Vetted(gate'[q], sent'[q], answer'[q], met'[q], steady'[q], row, authWrite)
<1>1. /\ Owed(gate[q], sent[q], answer[q], met[q], steady[q], authWrite)
      /\ q \in asked => Paying(gate[q], sent[q], met[q], authWrite)
  BY DEF GateInv, RequestsOwed
<1>2. CASE gate[q] = "idle"
  <2>1. met'[q] = {} /\ steady'[q] = {} /\ answer[q] = "none"
    BY <1>1, <1>2, Watched DEF GateInv, Owed
  <2> QED
    BY <1>1, <1>2, <2>1 DEF Owed, Paying, Vetted, PastAuth, PastTombstone, PastBans, Accepted
<1>3. CASE gate[q] = "done"
  <2>1. met'[q] = met[q] /\ steady'[q] = steady[q]
    BY <1>3, Watched DEF GateInv
  <2> QED
    BY <1>1, <2>1
<1>4. CASE gate[q] \notin {"idle", "done"}
  <2>1. met[q] \subseteq met'[q] /\ steady'[q] \subseteq steady[q]
    BY <1>4, Watched DEF GateInv
  <2> HIDE DEF GateInv
  <2>2. Owed(gate'[q], sent'[q], answer'[q], met'[q], steady'[q], authWrite)
    BY <1>1, <1>4, <2>1 DEF Owed
  <2>3. q \in asked => Paying(gate'[q], sent'[q], met'[q], authWrite)
    BY <1>1, <2>1 DEF Paying
  <2>4. ASSUME NEW row, Vetted(gate[q], sent[q], answer[q], met[q], steady[q], row, authWrite)
        PROVE  Vetted(gate'[q], sent'[q], answer'[q], met'[q], steady'[q], row, authWrite)
    BY <2>1, <2>4 DEF Vetted
  <2> QED
    BY <2>2, <2>3, <2>4
<1> QED
  BY <1>2, <1>3, <1>4

LEMMA WorldOwed ==
  ASSUME GateInv, Watch, UNCHANGED <<authWrite, gate, sent, answer, asked, claimRow>>
  PROVE  RequestsOwed' /\ ClaimVetted'
<1>1. RequestsOwed'
  <2>1. ASSUME NEW q \in GateRequests
        PROVE  /\ Owed(gate'[q], sent'[q], answer'[q], met'[q], steady'[q], authWrite)
               /\ q \in asked => Paying(gate'[q], sent'[q], met'[q], authWrite)
    BY OwedKept
  <2> QED
    BY <2>1 DEF RequestsOwed
<1>2. ClaimVetted'
  <2>1. CASE claimRow = NoId
    BY <2>1 DEF ClaimVetted
  <2>2. CASE claimRow # NoId
    <3>1. PICK q \in GateRequests : Vetted(gate[q], sent[q], answer[q], met[q], steady[q], claimRow, authWrite)
      BY <2>2 DEF GateInv, ClaimVetted
    <3>2. Vetted(gate'[q], sent'[q], answer'[q], met'[q], steady'[q], claimRow, authWrite)
      BY <3>1, OwedKept
    <3> QED
      BY <3>2 DEF ClaimVetted
  <2> QED
    BY <2>1, <2>2
<1> QED
  BY <1>1, <1>2

\* One request moves.
LEMMA OneOwed ==
  ASSUME GateInv, Watch, NEW r \in GateRequests, NEW g \in GateNames, NEW why \in Answers, NEW e,
         Moved(r, g, why), sent' = [sent EXCEPT ![r] = e], UNCHANGED authWrite,
         asked' \subseteq asked \union {r},
         Owed(g, e, why, met'[r], steady'[r], authWrite),
         r \in asked' => Paying(g, e, met'[r], authWrite)
  PROVE  RequestsOwed'
<1>1. /\ gate \in [GateRequests -> GateNames] /\ sent \in [GateRequests -> GateEvents]
      /\ answer \in [GateRequests -> Answers]
  BY DEF GateInv, GateTypeOK
<1>2. ASSUME NEW q \in GateRequests
      PROVE  /\ Owed(gate'[q], sent'[q], answer'[q], met'[q], steady'[q], authWrite)
             /\ q \in asked' => Paying(gate'[q], sent'[q], met'[q], authWrite)
  <2>1. CASE q = r
    <3>1. gate'[q] = g /\ sent'[q] = e /\ answer'[q] = why
      BY <1>1, <2>1 DEF Moved
    <3> QED
      BY <2>1, <3>1
  <2>2. CASE q # r
    <3>1. gate'[q] = gate[q] /\ sent'[q] = sent[q] /\ answer'[q] = answer[q]
      BY <1>1, <2>2 DEF Moved
    <3> QED
      BY <2>2, <3>1, OwedKept
  <2> QED
    BY <2>1, <2>2
<1> QED
  BY <1>2 DEF RequestsOwed

LEMMA OneVetted ==
  ASSUME GateInv, Watch, NEW r \in GateRequests, NEW g, NEW why,
         Moved(r, g, why), \A q \in GateRequests : q # r => sent'[q] = sent[q],
         UNCHANGED <<authWrite, claimRow>>,
         Vetted(gate[r], sent[r], answer[r], met[r], steady[r], claimRow, authWrite)
           => Vetted(g, sent'[r], why, met'[r], steady'[r], claimRow, authWrite)
  PROVE  ClaimVetted'
<1>1. gate \in [GateRequests -> GateNames] /\ answer \in [GateRequests -> Answers]
  BY DEF GateInv, GateTypeOK
<1>2. CASE claimRow = NoId
  BY <1>2 DEF ClaimVetted
<1>3. CASE claimRow # NoId
  <2>1. PICK q \in GateRequests : Vetted(gate[q], sent[q], answer[q], met[q], steady[q], claimRow, authWrite)
    BY <1>3 DEF GateInv, ClaimVetted
  <2>2. Vetted(gate'[q], sent'[q], answer'[q], met'[q], steady'[q], claimRow, authWrite)
    <3>1. CASE q = r
      <4>1. gate'[q] = g /\ answer'[q] = why
        BY <1>1, <3>1 DEF Moved
      <4> QED
        BY <2>1, <3>1, <4>1
    <3>2. CASE q # r
      <4>1. gate'[q] = gate[q] /\ answer'[q] = answer[q] /\ sent'[q] = sent[q]
        BY <1>1, <3>2 DEF Moved
      <4> QED
        BY <2>1, <4>1, OwedKept
    <3> QED
      BY <3>1, <3>2
  <2> QED
    BY <2>2 DEF ClaimVetted
<1> QED
  BY <1>2, <1>3

LEMMA PassesMoves ==
  ASSUME GateInv, NEW r \in GateRequests, NEW g, gate[r] # "done", Passes(r, g)
  PROVE  Moved(r, g, "none") /\ answer[r] = "none"
<1>1. answer[r] = "none"
  BY DEF GateInv, RequestsOwed, Owed
<1>2. answer' = answer /\ answer \in [GateRequests -> Answers]
  BY DEF Passes, GateInv, GateTypeOK
<1>3. answer' = [answer EXCEPT ![r] = "none"]
  BY <1>1, <1>2
<1> QED
  BY <1>1, <1>3 DEF Passes, Moved

LEMMA ToldMoves ==
  ASSUME NEW r, NEW why, Told(r, why)
  PROVE  Moved(r, "done", why)
BY DEF Told, Moved

\* What is met and kept while the request moves on.
LEMMA MetNow ==
  ASSUME GateInv, Watch, NEW r \in GateRequests, NEW g, NEW why, Moved(r, g, why),
         g # "idle", gate[r] \in Open_
  PROVE  /\ met[r] \subseteq met'[r]
         /\ authed' = sent'[r].author => "auth" \in met'[r]
         /\ ~Banned(sent'[r], bans') => "unbanned" \in met'[r]
         /\ sent'[r].id \notin tombs' => "undeleted" \in met'[r]
         /\ "auth" \in steady'[r] => authed' = sent'[r].author
         /\ steady'[r] \subseteq steady[r]
<1>1. GateTypeOK /\ gate'[r] = g
  BY DEF GateInv, GateTypeOK, Moved
<1>2. gate[r] \notin {"idle", "done"}
  BY DEF Open_
<1>3. /\ met'[r] = met[r] \union Holds(sent'[r], authed', bans', tombs')
      /\ steady'[r] = steady[r] \cap Holds(sent'[r], authed', bans', tombs')
  BY <1>1, <1>2, Watched
<1> QED
  BY <1>3, HoldsType

\* A gate that only looks.
LEMMA LookingKeeps ==
  ASSUME GateInv, Watch, NEW r \in GateRequests, NEW g \in GateNames, NEW why \in Answers,
         gate[r] \in Open_, gate[r] # "paid", g # "idle", Moved(r, g, why), LooksOnly,
         asked' \subseteq asked \union {r}, gateFaults' \in 0 .. MaxGateFaults,
         Owed(g, sent[r], why, met'[r], steady'[r], authWrite),
         r \in asked' => Paying(g, sent[r], met'[r], authWrite),
         Vetted(gate[r], sent[r], answer[r], met[r], steady[r], claimRow, authWrite)
           => Vetted(g, sent[r], why, met'[r], steady'[r], claimRow, authWrite)
  PROVE  GateInv'
<1>1. GateTypeOK
  BY DEF GateInv
<1>2. UNCHANGED <<authWrite, sent, authed, tombs, bans, tier, auths, edits, claimRow,
                  paidCache, paidRead, bucket, stalest, ticks_, lapsed>>
  BY DEF LooksOnly, world, trust
<1>3. GateTypeOK'
  <2>1. gate' \in [GateRequests -> GateNames] /\ answer' \in [GateRequests -> Answers]
    BY <1>1 DEF GateTypeOK, Moved
  <2>2. asked' \subseteq GateRequests
    BY <1>1 DEF GateTypeOK
  <2> QED
    BY <1>1, <1>2, <2>1, <2>2, HistoryInType DEF GateTypeOK
<1>4. sent' = [sent EXCEPT ![r] = sent[r]]
  BY <1>1, <1>2 DEF GateTypeOK
<1>5. RequestsOwed'
  BY <1>2, <1>4, OneOwed
<1>6. ClaimVetted'
  BY <1>2, OneVetted
<1>7. PaidAges'
  <2>1. \A q \in GateRequests : paidRead[q] # NoRead => gate'[q] = "paid"
    BY <1>1 DEF GateInv, PaidAges, GateTypeOK, Moved
  <2>2. PaidStandingIsRecent'
    BY <1>2 DEF GateInv, PaidAges, PaidStandingIsRecent
  <2> QED
    BY <1>2, <2>1, <2>2 DEF GateInv, PaidAges
<1> QED
  BY <1>3, <1>5, <1>6, <1>7 DEF GateInv

LEMMA FaultCounted ==
  ASSUME GateInv, Fault \/ NoFault
  PROVE  gateFaults' \in 0 .. MaxGateFaults
BY GateNumbers DEF GateInv, GateTypeOK, Fault, NoFault

LEMMA OwedNow ==
  ASSUME GateInv, NEW r \in GateRequests
  PROVE  /\ Owed(gate[r], sent[r], answer[r], met[r], steady[r], authWrite)
         /\ r \in asked => Paying(gate[r], sent[r], met[r], authWrite)
         /\ sent[r] \in GateEvents
BY DEF GateInv, RequestsOwed, GateTypeOK

LEMMA AskedGrows ==
  ASSUME NEW r, Asks(r) \/ UNCHANGED asked
  PROVE  asked' \subseteq asked \union {r} /\ (UNCHANGED asked => (r \in asked' => r \in asked))
BY DEF Asks

LEMMA CheckAuthKeeps ==
  ASSUME GateInv, Watch, NEW r \in GateRequests, CheckAuth(r) PROVE GateInv'
<1> DEFINE decision == IF authWrite THEN EvaluateWrite(authed, sent[r]) ELSE "allow"
<1>1. /\ gate[r] = "auth" /\ LooksOnly /\ UNCHANGED <<asked, gateFaults>>
      /\ IF decision = "allow" THEN Passes(r, "tombstone") ELSE Told(r, decision)
  BY DEF CheckAuth
<1>2. /\ gate[r] \in Open_ /\ gate[r] # "paid" /\ r \notin asked
      /\ gateFaults' \in 0 .. MaxGateFaults /\ authed' = authed /\ sent'[r] = sent[r]
      /\ sent[r] \in GateEvents
  BY <1>1, OwedNow DEF Open_, Paying, GateInv, GateTypeOK, LooksOnly, world
<1>3. CASE decision = "allow"
  <2>1. Moved(r, "tombstone", "none")
    BY <1>1, <1>3, PassesMoves
  <2>2. authWrite = TRUE /\ sent[r].kind \notin AuthExempt => authed = sent[r].author
    BY <1>2, <1>3, GateEventFields DEF EvaluateWrite
  <2>3. authWrite = TRUE /\ sent[r].kind \notin AuthExempt => "auth" \in met'[r]
    BY <1>2, <2>1, <2>2, MetNow
  <2>4. Owed("tombstone", sent[r], "none", met'[r], steady'[r], authWrite)
    BY <2>3 DEF Owed, PastTombstone, PastBans, Accepted, TurnedAway
  <2>5. ~Vetted(gate[r], sent[r], answer[r], met[r], steady[r], claimRow, authWrite)
    BY <1>1 DEF Vetted
  <2> HIDE DEF decision
  <2> QED
    BY <1>1, <1>2, <2>1, <2>4, <2>5, LookingKeeps DEF GateNames, Answers
<1>4. CASE decision # "allow"
  <2>1. decision \in {"auth-required", "restricted"} /\ authed # sent[r].author
    BY <1>2, <1>4, GateEventFields DEF EvaluateWrite
  <2>2. Moved(r, "done", decision)
    BY <1>1, <1>4, ToldMoves
  <2> HIDE DEF decision
  <2>3. "auth" \notin steady'[r]
    BY <1>2, <2>1, <2>2, MetNow
  <2>4. Owed("done", sent[r], decision, met'[r], steady'[r], authWrite)
    BY <2>1, <2>3 DEF Owed, PastAuth, PastTombstone, PastBans, Accepted
  <2>5. ~Vetted(gate[r], sent[r], answer[r], met[r], steady[r], claimRow, authWrite)
    BY <1>1 DEF Vetted
  <2>6. decision \in Answers
    BY <2>1 DEF Answers
  <2> QED
    BY <1>1, <1>2, <2>2, <2>4, <2>5, <2>6, LookingKeeps DEF GateNames
<1> QED
  BY <1>3, <1>4

\* A gate in front of the claim tells a request off.
LEMMA ToldOff ==
  ASSUME GateInv, Watch, NEW r \in GateRequests, gate[r] \in {"tombstone", "bans"},
         NEW why \in {"deleted", "blocked", "error"}, Told(r, why), LooksOnly,
         Asks(r) \/ UNCHANGED asked, gateFaults' \in 0 .. MaxGateFaults
  PROVE  GateInv'
<1>1. Moved(r, "done", why) /\ why \in Answers
  BY ToldMoves DEF Answers
<1>2. gate[r] \in Open_ /\ gate[r] # "paid"
  BY DEF Open_
<1>3. met[r] \subseteq met'[r]
  BY <1>1, <1>2, MetNow
<1>4. Owed("done", sent[r], why, met'[r], steady'[r], authWrite)
  BY DEF Owed, PastAuth, PastTombstone, PastBans, Accepted, TurnedAway
<1>5. Paying("done", sent[r], met'[r], authWrite)
  BY <1>3, OwedNow DEF Owed, Paying, PastAuth
<1>6. ~Vetted(gate[r], sent[r], answer[r], met[r], steady[r], claimRow, authWrite)
  BY DEF Vetted
<1> QED
  BY <1>1, <1>2, <1>4, <1>5, <1>6, AskedGrows, LookingKeeps DEF GateNames

LEMMA CheckTombstoneKeeps ==
  ASSUME GateInv, Watch, NEW r \in GateRequests, CheckTombstone(r) PROVE GateInv'
<1>1. gate[r] = "tombstone" /\ LooksOnly
  BY DEF CheckTombstone
<1>2. /\ gate[r] \in Open_ /\ gate[r] # "paid"
      /\ sent'[r] = sent[r] /\ tombs' = tombs
  BY <1>1 DEF Open_, LooksOnly, world
<1>3. ASSUME Passes(r, "bans"), NoFault, Asks(r) \/ UNCHANGED asked,
             sent[r].kind \in Ephemeral \/ sent[r].id \notin tombs
      PROVE  GateInv'
  <2>1. Moved(r, "bans", "none")
    BY <1>1, <1>3, PassesMoves
  <2>2. met[r] \subseteq met'[r] /\ (sent[r].kind \notin Ephemeral => "undeleted" \in met'[r])
    BY <1>2, <1>3, <2>1, MetNow
  <2>3. Owed("bans", sent[r], "none", met'[r], steady'[r], authWrite)
    BY <1>1, <2>2, OwedNow DEF Owed, PastAuth, PastBans, Accepted, TurnedAway
  <2>4. Paying("bans", sent[r], met'[r], authWrite)
    BY <1>1, <2>2, OwedNow DEF Owed, Paying, PastAuth
  <2>5. ~Vetted(gate[r], sent[r], answer[r], met[r], steady[r], claimRow, authWrite)
    BY <1>1 DEF Vetted
  <2>6. gateFaults' \in 0 .. MaxGateFaults
    BY <1>3, FaultCounted
  <2>7. asked' \subseteq asked \union {r}
    BY <1>3, AskedGrows
  <2> QED
    BY <1>1, <1>2, <2>1, <2>3, <2>4, <2>5, <2>6, <2>7, LookingKeeps DEF GateNames, Answers
<1>4. ASSUME Told(r, "deleted") \/ Told(r, "error"), Asks(r), Fault \/ NoFault PROVE GateInv'
  BY <1>1, <1>4, FaultCounted, ToldOff
<1> QED
  BY <1>3, <1>4 DEF CheckTombstone

LEMMA CheckBansKeeps ==
  ASSUME GateInv, Watch, NEW r \in GateRequests, CheckBans(r) PROVE GateInv'
<1>1. /\ gate[r] = "bans" /\ LooksOnly /\ UNCHANGED <<asked, gateFaults>>
      /\ IF Banned(sent[r], bans) THEN Told(r, "blocked") ELSE Passes(r, "claim")
  BY DEF CheckBans
<1>2. /\ gate[r] \in Open_ /\ gate[r] # "paid" /\ gateFaults' \in 0 .. MaxGateFaults
      /\ sent'[r] = sent[r] /\ bans' = bans
  BY <1>1 DEF Open_, LooksOnly, world, GateInv, GateTypeOK
<1>3. CASE ~Banned(sent[r], bans)
  <2>1. Moved(r, "claim", "none")
    BY <1>1, <1>3, PassesMoves
  <2>2. met[r] \subseteq met'[r] /\ "unbanned" \in met'[r]
    <3>1. ~Banned(sent'[r], bans')
      BY <1>2, <1>3 DEF Banned
    <3> QED
      BY <1>2, <2>1, <3>1, MetNow
  <2>3. Owed("claim", sent[r], "none", met'[r], steady'[r], authWrite)
    BY <1>1, <2>2, OwedNow DEF Owed, PastAuth, PastTombstone, Accepted, TurnedAway
  <2>4. r \in asked' => Paying("claim", sent[r], met'[r], authWrite)
    BY <1>1, <2>2, OwedNow DEF Owed, Paying, PastAuth
  <2>5. ~Vetted(gate[r], sent[r], answer[r], met[r], steady[r], claimRow, authWrite)
    BY <1>1 DEF Vetted
  <2> QED
    BY <1>1, <1>2, <2>1, <2>3, <2>4, <2>5, LookingKeeps DEF GateNames, Answers
<1>4. CASE Banned(sent[r], bans)
  BY <1>1, <1>2, <1>4, ToldOff
<1> QED
  BY <1>3, <1>4

LEMMA ArriveKeeps ==
  ASSUME GateInv, Watch, NEW r \in GateRequests, NEW e \in Sends[r], Arrive(r, e) PROVE GateInv'
<1>1. /\ gate[r] = "idle" /\ sent' = [sent EXCEPT ![r] = e]
      /\ Told(r, "invalid") \/ Told(r, "rate-limited") \/ Passes(r, "auth")
      /\ UNCHANGED <<authWrite, authed, tombs, bans, tier, auths, edits, claimRow,
                     paidCache, paidRead, bucket, stalest, asked, ticks_, gateFaults, lapsed>>
  BY DEF Arrive, world, trust, counts
<1>2. e \in GateEvents
  BY GateAssumption
<1>3. PICK g \in {"done", "auth"}, why \in {"invalid", "rate-limited", "none"} :
        Moved(r, g, why) /\ (g = "auth" => why = "none")
  BY <1>1, PassesMoves, ToldMoves
<1>4. GateTypeOK
  BY DEF GateInv
<1>5. g \in GateNames /\ why \in Answers
  BY <1>3 DEF GateNames, Answers
<1>6. r \notin asked /\ paidRead[r] = NoRead
  BY <1>1, OwedNow DEF Paying, GateInv, PaidAges
<1>7. GateTypeOK'
  <2>1. gate' \in [GateRequests -> GateNames] /\ answer' \in [GateRequests -> Answers]
    BY <1>3, <1>4, <1>5 DEF GateTypeOK, Moved
  <2>2. sent' \in [GateRequests -> GateEvents]
    BY <1>1, <1>2, <1>4 DEF GateTypeOK
  <2> QED
    BY <1>1, <1>4, <2>1, <2>2, HistoryInType DEF GateTypeOK
<1>8. RequestsOwed'
  <2>1. Owed(g, e, why, met'[r], steady'[r], authWrite)
    BY <1>3 DEF Owed, PastAuth, PastTombstone, PastBans, Accepted, TurnedAway
  <2> QED
    BY <1>1, <1>3, <1>5, <1>6, <2>1, OneOwed
<1>9. ClaimVetted'
  <2>1. ~Vetted(gate[r], sent[r], answer[r], met[r], steady[r], claimRow, authWrite)
    BY <1>1 DEF Vetted
  <2>2. \A q \in GateRequests : q # r => sent'[q] = sent[q]
    BY <1>1, <1>4 DEF GateTypeOK
  <2> QED
    BY <1>1, <1>3, <2>1, <2>2, OneVetted
<1>10. PaidAges'
  <2>1. \A q \in GateRequests : q # r => sent'[q] = sent[q] /\ gate'[q] = gate[q]
    BY <1>1, <1>3, <1>4 DEF GateTypeOK, Moved
  <2>2. PaidStandingIsRecent'
    BY <1>1 DEF GateInv, PaidAges, PaidStandingIsRecent
  <2>3. \A q \in GateRequests :
       /\ paidRead[q] # NoRead => gate'[q] = "paid"
       /\ paidRead[q].paid = TRUE => lapsed[sent'[q].author] <= paidRead[q].waited
    BY <1>6, <2>1, PaidFields DEF GateInv, PaidAges
  <2>4. \A a \in GateAuthors :
       /\ a \in tier => lapsed[a] = 0
       /\ paidCache[a].paid = TRUE /\ paidCache[a].age < PaidTtl => lapsed[a] <= paidCache[a].age + MaxWait
    BY DEF GateInv, PaidAges
  <2> QED
    BY <1>1, <2>2, <2>3, <2>4 DEF PaidAges
<1> QED
  BY <1>7, <1>8, <1>9, <1>10 DEF GateInv

\* A gate that may write the claim row.
LEMMA ClaimingKeeps ==
  ASSUME GateInv, Watch, NEW r \in GateRequests, NEW g \in GateNames, NEW why \in Answers,
         gate[r] = "claim", g # "idle", Moved(r, g, why),
         UNCHANGED <<authWrite, sent, authed, tombs, bans, tier, auths, edits,
                     paidCache, paidRead, bucket, stalest, ticks_, lapsed>>,
         asked' \subseteq asked \union {r}, gateFaults' \in 0 .. MaxGateFaults,
         Owed(g, sent[r], why, met'[r], steady'[r], authWrite),
         r \in asked' => Paying(g, sent[r], met'[r], authWrite),
         claimRow' \in Ids \union {NoId}, ClaimVetted'
  PROVE  GateInv'
<1>1. GateTypeOK
  BY DEF GateInv
<1>2. GateTypeOK'
  <2>1. gate' \in [GateRequests -> GateNames] /\ answer' \in [GateRequests -> Answers]
    BY <1>1 DEF GateTypeOK, Moved
  <2>2. asked' \subseteq GateRequests
    BY <1>1 DEF GateTypeOK
  <2> QED
    BY <1>1, <2>1, <2>2, HistoryInType DEF GateTypeOK
<1>3. sent' = [sent EXCEPT ![r] = sent[r]]
  BY <1>1 DEF GateTypeOK
<1>4. RequestsOwed'
  BY <1>3, OneOwed
<1>5. PaidAges'
  <2>1. \A q \in GateRequests : paidRead[q] # NoRead => gate'[q] = "paid"
    BY <1>1 DEF GateInv, PaidAges, GateTypeOK, Moved
  <2>2. PaidStandingIsRecent'
    BY DEF GateInv, PaidAges, PaidStandingIsRecent
  <2> QED
    BY <2>1, <2>2 DEF GateInv, PaidAges
<1> QED
  BY <1>2, <1>4, <1>5 DEF GateInv

LEMMA CheckClaimKeeps ==
  ASSUME GateInv, Watch, NEW r \in GateRequests, CheckClaim(r) PROVE GateInv'
<1>1. /\ gate[r] = "claim" /\ gate[r] \in Open_ /\ sent[r] \in GateEvents
      /\ UNCHANGED <<authWrite, sent, authed, tombs, bans, tier, auths, edits,
                     paidCache, paidRead, bucket, stalest, ticks_, lapsed>>
  BY OwedNow DEF CheckClaim, world, trust, Open_
<1>2. claimRow \in Ids \union {NoId} /\ sent[r].id \in Ids /\ sent[r].id # NoId
  BY <1>1, GateEventFields DEF GateInv, GateTypeOK
<1>3. ~Vetted(gate[r], sent[r], answer[r], met[r], steady[r], claimRow, authWrite)
  BY <1>1 DEF Vetted
<1>4. ASSUME Passes(r, "trust"), NoFault, Asks(r) \/ UNCHANGED asked,
             UNCHANGED claimRow \/ (sent[r].kind = "claim" /\ claimRow' = sent[r].id)
      PROVE  GateInv'
  <2>1. Moved(r, "trust", "none")
    BY <1>1, <1>4, PassesMoves
  <2>2. met[r] \subseteq met'[r]
    BY <1>1, <2>1, MetNow
  <2>3. Owed("trust", sent[r], "none", met'[r], steady'[r], authWrite)
    BY <1>1, <2>2, OwedNow DEF Owed, PastAuth, PastTombstone, PastBans, Accepted, TurnedAway
  <2>4. Paying("trust", sent[r], met'[r], authWrite)
    BY <1>1, <2>2, OwedNow DEF Owed, Paying, PastAuth
  <2>5. gateFaults' \in 0 .. MaxGateFaults /\ asked' \subseteq asked \union {r}
    BY <1>4, FaultCounted, AskedGrows
  <2>6. ClaimVetted'
    <3>1. CASE UNCHANGED claimRow
      BY <1>1, <1>3, <2>1, <3>1, OneVetted
    <3>2. CASE sent[r].kind = "claim" /\ claimRow' = sent[r].id
      <4>1. Vetted("trust", sent[r], "none", met'[r], steady'[r], claimRow', authWrite)
        BY <2>3, <3>2 DEF Vetted, Owed, PastAuth, PastTombstone, PastBans, Ephemeral
      <4>2. gate'[r] = "trust" /\ answer'[r] = "none"
        BY <2>1 DEF Moved, GateInv, GateTypeOK
      <4> QED
        BY <1>1, <4>1, <4>2 DEF ClaimVetted
    <3> QED
      BY <1>4, <3>1, <3>2
  <2> QED
    BY <1>1, <1>2, <1>4, <2>1, <2>3, <2>4, <2>5, <2>6, ClaimingKeeps DEF GateNames, Answers
<1>5. ASSUME NEW why \in {"invalid", "conflict", "error"}, Told(r, why), Fault \/ NoFault,
             Asks(r) \/ UNCHANGED asked, UNCHANGED claimRow
      PROVE  GateInv'
  <2>1. Moved(r, "done", why) /\ why \in Answers
    BY <1>5, ToldMoves DEF Answers
  <2>2. met[r] \subseteq met'[r]
    BY <1>1, <2>1, MetNow
  <2>3. Owed("done", sent[r], why, met'[r], steady'[r], authWrite)
    BY DEF Owed, PastAuth, PastTombstone, PastBans, Accepted, TurnedAway
  <2>4. Paying("done", sent[r], met'[r], authWrite)
    BY <1>1, <2>2, OwedNow DEF Owed, Paying, PastAuth
  <2>5. gateFaults' \in 0 .. MaxGateFaults /\ asked' \subseteq asked \union {r}
    BY <1>5, FaultCounted, AskedGrows
  <2>6. ClaimVetted'
    BY <1>1, <1>3, <1>5, <2>1, OneVetted
  <2> QED
    BY <1>1, <1>2, <1>5, <2>1, <2>3, <2>4, <2>5, <2>6, ClaimingKeeps DEF GateNames
<1> QED
  <2> DEFINE e == sent[r]
  <2>1. \/ e.kind # "claim" /\ Passes(r, "trust") /\ UNCHANGED <<claimRow, asked>> /\ NoFault
        \/ e.kind = "claim" /\ Told(r, "invalid") /\ UNCHANGED <<claimRow, asked>> /\ NoFault
        \/ e.kind = "claim" /\ Asks(r) /\ claimRow' = e.id /\ Passes(r, "trust") /\ NoFault
        \/ e.kind = "claim" /\ Asks(r) /\ Told(r, "conflict") /\ UNCHANGED claimRow /\ NoFault
        \/ e.kind = "claim" /\ Asks(r) /\ Told(r, "error") /\ UNCHANGED claimRow /\ Fault
    BY DEF CheckClaim
  <2> HIDE DEF e
  <2> QED
    BY <1>4, <1>5, <2>1 DEF e

\* What the policy of an author's level does to the request, its bucket and the
\* history.
LEMMA PolicyMoves ==
  ASSUME GateInv, NEW r \in GateRequests, gate[r] \in {"trust", "paid"},
         NEW level \in PolicyLevels, ApplyPolicy(r, level)
  PROVE  /\ \/ Moved(r, "join", "none")
            \/ Moved(r, "done", "rate-limited")
            \/ Moved(r, "done", "pow") /\ authed # sent[r].author
         /\ bucket' \in [BucketNames -> Buckets]
         /\ \A n \in BucketNames : bucket'[n].tokens <= 2 * bucket'[n].limit
         /\ stalest' = IF level = "paid" /\ lapsed[sent[r].author] > stalest
                       THEN lapsed[sent[r].author] ELSE stalest
<1> DEFINE e      == sent[r]
           collab == e.kind \in CollabKinds /\ CollabRate > 0
           name   == <<IF collab THEN "collab" ELSE "general", e.author>>
           rate   == IF collab /\ CollabRate > Rate[level] THEN CollabRate ELSE Rate[level]
           b      == IF bucket[name] # NoBucket THEN bucket[name]
                     ELSE [limit |-> rate, tokens |-> rate]
           limited == Rate[level] > 0
           spent  == [b EXCEPT !.tokens = IF b.tokens = 0 THEN 0 ELSE b.tokens - 1]
<1>1. /\ CASE limited /\ b.tokens = 0 -> Told(r, "rate-limited")
           [] ~(limited /\ b.tokens = 0) /\ ~Proven(r, level) -> Told(r, "pow")
           [] OTHER -> Passes(r, "join")
      /\ bucket' = IF ~limited THEN bucket ELSE [bucket EXCEPT ![name] = spent]
      /\ stalest' = IF level = "paid" /\ lapsed[e.author] > stalest THEN lapsed[e.author] ELSE stalest
  BY DEF ApplyPolicy
<1>2. \/ Moved(r, "join", "none")
      \/ Moved(r, "done", "rate-limited")
      \/ Moved(r, "done", "pow") /\ authed # sent[r].author
  <2>1. gate[r] # "done"
    OBVIOUS
  <2>2. \/ Told(r, "rate-limited") \/ (Told(r, "pow") /\ ~Proven(r, level)) \/ Passes(r, "join")
    <3> DEFINE full == limited /\ b.tokens = 0
    <3>1. /\ CASE full -> Told(r, "rate-limited")
               [] ~full /\ ~Proven(r, level) -> Told(r, "pow")
               [] OTHER -> Passes(r, "join")
      BY <1>1
    <3> HIDE DEF full
    <3> QED
      BY <3>1
  <2> QED
    BY <2>1, <2>2, PassesMoves, ToldMoves DEF Proven
<1>3. bucket \in [BucketNames -> Buckets] /\ \A n \in BucketNames : bucket[n].tokens <= 2 * bucket[n].limit
  BY DEF GateInv, GateTypeOK
<1>4. name \in BucketNames
  BY OwedNow, GateEventFields DEF BucketNames
<1>5. rate \in Nat
  BY GateAssumption
<1>6. b \in Buckets /\ b.tokens <= 2 * b.limit
  <2>1. [limit |-> rate, tokens |-> rate] \in Buckets /\ rate <= 2 * rate
    BY <1>5 DEF Buckets
  <2> HIDE DEF name, rate
  <2>2. CASE bucket[name] # NoBucket
    BY <1>3, <1>4, <2>2
  <2>3. CASE bucket[name] = NoBucket
    BY <2>1, <2>3
  <2> QED
    BY <2>2, <2>3
<1> HIDE DEF b, name
<1>7. spent \in Buckets /\ spent.tokens <= 2 * spent.limit
  BY <1>6 DEF Buckets
<1> HIDE DEF spent
<1>8. bucket' = bucket \/ bucket' = [bucket EXCEPT ![name] = spent]
  BY <1>1
<1>9. /\ bucket' \in [BucketNames -> Buckets]
      /\ \A n \in BucketNames : bucket'[n].tokens <= 2 * bucket'[n].limit
  BY <1>3, <1>4, <1>7, <1>8
<1> QED
  BY <1>1, <1>2, <1>9

\* An author's level is known: the policy decides, and the paid standing it was
\* decided on is recent.
LEMMA PolicyKeeps ==
  ASSUME GateInv, Watch, NEW r \in GateRequests, gate[r] \in {"trust", "paid"},
         NEW level \in PolicyLevels, ApplyPolicy(r, level),
         UNCHANGED <<authWrite, sent, world, claimRow, asked, counts>>,
         paidCache' \in [GateAuthors -> CachedPaid],
         paidRead' \in [GateRequests -> PaidReads],
         level = "paid" => lapsed[sent[r].author] < PaidTtl + MaxWait,
         \A a \in GateAuthors : paidCache'[a].paid = TRUE /\ paidCache'[a].age < PaidTtl
                                  => lapsed[a] <= paidCache'[a].age + MaxWait,
         \A q \in GateRequests :
           /\ paidRead'[q] # NoRead => q # r /\ gate[q] = "paid"
           /\ paidRead'[q].paid = TRUE => lapsed[sent[q].author] <= paidRead'[q].waited
  PROVE  GateInv'
<1>1. UNCHANGED <<authWrite, sent, authed, tombs, bans, tier, auths, edits, claimRow,
                  asked, ticks_, gateFaults, lapsed>>
  BY DEF world, counts
<1>2. PICK g \in {"join", "done"}, why \in {"none", "rate-limited", "pow"} :
        /\ Moved(r, g, why) /\ (why = "pow" => authed # sent[r].author)
        /\ g = "join" <=> why = "none"
  BY PolicyMoves
<1>3. g \in GateNames /\ why \in Answers /\ gate[r] \in Open_
  BY <1>2 DEF GateNames, Answers, Open_
<1>4. /\ met[r] \subseteq met'[r] /\ steady'[r] \subseteq steady[r]
      /\ why = "pow" => "auth" \notin steady'[r]
  BY <1>1, <1>2, <1>3, MetNow
<1>5. GateTypeOK
  BY DEF GateInv
<1>6. Owed(g, sent[r], why, met'[r], steady'[r], authWrite)
  <2>1. Owed(gate[r], sent[r], answer[r], met[r], steady[r], authWrite)
    BY OwedNow
  <2> QED
    BY <1>2, <1>4, <2>1 DEF Owed, PastAuth, PastTombstone, PastBans, Accepted, TurnedAway
<1>7. r \in asked => Paying(g, sent[r], met'[r], authWrite)
  BY <1>2, <1>4, OwedNow DEF Paying
<1>8. Vetted(gate[r], sent[r], answer[r], met[r], steady[r], claimRow, authWrite)
        => Vetted(g, sent[r], why, met'[r], steady'[r], claimRow, authWrite)
  BY <1>2, <1>4 DEF Vetted
<1>9. lapsed[sent[r].author] \in 0 .. LongAgo /\ stalest \in 0 .. LongAgo
  BY <1>5, OwedNow, GateEventFields DEF GateTypeOK
<1>10. stalest' \in 0 .. LongAgo /\ PaidStandingIsRecent'
  <2>1. stalest' = IF level = "paid" /\ lapsed[sent[r].author] > stalest
                   THEN lapsed[sent[r].author] ELSE stalest
    BY PolicyMoves
  <2>2. stalest < PaidTtl + MaxWait
    BY DEF GateInv, PaidAges, PaidStandingIsRecent
  <2> QED
    BY <1>9, <2>1, <2>2 DEF PaidStandingIsRecent
<1>11. GateTypeOK'
  <2>1. gate' \in [GateRequests -> GateNames] /\ answer' \in [GateRequests -> Answers]
    BY <1>2, <1>3, <1>5 DEF GateTypeOK, Moved
  <2>2. /\ bucket' \in [BucketNames -> Buckets]
        /\ \A n \in BucketNames : bucket'[n].tokens <= 2 * bucket'[n].limit
    BY PolicyMoves
  <2> QED
    BY <1>1, <1>5, <1>10, <2>1, <2>2, HistoryInType DEF GateTypeOK
<1>12. sent' = [sent EXCEPT ![r] = sent[r]]
  BY <1>1, <1>5 DEF GateTypeOK
<1>13. RequestsOwed'
  BY <1>1, <1>2, <1>3, <1>6, <1>7, <1>12, OneOwed
<1>14. ClaimVetted'
  BY <1>1, <1>2, <1>8, OneVetted
<1>15. PaidAges'
  <2>1. \A q \in GateRequests : q # r => gate'[q] = gate[q]
    BY <1>2, <1>5 DEF GateTypeOK, Moved
  <2>2. \A a \in GateAuthors : a \in tier => lapsed[a] = 0
    BY DEF GateInv, PaidAges
  <2> QED
    BY <1>1, <1>10, <2>1, <2>2 DEF PaidAges
<1> QED
  BY <1>11, <1>13, <1>14, <1>15 DEF GateInv

LEMMA CheckTrustKeeps ==
  ASSUME GateInv, Watch, NEW r \in GateRequests, CheckTrust(r) PROVE GateInv'
<1> DEFINE a == sent[r].author
           exempt == sent[r].kind = "connect" \/ a \in Allowed
           cached == paidCache[a].age < PaidTtl
<1>1. /\ gate[r] = "trust"
      /\ UNCHANGED <<authWrite, sent, world, claimRow, paidCache, paidRead, counts>>
      /\ CASE exempt -> Passes(r, "join") /\ UNCHANGED <<bucket, stalest, asked>>
           [] ~exempt /\ cached ->
                ApplyPolicy(r, LevelOf(a, paidCache[a].paid)) /\ UNCHANGED asked
           [] ~exempt /\ ~cached ->
                Passes(r, "paid") /\ Asks(r) /\ UNCHANGED <<bucket, stalest>>
  BY DEF CheckTrust
<1>2. GateTypeOK /\ a \in GateAuthors /\ gate[r] \in Open_
  BY <1>1, OwedNow, GateEventFields DEF GateInv, Open_
<1>3. ASSUME NEW g \in {"join", "paid"}, Passes(r, g), Asks(r) \/ UNCHANGED asked,
             UNCHANGED <<bucket, stalest>>
      PROVE  GateInv'
  <2>1. Moved(r, g, "none")
    BY <1>1, <1>3, PassesMoves
  <2>2. met[r] \subseteq met'[r]
    BY <1>2, <1>3, <2>1, MetNow
  <2>3. Owed(gate[r], sent[r], answer[r], met[r], steady[r], authWrite)
    BY OwedNow
  <2>4. Owed(g, sent[r], "none", met'[r], steady'[r], authWrite)
    BY <1>1, <1>3, <2>2, <2>3 DEF Owed, PastAuth, PastTombstone, PastBans, Accepted, TurnedAway
  <2>5. Paying(g, sent[r], met'[r], authWrite)
    BY <1>1, <1>3, <2>2, <2>3 DEF Owed, Paying, PastAuth
  <2>6. Vetted(gate[r], sent[r], answer[r], met[r], steady[r], claimRow, authWrite)
          => Vetted(g, sent[r], "none", met'[r], steady'[r], claimRow, authWrite)
    BY <1>3, <2>2 DEF Vetted
  <2>7. LooksOnly /\ gateFaults' \in 0 .. MaxGateFaults
    BY <1>1, <1>2, <1>3 DEF LooksOnly, trust, counts, GateTypeOK
  <2>8. g \in GateNames /\ "none" \in Answers
    BY <1>3 DEF GateNames, Answers
  <2> HIDE DEF a, exempt, cached
  <2> QED
    BY <1>1, <1>2, <1>3, <2>1, <2>4, <2>5, <2>6, <2>7, <2>8, AskedGrows, LookingKeeps
<1>4. CASE exempt
  BY <1>1, <1>3, <1>4
<1>5. CASE ~exempt /\ ~cached
  BY <1>1, <1>3, <1>5
<1>6. CASE ~exempt /\ cached
  <2>1. ApplyPolicy(r, LevelOf(a, paidCache[a].paid)) /\ UNCHANGED asked
    BY <1>1, <1>6
  <2>2. paidCache[a].paid \in BOOLEAN /\ paidCache[a].age \in 0 .. PaidTtl
    BY <1>2, PaidFields DEF GateTypeOK
  <2>3. LevelOf(a, paidCache[a].paid) \in PolicyLevels
    BY <2>2, LevelInType
  <2>4. LevelOf(a, paidCache[a].paid) = "paid" => lapsed[a] < PaidTtl + MaxWait
    <3>1. ASSUME paidCache[a].paid = TRUE PROVE lapsed[a] <= paidCache[a].age + MaxWait
      BY <1>2, <1>6, <3>1 DEF GateInv, PaidAges
    <3>2. lapsed[a] \in Nat
      BY <1>2, GateNumbers DEF GateTypeOK
    <3>3. LevelOf(a, paidCache[a].paid) = "paid" => paidCache[a].paid = TRUE
      BY <2>2, LevelInType
    <3> DEFINE lv == LevelOf(a, paidCache[a].paid)
    <3>5. lv = "paid" => paidCache[a].paid = TRUE
      BY <3>3
    <3> HIDE DEF a, lv
    <3>4. paidCache[a].age + MaxWait < PaidTtl + MaxWait
      BY <1>6, <2>2, GateNumbers
    <3>6. lv = "paid" => lapsed[a] < PaidTtl + MaxWait
      <4> DEFINE age == paidCache[a].age   l == lapsed[a]
      <4>1. age \in Nat /\ l \in Nat /\ age + MaxWait < PaidTtl + MaxWait
        BY <2>2, <3>2, <3>4
      <4>2. lv = "paid" => l <= age + MaxWait
        BY <3>1, <3>5
      <4> HIDE DEF age, l
      <4>3. lv = "paid" => l < PaidTtl + MaxWait
        BY <4>1, <4>2, GateNumbers
      <4> QED
        BY <4>3 DEF l
    <3> QED
      BY <3>6 DEF lv
  <2>5. /\ paidCache' = paidCache /\ paidRead' = paidRead
        /\ UNCHANGED <<authWrite, sent, world, claimRow, asked, counts>>
    BY <1>1, <2>1
  <2>6. /\ paidCache \in [GateAuthors -> CachedPaid] /\ paidRead \in [GateRequests -> PaidReads]
        /\ \A x \in GateAuthors : paidCache[x].paid = TRUE /\ paidCache[x].age < PaidTtl
                                    => lapsed[x] <= paidCache[x].age + MaxWait
        /\ \A q \in GateRequests :
             /\ paidRead[q] # NoRead => q # r /\ gate[q] = "paid"
             /\ paidRead[q].paid = TRUE => lapsed[sent[q].author] <= paidRead[q].waited
    BY <1>1, <1>2 DEF GateInv, GateTypeOK, PaidAges
  <2> DEFINE level == LevelOf(a, paidCache[a].paid)
  <2>7. /\ level \in PolicyLevels /\ ApplyPolicy(r, level)
        /\ level = "paid" => lapsed[sent[r].author] < PaidTtl + MaxWait
    BY <2>1, <2>3, <2>4
  <2> HIDE DEF level, exempt, cached, a
  <2> QED
    BY <1>1, <2>5, <2>6, <2>7, PolicyKeeps
<1> QED
  BY <1>4, <1>5, <1>6

LEMMA PaidAnswersKeeps ==
  ASSUME GateInv, Watch, NEW r \in GateRequests, PaidAnswers(r) PROVE GateInv'
<1> DEFINE a == sent[r].author
           level == LevelOf(a, paidRead[r].paid)
           answered == [paid |-> paidRead[r].paid, age |-> 0]
<1>1. /\ gate[r] = "paid" /\ paidRead[r] # NoRead
      /\ paidCache' = [paidCache EXCEPT ![a] = answered]
      /\ paidRead' = [paidRead EXCEPT ![r] = NoRead]
      /\ ApplyPolicy(r, level)
      /\ UNCHANGED <<authWrite, sent, world, claimRow, asked, counts>>
  BY DEF PaidAnswers
<1>2. GateTypeOK /\ a \in GateAuthors
  BY OwedNow, GateEventFields DEF GateInv
<1>3. paidRead[r].paid \in BOOLEAN /\ paidRead[r].waited \in -1 .. MaxWait
  BY <1>2, PaidFields DEF GateTypeOK
<1>4. paidRead[r].paid = TRUE => lapsed[a] <= MaxWait
  <2>1. lapsed[a] \in Nat
    BY <1>2, GateNumbers DEF GateTypeOK
  <2>2. paidRead[r].paid = TRUE => lapsed[sent[r].author] <= paidRead[r].waited
    BY DEF GateInv, PaidAges
  <2> QED
    BY <1>3, <2>1, <2>2, GateNumbers
<1>5. answered \in CachedPaid /\ answered.paid = paidRead[r].paid /\ answered.age = 0
  BY <1>3, GateNumbers DEF CachedPaid
<1>6. /\ level \in PolicyLevels
      /\ level = "paid" => lapsed[sent[r].author] < PaidTtl + MaxWait
  <2>1. lapsed[a] \in Nat
    BY <1>2, GateNumbers DEF GateTypeOK
  <2>2. level \in PolicyLevels /\ (level = "paid" => paidRead[r].paid = TRUE)
    BY <1>3, LevelInType
  <2> HIDE DEF level
  <2> QED
    BY <1>4, <2>1, <2>2, GateNumbers
<1>7. paidCache \in [GateAuthors -> CachedPaid] /\ paidRead \in [GateRequests -> PaidReads]
  BY <1>2 DEF GateTypeOK
<1> HIDE DEF answered, level
<1>8. /\ paidCache' \in [GateAuthors -> CachedPaid] /\ paidRead' \in [GateRequests -> PaidReads]
  BY <1>1, <1>2, <1>5, <1>7, PaidFields
<1>9. \A x \in GateAuthors : paidCache'[x].paid = TRUE /\ paidCache'[x].age < PaidTtl
                               => lapsed[x] <= paidCache'[x].age + MaxWait
  <2>1. \A x \in GateAuthors : paidCache[x].paid = TRUE /\ paidCache[x].age < PaidTtl
                                 => lapsed[x] <= paidCache[x].age + MaxWait
    BY DEF GateInv, PaidAges
  <2>2. ASSUME NEW x \in GateAuthors, paidCache'[x].paid = TRUE, paidCache'[x].age < PaidTtl
        PROVE  lapsed[x] <= paidCache'[x].age + MaxWait
    <3>1. CASE x = a
      <4>1. paidCache'[x] = answered
        BY <1>1, <1>2, <1>7, <3>1
      <4> HIDE DEF a
      <4> QED
        BY <1>4, <1>5, <2>2, <3>1, <4>1, GateNumbers
    <3>2. CASE x # a
      <4>1. paidCache'[x] = paidCache[x]
        BY <1>1, <1>7, <3>2
      <4> QED
        BY <2>1, <2>2, <4>1
    <3> QED
      BY <3>1, <3>2
  <2> QED
    BY <2>2
<1>10. \A q \in GateRequests :
         /\ paidRead'[q] # NoRead => q # r /\ gate[q] = "paid"
         /\ paidRead'[q].paid = TRUE => lapsed[sent[q].author] <= paidRead'[q].waited
  <2>1. \A q \in GateRequests :
         /\ paidRead[q] # NoRead => gate[q] = "paid"
         /\ paidRead[q].paid = TRUE => lapsed[sent[q].author] <= paidRead[q].waited
    BY DEF GateInv, PaidAges
  <2>2. \A q \in GateRequests : paidRead'[q] = IF q = r THEN NoRead ELSE paidRead[q]
    BY <1>1, <1>7
  <2> QED
    BY <2>1, <2>2, PaidFields
<1> HIDE DEF a
<1> QED
  BY <1>1, <1>6, <1>8, <1>9, <1>10, PolicyKeeps

\* A gate behind the policy that only looks, by where it sends the request.
LEMMA LateKeeps ==
  ASSUME GateInv, Watch, NEW r \in GateRequests, gate[r] \in {"join", "protected"},
         NEW g \in {"protected", "done"}, NEW why \in Answers, Moved(r, g, why), LooksOnly,
         Asks(r) \/ UNCHANGED asked, Fault \/ NoFault,
         why # "none" => g = "done",
         why \in Accepted /\ sent[r].protected => authed = sent[r].author,
         why \in TurnedAway => authed # sent[r].author,
         why \in {"none", "stored", "rate-limited", "error"} \/ authed # sent[r].author
           \/ sent[r].kind # "claim",
         why = "none" => g # "done"
  PROVE  GateInv'
<1>1. gate[r] \in Open_ /\ gate[r] # "paid" /\ g \in GateNames /\ g # "idle"
  BY DEF Open_, GateNames
<1>2. authed' = authed /\ sent'[r] = sent[r]
  BY DEF LooksOnly, world
<1>3. /\ met[r] \subseteq met'[r] /\ (authed = sent[r].author => "auth" \in met'[r])
      /\ "auth" \in steady'[r] => authed = sent[r].author
      /\ steady'[r] \subseteq steady[r]
  BY <1>1, <1>2, MetNow
<1>4. Owed(gate[r], sent[r], answer[r], met[r], steady[r], authWrite)
  BY OwedNow
<1>5. Owed(g, sent[r], why, met'[r], steady'[r], authWrite)
  BY <1>3, <1>4 DEF Owed, PastAuth, PastTombstone, PastBans
<1>6. Paying(g, sent[r], met'[r], authWrite)
  BY <1>3, <1>4 DEF Owed, Paying, PastAuth
<1>7. Vetted(gate[r], sent[r], answer[r], met[r], steady[r], claimRow, authWrite)
        => Vetted(g, sent[r], why, met'[r], steady'[r], claimRow, authWrite)
  BY <1>3 DEF Vetted
<1>8. gateFaults' \in 0 .. MaxGateFaults /\ asked' \subseteq asked \union {r}
  BY FaultCounted, AskedGrows
<1> QED
  BY <1>1, <1>5, <1>6, <1>7, <1>8, LookingKeeps

LEMMA CheckJoinKeeps ==
  ASSUME GateInv, Watch, NEW r \in GateRequests, CheckJoin(r) PROVE GateInv'
<1>1. gate[r] = "join" /\ LooksOnly
  BY DEF CheckJoin
<1>2. ASSUME Passes(r, "protected"), Asks(r) \/ UNCHANGED asked, NoFault PROVE GateInv'
  <2>1. Moved(r, "protected", "none")
    BY <1>1, <1>2, PassesMoves
  <2> QED
    BY <1>1, <1>2, <2>1, LateKeeps DEF Answers, Accepted, TurnedAway
<1>3. ASSUME NEW why \in {"invalid", "restricted-join", "error"}, Told(r, why),
             sent[r].kind # "claim", Asks(r) \/ UNCHANGED asked, Fault \/ NoFault
      PROVE  GateInv'
  <2>1. Moved(r, "done", why) /\ why \in Answers /\ why \notin Accepted /\ why \notin TurnedAway
    BY <1>3, ToldMoves DEF Answers, Accepted, TurnedAway
  <2> QED
    BY <1>1, <1>3, <2>1, LateKeeps
<1> QED
  BY <1>1, <1>2, <1>3 DEF CheckJoin, BadReceipt

LEMMA CheckProtectedKeeps ==
  ASSUME GateInv, Watch, NEW r \in GateRequests, CheckProtected(r) PROVE GateInv'
<1> DEFINE refused == sent[r].protected /\ authed # sent[r].author
<1>1. gate[r] = "protected" /\ LooksOnly
  BY DEF CheckProtected
<1>2. ASSUME NEW why \in Answers, Told(r, why), why # "none",
             Asks(r) \/ UNCHANGED asked, Fault \/ NoFault,
             why \in Accepted /\ sent[r].protected => authed = sent[r].author,
             why \in TurnedAway => authed # sent[r].author,
             why \in {"stored", "error"} \/ authed # sent[r].author \/ sent[r].kind # "claim"
      PROVE  GateInv'
  <2>1. Moved(r, "done", why)
    BY <1>2, ToldMoves
  <2> QED
    BY <1>1, <1>2, <2>1, LateKeeps
<1>3. ASSUME NEW why \in {"auth-required", "protected"}, refused, Told(r, why),
             UNCHANGED asked, NoFault
      PROVE  GateInv'
  <2>1. why \in Answers /\ why # "none" /\ why \notin Accepted /\ authed # sent[r].author
    BY <1>3 DEF Answers, Accepted
  <2> QED
    BY <1>2, <1>3, <2>1
<1>4. ASSUME ~refused, sent[r].kind \in Ephemeral, Told(r, "relayed"), UNCHANGED asked, NoFault
      PROVE  GateInv'
  <2>1. "relayed" \in Answers /\ "relayed" \notin TurnedAway /\ sent[r].kind # "claim"
        /\ (sent[r].protected => authed = sent[r].author)
    BY <1>4 DEF Answers, TurnedAway, Ephemeral
  <2> QED
    BY <1>2, <1>4, <2>1
<1>5. ASSUME ~refused, NEW why \in {"stored", "error"}, Told(r, why), Asks(r), Fault \/ NoFault
      PROVE  GateInv'
  <2>1. why \in Answers /\ why # "none" /\ why \notin TurnedAway
        /\ (sent[r].protected => authed = sent[r].author)
    BY <1>5 DEF Answers, TurnedAway
  <2> QED
    BY <1>2, <1>5, <2>1
<1> QED
  BY <1>3, <1>4, <1>5 DEF CheckProtected, StoreOrRelay

\* Steps of the world and of time leave every request where it is.
LEMMA MeanwhileKeeps ==
  ASSUME GateInv, Watch, UNCHANGED <<authWrite, gate, sent, answer, asked, claimRow>>,
         authed' \in GateAuthors \union {NoAuthor}, tombs' \subseteq Ids,
         bans' \subseteq BanTargets, tier' \subseteq GateAuthors,
         auths' \in 0 .. MaxAuths, edits' \in 0 .. MaxEdits, ticks_' \in 0 .. MaxTicks_,
         gateFaults' \in 0 .. MaxGateFaults, stalest' = stalest,
         paidCache' \in [GateAuthors -> CachedPaid],
         paidRead' \in [GateRequests -> PaidReads],
         lapsed' \in [GateAuthors -> 0 .. LongAgo],
         bucket' \in [BucketNames -> Buckets],
         \A n \in BucketNames : bucket'[n].tokens <= 2 * bucket'[n].limit,
         \A a \in GateAuthors :
           /\ a \in tier' => lapsed'[a] = 0
           /\ paidCache'[a].paid = TRUE /\ paidCache'[a].age < PaidTtl
                => lapsed'[a] <= paidCache'[a].age + MaxWait,
         \A q \in GateRequests :
           /\ paidRead'[q] # NoRead => gate[q] = "paid"
           /\ paidRead'[q].paid = TRUE => lapsed'[sent[q].author] <= paidRead'[q].waited
  PROVE  GateInv'
<1>1. RequestsOwed' /\ ClaimVetted'
  BY WorldOwed
<1>2. GateTypeOK
  BY DEF GateInv
<1>3. GateTypeOK'
  BY <1>2, HistoryInType DEF GateTypeOK
<1>4. PaidStandingIsRecent'
  BY DEF GateInv, PaidAges, PaidStandingIsRecent
<1>5. PaidAges'
  BY <1>4 DEF PaidAges
<1> QED
  BY <1>1, <1>3, <1>5 DEF GateInv

LEMMA StandingNow ==
  ASSUME GateInv
  PROVE  /\ GateTypeOK
         /\ \A n \in BucketNames : bucket[n].tokens <= 2 * bucket[n].limit
         /\ \A a \in GateAuthors :
              /\ a \in tier => lapsed[a] = 0
              /\ paidCache[a].paid = TRUE /\ paidCache[a].age < PaidTtl
                   => lapsed[a] <= paidCache[a].age + MaxWait
         /\ \A q \in GateRequests :
              /\ paidRead[q] # NoRead => gate[q] = "paid"
              /\ paidRead[q].paid = TRUE => lapsed[sent[q].author] <= paidRead[q].waited
BY DEF GateInv, GateTypeOK, PaidAges

LEMMA WorldKeeps ==
  ASSUME GateInv, Watch,
         \/ \E key \in GateAuthors : Authenticate(key)
         \/ \E t \in BanTargets : EditBans(t)
         \/ \E id \in Ids : Tombstone(id)
  PROVE  GateInv'
<1>1. UNCHANGED <<authWrite, gate, sent, answer, claimRow, tier, paidCache, paidRead, bucket,
                  stalest, asked, ticks_, gateFaults, lapsed>>
  BY DEF Authenticate, EditBans, Tombstone, trust, counts
<1>2. /\ authed' \in GateAuthors \union {NoAuthor} /\ tombs' \subseteq Ids
      /\ bans' \subseteq BanTargets /\ auths' \in 0 .. MaxAuths /\ edits' \in 0 .. MaxEdits
  <2>1. /\ authed \in GateAuthors \union {NoAuthor} /\ tombs \subseteq Ids
        /\ bans \subseteq BanTargets /\ auths \in 0 .. MaxAuths /\ edits \in 0 .. MaxEdits
    BY DEF GateInv, GateTypeOK
  <2>2. ASSUME NEW key \in GateAuthors, Authenticate(key)
        PROVE  /\ authed' = key /\ auths' = auths + 1 /\ auths < MaxAuths
               /\ tombs' = tombs /\ bans' = bans /\ edits' = edits
    BY <2>2 DEF Authenticate
  <2>3. ASSUME NEW t \in BanTargets, EditBans(t)
        PROVE  /\ authed' = authed /\ auths' = auths /\ tombs' = tombs
               /\ edits' = edits + 1 /\ edits < MaxEdits /\ bans' \subseteq bans \union {t}
    BY <2>3 DEF EditBans
  <2>4. ASSUME NEW id \in Ids, Tombstone(id)
        PROVE  /\ authed' = authed /\ auths' = auths /\ bans' = bans
               /\ edits' = edits + 1 /\ edits < MaxEdits /\ tombs' = tombs \union {id}
    BY <2>4 DEF Tombstone
  <2> QED
    BY <2>1, <2>2, <2>3, <2>4, GateNumbers
<1> QED
  BY <1>1, <1>2, StandingNow, MeanwhileKeeps DEF GateTypeOK

LEMMA ChangeTierKeeps ==
  ASSUME GateInv, Watch, NEW a \in GateAuthors, ChangeTier(a) PROVE GateInv'
<1>1. /\ UNCHANGED <<authWrite, gate, sent, answer, authed, tombs, bans, claimRow, paidCache,
                     paidRead, bucket, stalest, asked, auths, ticks_, gateFaults>>
      /\ edits < MaxEdits /\ edits' = edits + 1
      /\ tier' = IF a \in tier THEN tier \ {a} ELSE tier \union {a}
      /\ lapsed' = [lapsed EXCEPT ![a] = 0]
  BY DEF ChangeTier, trust
<1>2. GateTypeOK
  BY DEF GateInv
<1>3. edits' \in 0 .. MaxEdits /\ tier' \subseteq GateAuthors /\ lapsed' \in [GateAuthors -> 0 .. LongAgo]
  BY <1>1, <1>2, GateNumbers DEF GateTypeOK
<1>4. \A x \in GateAuthors : /\ lapsed'[x] = IF x = a THEN 0 ELSE lapsed[x]
                             /\ lapsed[x] \in Nat
                             /\ x # a => (x \in tier' <=> x \in tier)
  BY <1>1, <1>2, GateNumbers DEF GateTypeOK
<1>5. \A x \in GateAuthors :
        /\ x \in tier' => lapsed'[x] = 0
        /\ paidCache[x].paid = TRUE /\ paidCache[x].age < PaidTtl
             => lapsed'[x] <= paidCache[x].age + MaxWait
  <2>1. \A x \in GateAuthors : paidCache[x].age \in Nat
    BY <1>2, PaidFields, GateNumbers DEF GateTypeOK
  <2>2. ASSUME NEW x \in GateAuthors PROVE x \in tier' => lapsed'[x] = 0
    BY <1>4, StandingNow
  <2>3. ASSUME NEW x \in GateAuthors, paidCache[x].paid = TRUE, paidCache[x].age < PaidTtl
        PROVE  lapsed'[x] <= paidCache[x].age + MaxWait
    <3>1. lapsed[x] <= paidCache[x].age + MaxWait
      BY <2>3, StandingNow
    <3>2. lapsed'[x] <= lapsed[x] /\ lapsed[x] \in Nat /\ lapsed'[x] \in Nat
      BY <1>4
    <3> QED
      BY <2>1, <3>1, <3>2, GateNumbers
  <2> QED
    BY <2>2, <2>3
<1>6. \A q \in GateRequests : paidRead[q].paid = TRUE => lapsed'[sent[q].author] <= paidRead[q].waited
  <2>1. ASSUME NEW q \in GateRequests, paidRead[q].paid = TRUE
        PROVE  lapsed'[sent[q].author] <= paidRead[q].waited
    <3>1. sent[q].author \in GateAuthors
      BY OwedNow, GateEventFields
    <3>2. lapsed[sent[q].author] <= paidRead[q].waited
      BY <2>1, StandingNow
    <3>3. paidRead[q].waited \in Int
      BY <1>2, PaidFields, GateNumbers DEF GateTypeOK
    <3>4. /\ lapsed'[sent[q].author] <= lapsed[sent[q].author]
          /\ lapsed[sent[q].author] \in Nat /\ lapsed'[sent[q].author] \in Nat
      BY <1>4, <3>1
    <3> QED
      BY <3>2, <3>3, <3>4
  <2> QED
    BY <2>1
<1> QED
  BY <1>1, <1>2, <1>3, <1>5, <1>6, StandingNow, MeanwhileKeeps DEF GateTypeOK

LEMMA GateTickKeeps ==
  ASSUME GateInv, Watch, GateTick PROVE GateInv'
<1> DEFINE older(q) == [paidRead[q] EXCEPT !.waited = @ + 1]
           aged(a)  == [paidCache[a] EXCEPT !.age = Least(@ + 1, PaidTtl)]
           fuller(n) == [bucket[n] EXCEPT !.tokens = Least(@ + bucket[n].limit, 2 * bucket[n].limit)]
<1>1. /\ ticks_ < MaxTicks_ /\ ticks_' = ticks_ + 1
      /\ \A q \in GateRequests : paidRead[q].waited < MaxWait
      /\ paidRead' = [q \in GateRequests |-> IF paidRead[q] = NoRead THEN NoRead ELSE older(q)]
      /\ paidCache' = [a \in GateAuthors |-> aged(a)]
      /\ bucket' = [n \in BucketNames |-> fuller(n)]
      /\ lapsed' = [a \in GateAuthors |->
           IF a \in tier THEN 0 ELSE Least(lapsed[a] + 1, LongAgo)]
      /\ UNCHANGED <<authWrite, gate, sent, answer, authed, tombs, bans, tier, auths, edits,
                     claimRow, asked, stalest, gateFaults>>
  BY DEF GateTick, world
<1>2. GateTypeOK
  BY DEF GateInv
<1>3. ASSUME NEW q \in GateRequests
      PROVE  /\ older(q) \in PaidReads /\ older(q).paid = paidRead[q].paid
             /\ older(q).waited = paidRead[q].waited + 1
  BY <1>1, <1>2, GateNumbers DEF GateTypeOK, PaidReads
<1>4. ASSUME NEW a \in GateAuthors
      PROVE  /\ aged(a) \in CachedPaid /\ aged(a).paid = paidCache[a].paid
             /\ aged(a).age < PaidTtl =>
                  aged(a).age = paidCache[a].age + 1 /\ paidCache[a].age < PaidTtl
  <2>1. paidCache[a] \in CachedPaid
    BY <1>2 DEF GateTypeOK
  <2>2. paidCache[a].age \in 0 .. PaidTtl
    BY <2>1, PaidFields
  <2>3. Least(paidCache[a].age + 1, PaidTtl) \in 0 .. PaidTtl
    BY <2>2, GateNumbers DEF Least
  <2> QED
    BY <2>1, <2>2, <2>3, GateNumbers DEF CachedPaid, Least
<1>5. ASSUME NEW n \in BucketNames
      PROVE  fuller(n) \in Buckets /\ fuller(n).tokens <= 2 * fuller(n).limit
  <2>1. bucket[n] \in Buckets
    BY <1>2 DEF GateTypeOK
  <2>2. bucket[n].limit \in Nat /\ bucket[n].tokens \in Nat
    BY <2>1, PaidFields
  <2> DEFINE t == Least(bucket[n].tokens + bucket[n].limit, 2 * bucket[n].limit)
  <2>3. t \in Nat /\ t <= 2 * bucket[n].limit
    BY <2>2 DEF Least
  <2>4. fuller(n) = [bucket[n] EXCEPT !.tokens = t]
    OBVIOUS
  <2> HIDE DEF t, fuller
  <2> QED
    BY <2>1, <2>2, <2>3, <2>4 DEF Buckets
<1>6. ASSUME NEW a \in GateAuthors
      PROVE  /\ lapsed'[a] \in 0 .. LongAgo /\ lapsed'[a] <= lapsed[a] + 1
             /\ a \in tier => lapsed'[a] = 0
             /\ lapsed[a] \in Nat
  <2>1. lapsed[a] \in 0 .. LongAgo
    BY <1>2 DEF GateTypeOK
  <2>2. lapsed'[a] = IF a \in tier THEN 0 ELSE Least(lapsed[a] + 1, LongAgo)
    BY <1>1
  <2> QED
    BY <2>1, <2>2, GateNumbers DEF Least
<1> HIDE DEF older, aged, fuller
<1>7. /\ paidRead' \in [GateRequests -> PaidReads]
      /\ paidCache' \in [GateAuthors -> CachedPaid]
      /\ bucket' \in [BucketNames -> Buckets]
      /\ \A n \in BucketNames : bucket'[n].tokens <= 2 * bucket'[n].limit
  BY <1>1, <1>3, <1>4, <1>5, PaidFields
<1>8. lapsed' \in [GateAuthors -> 0 .. LongAgo]
  <2>1. lapsed' = [a \in GateAuthors |-> lapsed'[a]]
    BY <1>1
  <2> QED
    BY <1>6, <2>1
<1>9. ASSUME NEW a \in GateAuthors, paidCache'[a].paid = TRUE, paidCache'[a].age < PaidTtl
      PROVE  lapsed'[a] <= paidCache'[a].age + MaxWait
  <2>1. paidCache'[a] = aged(a)
    BY <1>1
  <2>2. paidCache[a].paid = TRUE /\ paidCache[a].age < PaidTtl /\ aged(a).age = paidCache[a].age + 1
    BY <1>4, <1>9, <2>1
  <2>3. lapsed[a] <= paidCache[a].age + MaxWait
    BY <2>2, StandingNow
  <2>4. paidCache[a].age \in Nat
    BY <1>2, PaidFields, GateNumbers DEF GateTypeOK
  <2>5. lapsed'[a] <= lapsed[a] + 1 /\ lapsed[a] \in Nat /\ lapsed'[a] \in Nat
    BY <1>6, GateNumbers
  <2>6. lapsed'[a] <= paidCache[a].age + 1 + MaxWait
    BY <2>3, <2>4, <2>5, GateNumbers
  <2>7. paidCache'[a].age = paidCache[a].age + 1
    BY <2>1, <2>2
  <2> QED
    BY <2>4, <2>6, <2>7
<1>10. ASSUME NEW q \in GateRequests
       PROVE  /\ paidRead'[q] # NoRead => gate[q] = "paid"
              /\ paidRead'[q].paid = TRUE => lapsed'[sent[q].author] <= paidRead'[q].waited
  <2>1. paidRead'[q] = IF paidRead[q] = NoRead THEN NoRead ELSE older(q)
    BY <1>1
  <2>2. CASE paidRead[q] = NoRead
    BY <2>1, <2>2, PaidFields
  <2>3. CASE paidRead[q] # NoRead
    <3>1. gate[q] = "paid" /\ (paidRead[q].paid = TRUE => lapsed[sent[q].author] <= paidRead[q].waited)
      BY <2>3, StandingNow
    <3>2. paidRead'[q].paid = paidRead[q].paid /\ paidRead'[q].waited = paidRead[q].waited + 1
      BY <1>3, <2>1, <2>3
    <3>3. sent[q].author \in GateAuthors
      BY OwedNow, GateEventFields
    <3>4. paidRead[q].waited \in Int
      BY <1>2, PaidFields, GateNumbers DEF GateTypeOK
    <3> DEFINE w == paidRead[q].waited   l == lapsed[sent[q].author]   m == lapsed'[sent[q].author]
    <3>5. l \in Nat /\ m \in Int /\ m <= l + 1 /\ w \in Int
      BY <1>6, <3>3, <3>4, GateNumbers
    <3>6. l <= w => m <= w + 1
      <4> HIDE DEF w, l, m
      <4> QED
        BY <3>5
    <3> QED
      BY <3>1, <3>2, <3>6
  <2> QED
    BY <2>2, <2>3
<1>11. ticks_' \in 0 .. MaxTicks_
  BY <1>1, <1>2, GateNumbers DEF GateTypeOK
<1>12. \A a \in GateAuthors :
         /\ a \in tier' => lapsed'[a] = 0
         /\ paidCache'[a].paid = TRUE /\ paidCache'[a].age < PaidTtl
              => lapsed'[a] <= paidCache'[a].age + MaxWait
  BY <1>1, <1>6, <1>9
<1> QED
  BY <1>1, <1>2, <1>7, <1>8, <1>10, <1>11, <1>12, MeanwhileKeeps DEF GateTypeOK

LEMMA SweepBucketKeeps ==
  ASSUME GateInv, Watch, NEW n \in BucketNames, SweepBucket(n) PROVE GateInv'
<1>1. /\ UNCHANGED <<authWrite, gate, sent, answer, authed, tombs, bans, tier, auths, edits,
                     claimRow, paidCache, paidRead, asked, stalest, ticks_, gateFaults, lapsed>>
      /\ bucket' = [bucket EXCEPT ![n] = NoBucket]
  BY DEF SweepBucket, world, counts
<1>2. /\ bucket' \in [BucketNames -> Buckets]
      /\ \A b \in BucketNames : bucket'[b].tokens <= 2 * bucket'[b].limit
  BY <1>1, StandingNow, PaidFields DEF GateTypeOK
<1> QED
  BY <1>1, <1>2, StandingNow, MeanwhileKeeps DEF GateTypeOK

LEMMA ReadTierKeeps ==
  ASSUME GateInv, Watch, NEW r \in GateRequests, ReadTier(r) PROVE GateInv'
<1> DEFINE a == sent[r].author
<1>1. /\ gate[r] = "paid"
      /\ UNCHANGED <<authWrite, gate, sent, answer, authed, tombs, bans, tier, auths, edits,
                     claimRow, paidCache, bucket, asked, stalest, ticks_, lapsed>>
  BY DEF ReadTier, world
<1>2. PICK paid \in BOOLEAN :
        /\ paid = TRUE => a \in tier
        /\ paidRead' = [paidRead EXCEPT ![r] = [paid |-> paid, waited |-> 0]]
  <2>1. CASE paidRead' = [paidRead EXCEPT ![r] = [paid |-> a \in tier, waited |-> 0]]
    <3>1. CASE a \in tier
      <4>1. paidRead' = [paidRead EXCEPT ![r] = [paid |-> TRUE, waited |-> 0]]
        BY <2>1, <3>1
      <4> QED
        BY <3>1, <4>1
    <3>2. CASE a \notin tier
      <4>1. paidRead' = [paidRead EXCEPT ![r] = [paid |-> FALSE, waited |-> 0]]
        <5>1. (a \in tier) = FALSE
          BY <3>2
        <5> QED
          BY <2>1, <5>1, Zenon
      <4> QED
        BY <4>1
    <3> QED
      BY <3>1, <3>2
  <2>2. CASE paidRead' = [paidRead EXCEPT ![r] = [paid |-> FALSE, waited |-> 0]]
    BY <2>2
  <2> QED
    BY <2>1, <2>2 DEF ReadTier
<1>3. GateTypeOK /\ a \in GateAuthors
  BY OwedNow, GateEventFields DEF GateInv
<1> DEFINE new == [paid |-> paid, waited |-> 0]
<1>4. new \in PaidReads /\ new.paid = paid /\ new.waited = 0
  BY <1>2, GateNumbers DEF PaidReads
<1>5. paid = TRUE => lapsed[a] = 0
  BY <1>2, <1>3, StandingNow
<1>6. gateFaults' \in 0 .. MaxGateFaults
  BY FaultCounted DEF ReadTier
<1> HIDE DEF new
<1>7. paidRead' = [paidRead EXCEPT ![r] = new] /\ paidRead \in [GateRequests -> PaidReads]
  BY <1>2, <1>3 DEF new, GateTypeOK
<1>8. \A q \in GateRequests :
        /\ paidRead'[q] # NoRead => gate[q] = "paid"
        /\ paidRead'[q].paid = TRUE => lapsed[sent[q].author] <= paidRead'[q].waited
  <2>1. \A q \in GateRequests : paidRead'[q] = IF q = r THEN new ELSE paidRead[q]
    BY <1>7
  <2>2. \A q \in GateRequests :
          /\ paidRead[q] # NoRead => gate[q] = "paid"
          /\ paidRead[q].paid = TRUE => lapsed[sent[q].author] <= paidRead[q].waited
    BY StandingNow
  <2>3. 0 <= new.waited /\ (new.paid = TRUE => lapsed[sent[r].author] = 0)
    BY <1>4, <1>5
  <2> QED
    BY <1>1, <1>4, <2>1, <2>2, <2>3
<1>9. paidRead' \in [GateRequests -> PaidReads]
  BY <1>4, <1>7
<1> HIDE DEF a
<1> QED
  BY <1>1, <1>3, <1>6, <1>8, <1>9, StandingNow, MeanwhileKeeps DEF GateTypeOK

\* The invariant of the write gates: at each gate a request has met what the gates
\* behind it asked for, and whoever is taken for paid was paid recently.
THEOREM GateInvariant == GateInit /\ [][GateNext]_GateVars => []GateInv
<1>1. GateInv /\ [GateNext]_GateVars => GateInv'
  <2> SUFFICES ASSUME GateInv, [GateNext]_GateVars PROVE GateInv'
    OBVIOUS
  <2>1. CASE UNCHANGED GateVars
    BY <2>1 DEF GateVars, GateInv, GateTypeOK, RequestsOwed, ClaimVetted, PaidAges, PaidStandingIsRecent
  <2>2. CASE GateNext
    <3>1. Watch
      BY <2>2 DEF GateNext
    <3>2. ASSUME NEW r \in GateRequests, GateStep(r) PROVE GateInv'
      <4>1. ASSUME NEW e \in Sends[r], Arrive(r, e) PROVE GateInv'
        BY <3>1, <4>1, ArriveKeeps
      <4> QED
        BY <3>1, <3>2, <4>1, CheckAuthKeeps, CheckTombstoneKeeps, CheckBansKeeps,
           CheckClaimKeeps, CheckTrustKeeps, ReadTierKeeps, PaidAnswersKeeps,
           CheckJoinKeeps, CheckProtectedKeeps DEF GateStep
    <3> QED
      BY <2>2, <3>1, <3>2, WorldKeeps, ChangeTierKeeps, GateTickKeeps, SweepBucketKeeps DEF GateNext
  <2> QED
    BY <2>1, <2>2
<1> QED
  BY <1>1, GateFirst, PTL

\* Every variable of the write gates keeps its type, and no author's bucket ever
\* holds more than two seconds' worth.
THEOREM GateTypeCorrect == GateSpec => []GateTypeOK
<1>1. GateInv => GateTypeOK
  BY DEF GateInv
<1> QED
  BY <1>1, GateInvariant, PTL DEF GateSpec

LEMMA OwedIsEnough == GateInv => GatesHold
<1> SUFFICES ASSUME GateInv PROVE GatesHold
  OBVIOUS
<1>1. NoDatabaseBeforeAuth
  BY DEF NoDatabaseBeforeAuth, NeedsAuth, GateInv, RequestsOwed, GateTypeOK, Paying
<1>2. AcceptedWasAllowed
  <2>1. ASSUME NEW r \in GateRequests, answer[r] \in {"stored", "relayed"}
        PROVE  /\ "unbanned" \in met[r]
               /\ sent[r].kind \notin Ephemeral => "undeleted" \in met[r]
               /\ NeedsAuth(r) \/ sent[r].protected => "auth" \in met[r]
    BY <2>1, OwedNow DEF Owed, Accepted, NeedsAuth, GateInv, GateTypeOK
  <2> QED
    BY <2>1 DEF AcceptedWasAllowed
<1>3. AuthorsAreNotTurnedAway
  <2>1. ASSUME NEW r \in GateRequests, "auth" \in steady[r]
        PROVE  answer[r] \notin {"pow", "auth-required", "restricted", "protected"}
    BY <2>1, OwedNow DEF Owed, TurnedAway
  <2> QED
    BY <2>1 DEF AuthorsAreNotTurnedAway
<1>4. ClaimRowsAreVetted
  <2> DEFINE carriers == {r \in GateRequests : gate[r] # "idle" /\ sent[r].id = claimRow}
             lost == \A r \in carriers : gate[r] = "done" /\ answer[r] # "stored"
  <2>1. ASSUME claimRow # NoId
        PROVE  /\ \E r \in carriers : /\ {"unbanned", "undeleted"} \subseteq met[r]
                                      /\ NeedsAuth(r) => "auth" \in met[r]
               /\ lost => \E r \in carriers : \/ answer[r] \in {"rate-limited", "error"}
                                              \/ "auth" \notin steady[r]
    <3>1. PICK r \in GateRequests : Vetted(gate[r], sent[r], answer[r], met[r], steady[r], claimRow, authWrite)
      BY <2>1 DEF GateInv, ClaimVetted
    <3>2. r \in carriers
      BY <3>1 DEF Vetted
    <3>3. {"unbanned", "undeleted"} \subseteq met[r] /\ (NeedsAuth(r) => "auth" \in met[r])
      BY <3>1 DEF Vetted, NeedsAuth, GateInv, GateTypeOK
    <3>4. lost => answer[r] \in {"rate-limited", "error"} \/ "auth" \notin steady[r]
      BY <3>1, <3>2 DEF Vetted
    <3> HIDE DEF carriers, lost
    <3> QED
      BY <3>2, <3>3, <3>4
  <2> QED
    BY <2>1 DEF ClaimRowsAreVetted
<1>5. PaidStandingIsRecent
  BY DEF GateInv, PaidAges
<1> QED
  BY <1>1, <1>2, <1>3, <1>4, <1>5 DEF GatesHold

\* The order of the write gates (cmd/relay/gates.go) keeps what its comment promises,
\* for any requests, authors, events, bans and bounds: no database call before
\* authentication, nothing accepted that was not allowed, no author turned away while
\* logged in, no claim row for an event the earlier gates refused, and no standing as a
\* paid member longer than the cache and one lookup allow.
THEOREM GatesKeepTheirOrder == GateSpec => []GatesHold
BY GateInvariant, OwedIsEnough, PTL DEF GateSpec

-----------------------------------------------------------------------------
(* A query                                                                   *)

\* What a filter that names wraps asks for once the gates have let it through.
WrapsNarrowed ==
  wrapsGated = TRUE /\ keySteady = TRUE /\ "wrap" \in filter.kinds =>
    /\ step = "gates" /\ firstKey # NoReader => filter.to = {firstKey}
    /\ step = "query" /\ filter.count = FALSE => filter.to = {firstKey}
    /\ step = "serving" => filter.to = {firstKey}

\* A cached profile, and a row the cache gave, did not expire longer ago than the
\* copy is old.
CopiesAreYoung ==
  /\ \A p \in profiles : Expiration(p.event) > 0 => readClock <= Expiration(p.event) + p.age
  /\ step = "serving" /\ fromCache = TRUE =>
       \A e \in rows_ : Expiration(e) > 0 => foundAt <= Expiration(e) + ProfileTtl

\* The first of a COUNT's two counts still stands.
FirstCountStands ==
  /\ step = "counting" => filter.groups = {} /\ (rowsSteady = TRUE => counted = CountOf(filter))
  /\ due # -1 => step = "done"

ReadFlow ==
  /\ step \notin {"serving", "done"} => served = {}
  /\ step \in {"overwrite", "gates", "serving"} => filter.count = FALSE
  /\ step # "idle" /\ keySteady = TRUE => readerKey = firstKey
  /\ step = "serving" => \A e \in rows_ : Matches(filter, e)
  /\ sweepAt <= readClock

ReadInv == ReadTypeOK /\ ReadFlow /\ WrapsNarrowed /\ CopiesAreYoung /\ FirstCountStands /\ ReadsHold

LEMMA ReadNumbers ==
  /\ GiftGrace \in Nat /\ ProfileTtl \in Nat /\ SweepBatchSize \in Nat \ {0}
  /\ MaxClock_ \in Nat \ {0} /\ MaxReadChanges \in Nat
BY ReadAssumption

LEMMA StoredFields ==
  ASSUME NEW e \in Stored
  PROVE  /\ e.kind \in ReadKinds /\ e.to \in Readers /\ e.group \in PrivateGroups \union {NoGroup}
         /\ e.expirations \in Seq(Nat) /\ Expiration(e) \in Nat
<1>1. e \in StoredEvents
  BY ReadAssumption
<1>2. e.expirations \in Seq(Nat)
  BY <1>1 DEF StoredEvents
<1>3. e.expirations # <<>> => Head(e.expirations) \in Nat
  BY <1>2
<1> QED
  BY <1>1, <1>2, <1>3 DEF StoredEvents, Expiration

LEMMA RowsFinite ==
  ASSUME NEW S, S \subseteq Stored
  PROVE  IsFiniteSet(S) /\ Cardinality(S) \in Nat
BY ReadAssumption, FS_Subset, FS_CardinalityType

LEMMA ReadFirst == ReadInit => ReadInv
<1> SUFFICES ASSUME ReadInit PROVE ReadInv
  OBVIOUS
<1>1. ReadTypeOK
  <2>1. NoFilter \in FilterRecords
    BY DEF NoFilter, FilterRecords
  <2>2. {readClock, foundAt} \subseteq 0 .. MaxClock_ /\ sweepAt \in -1 .. MaxClock_
    BY ReadNumbers DEF ReadInit
  <2>3. /\ {total, due} \subseteq Nat \union {-1} /\ counted \in Nat /\ readChanges \in 0 .. MaxReadChanges
    BY ReadNumbers DEF ReadInit
  <2>4. {fromCache, keySteady, rowsSteady} \subseteq BOOLEAN
    BY DEF ReadInit
  <2> QED
    BY <2>1, <2>2, <2>3, <2>4 DEF ReadInit, ReadTypeOK, ReadSteps
<1>2. ReadFlow /\ WrapsNarrowed /\ CopiesAreYoung /\ FirstCountStands
  BY DEF ReadInit, ReadFlow, WrapsNarrowed, CopiesAreYoung, FirstCountStands
<1>3. ReadsHold
  BY DEF ReadInit, ReadsHold, WrapsAreTheReaders, GroupsStayPrivate, ExpiredIsBrieflyServed,
         CountsAreExact, SweptWasOver
<1> QED
  BY <1>1, <1>2, <1>3 DEF ReadInv

\* Follow, piece by piece.
LEMMA Followed_ ==
  ASSUME ReadTypeOK, Follow, step' \in ReadSteps, reader' \in Readers \union {NoReader}
  PROVE  /\ readable' \subseteq Stored
         /\ step' # "idle" => readable \subseteq readable'
         /\ step' = "serving" =>
              \A e \in Stored : Visible(e, reader', private', belongs') => e \in readable'
         /\ keySteady' \in BOOLEAN /\ rowsSteady' \in BOOLEAN
         /\ keySteady' = TRUE /\ step' # "idle" => keySteady = TRUE /\ readerKey' = readerKey
         /\ rowsSteady' = TRUE /\ step' # "idle" =>
              /\ rowsSteady = TRUE
              /\ step = "counting" => table_' = table_ /\ private' = private /\ belongs' = belongs
         /\ step' = "idle" => due' = -1
         /\ step = "counting" /\ step' = "done" =>
              due' = Cardinality({e \in table_ : Matches(filter, e)
                                     /\ Visible(e, reader, private, belongs)})
         /\ step' # "idle" /\ ~(step = "counting" /\ step' = "done") => due' = due
         /\ due' \in Nat \union {-1}
<1> DEFINE key == IF step' \in {"serving", "counting"} THEN reader' ELSE readerKey'
           open == {e \in Stored : Visible(e, key, private', belongs')}
           right == {e \in table_ : Matches(filter, e) /\ Visible(e, reader, private, belongs)}
<1>1. /\ readable' = CASE step' = "idle" -> {} [] step' = "done" -> readable
                       [] OTHER -> readable \union open
      /\ keySteady' = (step' = "idle" \/ (keySteady /\ readerKey' = readerKey))
      /\ rowsSteady' = (step' = "idle" \/ (rowsSteady /\
           (step = "counting" => table_' = table_ /\ private' = private /\ belongs' = belongs)))
      /\ due' = CASE step' = "idle" -> -1
                  [] step = "counting" /\ step' = "done" -> Cardinality(right)
                  [] OTHER -> due
  BY DEF Follow
<1>2. readable \subseteq Stored /\ open \subseteq Stored
  BY DEF ReadTypeOK
<1>3. step' = "serving" => \A e \in Stored : Visible(e, reader', private', belongs') => e \in open
  OBVIOUS
<1>4. Cardinality(right) \in Nat
  BY RowsFinite DEF ReadTypeOK
<1>5. due \in Nat \union {-1} /\ keySteady \in BOOLEAN /\ rowsSteady \in BOOLEAN
  BY DEF ReadTypeOK
<1>6. /\ keySteady' \in BOOLEAN /\ rowsSteady' \in BOOLEAN
      /\ keySteady' = TRUE /\ step' # "idle" => keySteady = TRUE /\ readerKey' = readerKey
      /\ rowsSteady' = TRUE /\ step' # "idle" =>
              /\ rowsSteady = TRUE
              /\ step = "counting" => table_' = table_ /\ private' = private /\ belongs' = belongs
  BY <1>1, <1>5
<1> HIDE DEF open, right
<1>7. /\ readable' \subseteq Stored
      /\ step' # "idle" => readable \subseteq readable'
      /\ step' = "serving" => open \subseteq readable'
  BY <1>1, <1>2
<1>8. /\ step' = "idle" => due' = -1
      /\ step = "counting" /\ step' = "done" => due' = Cardinality(right)
      /\ step' # "idle" /\ ~(step = "counting" /\ step' = "done") => due' = due
      /\ due' \in Nat \union {-1}
  BY <1>1, <1>4, <1>5
<1> QED
  BY <1>3, <1>6, <1>7, <1>8 DEF right

\* What is served stays open to the reader, and stays within its time.
LEMMA ServedStays ==
  ASSUME ReadInv, Follow, step' \in ReadSteps, reader' \in Readers \union {NoReader},
         step' # "idle", served' = served,
         served # {} => fromCache' = fromCache /\ foundAt' = foundAt
  PROVE  GroupsStayPrivate' /\ ExpiredIsBrieflyServed'
<1>1. GroupsStayPrivate /\ ExpiredIsBrieflyServed /\ ReadTypeOK
  BY DEF ReadInv, ReadsHold
<1>2. readable \subseteq readable'
  BY <1>1, Followed_
<1> QED
  BY <1>1, <1>2 DEF GroupsStayPrivate, ExpiredIsBrieflyServed

\* Other connections, admins, the sweep and time leave the request where it is.
LEMMA BesideKeeps ==
  ASSUME ReadInv, Follow, UNCHANGED <<config_, query>>,
         readClock' \in 0 .. MaxClock_, sweepAt' \in -1 .. MaxClock_, sweepAt' <= readClock',
         indexed' \in BOOLEAN, table_' \subseteq Stored, profiles' \subseteq CachedProfiles,
         private' \subseteq PrivateGroups, belongs' \subseteq PrivateGroups \X Readers,
         readerKey' \in Readers \union {NoReader},
         swept' \subseteq Stored \X (0 .. MaxClock_), readChanges' \in 0 .. MaxReadChanges,
         \A p \in profiles' : Expiration(p.event) > 0 => readClock' <= Expiration(p.event) + p.age,
         SweptWasOver'
  PROVE  ReadInv'
<1>1. /\ UNCHANGED <<readAuth, wrapsGated, step, filter, rows_, fromCache, foundAt, reader,
                     counted, served, total, firstKey>>
      /\ ReadTypeOK /\ ReadFlow /\ WrapsNarrowed /\ CopiesAreYoung /\ FirstCountStands /\ ReadsHold
  BY DEF config_, query, ReadInv
<1>2. step' \in ReadSteps /\ reader' \in Readers \union {NoReader}
  BY <1>1 DEF ReadTypeOK
<1>3. /\ readable' \subseteq Stored /\ keySteady' \in BOOLEAN /\ rowsSteady' \in BOOLEAN
      /\ due' \in Nat \union {-1}
      /\ keySteady' = TRUE /\ step # "idle" => keySteady = TRUE /\ readerKey' = readerKey
      /\ rowsSteady' = TRUE /\ step # "idle" =>
              rowsSteady = TRUE /\ (step = "counting" => table_' = table_)
      /\ step = "idle" => due' = -1
      /\ step # "idle" => due' = due
  BY <1>1, <1>2, Followed_
<1>4. ReadTypeOK'
  BY <1>1, <1>3 DEF ReadTypeOK
<1>5. ReadFlow'
  BY <1>1, <1>3 DEF ReadFlow
<1>6. WrapsNarrowed' /\ WrapsAreTheReaders'
  <2>1. CASE step = "idle"
    BY <1>1, <2>1 DEF WrapsNarrowed, WrapsAreTheReaders, ReadFlow
  <2>2. CASE step # "idle"
    <3>1. WrapsAreTheReaders
      BY <1>1 DEF ReadsHold
    <3>2. keySteady' = TRUE => keySteady = TRUE
      BY <1>3, <2>2
    <3>3. WrapsNarrowed'
      BY <1>1, <1>3, <2>2 DEF WrapsNarrowed
    <3>4. WrapsAreTheReaders'
      BY <1>1, <1>3, <2>2, <3>1 DEF WrapsAreTheReaders
    <3> QED
      BY <3>3, <3>4
  <2> QED
    BY <2>1, <2>2
<1>7. CopiesAreYoung'
  BY <1>1 DEF CopiesAreYoung
<1>8. FirstCountStands'
  <2>1. step = "counting" /\ rowsSteady' = TRUE => counted = CountOf(filter) /\ table_' = table_
    BY <1>1, <1>3 DEF FirstCountStands
  <2>2. due' # -1 => step = "done"
    BY <1>1, <1>3 DEF FirstCountStands
  <2>3. step = "counting" => filter.groups = {}
    BY <1>1 DEF FirstCountStands
  <2>4. step' = "counting" /\ rowsSteady' = TRUE => counted' = CountOf(filter)'
    BY <1>1, <2>1 DEF CountOf
  <2> QED
    BY <1>1, <2>2, <2>3, <2>4 DEF FirstCountStands
<1>9. GroupsStayPrivate' /\ ExpiredIsBrieflyServed'
  <2>1. CASE step = "idle"
    BY <1>1, <2>1 DEF GroupsStayPrivate, ExpiredIsBrieflyServed, ReadFlow
  <2>2. CASE step # "idle"
    BY <1>1, <1>2, <2>2, ServedStays
  <2> QED
    BY <2>1, <2>2
<1>10. CountsAreExact'
  BY <1>1, <1>3 DEF CountsAreExact, ReadsHold, FirstCountStands
<1> QED
  BY <1>4, <1>5, <1>6, <1>7, <1>8, <1>9, <1>10 DEF ReadInv, ReadsHold

LEMMA BesideNow ==
  ASSUME ReadInv
  PROVE  /\ readClock \in 0 .. MaxClock_ /\ sweepAt \in -1 .. MaxClock_ /\ sweepAt <= readClock
         /\ indexed \in BOOLEAN /\ table_ \subseteq Stored /\ profiles \subseteq CachedProfiles
         /\ private \subseteq PrivateGroups /\ belongs \subseteq PrivateGroups \X Readers
         /\ readerKey \in Readers \union {NoReader}
         /\ swept \subseteq Stored \X (0 .. MaxClock_) /\ readChanges \in 0 .. MaxReadChanges
         /\ \A p \in profiles : Expiration(p.event) > 0 => readClock <= Expiration(p.event) + p.age
         /\ SweptWasOver
BY DEF ReadInv, ReadTypeOK, ReadFlow, CopiesAreYoung, ReadsHold

LEMMA SweptStays ==
  ASSUME ReadInv, swept' = swept
  PROVE  SweptWasOver'
BY DEF ReadInv, ReadsHold, SweptWasOver

LEMMA ChangesKeep ==
  ASSUME ReadInv, Follow,
         \/ \E k \in Readers : Authenticated(k)
         \/ \E e \in Stored : SaveOrDelete(e)
         \/ \E g \in PrivateGroups : GroupChanges(g)
         \/ IndexReady
  PROVE  ReadInv'
<1>1. UNCHANGED <<config_, query, readClock, sweepAt, swept>> /\ Change
  BY DEF Authenticated, SaveOrDelete, GroupChanges, IndexReady
<1>2. readChanges' \in 0 .. MaxReadChanges
  BY <1>1, BesideNow, ReadNumbers DEF Change
<1>3. profiles' \subseteq profiles /\ table_' \subseteq Stored
  <2>1. ASSUME NEW e \in Stored, SaveOrDelete(e) PROVE profiles' \subseteq profiles /\ table_' \subseteq Stored
    <3>1. /\ table_' = IF e \in table_ THEN table_ \ {e} ELSE table_ \union {e}
          /\ profiles' = {p \in profiles : p.event # e}
      BY <2>1 DEF SaveOrDelete
    <3> QED
      BY <3>1, BesideNow
  <2>2. ASSUME profiles' = profiles, table_' = table_ PROVE profiles' \subseteq profiles /\ table_' \subseteq Stored
    BY <2>2, BesideNow
  <2> QED
    BY <2>1, <2>2 DEF Authenticated, GroupChanges, IndexReady
<1>4. private' \subseteq PrivateGroups /\ belongs' \subseteq PrivateGroups \X Readers
  <2>1. ASSUME NEW g \in PrivateGroups, GroupChanges(g)
        PROVE  private' \subseteq PrivateGroups /\ belongs' \subseteq PrivateGroups \X Readers
    <3>1. CASE private' = (IF g \in private THEN private \ {g} ELSE private \union {g}) /\ UNCHANGED belongs
      BY <3>1, BesideNow
    <3>2. ASSUME NEW k \in Readers,
                 belongs' = (IF <<g, k>> \in belongs THEN belongs \ {<<g, k>>}
                             ELSE belongs \union {<<g, k>>}),
                 UNCHANGED private
          PROVE  private' \subseteq PrivateGroups /\ belongs' \subseteq PrivateGroups \X Readers
      <4>1. <<g, k>> \in PrivateGroups \X Readers
        OBVIOUS
      <4> QED
        BY <3>2, <4>1, BesideNow
    <3> QED
      BY <2>1, <3>1, <3>2 DEF GroupChanges
  <2>2. ASSUME private' = private, belongs' = belongs
        PROVE  private' \subseteq PrivateGroups /\ belongs' \subseteq PrivateGroups \X Readers
    BY <2>2, BesideNow
  <2> QED
    BY <2>1, <2>2 DEF Authenticated, SaveOrDelete, IndexReady
<1>5. indexed' \in BOOLEAN /\ readerKey' \in Readers \union {NoReader}
  BY BesideNow DEF Authenticated, SaveOrDelete, GroupChanges, IndexReady
<1>6. SweptWasOver'
  BY <1>1, SweptStays
<1>7. \A p \in profiles' : Expiration(p.event) > 0 => readClock' <= Expiration(p.event) + p.age
  BY <1>1, <1>3, BesideNow
<1> QED
  BY <1>1, <1>2, <1>3, <1>4, <1>5, <1>6, <1>7, BesideNow, BesideKeeps

LEMMA ReadTickKeeps ==
  ASSUME ReadInv, Follow, ReadTick PROVE ReadInv'
<1>1. /\ readClock < MaxClock_ /\ readClock' = readClock + 1
      /\ profiles' = {[p EXCEPT !.age = p.age + 1] : p \in {q \in profiles : q.age + 1 < ProfileTtl}}
      /\ UNCHANGED <<config_, query, table_, indexed, private, belongs, readerKey, sweepAt, swept,
                     readChanges>>
  BY DEF ReadTick
<1>2. ASSUME NEW p \in profiles'
      PROVE  p \in CachedProfiles /\ (Expiration(p.event) > 0 => readClock' <= Expiration(p.event) + p.age)
  <2>1. PICK q \in profiles : q.age + 1 < ProfileTtl /\ p = [q EXCEPT !.age = q.age + 1]
    BY <1>1, <1>2
  <2>2. q \in CachedProfiles
    BY BesideNow
  <2>3. q.event \in Stored /\ q.age \in 0 .. ProfileTtl
    BY <2>2 DEF CachedProfiles
  <2>4. p \in CachedProfiles /\ p.event = q.event /\ p.age = q.age + 1
    BY <2>1, <2>2, <2>3, ReadNumbers DEF CachedProfiles
  <2>5. Expiration(q.event) > 0 => readClock <= Expiration(q.event) + q.age
    BY BesideNow
  <2>6. Expiration(q.event) \in Nat /\ readClock \in Nat
    BY <2>3, StoredFields, BesideNow
  <2> QED
    BY <1>1, <2>3, <2>4, <2>5, <2>6
<1>3. readClock' \in 0 .. MaxClock_ /\ sweepAt' <= readClock'
  BY <1>1, BesideNow, ReadNumbers
<1>4. SweptWasOver'
  BY <1>1, SweptStays
<1>5. profiles' \subseteq CachedProfiles
  BY <1>2
<1> QED
  BY <1>1, <1>2, <1>3, <1>4, <1>5, BesideNow, BesideKeeps

LEMMA SweepingKeeps ==
  ASSUME ReadInv, Follow, BeginSweep \/ DeleteBatch \/ EndSweep PROVE ReadInv'
<1>1. UNCHANGED <<config_, query, readClock, profiles, indexed, private, belongs, readerKey, readChanges>>
  BY DEF BeginSweep, DeleteBatch, EndSweep
<1>2. CASE BeginSweep
  <2>1. sweepAt' = readClock /\ UNCHANGED <<table_, swept>>
    BY <1>2 DEF BeginSweep
  <2>2. sweepAt' \in -1 .. MaxClock_ /\ sweepAt' <= readClock'
    BY <1>1, <2>1, BesideNow, ReadNumbers
  <2> QED
    BY <1>1, <2>1, <2>2, SweptStays, BesideNow, BesideKeeps
<1>3. CASE EndSweep
  <2>1. sweepAt' = -1 /\ swept' = {} /\ UNCHANGED table_
    BY <1>3 DEF EndSweep
  <2>2. sweepAt' \in -1 .. MaxClock_ /\ sweepAt' <= readClock' /\ SweptWasOver'
    BY <1>1, <2>1, BesideNow, ReadNumbers DEF SweptWasOver
  <2> QED
    BY <1>1, <2>1, <2>2, BesideNow, BesideKeeps
<1>4. CASE DeleteBatch
  <2> DEFINE over == {e \in table_ : SweepTakes(e, sweepAt)}
  <2>1. /\ sweepAt # -1 /\ UNCHANGED sweepAt
        /\ \E b \in SUBSET over :
             /\ table_' = table_ \ b
             /\ swept' = swept \union {<<e, readClock>> : e \in b}
    BY <1>4 DEF DeleteBatch
  <2>2. PICK batch \in SUBSET over : /\ table_' = table_ \ batch
                                     /\ swept' = swept \union {<<e, readClock>> : e \in batch}
    BY <2>1
  <2>3. swept' \subseteq Stored \X (0 .. MaxClock_) /\ table_' \subseteq Stored
    BY <2>2, BesideNow
  <2>4. ASSUME NEW s \in swept', Len(s[1].expirations) = 1, Expiration(s[1]) > 0
        PROVE  /\ IsExpired(s[1], s[2])
               /\ s[1].kind = "wrap" => Expiration(s[1]) + GiftGrace < s[2]
    <3>1. CASE s \in swept
      BY <2>4, <3>1, BesideNow DEF SweptWasOver
    <3>2. CASE s \notin swept
      <4>1. PICK e \in batch : s = <<e, readClock>>
        BY <2>2, <2>4, <3>2
      <4>2. e \in Stored /\ SweepTakes(e, sweepAt) /\ s[1] = e /\ s[2] = readClock
        BY <4>1, BesideNow
      <4>3. e.expirations \in Seq(Nat) /\ Len(e.expirations) = 1
        BY <2>4, <4>2, StoredFields
      <4>4. Expiration(e) = e.expirations[1] /\ DOMAIN e.expirations = {1}
        BY <4>3 DEF Expiration
      <4> DEFINE limit == IF e.kind = "wrap" THEN sweepAt - GiftGrace ELSE sweepAt
      <4>5. Expiration(e) < limit
        BY <4>2, <4>4 DEF SweepTakes
      <4>6. Expiration(e) \in Nat /\ sweepAt \in Int /\ readClock \in Int /\ sweepAt <= readClock
        BY <4>2, StoredFields, BesideNow, ReadNumbers
      <4> QED
        BY <2>4, <4>2, <4>5, <4>6, ReadNumbers DEF IsExpired
    <3> QED
      BY <3>1, <3>2
  <2>5. SweptWasOver'
    BY <2>4 DEF SweptWasOver
  <2> HIDE DEF over
  <2> QED
    BY <1>1, <2>1, <2>3, <2>5, BesideNow, BesideKeeps
<1> QED
  BY <1>2, <1>3, <1>4

LEMMA RequestNow ==
  ASSUME ReadInv
  PROVE  /\ ReadTypeOK /\ ReadFlow /\ WrapsNarrowed /\ CopiesAreYoung /\ FirstCountStands
         /\ WrapsAreTheReaders /\ GroupsStayPrivate /\ ExpiredIsBrieflyServed
         /\ CountsAreExact /\ SweptWasOver
BY DEF ReadInv, ReadsHold

\* A step of the request leaves the stores alone; the parts it must see to are its
\* own, and what it serves.
LEMMA AskedKeeps ==
  ASSUME ReadInv, Follow, UNCHANGED <<config_, stores>>,
         step' \in ReadSteps, filter' \in FilterRecords, rows_' \subseteq Stored,
         fromCache' \in BOOLEAN, foundAt' \in 0 .. MaxClock_,
         reader' \in Readers \union {NoReader}, counted' \in Nat,
         served' \subseteq Stored \X (0 .. MaxClock_), total' \in Nat \union {-1},
         firstKey' \in Readers \union {NoReader},
         ReadFlow', WrapsNarrowed', FirstCountStands', CountsAreExact',
         step' = "serving" /\ fromCache' = TRUE =>
           \A e \in rows_' : Expiration(e) > 0 => foundAt' <= Expiration(e) + ProfileTtl,
         WrapsAreTheReaders', GroupsStayPrivate', ExpiredIsBrieflyServed'
  PROVE  ReadInv'
<1>1. /\ UNCHANGED <<readAuth, wrapsGated, readClock, table_, profiles, indexed, private, belongs,
                     readerKey, sweepAt, swept, readChanges>>
      /\ ReadTypeOK
  BY RequestNow DEF config_, stores
<1>2. /\ readable' \subseteq Stored /\ keySteady' \in BOOLEAN /\ rowsSteady' \in BOOLEAN
      /\ due' \in Nat \union {-1}
  BY <1>1, Followed_
<1>3. ReadTypeOK'
  BY <1>1, <1>2 DEF ReadTypeOK
<1>4. CopiesAreYoung'
  BY <1>1, RequestNow DEF CopiesAreYoung
<1>5. SweptWasOver'
  BY <1>1, SweptStays
<1> QED
  BY <1>3, <1>4, <1>5 DEF ReadInv, ReadsHold

\* Before anything is served.
LEMMA NothingServed ==
  ASSUME served' = {}
  PROVE  WrapsAreTheReaders' /\ GroupsStayPrivate' /\ ExpiredIsBrieflyServed'
BY DEF WrapsAreTheReaders, GroupsStayPrivate, ExpiredIsBrieflyServed

LEMMA FilterWith ==
  ASSUME NEW f \in FilterRecords, NEW S, S \subseteq Readers
  PROVE  [f EXCEPT !.to = S] \in FilterRecords
BY DEF FilterRecords

LEMMA AskKeeps ==
  ASSUME ReadInv, Follow, NEW f \in ReadFilters, Ask(f) PROVE ReadInv'
<1>1. /\ step = "idle" /\ filter' = f /\ step' = (IF f.count THEN "query" ELSE "overwrite")
      /\ firstKey' = readerKey
      /\ UNCHANGED <<config_, stores, rows_, fromCache, foundAt, reader, counted, served, total>>
  BY DEF Ask
<1>2. f \in FilterRecords /\ f.count \in BOOLEAN
  BY ReadAssumption DEF FilterRecords
<1>3. step' \in {"query", "overwrite"} /\ (step' = "overwrite" => f.count = FALSE)
      /\ (step' = "query" => f.count = TRUE)
  BY <1>1, <1>2
<1>4. ReadTypeOK /\ served' = {} /\ UNCHANGED <<readerKey, readClock, sweepAt>>
  BY <1>1, RequestNow DEF ReadFlow, stores
<1>5. /\ step' \in ReadSteps /\ due' = due /\ due = -1
  BY <1>1, <1>3, <1>4, RequestNow, Followed_ DEF ReadSteps, FirstCountStands, ReadTypeOK
<1>6. ReadFlow'
  BY <1>1, <1>3, <1>4, RequestNow DEF ReadFlow
<1>7. WrapsNarrowed' /\ FirstCountStands' /\ CountsAreExact'
  BY <1>1, <1>2, <1>3, <1>5 DEF WrapsNarrowed, FirstCountStands, CountsAreExact
<1> QED
  BY <1>1, <1>2, <1>3, <1>4, <1>5, <1>6, <1>7, NothingServed, AskedKeeps DEF ReadTypeOK

LEMMA OverwriteKeeps ==
  ASSUME ReadInv, Follow, OverwriteGiftWrapFilter PROVE ReadInv'
<1> DEFINE narrows == wrapsGated /\ "wrap" \in filter.kinds /\ readerKey # NoReader
<1>1. /\ step = "overwrite" /\ step' = "gates"
      /\ filter' = IF narrows THEN [filter EXCEPT !.to = {readerKey}] ELSE filter
      /\ UNCHANGED <<config_, stores, rows_, fromCache, foundAt, reader, counted, served, total, firstKey>>
  BY DEF OverwriteGiftWrapFilter
<1>2. ReadTypeOK /\ served' = {} /\ UNCHANGED <<readerKey, readClock, sweepAt, wrapsGated>>
  BY <1>1, RequestNow DEF ReadFlow, stores, config_
<1>3. filter \in FilterRecords /\ readerKey \in Readers \union {NoReader}
  BY <1>2 DEF ReadTypeOK
<1>4. /\ filter' \in FilterRecords /\ filter'.count = filter.count /\ filter'.kinds = filter.kinds
      /\ narrows => filter'.to = {readerKey}
  <2>1. CASE narrows
    <3>1. filter' = [filter EXCEPT !.to = {readerKey}] /\ {readerKey} \subseteq Readers
      BY <1>1, <1>3, <2>1
    <3>2. filter' \in FilterRecords
      BY <1>3, <3>1, FilterWith
    <3> QED
      BY <1>3, <3>1, <3>2 DEF FilterRecords
  <2>2. CASE ~narrows
    BY <1>1, <1>3, <2>2
  <2> QED
    BY <2>1, <2>2
<1>5. step' \in ReadSteps /\ due' = due /\ due = -1 /\ keySteady' \in BOOLEAN
      /\ (keySteady' = TRUE => keySteady = TRUE)
  BY <1>1, <1>2, RequestNow, Followed_ DEF ReadSteps, FirstCountStands, ReadTypeOK
<1>6. ReadFlow'
  BY <1>1, <1>2, <1>4, <1>5, RequestNow DEF ReadFlow
<1>7. WrapsNarrowed'
  <2>1. ASSUME wrapsGated = TRUE, keySteady' = TRUE, "wrap" \in filter.kinds, firstKey # NoReader
        PROVE  filter'.to = {firstKey}
    <3>1. readerKey = firstKey
      BY <1>1, <1>5, <2>1, RequestNow DEF ReadFlow
    <3> QED
      BY <1>4, <2>1, <3>1
  <2> QED
    BY <1>1, <1>2, <1>4, <2>1 DEF WrapsNarrowed
<1>8. FirstCountStands' /\ CountsAreExact'
  BY <1>1, <1>5 DEF FirstCountStands, CountsAreExact
<1> QED
  BY <1>1, <1>2, <1>4, <1>5, <1>6, <1>7, <1>8, NothingServed, AskedKeeps DEF ReadTypeOK

LEMMA FilterGatesKeeps ==
  ASSUME ReadInv, Follow, FilterGates PROVE ReadInv'
<1> DEFINE refused == TooComplex(filter) \/ NeedsLogin(readerKey) \/ RejectGiftWrapFilter(filter, readerKey)
<1>1. /\ step = "gates" /\ step' = IF refused THEN "done" ELSE "query"
      /\ UNCHANGED <<config_, stores, filter, rows_, fromCache, foundAt, reader, counted, served,
                     total, firstKey>>
  BY DEF FilterGates
<1>2. ReadTypeOK /\ served' = {} /\ UNCHANGED <<readerKey, readClock, sweepAt, wrapsGated>>
  BY <1>1, RequestNow DEF ReadFlow, stores, config_
<1>3. step' \in {"done", "query"} /\ (step' = "query" => ~refused)
  BY <1>1
<1>4. step' \in ReadSteps /\ due' = due /\ due = -1 /\ keySteady' \in BOOLEAN
      /\ (keySteady' = TRUE => keySteady = TRUE)
  BY <1>1, <1>2, <1>3, RequestNow, Followed_ DEF ReadSteps, FirstCountStands, ReadTypeOK
<1>5. ReadFlow'
  BY <1>1, <1>2, <1>3, <1>4, RequestNow DEF ReadFlow
<1>6. WrapsNarrowed'
  <2>1. ASSUME wrapsGated = TRUE, keySteady' = TRUE, "wrap" \in filter.kinds, step' = "query"
        PROVE  filter.to = {firstKey}
    <3>1. readerKey = firstKey
      BY <1>1, <1>4, <2>1, RequestNow DEF ReadFlow
    <3>2. readerKey # NoReader
      BY <1>3, <2>1 DEF RejectGiftWrapFilter
    <3> QED
      BY <1>1, <1>4, <2>1, <3>1, <3>2, RequestNow DEF WrapsNarrowed
  <2> HIDE DEF refused
  <2> QED
    BY <1>1, <1>2, <1>3, <2>1 DEF WrapsNarrowed
<1>7. FirstCountStands' /\ CountsAreExact'
  BY <1>1, <1>3, <1>4 DEF FirstCountStands, CountsAreExact
<1> HIDE DEF refused
<1> QED
  BY <1>1, <1>2, <1>4, <1>5, <1>6, <1>7, NothingServed, AskedKeeps DEF ReadTypeOK

LEMMA ReadQueryKeeps ==
  ASSUME ReadInv, Follow, QueryEvents PROVE ReadInv'
<1> DEFINE cached == {e \in Stored : (\E p \in profiles : p.event = e) /\ Matches(filter, e)}
           hit    == filter.lookup /\ cached # {}
<1>1. /\ step = "query" /\ ~filter.count /\ fromCache' = hit
      /\ rows_' = CASE IsGroupFilter(filter) -> {}
                    [] ~IsGroupFilter(filter) /\ hit -> cached
                    [] ~IsGroupFilter(filter) /\ ~hit /\ filter.search /\ ~indexed -> {}
                    [] OTHER -> {e \in table_ : Matches(filter, e)}
      /\ reader' = readerKey /\ foundAt' = readClock /\ step' = "serving"
      /\ UNCHANGED <<config_, stores, filter, counted, served, total, firstKey>>
  BY DEF QueryEvents
<1>2. ReadTypeOK /\ served' = {} /\ UNCHANGED <<readerKey, readClock, sweepAt, wrapsGated>>
  BY <1>1, RequestNow DEF ReadFlow, stores, config_
<1>3. filter.lookup \in BOOLEAN /\ filter.count = FALSE /\ filter.search \in BOOLEAN
  BY <1>1, <1>2 DEF ReadTypeOK, FilterRecords
<1>4. hit \in BOOLEAN
  BY <1>3
<1>5. /\ rows_' \subseteq Stored /\ \A e \in rows_' : Matches(filter, e)
      /\ hit => rows_' \subseteq cached
  BY <1>1, <1>2, <1>4 DEF ReadTypeOK
<1>6. step' \in ReadSteps /\ due' = due /\ due = -1 /\ keySteady' \in BOOLEAN
      /\ (keySteady' = TRUE => keySteady = TRUE)
  BY <1>1, <1>2, RequestNow, Followed_ DEF ReadSteps, FirstCountStands, ReadTypeOK
<1>7. ASSUME NEW e \in cached, Expiration(e) > 0
      PROVE  readClock <= Expiration(e) + ProfileTtl
  <2>1. PICK p \in profiles : p.event = e
    OBVIOUS
  <2>2. p.age \in 0 .. ProfileTtl /\ readClock <= Expiration(e) + p.age
    BY <1>7, <2>1, BesideNow DEF CachedProfiles
  <2>3. Expiration(e) \in Nat /\ readClock \in Nat
    BY StoredFields, BesideNow
  <2> QED
    BY <2>2, <2>3, ReadNumbers
<1> HIDE DEF hit, cached
<1>8. ReadFlow'
  BY <1>1, <1>2, <1>3, <1>5, <1>6, RequestNow DEF ReadFlow
<1>9. WrapsNarrowed'
  BY <1>1, <1>2, <1>3, <1>6, RequestNow DEF WrapsNarrowed
<1>10. FirstCountStands' /\ CountsAreExact'
  BY <1>1, <1>6 DEF FirstCountStands, CountsAreExact
<1>11. step' = "serving" /\ fromCache' = TRUE =>
         \A e \in rows_' : Expiration(e) > 0 => foundAt' <= Expiration(e) + ProfileTtl
  BY <1>1, <1>4, <1>5, <1>7
<1>12. fromCache' \in BOOLEAN /\ foundAt' \in 0 .. MaxClock_ /\ reader' \in Readers \union {NoReader}
  BY <1>1, <1>4, BesideNow
<1> QED
  BY <1>1, <1>2, <1>5, <1>6, <1>8, <1>9, <1>10, <1>11, <1>12, NothingServed, AskedKeeps DEF ReadTypeOK

LEMMA ServeRowKeeps ==
  ASSUME ReadInv, Follow, NEW e \in rows_, ServeRow(e) PROVE ReadInv'
<1> DEFINE dropped == ~fromCache /\ IsExpired(e, readClock)
           caches  == ~fromCache /\ ~dropped /\ e.kind = "profile"
           copy    == [event |-> e, age |-> 0]
<1>1. /\ step = "serving" /\ rows_' = rows_ \ {e}
      /\ profiles' = IF caches THEN {p \in profiles : p.event # e} \union {copy} ELSE profiles
      /\ served' = IF dropped \/ ~Visible(e, reader, private, belongs)
                   THEN served ELSE served \union {<<e, readClock>>}
      /\ UNCHANGED <<readAuth, wrapsGated, readClock, table_, indexed, private, belongs, readerKey,
                     step, filter, fromCache, foundAt, reader, counted, total, sweepAt, swept,
                     firstKey, readChanges>>
  BY DEF ServeRow, config_
<1>2. ReadTypeOK /\ e \in Stored /\ step' \in ReadSteps /\ reader' \in Readers \union {NoReader}
  BY <1>1, RequestNow DEF ReadTypeOK
<1>3. /\ readable' \subseteq Stored /\ keySteady' \in BOOLEAN /\ rowsSteady' \in BOOLEAN
      /\ due' = due /\ due \in Nat \union {-1} /\ (keySteady' = TRUE => keySteady = TRUE)
      /\ readable \subseteq readable'
      /\ \A x \in Stored : Visible(x, reader, private, belongs) => x \in readable'
  <2>1. step' = "serving" /\ step' # "idle" /\ step # "counting"
    BY <1>1
  <2>2. \A x \in Stored : Visible(x, reader', private', belongs') => x \in readable'
    BY <1>2, <2>1, Followed_
  <2>3. reader' = reader /\ private' = private /\ belongs' = belongs
    BY <1>1
  <2> QED
    BY <1>2, <2>1, <2>2, <2>3, Followed_ DEF ReadTypeOK
<1>4. fromCache \in BOOLEAN /\ readClock \in 0 .. MaxClock_ /\ Expiration(e) \in Nat
  BY <1>2, StoredFields DEF ReadTypeOK
<1>5. served' \subseteq served \union {<<e, readClock>>}
  BY <1>1
<1>6. ASSUME NEW s \in served', s \notin served
      PROVE  /\ s[1] = e /\ s[2] = readClock /\ Visible(e, reader, private, belongs)
             /\ ~(fromCache = FALSE /\ IsExpired(e, readClock))
  BY <1>1, <1>6
<1>7. copy \in CachedProfiles /\ copy.event = e /\ copy.age = 0
  BY <1>2, ReadNumbers DEF CachedProfiles
<1>8. caches => (Expiration(e) > 0 => readClock <= Expiration(e))
  BY <1>4 DEF IsExpired
<1> HIDE DEF dropped, caches, copy
<1>9. /\ profiles' \subseteq CachedProfiles
      /\ \A p \in profiles' : Expiration(p.event) > 0 => readClock' <= Expiration(p.event) + p.age
  <2>1. \A p \in profiles' : p \in profiles \/ (p = copy /\ caches)
    BY <1>1
  <2>2. \A p \in profiles : p \in CachedProfiles
                            /\ (Expiration(p.event) > 0 => readClock <= Expiration(p.event) + p.age)
    BY BesideNow
  <2>3. caches => (Expiration(copy.event) > 0 => readClock <= Expiration(copy.event) + copy.age)
    BY <1>4, <1>7, <1>8
  <2> QED
    BY <1>1, <1>7, <2>1, <2>2, <2>3
<1>10. ReadTypeOK'
  <2>1. served' \subseteq Stored \X (0 .. MaxClock_)
    BY <1>2, <1>4, <1>5 DEF ReadTypeOK
  <2> QED
    BY <1>1, <1>2, <1>3, <1>9, <2>1 DEF ReadTypeOK
<1>11. ReadFlow'
  BY <1>1, <1>3, RequestNow, Followed_ DEF ReadFlow
<1>12. WrapsNarrowed' /\ FirstCountStands'
  BY <1>1, <1>3, RequestNow DEF WrapsNarrowed, FirstCountStands
<1>13. CopiesAreYoung'
  BY <1>1, <1>9, RequestNow DEF CopiesAreYoung
<1>14. WrapsAreTheReaders'
  <2>1. ASSUME wrapsGated = TRUE, keySteady' = TRUE, "wrap" \in filter.kinds,
               NEW s \in served', s[1].kind = "wrap"
        PROVE  s[1].to = firstKey
    <3>1. CASE s \in served
      BY <1>3, <2>1, <3>1, RequestNow DEF WrapsAreTheReaders
    <3>2. CASE s \notin served
      <4>1. s[1] = e /\ Matches(filter, e) /\ filter.to = {firstKey}
        BY <1>1, <1>3, <1>6, <2>1, <3>2, RequestNow DEF ReadFlow, WrapsNarrowed
      <4> QED
        BY <4>1 DEF Matches
    <3> QED
      BY <3>1, <3>2
  <2>2. wrapsGated' \in BOOLEAN /\ keySteady' \in BOOLEAN
    BY <1>1, <1>2, <1>3 DEF ReadTypeOK
  <2> QED
    BY <1>1, <2>1, <2>2 DEF WrapsAreTheReaders
<1>15. GroupsStayPrivate'
  <2>1. ASSUME NEW s \in served' PROVE s[1] \in readable'
    BY <1>2, <1>3, <1>6, RequestNow DEF GroupsStayPrivate
  <2> QED
    BY <2>1 DEF GroupsStayPrivate
<1>16. ExpiredIsBrieflyServed'
  <2>1. ASSUME NEW s \in served', IsExpired(s[1], s[2])
        PROVE  fromCache /\ foundAt <= Expiration(s[1]) + ProfileTtl
    <3>1. CASE s \in served
      BY <2>1, <3>1, RequestNow DEF ExpiredIsBrieflyServed
    <3>2. CASE s \notin served
      <4>1. s[1] = e /\ s[2] = readClock /\ fromCache = TRUE
        BY <1>4, <1>6, <2>1, <3>2
      <4>2. Expiration(e) > 0
        BY <2>1, <4>1 DEF IsExpired
      <4> QED
        BY <1>1, <4>1, <4>2, RequestNow DEF CopiesAreYoung
    <3> QED
      BY <3>1, <3>2
  <2> QED
    BY <1>1, <2>1 DEF ExpiredIsBrieflyServed
<1>17. CountsAreExact'
  BY <1>1, <1>3, RequestNow DEF CountsAreExact, FirstCountStands
<1>18. SweptWasOver'
  BY <1>1, SweptStays
<1> QED
  BY <1>10, <1>11, <1>12, <1>13, <1>14, <1>15, <1>16, <1>17, <1>18 DEF ReadInv, ReadsHold

LEMMA EndQueryKeeps ==
  ASSUME ReadInv, Follow, EndQuery PROVE ReadInv'
<1>1. /\ step = "serving" /\ step' = "done"
      /\ UNCHANGED <<config_, stores, filter, rows_, fromCache, foundAt, reader, counted, served,
                     total, firstKey>>
  BY DEF EndQuery
<1>2. ReadTypeOK /\ UNCHANGED <<readerKey, readClock, sweepAt, wrapsGated>>
  BY <1>1, RequestNow DEF stores, config_
<1>3. step' \in ReadSteps /\ reader' \in Readers \union {NoReader}
  BY <1>1, <1>2 DEF ReadSteps, ReadTypeOK
<1>4. due' = due /\ due = -1 /\ keySteady' \in BOOLEAN /\ (keySteady' = TRUE => keySteady = TRUE)
  BY <1>1, <1>2, <1>3, RequestNow, Followed_ DEF FirstCountStands
<1>5. ReadFlow'
  BY <1>1, <1>2, <1>3, <1>4, RequestNow, Followed_ DEF ReadFlow
<1>6. WrapsNarrowed' /\ FirstCountStands' /\ CountsAreExact'
  BY <1>1, <1>4 DEF WrapsNarrowed, FirstCountStands, CountsAreExact
<1>7. WrapsAreTheReaders'
  <2>1. wrapsGated \in BOOLEAN /\ keySteady \in BOOLEAN
    BY <1>2 DEF ReadTypeOK
  <2> QED
    BY <1>1, <1>2, <1>4, <2>1, RequestNow DEF WrapsAreTheReaders
<1>8. GroupsStayPrivate' /\ ExpiredIsBrieflyServed'
  BY <1>1, <1>3, ServedStays
<1> QED
  BY <1>1, <1>2, <1>3, <1>5, <1>6, <1>7, <1>8, AskedKeeps DEF ReadTypeOK

LEMMA CountAllKeeps ==
  ASSUME ReadInv, Follow, CountAll PROVE ReadInv'
<1>1. /\ step = "query" /\ reader' = readerKey
      /\ UNCHANGED <<config_, stores, filter, rows_, fromCache, foundAt, served, firstKey>>
  BY DEF CountAll
<1>2. CountOf(filter) \in Nat
  BY RowsFinite, BesideNow DEF CountOf
<1>3. /\ total' \in Nat \union {-1} /\ counted' \in Nat
      /\ \/ step' = "done"
         \/ step' = "counting" /\ counted' = CountOf(filter) /\ filter.groups = {}
  <2>1. total \in Nat \union {-1} /\ counted \in Nat
    BY RequestNow DEF ReadTypeOK
  <2>2. CASE \E g \in filter.groups : ~CanRead(g, readerKey, private, belongs)
    BY <2>1, <2>2 DEF CountAll
  <2>3. CASE ~(\E g \in filter.groups : ~CanRead(g, readerKey, private, belongs)) /\ filter.groups # {}
    BY <1>2, <2>1, <2>3 DEF CountAll
  <2>4. CASE ~(\E g \in filter.groups : ~CanRead(g, readerKey, private, belongs)) /\ filter.groups = {}
    BY <1>2, <2>1, <2>4 DEF CountAll
  <2> QED
    BY <2>2, <2>3, <2>4
<1>4. ReadTypeOK /\ served' = {} /\ UNCHANGED <<readerKey, readClock, sweepAt, wrapsGated, table_>>
  BY <1>1, RequestNow DEF ReadFlow, stores, config_
<1>5. step' \in ReadSteps /\ reader' \in Readers \union {NoReader}
  BY <1>1, <1>3, BesideNow DEF ReadSteps
<1>6. due' = due /\ due = -1 /\ keySteady' \in BOOLEAN /\ (keySteady' = TRUE => keySteady = TRUE)
  BY <1>1, <1>3, <1>4, <1>5, RequestNow, Followed_ DEF FirstCountStands
<1>7. ReadFlow'
  BY <1>1, <1>3, <1>4, <1>6, RequestNow DEF ReadFlow
<1>8. CountOf(filter)' = CountOf(filter)
  BY <1>1, <1>4 DEF CountOf
<1>9. WrapsNarrowed' /\ FirstCountStands' /\ CountsAreExact'
  BY <1>1, <1>3, <1>6, <1>8 DEF WrapsNarrowed, FirstCountStands, CountsAreExact
<1>10. step' # "serving"
  BY <1>3
<1> QED
  BY <1>1, <1>3, <1>4, <1>5, <1>7, <1>9, <1>10, NothingServed, AskedKeeps DEF ReadTypeOK

\* privateAwareCount's subtraction: the rows that match, less those of the hidden
\* groups, are the rows that match and may be read.
LEMMA Subtracted ==
  ASSUME ReadTypeOK, filter.groups = {}, HiddenGroups(reader) # {}
  PROVE  LET right == {e \in table_ : Matches(filter, e) /\ Visible(e, reader, private, belongs)}
             m == CountOf([filter EXCEPT !.groups = HiddenGroups(reader)])
         IN m \in Nat /\ m <= CountOf(filter) /\ Cardinality(right) = CountOf(filter) - m
<1> DEFINE hidden == HiddenGroups(reader)
           f == [filter EXCEPT !.groups = hidden]
           all == {e \in table_ : Matches(filter, e)}
           away == {e \in table_ : Matches(f, e)}
           right == {e \in table_ : Matches(filter, e) /\ Visible(e, reader, private, belongs)}
<1>1. filter \in FilterRecords /\ table_ \subseteq Stored
  BY DEF ReadTypeOK
<1>2. f.kinds = filter.kinds /\ f.to = filter.to /\ f.groups = hidden
  BY <1>1 DEF FilterRecords
<1>3. \A e \in table_ : e.group \in hidden <=> ~Visible(e, reader, private, belongs)
  BY DEF HiddenGroups, Visible, CanRead
<1>4. \A e \in table_ : Matches(f, e) <=> Matches(filter, e) /\ e.group \in hidden
  BY <1>2 DEF Matches
<1>5. right = all \ away /\ away \subseteq all
  BY <1>3, <1>4
<1>6. IsFiniteSet(all) /\ IsFiniteSet(away) /\ Cardinality(all) \in Nat /\ Cardinality(away) \in Nat
  BY <1>1, RowsFinite
<1>7. CountOf(filter) = Cardinality(all) /\ CountOf(f) = Cardinality(away)
  BY DEF CountOf
<1> HIDE DEF hidden, f, all, away, right
<1>8. Cardinality(all \ away) = Cardinality(all) - Cardinality(all \cap away)
  BY <1>6, FS_Difference
<1>9. all \cap away = away
  BY <1>5
<1>10. Cardinality(away) <= Cardinality(all)
  BY <1>5, <1>6, FS_Subset
<1> QED
  BY <1>5, <1>6, <1>7, <1>8, <1>9, <1>10 DEF hidden, f, right

LEMMA CountHiddenKeeps ==
  ASSUME ReadInv, Follow, CountHidden PROVE ReadInv'
<1> DEFINE hidden == HiddenGroups(reader)
           m == CountOf([filter EXCEPT !.groups = hidden])
           right == {e \in table_ : Matches(filter, e) /\ Visible(e, reader, private, belongs)}
<1>1. /\ step = "counting" /\ step' = "done"
      /\ total' = IF hidden = {} THEN counted ELSE IF m > counted THEN 0 ELSE counted - m
      /\ UNCHANGED <<config_, stores, filter, rows_, fromCache, foundAt, reader, counted, served, firstKey>>
  BY DEF CountHidden
<1>2. ReadTypeOK /\ served' = {} /\ UNCHANGED <<readerKey, readClock, sweepAt, wrapsGated, table_>>
  BY <1>1, RequestNow DEF ReadFlow, stores, config_
<1>3. step' \in ReadSteps /\ reader' \in Readers \union {NoReader}
  BY <1>1, <1>2 DEF ReadSteps, ReadTypeOK
<1>4. /\ due' = Cardinality(right) /\ keySteady' \in BOOLEAN /\ (keySteady' = TRUE => keySteady = TRUE)
      /\ rowsSteady' = TRUE => rowsSteady = TRUE
      /\ rowsSteady' \in BOOLEAN
  BY <1>1, <1>2, <1>3, Followed_
<1>5. counted \in Nat /\ filter.groups = {} /\ (rowsSteady = TRUE => counted = CountOf(filter))
  BY <1>1, <1>2, RequestNow DEF ReadTypeOK, FirstCountStands
<1>6. m \in Nat
  BY RowsFinite, BesideNow DEF CountOf
<1>7. total' \in Nat
  <2> HIDE DEF hidden, m
  <2> QED
    BY <1>1, <1>5, <1>6
<1>8. rowsSteady' = TRUE => total' = due'
  <2>1. CASE hidden = {}
    <3>1. right = {e \in table_ : Matches(filter, e)}
      BY <2>1 DEF HiddenGroups, Visible, CanRead
    <3>2. rowsSteady' = TRUE => due' = CountOf(filter)
      BY <1>4, <3>1 DEF CountOf
    <3> QED
      BY <1>1, <1>4, <1>5, <2>1, <3>2
  <2>2. CASE hidden # {}
    <3>1. m <= CountOf(filter) /\ Cardinality(right) = CountOf(filter) - m
      BY <1>2, <1>5, <2>2, Subtracted
    <3> HIDE DEF hidden, m, right
    <3>2. rowsSteady' = TRUE => m <= counted /\ due' = counted - m
      BY <1>4, <1>5, <3>1
    <3> QED
      BY <1>1, <1>5, <1>6, <2>2, <3>2
  <2> QED
    BY <2>1, <2>2
<1> HIDE DEF hidden, m, right
<1>9. ReadFlow'
  BY <1>1, <1>2, <1>3, <1>4, RequestNow, Followed_ DEF ReadFlow
<1>10. WrapsNarrowed' /\ FirstCountStands' /\ CountsAreExact'
  BY <1>1, <1>4, <1>8 DEF WrapsNarrowed, FirstCountStands, CountsAreExact
<1> QED
  BY <1>1, <1>2, <1>3, <1>7, <1>9, <1>10, NothingServed, AskedKeeps DEF ReadTypeOK

LEMMA NextRequestKeeps ==
  ASSUME ReadInv, Follow, NextRequest PROVE ReadInv'
<1>1. /\ step = "done" /\ step' = "idle" /\ filter' = NoFilter /\ rows_' = {} /\ fromCache' = FALSE
      /\ foundAt' = 0 /\ reader' = NoReader /\ counted' = 0 /\ served' = {} /\ total' = -1
      /\ firstKey' = NoReader /\ UNCHANGED <<config_, stores>>
  BY DEF NextRequest
<1>2. ReadTypeOK /\ UNCHANGED <<readClock, sweepAt>>
  BY <1>1, RequestNow DEF stores
<1>3. step' \in ReadSteps /\ NoFilter \in FilterRecords /\ 0 \in 0 .. MaxClock_ /\ -1 \in Nat \union {-1}
  BY <1>1, ReadNumbers DEF ReadSteps, NoFilter, FilterRecords
<1>4. due' = -1
  BY <1>1, <1>2, <1>3, Followed_
<1>5. ReadFlow'
  BY <1>1, <1>2, RequestNow DEF ReadFlow
<1>6. WrapsNarrowed' /\ FirstCountStands' /\ CountsAreExact'
  BY <1>1, <1>4 DEF WrapsNarrowed, FirstCountStands, CountsAreExact
<1> QED
  BY <1>1, <1>3, <1>5, <1>6, NothingServed, AskedKeeps

\* The invariant of a query: what its gates have narrowed it to, what its rows and
\* copies may still be, and what its counts stand for.
THEOREM ReadInvariant == ReadInit /\ [][ReadNext]_ReadVars => []ReadInv
<1>1. ReadInv /\ [ReadNext]_ReadVars => ReadInv'
  <2> SUFFICES ASSUME ReadInv, [ReadNext]_ReadVars PROVE ReadInv'
    OBVIOUS
  <2>1. CASE UNCHANGED ReadVars
    BY <2>1 DEF ReadVars, ReadInv, ReadTypeOK, ReadFlow, WrapsNarrowed, CopiesAreYoung,
                FirstCountStands, ReadsHold, WrapsAreTheReaders, GroupsStayPrivate,
                ExpiredIsBrieflyServed, CountsAreExact, SweptWasOver, CountOf
  <2>2. CASE ReadNext
    BY <2>2, AskKeeps, OverwriteKeeps, FilterGatesKeeps, ReadQueryKeeps, ServeRowKeeps, EndQueryKeeps,
       CountAllKeeps, CountHiddenKeeps, NextRequestKeeps, ChangesKeep, ReadTickKeeps, SweepingKeeps
       DEF ReadNext, RequestStep
  <2> QED
    BY <2>1, <2>2
<1> QED
  BY <1>1, ReadFirst, PTL

\* Every variable of a query, the table and the sweep keeps its type.
THEOREM ReadTypeCorrect == ReadSpec => []ReadTypeOK
<1>1. ReadInv => ReadTypeOK
  BY DEF ReadInv
<1> QED
  BY <1>1, ReadInvariant, PTL DEF ReadSpec

\* What a REQ serves is the reader's to see, expired events come from young cached
\* copies only, a COUNT is exact unless something changed between its two counts, and
\* the sweep takes nothing that queries still serve, for any events, groups and readers.
THEOREM ReadsAreRight == ReadSpec => []ReadsHold
<1>1. ReadInv => ReadsHold
  BY DEF ReadInv
<1> QED
  BY <1>1, ReadInvariant, PTL DEF ReadSpec

-----------------------------------------------------------------------------
(* The sessions of the admin interface                                       *)

AdminRecords == [op : {"login", "check", "expire", "logout"}, token : Tokens,
                 step : Steps, late : BOOLEAN, blind : BOOLEAN]

\* What a request under way has established about its token.
CallOK(p) ==
  call[p] # Idle =>
    LET r == call[p]  t == call[p].token IN
    /\ holder[t] # NoAdmin
    /\ r.op = "login" =>
         /\ t \notin cookies
         /\ r.step = "keep" => t \in unsaved
         /\ \A q \in AdminPods : call[q].op = "login" /\ call[q].token = t => q = p
    /\ r.op # "login" => t \in cookies
    /\ r.op = "expire" => adminNow > expires[t]
    /\ r.op = "logout" =>
         t \in leaving /\ (r.step = "forget" => redis[t] = Never \/ t \in unremoved)
    /\ r.late => t \in loggedOut
    /\ r.op = "check" /\ r.step = "lookup" => r.blind
CallsOK == \A p \in AdminPods : CallOK(p)

\* A pod keeps only what Redis did not take; a token that was handed out has a
\* holder, so it is never made again and keeps its end.
TokensOK ==
  /\ \A p \in AdminPods : memory[p] \subseteq unsaved
  /\ \A t \in cookies : holder[t] # NoAdmin
  /\ \A t \in Tokens : expires[t] <= adminNow + SessionTTL

\* A logged-out session has no row, and one that is live has its row until its
\* end, unless a call failed.
SessionRowsOK ==
  /\ \A t \in loggedOut : redis[t] = Never \/ t \in unremoved
  /\ \A t \in cookies \ (leaving \union unsaved) :
       adminNow < expires[t] => redis[t] >= expires[t]

VerdictOK ==
  /\ SessionsHold
  /\ verdict # NoAnswer => verdict.token \in Tokens /\ holder[verdict.token] # NoAdmin

AdminInv == AdminTypeOK /\ CallsOK /\ TokensOK /\ SessionRowsOK /\ VerdictOK

LEMMA RecordFacts ==
  ASSUME AdminTypeOK, NEW p \in AdminPods
  PROVE  /\ call[p] # Idle <=> call[p] \in AdminRecords
         /\ call[p].op \in {"login", "check", "expire", "logout"} <=> call[p] \in AdminRecords
<1>1. call[p] = Idle \/ call[p] \in AdminRecords
  BY DEF AdminTypeOK, AdminRequests, AdminRecords
<1>2. Idle.op = "none"
  BY DEF Idle
<1>3. \A r \in AdminRecords : r.op \in {"login", "check", "expire", "logout"}
  BY DEF AdminRecords
<1> QED
  BY <1>1, <1>2, <1>3

LEMMA RequestFacts ==
  ASSUME NEW op \in {"login", "check", "expire", "logout"}, NEW t \in Tokens, NEW stage \in Steps
  PROVE  /\ Request(op, t, stage) \in AdminRecords
         /\ Request(op, t, stage).op = op /\ Request(op, t, stage).token = t
         /\ Request(op, t, stage).step = stage
         /\ Request(op, t, stage).late => t \in loggedOut
<1> DEFINE ended == t \in loggedOut
<1>1. ended \in BOOLEAN
  OBVIOUS
<1>2. Request(op, t, stage) = [op |-> op, token |-> t, step |-> stage, late |-> ended, blind |-> FALSE]
  BY DEF Request
<1>3. Request(op, t, stage).late = ended
  BY <1>2
<1> HIDE DEF ended
<1>4. Request(op, t, stage) \in AdminRecords
  BY <1>1, <1>2 DEF AdminRecords
<1>5. Request(op, t, stage).late => ended
  BY <1>3
<1> QED
  BY <1>2, <1>4, <1>5 DEF ended

LEMMA TimesFacts ==
  /\ AdminTimes \subseteq Nat /\ Never \in AdminTimes /\ SessionTTL \in Nat \ {0}
  /\ \A i \in 1..MaxAdminClock : i \in Nat /\ i + SessionTTL \in AdminTimes
  /\ 1 \in 1..MaxAdminClock
<1>1. SessionTTL \in Nat /\ SessionTTL > 0 /\ MaxAdminClock \in Nat /\ MaxAdminClock > 0
  BY AdminAssumption
<1>2. AdminTimes = {0} \union 1..(MaxAdminClock + SessionTTL)
  BY DEF AdminTimes, Never
<1> QED
  BY <1>1, <1>2 DEF Never


LEMMA AdminInitInv == AdminInit => AdminInv
<1> SUFFICES ASSUME AdminInit PROVE AdminInv
  OBVIOUS
<1>1. AdminTypeOK
  <2>1. adminNow \in 1..MaxAdminClock /\ redis \in [Tokens -> AdminTimes] /\ expires \in [Tokens -> AdminTimes]
    BY TimesFacts DEF AdminInit
  <2>2. redisFaults \in 0..MaxRedisFaults /\ deploys \in 0..MaxDeploys
    BY AdminAssumption DEF AdminInit
  <2>3. call \in [AdminPods -> AdminRequests] /\ verdict \in AdminAnswers
    BY DEF AdminInit, AdminRequests, AdminAnswers
  <2> QED
    BY <2>1, <2>2, <2>3 DEF AdminInit, AdminTypeOK
<1>2. CallsOK
  BY DEF AdminInit, CallsOK, CallOK
<1>3. TokensOK
  <2>1. \A t \in Tokens : expires[t] <= adminNow + SessionTTL
    BY TimesFacts DEF AdminInit, Never
  <2> QED
    BY <2>1 DEF AdminInit, TokensOK
<1>5. SessionRowsOK
  BY DEF AdminInit, SessionRowsOK
<1>4. VerdictOK
  BY DEF AdminInit, VerdictOK, SessionsHold, LogoutHolds, SessionsEnd, LiveSessionsServe, NoAnswer
<1> QED
  BY <1>1, <1>2, <1>3, <1>4, <1>5 DEF AdminInv

--------------------------------------------------------------------------------
(* A request that is begun, or dropped *)

LEMMA LoginStep ==
  ASSUME AdminInv, NEW p \in AdminPods, NEW t \in Tokens, NEW a \in Admins, Login(p, t, a)
  PROVE  AdminInv'
<1> USE AdminAssumption, TimesFacts DEF AdminInv, Login, sessionRows
<1>1. call' = [call EXCEPT ![p] = Request("login", t, "set")] /\ call'[p] \in AdminRecords
  BY DEF AdminTypeOK, Request, AdminRecords, Steps
<1>2. AdminTypeOK'
  BY <1>1 DEF AdminTypeOK, AdminRequests, AdminRecords
<1>3. t \notin cookies /\ (\A q \in AdminPods : call[q] # Idle => call[q].token # t)
  BY DEF TokensOK, CallsOK, CallOK
<1>4. CallsOK'
  <2>1. CallOK(p)'
    <3>1. "set" \in Steps
      BY DEF Steps
    <3>2. call'[p].op = "login" /\ call'[p].token = t /\ call'[p].step = "set"
          /\ (call'[p].late => t \in loggedOut)
      BY <1>1, <3>1, RequestFacts DEF AdminTypeOK
    <3>3. \A q \in AdminPods : call'[q].op = "login" /\ call'[q].token = t => q = p
      BY <1>1, <1>3, <3>2, RecordFacts DEF AdminTypeOK, Idle
    <3> QED
      BY <1>3, <3>2, <3>3 DEF CallOK, AdminTypeOK
  <2>2. ASSUME NEW q \in AdminPods, q # p
        PROVE  CallOK(q)'
    BY <1>1, <1>3, <2>2, RecordFacts DEF CallsOK, CallOK, Request, AdminTypeOK, AdminRecords, Idle
  <2> QED
    BY <2>1, <2>2 DEF CallsOK
<1>5. TokensOK'
  BY <1>3 DEF TokensOK, AdminTypeOK
<1>6. SessionRowsOK'
  BY <1>3 DEF SessionRowsOK, AdminTypeOK
<1>7. VerdictOK'
  BY DEF VerdictOK, SessionsHold, LogoutHolds, SessionsEnd, LiveSessionsServe, AdminTypeOK, AdminAnswers, NoAnswer
<1> QED
  BY <1>2, <1>4, <1>5, <1>6, <1>7

LEMMA VisitStep ==
  ASSUME AdminInv, NEW p \in AdminPods, NEW t \in Tokens, Visit(p, t) \/ Logout(p, t)
  PROVE  AdminInv'
<1> USE AdminAssumption, TimesFacts DEF AdminInv, Visit, Logout, sessionRows, history
<1>1. PICK r \in {Request("check", t, "get"), Request("logout", t, "del")} :
        call' = [call EXCEPT ![p] = r] /\ (r.op = "logout" => t \in leaving')
  BY DEF Request
<1>2. r \in AdminRecords /\ r.token = t /\ r.op \in {"check", "logout"} /\ r.step \in {"get", "del"}
      /\ (r.late => t \in loggedOut) /\ t \in cookies
  <2>1. "get" \in Steps /\ "del" \in Steps
    BY DEF Steps
  <2> QED
    BY <1>1, <2>1, RequestFacts
<1>3. AdminTypeOK'
  BY <1>1, <1>2 DEF AdminTypeOK, AdminRequests, AdminRecords
<1>4. CallsOK'
  <2>1. CallOK(p)'
    BY <1>1, <1>2 DEF CallsOK, CallOK, TokensOK, AdminTypeOK, AdminRecords
  <2>2. ASSUME NEW q \in AdminPods, q # p
        PROVE  CallOK(q)'
    BY <1>1, <1>2, <2>2 DEF CallsOK, CallOK, AdminTypeOK
  <2> QED
    BY <2>1, <2>2 DEF CallsOK
<1>5. TokensOK' /\ SessionRowsOK'
  BY DEF TokensOK, SessionRowsOK
<1>6. VerdictOK'
  BY DEF VerdictOK, SessionsHold, LogoutHolds, SessionsEnd, LiveSessionsServe
<1> QED
  BY <1>3, <1>4, <1>5, <1>6

LEMMA DeployStep ==
  ASSUME AdminInv, NEW p \in AdminPods, NEW keys \in SUBSET Admins, Deploy(p, keys)
  PROVE  AdminInv'
<1> USE AdminAssumption, TimesFacts DEF AdminInv, Deploy, history
<1>1. AdminTypeOK'
  BY DEF AdminTypeOK, AdminRequests
<1>2. CallsOK'
  <2>1. ASSUME NEW q \in AdminPods
        PROVE  CallOK(q)'
    BY <2>1 DEF CallsOK, CallOK, AdminTypeOK, Idle
  <2> QED
    BY <2>1 DEF CallsOK
<1>3. TokensOK' /\ SessionRowsOK'
  BY DEF TokensOK, SessionRowsOK, AdminTypeOK
<1>4. VerdictOK'
  BY DEF VerdictOK, SessionsHold, LogoutHolds, SessionsEnd, LiveSessionsServe
<1> QED
  BY <1>1, <1>2, <1>3, <1>4

--------------------------------------------------------------------------------
(* Logging in, and logging out *)

\* Only a login whose token nobody has yet writes a row.
LEMMA SetRowStep ==
  ASSUME AdminInv, NEW p \in AdminPods, SetRow(p)
  PROVE  AdminInv'
<1> USE AdminAssumption, TimesFacts
    DEF AdminInv, SetRow, Serving, HandOver, Done, Goto, RedisWorks, RedisFails
<1> DEFINE t == call[p].token
<1>1. call[p] \in AdminRecords /\ call[p] # Idle /\ t \in Tokens
  BY RecordFacts DEF AdminRecords
<1>2. t \notin cookies /\ holder[t] # NoAdmin
      /\ \A q \in AdminPods : call[q].op = "login" /\ call[q].token = t => q = p
  BY <1>1 DEF CallsOK, CallOK
<1>3. redis' = redis \/ redis' = [redis EXCEPT ![t] = adminNow + SessionTTL]
  OBVIOUS
<1>4. \/ call' = [call EXCEPT ![p] = Idle] /\ cookies' = cookies \union {t} /\ unsaved' = unsaved
         /\ redis' = [redis EXCEPT ![t] = adminNow + SessionTTL] /\ redisFaults' = redisFaults
      \/ call' = [call EXCEPT ![p].step = "keep"] /\ cookies' = cookies /\ unsaved' = unsaved \union {t}
         /\ redisFaults < MaxRedisFaults /\ redisFaults' = redisFaults + 1
  OBVIOUS
<1>5. AdminTypeOK'
  BY <1>1, <1>3, <1>4 DEF AdminTypeOK, AdminRequests, AdminRecords, Steps
<1>6. CallsOK'
  <2>1. CallOK(p)'
    BY <1>1, <1>2, <1>4 DEF CallsOK, CallOK, AdminTypeOK, AdminRecords, Idle
  <2>2. ASSUME NEW q \in AdminPods, q # p
        PROVE  CallOK(q)'
    <3>1. call'[q] = call[q] /\ CallOK(q)
      BY <1>4, <2>2 DEF AdminTypeOK, CallsOK
    <3>2. call[q] # Idle /\ call[q].op = "login" => call[q].token # t
      BY <1>2, <2>2
    <3>3. call[q] # Idle /\ call[q].op # "login" => call[q].token \in cookies
      BY <3>1 DEF CallOK
    <3>4. \A x \in AdminPods : call'[x].op = "login" => call[x].op = "login" /\ call'[x].token = call[x].token
      BY <1>1, <1>4 DEF AdminTypeOK, AdminRecords, Idle
    <3> QED
      BY <1>2, <1>3, <1>4, <3>1, <3>2, <3>3, <3>4, RecordFacts DEF CallOK, AdminTypeOK, AdminRecords
  <2> QED
    BY <2>1, <2>2 DEF CallsOK
<1>7. TokensOK'
  BY <1>1, <1>2, <1>4 DEF TokensOK, AdminTypeOK
<1>8. SessionRowsOK'
  <2>1. \A x \in loggedOut : x # t
    BY <1>2 DEF AdminTypeOK
  <2>2. expires[t] <= adminNow + SessionTTL
    BY <1>1 DEF TokensOK
  <2> QED
    BY <1>1, <1>2, <1>3, <1>4, <2>1, <2>2 DEF SessionRowsOK, AdminTypeOK
<1>9. VerdictOK'
  BY <1>4 DEF VerdictOK, SessionsHold, LogoutHolds, SessionsEnd, LiveSessionsServe
<1> QED
  BY <1>5, <1>6, <1>7, <1>8, <1>9

LEMMA KeepInMemoryStep ==
  ASSUME AdminInv, NEW p \in AdminPods, KeepInMemory(p)
  PROVE  AdminInv'
<1> USE AdminAssumption, TimesFacts DEF AdminInv, KeepInMemory, Serving, HandOver, Done
<1> DEFINE t == call[p].token
<1>1. call[p] \in AdminRecords /\ call[p] # Idle /\ t \in Tokens
  BY RecordFacts DEF AdminRecords
<1>2. t \notin cookies /\ holder[t] # NoAdmin /\ t \in unsaved
      /\ \A q \in AdminPods : call[q].op = "login" /\ call[q].token = t => q = p
  BY <1>1 DEF CallsOK, CallOK
<1>3. AdminTypeOK'
  BY <1>1 DEF AdminTypeOK, AdminRequests
<1>4. CallsOK'
  <2>1. CallOK(p)'
    BY DEF CallOK, AdminTypeOK
  <2>2. ASSUME NEW q \in AdminPods, q # p
        PROVE  CallOK(q)'
    <3>1. call'[q] = call[q] /\ CallOK(q)
      BY <2>2 DEF AdminTypeOK, CallsOK
    <3>2. \A x \in AdminPods : call'[x].op = "login" => call[x].op = "login" /\ call'[x].token = call[x].token
      BY <1>1 DEF AdminTypeOK, AdminRecords, Idle
    <3> QED
      BY <1>2, <2>2, <3>1, <3>2 DEF CallOK, AdminTypeOK
  <2> QED
    BY <2>1, <2>2 DEF CallsOK
<1>5. TokensOK' /\ SessionRowsOK'
  BY <1>1, <1>2 DEF TokensOK, SessionRowsOK, AdminTypeOK
<1>6. VerdictOK'
  BY DEF VerdictOK, SessionsHold, LogoutHolds, SessionsEnd, LiveSessionsServe
<1> QED
  BY <1>3, <1>4, <1>5, <1>6

\* A row goes only for a session that is over or left.
LEMMA DelRowStep ==
  ASSUME AdminInv, NEW p \in AdminPods, DelRow(p)
  PROVE  AdminInv'
<1> USE AdminAssumption, TimesFacts DEF AdminInv, DelRow, Goto, RedisWorks, RedisFails
<1> DEFINE t == call[p].token
<1>1. call[p] \in AdminRecords /\ call[p] # Idle /\ t \in Tokens
  BY RecordFacts DEF AdminRecords
<1>2. /\ redis' = redis \/ redis' = [redis EXCEPT ![t] = Never]
      /\ redis'[t] = Never \/ t \in unremoved'
      /\ unremoved' = unremoved \/ unremoved' = unremoved \union {t}
      /\ call' = [call EXCEPT ![p].step = "forget"]
      /\ redisFaults' \in 0..MaxRedisFaults
  BY <1>1 DEF AdminTypeOK
<1>3. t \in leaving \/ adminNow > expires[t]
  BY <1>1 DEF CallsOK, CallOK
<1>4. AdminTypeOK'
  BY <1>1, <1>2 DEF AdminTypeOK, AdminRequests, AdminRecords, Steps
<1>5. CallsOK'
  <2>1. CallOK(p)'
    BY <1>1, <1>2 DEF CallsOK, CallOK, AdminTypeOK, AdminRecords, Idle
  <2>2. ASSUME NEW q \in AdminPods, q # p
        PROVE  CallOK(q)'
    BY <1>1, <1>2, <2>2, RecordFacts DEF CallsOK, CallOK, AdminTypeOK, AdminRecords, Idle
  <2> QED
    BY <2>1, <2>2 DEF CallsOK
<1>6. TokensOK'
  BY DEF TokensOK, AdminTypeOK
<1>7. SessionRowsOK'
  BY <1>1, <1>2, <1>3 DEF SessionRowsOK, AdminTypeOK
<1>8. VerdictOK'
  BY <1>2 DEF VerdictOK, SessionsHold, LogoutHolds, SessionsEnd, LiveSessionsServe
<1> QED
  BY <1>4, <1>5, <1>6, <1>7, <1>8

LEMMA DeleteFromMemoryStep ==
  ASSUME AdminInv, NEW p \in AdminPods, DeleteFromMemory(p)
  PROVE  AdminInv'
<1> USE AdminAssumption, TimesFacts DEF AdminInv, DeleteFromMemory, Done
<1> DEFINE t == call[p].token
<1>1. call[p] \in AdminRecords /\ call[p] # Idle /\ t \in Tokens
  BY RecordFacts DEF AdminRecords
<1>2. call[p].op = "logout" => t \in leaving /\ (redis[t] = Never \/ t \in unremoved)
  BY <1>1 DEF CallsOK, CallOK
<1>3. AdminTypeOK'
  BY <1>1, <1>2 DEF AdminTypeOK, AdminRequests
<1>4. CallsOK'
  <2>1. CallOK(p)'
    BY DEF CallOK, AdminTypeOK
  <2>2. ASSUME NEW q \in AdminPods, q # p
        PROVE  CallOK(q)'
    BY <2>2 DEF CallsOK, CallOK, AdminTypeOK, Idle
  <2> QED
    BY <2>1, <2>2 DEF CallsOK
<1>5. TokensOK' /\ SessionRowsOK'
  BY <1>1, <1>2 DEF TokensOK, SessionRowsOK, AdminTypeOK
<1>6. VerdictOK'
  BY DEF VerdictOK, SessionsHold, LogoutHolds, SessionsEnd, LiveSessionsServe
<1> QED
  BY <1>3, <1>4, <1>5, <1>6

--------------------------------------------------------------------------------
(* The check of a request *)

\* What an answer says, for a session that was found.
LEMMA JudgedFacts ==
  ASSUME AdminTypeOK, NEW p \in AdminPods, call[p] \in AdminRecords, Answered(p, ~Over(p))
  PROVE  /\ verdict' \in AdminAnswers /\ verdict'.token = call[p].token /\ verdict'.at = adminNow
         /\ verdict'.late = call[p].late /\ verdict'.blind = call[p].blind
         /\ verdict'.ok => ~Over(p)
         /\ verdict'.live => verdict'.ok \/ adminNow > expires[call[p].token]
         /\ verdict'.live => adminNow < expires[call[p].token]
<1> DEFINE t    == call[p].token
           ok   == ~Over(p) /\ holder[t] \in listed[p]
           live == adminNow < expires[t] /\ t \notin leaving /\ holder[t] \in listed[p]
<1>1. ok \in BOOLEAN /\ live \in BOOLEAN
  OBVIOUS
<1>2. verdict' = [token |-> t, at |-> adminNow, late |-> call[p].late, blind |-> call[p].blind,
                  ok |-> ok, live |-> live]
  BY DEF Answered
<1>3. (ok => ~Over(p)) /\ (live => ok \/ adminNow > expires[t]) /\ (live => adminNow < expires[t])
  BY DEF Over
<1>4. t \in Tokens /\ call[p].late \in BOOLEAN /\ call[p].blind \in BOOLEAN
      /\ adminNow \in 1..MaxAdminClock
  BY DEF AdminRecords, AdminTypeOK
<1> HIDE DEF ok, live, t
<1>5. verdict' \in AdminAnswers
  BY <1>1, <1>2, <1>4 DEF AdminAnswers
<1>6. verdict'.ok = ok /\ verdict'.live = live /\ verdict'.token = t
  BY <1>2
<1> QED
  BY <1>2, <1>3, <1>5, <1>6 DEF t

\* The same for one that was not found.
LEMMA RefusedFacts ==
  ASSUME AdminTypeOK, NEW p \in AdminPods, call[p] \in AdminRecords, Answered(p, FALSE)
  PROVE  /\ verdict' \in AdminAnswers /\ verdict'.token = call[p].token
         /\ verdict'.blind = call[p].blind /\ verdict'.ok = FALSE
         /\ verdict'.live => call[p].token \notin leaving /\ adminNow < expires[call[p].token]
<1> DEFINE t    == call[p].token
           live == adminNow < expires[t] /\ t \notin leaving /\ holder[t] \in listed[p]
<1>1. live \in BOOLEAN
  OBVIOUS
<1>2. verdict' = [token |-> t, at |-> adminNow, late |-> call[p].late, blind |-> call[p].blind,
                  ok |-> FALSE, live |-> live]
  BY DEF Answered
<1>3. live => t \notin leaving /\ adminNow < expires[t]
  OBVIOUS
<1>4. t \in Tokens /\ call[p].late \in BOOLEAN /\ call[p].blind \in BOOLEAN
      /\ adminNow \in 1..MaxAdminClock
  BY DEF AdminRecords, AdminTypeOK
<1> HIDE DEF live, t
<1>5. verdict' \in AdminAnswers
  BY <1>1, <1>2, <1>4 DEF AdminAnswers
<1>6. verdict'.live = live /\ verdict'.token = t
  BY <1>2
<1> QED
  BY <1>2, <1>3, <1>5, <1>6 DEF t

\* The session was found, in a place where a logout leaves it only if Redis
\* failed.
LEMMA JudgeStep ==
  ASSUME AdminInv, NEW p \in AdminPods, call[p].op = "check", Judge(p),
         call[p].late => call[p].token \in unremoved
                         \/ (call[p].token \in unsaved /\ call[p].blind),
         UNCHANGED <<adminNow, sessionRows, listed, history, deploys>>,
         redisFaults' \in 0..MaxRedisFaults
  PROVE  AdminInv'
<1> USE AdminAssumption, TimesFacts DEF AdminInv, Judge, Done, sessionRows, history
<1> DEFINE t == call[p].token
<1>1. call[p] \in AdminRecords /\ call[p] # Idle /\ t \in Tokens /\ t \in cookies
  BY RecordFacts DEF AdminRecords, CallsOK, CallOK
<1>2. /\ verdict' \in AdminAnswers /\ verdict'.token = t /\ verdict'.at = adminNow
      /\ verdict'.late = call[p].late /\ verdict'.blind = call[p].blind
      /\ verdict'.ok => ~Over(p)
      /\ verdict'.live => verdict'.ok \/ adminNow > expires[t]
      /\ verdict'.live => adminNow < expires[t]
  BY <1>1, JudgedFacts
<1>3. AdminTypeOK'
  BY <1>1, <1>2 DEF AdminTypeOK, AdminRequests, AdminRecords, Steps
<1>4. CallsOK'
  <2>1. CallOK(p)'
    BY <1>1 DEF CallsOK, CallOK, AdminTypeOK, AdminRecords, Over
  <2>2. ASSUME NEW q \in AdminPods, q # p
        PROVE  CallOK(q)'
    BY <1>1, <2>2 DEF CallsOK, CallOK, AdminTypeOK, AdminRecords, Idle
  <2> QED
    BY <2>1, <2>2 DEF CallsOK
<1>5. TokensOK' /\ SessionRowsOK'
  BY DEF TokensOK, SessionRowsOK
<1>6. VerdictOK'
  <2>1. adminNow \in Nat /\ expires[t] \in Nat
    BY <1>1 DEF AdminTypeOK
  <2>2. LogoutHolds' /\ SessionsEnd'
    BY <1>2, <2>1 DEF LogoutHolds, SessionsEnd, Over
  <2>3. LiveSessionsServe'
    BY <1>2, <2>1 DEF LiveSessionsServe
  <2>4. holder[t] # NoAdmin
    BY <1>1 DEF TokensOK
  <2> QED
    BY <1>1, <1>2, <2>2, <2>3, <2>4 DEF VerdictOK, SessionsHold
<1> QED
  BY <1>3, <1>4, <1>5, <1>6

\* The session was not found: it is over or left, or Redis failed.
LEMMA RefuseStep ==
  ASSUME AdminInv, NEW p \in AdminPods, call[p].op = "check", Refuse(p),
         call[p].blind \/ redis[call[p].token] = Never,
         UNCHANGED <<adminNow, sessionRows, listed, history, deploys, redisFaults>>
  PROVE  AdminInv'
<1> USE AdminAssumption, TimesFacts DEF AdminInv, Refuse, Done, sessionRows, history
<1> DEFINE t == call[p].token
<1>1. call[p] \in AdminRecords /\ call[p] # Idle /\ t \in Tokens /\ t \in cookies
  BY RecordFacts DEF AdminRecords, CallsOK, CallOK
<1>2. /\ verdict' \in AdminAnswers /\ verdict'.token = t
      /\ verdict'.blind = call[p].blind /\ verdict'.ok = FALSE
      /\ verdict'.live => t \notin leaving /\ adminNow < expires[t]
  BY <1>1, RefusedFacts
<1>3. AdminTypeOK'
  BY <1>1, <1>2 DEF AdminTypeOK, AdminRequests
<1>4. CallsOK'
  <2>1. ASSUME NEW q \in AdminPods
        PROVE  CallOK(q)'
    BY <2>1 DEF CallsOK, CallOK, AdminTypeOK, Idle
  <2> QED
    BY <2>1 DEF CallsOK
<1>5. TokensOK' /\ SessionRowsOK'
  BY DEF TokensOK, SessionRowsOK
<1>6. VerdictOK'
  <2>1. verdict'.live => t \in unsaved \/ call[p].blind
    <3>1. adminNow \in Nat /\ expires[t] \in Nat /\ redis[t] \in Nat
      BY <1>1 DEF AdminTypeOK
    <3>2. verdict'.live /\ t \notin unsaved => redis[t] >= expires[t] /\ adminNow < expires[t]
      BY <1>1, <1>2 DEF SessionRowsOK
    <3>3. verdict'.live /\ t \notin unsaved => redis[t] # Never
      BY <3>1, <3>2 DEF Never
    <3> QED
      BY <3>3
  <2>2. holder[t] # NoAdmin
    BY <1>1 DEF TokensOK
  <2> QED
    BY <1>1, <1>2, <2>1, <2>2
    DEF VerdictOK, SessionsHold, LogoutHolds, SessionsEnd, LiveSessionsServe
<1> QED
  BY <1>3, <1>4, <1>5, <1>6

LEMMA CheckStep ==
  ASSUME AdminInv, NEW p \in AdminPods, GetRow(p) \/ LookInMemory(p)
  PROVE  AdminInv'
<1> DEFINE t == call[p].token
<1>1. call[p] \in AdminRecords /\ call[p] # Idle /\ t \in Tokens /\ call[p].op = "check"
  BY RecordFacts DEF AdminInv, AdminRecords, GetRow, LookInMemory, Serving
<1>2. /\ call[p].late => t \in loggedOut
      /\ call[p].step = "lookup" => call[p].blind
  BY <1>1 DEF AdminInv, CallsOK, CallOK
<1>3. CASE GetRow(p) /\ RedisWorks
  <2>1. redisFaults' = redisFaults /\ redisFaults' \in 0..MaxRedisFaults
    BY <1>3 DEF RedisWorks, AdminInv, AdminTypeOK
  <2>2. CASE redis[t] # Never
    <3>1. call[p].late => t \in unremoved
      BY <1>2, <2>2 DEF AdminInv, SessionRowsOK
    <3>2. Judge(p)
      BY <1>3, <2>2 DEF GetRow, RedisWorks, Judge, Goto, RedisFails, AdminInv, AdminTypeOK
    <3> QED
      BY <1>1, <1>3, <2>1, <3>1, <3>2, JudgeStep DEF GetRow
  <2>3. CASE redis[t] = Never
    <3>1. Refuse(p)
      BY <1>3, <2>3 DEF GetRow, RedisWorks, RedisFails, AdminInv, AdminTypeOK
    <3> QED
      BY <1>1, <1>3, <2>1, <2>3, <3>1, RefuseStep DEF GetRow
  <2> QED
    BY <2>2, <2>3
<1>4. CASE GetRow(p) /\ ~RedisWorks
  <2>1. /\ call' = [call EXCEPT ![p].step = "lookup", ![p].blind = TRUE] /\ verdict' = verdict
        /\ UNCHANGED <<adminNow, redis, memory, listed, history, deploys>>
        /\ redisFaults' \in 0..MaxRedisFaults
    BY <1>4, AdminAssumption DEF GetRow, RedisFails, sessionRows, AdminInv, AdminTypeOK
  <2>2. AdminTypeOK'
    BY <1>1, <2>1 DEF AdminInv, AdminTypeOK, AdminRequests, AdminRecords, Steps, history
  <2>3. CallsOK'
    <3>1. CallOK(p)'
      BY <1>1, <2>1 DEF AdminInv, CallsOK, CallOK, AdminTypeOK, AdminRecords, history
    <3>2. ASSUME NEW q \in AdminPods, q # p
          PROVE  CallOK(q)'
      BY <1>1, <2>1, <3>2 DEF AdminInv, CallsOK, CallOK, AdminTypeOK, AdminRecords, Idle, history
    <3> QED
      BY <3>1, <3>2 DEF CallsOK
  <2>4. TokensOK' /\ SessionRowsOK' /\ VerdictOK'
    BY <2>1 DEF AdminInv, TokensOK, SessionRowsOK, VerdictOK, SessionsHold, LogoutHolds, SessionsEnd,
                LiveSessionsServe, history
  <2> QED
    BY <2>2, <2>3, <2>4 DEF AdminInv
<1>5. CASE LookInMemory(p)
  <2>1. call[p].blind /\ redisFaults' = redisFaults /\ redisFaults' \in 0..MaxRedisFaults
    BY <1>1, <1>2, <1>5 DEF LookInMemory, Serving, AdminInv, AdminTypeOK
  <2>2. CASE t \in memory[p]
    <3>1. t \in unsaved /\ Judge(p)
      BY <1>5, <2>2 DEF LookInMemory, AdminInv, TokensOK
    <3> QED
      BY <1>1, <1>5, <2>1, <3>1, JudgeStep DEF LookInMemory
  <2>3. CASE t \notin memory[p]
    BY <1>1, <1>5, <2>1, <2>3, RefuseStep DEF LookInMemory
  <2> QED
    BY <2>2, <2>3
<1> QED
  BY <1>3, <1>4, <1>5

--------------------------------------------------------------------------------
(* Time *)

LEMMA TickStep ==
  ASSUME AdminInv, AdminTick
  PROVE  AdminInv'
<1> USE AdminAssumption, TimesFacts DEF AdminInv, AdminTick, history
<1>1. adminNow \in Nat /\ adminNow' = adminNow + 1
  BY DEF AdminTypeOK
<1>2. AdminTypeOK'
  BY <1>1 DEF AdminTypeOK
<1>3. CallsOK'
  <2>1. ASSUME NEW p \in AdminPods
        PROVE  CallOK(p)'
    <3>1. CASE call[p] = Idle
      BY <3>1 DEF CallOK
    <3>2. CASE call[p] # Idle
      <4>1. call[p].token \in Tokens /\ expires[call[p].token] \in Nat
        BY <3>2, RecordFacts DEF AdminRecords, AdminTypeOK
      <4> QED
        BY <1>1, <3>2, <4>1 DEF CallsOK, CallOK, AdminTypeOK
    <3> QED
      BY <3>1, <3>2
  <2> QED
    BY <2>1 DEF CallsOK
<1>4. TokensOK'
  <2>1. ASSUME NEW t \in Tokens
        PROVE  expires[t] <= adminNow' + SessionTTL
    <3>1. expires[t] \in Nat /\ expires[t] <= adminNow + SessionTTL
      BY DEF TokensOK, AdminTypeOK
    <3> QED
      BY <1>1, <3>1
  <2> QED
    BY <2>1 DEF TokensOK, AdminTypeOK
<1>5. SessionRowsOK'
  <2>1. ASSUME NEW t \in Tokens
        PROVE  redis'[t] = IF adminNow' < redis[t] THEN redis[t] ELSE Never
    OBVIOUS
  <2>2. ASSUME NEW t \in loggedOut
        PROVE  redis'[t] = Never \/ t \in unremoved
    BY <2>1, <2>2 DEF SessionRowsOK, AdminTypeOK
  <2>3. ASSUME NEW t \in cookies \ (leaving \union unsaved), adminNow' < expires[t]
        PROVE  redis'[t] >= expires[t]
    <3>1. t \in Tokens /\ expires[t] \in Nat /\ redis[t] \in Nat
      BY DEF AdminTypeOK
    <3>2. redis[t] >= expires[t]
      BY <1>1, <2>3, <3>1 DEF SessionRowsOK
    <3> QED
      BY <1>1, <2>1, <2>3, <3>1, <3>2
  <2> QED
    BY <2>2, <2>3 DEF SessionRowsOK
<1>6. VerdictOK'
  BY DEF VerdictOK, SessionsHold, LogoutHolds, SessionsEnd, LiveSessionsServe
<1> QED
  BY <1>2, <1>3, <1>4, <1>5, <1>6

LEMMA CleanupStep ==
  ASSUME AdminInv, NEW p \in AdminPods, CleanupExpired(p)
  PROVE  AdminInv'
<1> USE DEF AdminInv, CleanupExpired, history
<1>1. AdminTypeOK'
  BY DEF AdminTypeOK
<1>2. CallsOK'
  BY DEF CallsOK, CallOK
<1>3. TokensOK' /\ SessionRowsOK' /\ VerdictOK'
  BY DEF TokensOK, SessionRowsOK, AdminTypeOK, VerdictOK, SessionsHold, LogoutHolds, SessionsEnd,
         LiveSessionsServe
<1> QED
  BY <1>1, <1>2, <1>3

LEMMA AdminStutter ==
  ASSUME AdminInv, UNCHANGED AdminVars
  PROVE  AdminInv'
<1> USE DEF AdminInv, AdminVars, sessionRows, history
<1>1. AdminTypeOK' /\ CallsOK'
  BY DEF AdminTypeOK, CallsOK, CallOK
<1>2. TokensOK' /\ SessionRowsOK' /\ VerdictOK'
  BY DEF TokensOK, SessionRowsOK, VerdictOK, SessionsHold, LogoutHolds, SessionsEnd, LiveSessionsServe
<1> QED
  BY <1>1, <1>2

LEMMA AdminInvariant == AdminInit /\ [][AdminNext]_AdminVars => []AdminInv
<1>1. AdminInv /\ [AdminNext]_AdminVars => AdminInv'
  <2> SUFFICES ASSUME AdminInv, [AdminNext]_AdminVars PROVE AdminInv'
    OBVIOUS
  <2> QED
    BY LoginStep, VisitStep, DeployStep, SetRowStep, KeepInMemoryStep, DelRowStep,
       DeleteFromMemoryStep, CheckStep, TickStep, CleanupStep, AdminStutter DEF AdminNext
<1> QED
  BY <1>1, AdminInitInv, PTL

\* Rows, maps, requests and answers stay well typed; only tokens handed out are
\* logged out.
THEOREM AdminTypeCorrect == AdminSpec => []AdminTypeOK
<1>1. AdminInv => AdminTypeOK
  BY DEF AdminInv
<1> QED
  BY <1>1, AdminInvariant, PTL DEF AdminSpec

\* With any number of pods, sessions, deployments and failures of Redis: a
\* session ends at its ExpiresAt, one logged out serves nobody and a live one
\* serves on every pod, unless a call for it failed (admin.go:91, 157).
THEOREM SessionsAreSound == AdminSpec => []SessionsHold
<1>1. AdminInv => SessionsHold
  BY DEF AdminInv, VerdictOK
<1> QED
  BY <1>1, AdminInvariant, PTL DEF AdminSpec

-----------------------------------------------------------------------------
(* All of them in one run                                                    *)

RequestsInv ==
  /\ part \in Parts
  /\ WotInv /\ RankInv /\ ImportInv /\ BoxInv /\ GroupInv /\ OwnershipInv
  /\ GateInv /\ ReadInv /\ AdminInv

\* The run starts each part in one of its initial states, and a step of the run is
\* a step of each part, or leaves it as it is.
LEMMA RequestsStart ==
  RequestsInit =>
    /\ part \in Parts /\ WotInit /\ RankInit /\ ImportInit /\ BoxInit /\ GroupInit
    /\ OwnershipInit /\ GateInit /\ ReadInit /\ AdminInit
BY DEF RequestsInit

LEMMA RequestsStep ==
  [RequestsNext]_RequestsVars =>
    /\ UNCHANGED part
    /\ [WotNext]_WotVars /\ [RankNext]_RankVars /\ [ImportNext]_ImportVars /\ [BoxNext]_BoxVars
    /\ [GroupNext]_GroupVars /\ [OwnershipNext]_OwnershipVars /\ [GateNext]_GateVars
    /\ [ReadNext]_ReadVars /\ [AdminNext]_AdminVars
BY DEF RequestsNext, RequestsVars

LEMMA RequestsInvariant == RequestsSpec => []RequestsInv
<1>1. part \in Parts /\ UNCHANGED part => (part \in Parts)'
  OBVIOUS
<1> QED
  BY <1>1, RequestsStart, RequestsStep, WotInvariant, RankInvariant, ImportInvariant, BoxInvariant,
     GroupInvariant, OwnershipInvariant, GateInvariant, ReadInvariant, AdminInvariant, PTL
     DEF RequestsSpec, RequestsInv

\* Whichever of the nine components runs, for all values of the constants, it keeps
\* its types.
THEOREM RequestsTypeCorrect == RequestsSpec => []TypeOK
<1>1. RequestsInv => WotTypeOK /\ RankTypeOK /\ ImportTypeOK /\ BoxTypeOK
  BY DEF RequestsInv, WotInv, RankInv, ImportInv, BoxInv, BoxTypes
<1>2. RequestsInv => GroupTypeOK
  BY DEF RequestsInv, GroupInv, GroupTypes, GroupTypeOK, RowRecords, InviteRecords, CallRecords
<1>3. RequestsInv => OwnershipTypeOK /\ GateTypeOK /\ ReadTypeOK /\ AdminTypeOK
  BY DEF RequestsInv, OwnershipInv, GateInv, ReadInv, AdminInv
<1>4. RequestsInv => TypeOK
  BY <1>1, <1>2, <1>3 DEF RequestsInv, TypeOK, Parts
<1> QED
  BY <1>4, RequestsInvariant, PTL

\* What the write gates and the queries go by: a level that the walk or PageRank
\* gives an author is one that the follow lists gave within the caches' time.
THEOREM StandingRecent == RequestsSpec => []StandingIsRecent
<1>1. RankInv => RanksAreRecent
  BY DEF RankInv
<1>2. StandingIsRecent <=> TrustIsRecent /\ RanksAreRecent
  BY DEF StandingIsRecent
<1>3. RequestsSpec => []TrustIsRecent
  BY RequestsStart, RequestsStep, WotInvariant, TrustFollows, PTL DEF RequestsSpec
<1>4. RequestsSpec => []RanksAreRecent
  BY <1>1, RequestsStart, RequestsStep, RankInvariant, PTL DEF RequestsSpec
<1> QED
  BY <1>2, <1>3, <1>4, PTL

\* What the groups' handlers go by: members, owners and the uses of an invite are
\* those of the database, of a choice and of the invite's bound.
THEOREM GroupsAgree == RequestsSpec => []GroupsHold
<1>1. GroupsHold <=> GroupViewsAgree /\ OwnerWasChosen /\ InviteUsesAreBounded
  BY DEF GroupsHold
<1>2. GroupInv => GroupViewsAgree
  BY DEF GroupInv
<1>3. RequestsSpec => []GroupViewsAgree
  BY <1>2, RequestsStart, RequestsStep, GroupInvariant, PTL DEF RequestsSpec
<1>4. RequestsSpec => []OwnerWasChosen
  BY RequestsStart, RequestsStep, OwnershipInvariant, ResolvedIsChosen, PTL DEF RequestsSpec
<1>5. RequestsSpec => []InviteUsesAreBounded
  BY RequestsStart, RequestsStep, InvitesInvariant, PTL DEF RequestsSpec
<1> QED
  BY <1>1, <1>3, <1>4, <1>5, PTL
================================================================================
