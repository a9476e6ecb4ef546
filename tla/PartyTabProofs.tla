-------------------------- MODULE PartyTabProofs --------------------------
(***************************************************************************)
(* Proofs about PartyTab for every set of users, parties, items and        *)
(* request slots, and every bound.                                         *)
(*                                                                         *)
(* TabInv is inductive.  It says what a request remembers of the page that *)
(* sent it (Fits), that the request of a page still there is about the     *)
(* party of the address unless the address jumped (OnParty), that what a   *)
(* current view offers is granted until somebody writes (Honoured), and    *)
(* that a page spins only while its load is under way.                     *)
(*                                                                         *)
(* QuietInv adds, for a tab whose requests never overlapped while nobody   *)
(* else wrote, how each page comes from one current view to the next.      *)
(***************************************************************************)
EXTENDS PartyTab, LedgerStoreProofs

\* The pages whose buttons send the request.
From(op) ==
    CASE op \in {"archive", "delete", "leave"} -> {"show"}
      [] op = "deleteItem" -> {"show", "manage"}
      [] op = "mark"       -> {"manage", "myItems"}
      [] op = "remove"     -> {"members"}
      [] op = "clear"      -> {"bestpay"}
      [] op = "update"     -> {"edit"}
      [] op = "create"     -> {"create"}
      [] op = "join"       -> {"invite"}
      [] op = "add"        -> {"add"}

\* A slot is free, or its request is one that a page made, and names the party
\* and the item that the page was about.
WellMade(c) ==
    /\ c.pc = "idle" <=> c.op = "none"
    /\ c.pc = "answered" <=> c.status # "none"
    /\ c.mounted => c.pc # "idle"
    /\ c.op \in Writes => /\ c.page \in From(c.op)
                          /\ c.op # "create" => c.party \in Parties
                          /\ c.op \in {"mark", "deleteItem"} => c.item \in ItemIds
                          /\ c.status = "ok" => c.party \in Parties
    /\ c.op \in Reads => /\ c.pc # "asked"
                         /\ c.page \in PartyPages => c.party \in Parties
    /\ c.op = "info" => c.page = "add" /\ c.party \in Parties
    /\ c.op = "load" => Loads(c.page)

\* The reply to a load is about its party.  A write that is confirmed was done,
\* or it is a removal that failed.
Answered(c) ==
    /\ c.op = "load" /\ c.status = "ok" /\ c.page \in PartyPages => c.view.party = c.party
    /\ c.op \in Writes /\ c.status = "ok" => c.done \/ (c.op = "remove" /\ c.failed)

\* A request, and the page that is shown under address r.
Fits(c, r) ==
    /\ c.op \in Reads => c.mounted
    /\ c.mounted => c.page = r.page

OnParty(c, r) == c.mounted /\ r.page \in PartyPages => c.party = r.party

\* Requests that some page made; those of a page that is gone may be among them.
Requests(calls) ==
    calls \in [Slots -> Call] /\ \A s \in Slots : WellMade(calls[s]) /\ Answered(calls[s])

\* The requests of the page under address r.
Belong(calls, r, jumped) ==
    /\ Requests(calls)
    /\ \A s \in Slots : Fits(calls[s], r) /\ (jumped \/ OnParty(calls[s], r))

\* What a view offers and links to is about a party.
ViewFits(v, r) ==
    /\ r.page = "manage" /\ ~v.owner => v.items = {} /\ v.mine = {}
    /\ r.page = "invite" /\ v.users # {} => v.party # None

PageInv ==
    /\ route \in Routes /\ tab \in Tab
    /\ Belong(call, route, tab.jumped) /\ ViewFits(tab.view, route)
    /\ PageShowsItsParty /\ SpinnerHasALoad

\* The request of a current view will be granted, but for what no view shows.
Honours(c) ==
    c.op \in Writes /\ c.fresh =>
        /\ c.pc \in {"asked", "sent"} => Accepts(c) \/ Excused(c)
        /\ c.status = "refused" => ~Unchecked(c) \/ c.failed

Honoured == \A s \in Slots, c \in Call : call[s] = c => Honours(c)

TabInv == TypeOK /\ ItemsFormed /\ OwnersIn /\ Honoured /\ PageInv

-----------------------------------------------------------------------------

\* So far the requests of this page came one by one, and nobody else wrote.
Quiet == tab.calm /\ ~tab.jumped /\ used.elsewhere = 0

IsBusy(c) == c.pc \in {"sent", "answered"}

\* Of these requests at most that of slot s is under way.
OnlyBusy(calls, s) == \A z \in Slots : IsBusy(calls[z]) => z = s

\* The parties a new item can be for.
Choices == {q \in Parties : Open(q) /\ Member(q)}

MembersOf(p) == IF p = None THEN {} ELSE members[p]

\* A reply that the server would still give.
StillTrue(c) == MayRead(c.page, c.party) /\ c.view = ViewOf(c.page, c.party)

\* The one request under way: a page that sets loading does until its load is
\* answered, and before its write is done a page at rest is current.
OneCall(c) ==
    /\ c.mounted /\ c.status # "lost"
    /\ c.op = "load" /\ c.page \in Resets \cup {"list"} => tab.loading
    /\ c.op \in Reads /\ c.status = "ok" => StillTrue(c)
    /\ c.op = "info" => c.status # "refused"
    /\ c.op \in Writes /\ c.status # "ok" /\ AtRest => Current

\* The view of items/add.
Picked(p, ps, us) == [[[NoView EXCEPT !.party = p] EXCEPT !.parties = ps] EXCEPT !.users = us]

\* Its parts: the party picked, its members, the list of parties.
PickIsOpen == tab.view.party # None => tab.view.party \in Choices
UsersAreCurrent == tab.view.users = MembersOf(tab.view.party)
ListIsCurrent == tab.view.parties = Choices

UnderWay(op) == \E s \in Slots : call[s].op = op

Done(c) == IsBusy(c) /\ c.op \in Writes /\ c.status = "ok"

\* items/add: its members may be under way, and its list while the page spins;
\* the rest is current until a write is done, after which the tab leaves.
AddInv ==
    /\ tab.view = Picked(tab.view.party, tab.view.parties, tab.view.users)
    /\ \A s \in Slots : call[s].op = "info" => call[s].party = tab.view.party /\ ~tab.loading
    /\ tab.view.party = None => tab.view.users = {}
    /\ \/ \E s \in Slots : Done(call[s])
       \/ /\ PickIsOpen
          /\ UnderWay("info") \/ UsersAreCurrent
          /\ tab.loading \/ ListIsCurrent

QuietInv ==
    Quiet => /\ \A s \in Slots : IsBusy(call[s]) => OnlyBusy(call, s)
             /\ \A s \in Slots, c \in Call : call[s] = c /\ IsBusy(c) => OneCall(c)
             /\ ~Busy(call) /\ AtRest => Current
             /\ route.page = "add" => AddInv

-----------------------------------------------------------------------------
(* Records *)

\* d is c but for the fields that an answer, a dialog or a write elsewhere sets.
SameRequest(c, d) ==
    /\ d.op = c.op /\ d.page = c.page /\ d.item = c.item /\ d.users = c.users
    /\ d.paid = c.paid

SameParty(c, d) == SameRequest(c, d) /\ d.party = c.party

SameOutcome(c, d) == d.done = c.done /\ d.failed = c.failed

LEMMA IdleCall ==
    /\ Idle \in Call /\ NoView \in View
    /\ Idle.pc = "idle" /\ Idle.op = "none" /\ Idle.page = "home" /\ ~Idle.mounted
    /\ ~Idle.fresh /\ Idle.status = "none" /\ Idle.view = NoView /\ Idle.party = None
BY DEF Idle, Call, NoView, View, Pages, ListPages

LEMMA LoadCallFields ==
    ASSUME NEW r, r.page \in Pages, r.party \in Parties \cup {None}
    PROVE  LET c == LoadCall(r) IN
           /\ c \in Call
           /\ c.pc = "sent" /\ c.op = "load" /\ c.page = r.page /\ c.party = r.party /\ c.mounted
           /\ ~c.fresh /\ c.status = "none" /\ c.view = NoView
BY IdleCall DEF LoadCall, Idle, Call, Reads

LEMMA InfoCallFields ==
    ASSUME NEW p \in Parties
    PROVE  LET c == [LoadCall(At("add", p)) EXCEPT !.op = "info"] IN
           /\ c \in Call
           /\ c.pc = "sent" /\ c.op = "info" /\ c.page = "add" /\ c.party = p /\ c.mounted
           /\ ~c.fresh /\ c.status = "none" /\ c.view = NoView
BY IdleCall DEF LoadCall, At, Idle, Call, Reads, Pages

LEMMA Answers ==
    ASSUME NEW c \in Call, NEW st \in {"ok", "refused"}
    PROVE  LET d == [[c EXCEPT !.pc = "answered"] EXCEPT !.status = st] IN
           /\ d \in Call
           /\ d.pc = "answered" /\ d.status = st /\ d.mounted = c.mounted
           /\ d.fresh = c.fresh /\ d.view = c.view /\ SameParty(c, d)
BY DEF Call, SameParty, SameRequest

\* The answer d to c, with what else it carries.
OkAnswer(c, d) ==
    /\ d \in Call
    /\ d.pc = "answered" /\ d.status = "ok" /\ d.mounted = c.mounted
    /\ d.fresh = c.fresh /\ SameRequest(c, d)

WithView(c, d, v) == OkAnswer(c, d) /\ d.view = v /\ SameParty(c, d)

WithParty(c, d, p) == OkAnswer(c, d) /\ d.view = c.view /\ d.party = p /\ d.done

LEMMA AnswersWith ==
    \A c \in Call, v \in View :
        WithView(c, [[[c EXCEPT !.pc = "answered"] EXCEPT !.status = "ok"] EXCEPT !.view = v], v)
<1> SUFFICES ASSUME NEW c \in Call, NEW v \in View
             PROVE  LET d == [[[c EXCEPT !.pc = "answered"] EXCEPT !.status = "ok"] EXCEPT !.view = v]
                    IN  WithView(c, d, v)
  OBVIOUS
<1> DEFINE a == [c EXCEPT !.pc = "answered"]
           b == [a EXCEPT !.status = "ok"]
           d == [b EXCEPT !.view = v]
<1>1. a \in Call /\ a.pc = "answered" /\ a.mounted = c.mounted /\ a.fresh = c.fresh /\ SameParty(c, a)
  BY DEF Call, SameParty, SameRequest
<1> HIDE DEF a
<1>2. /\ b \in Call /\ b.pc = "answered" /\ b.status = "ok" /\ b.mounted = c.mounted
      /\ b.fresh = c.fresh /\ SameParty(c, b)
  BY <1>1 DEF Call, SameParty, SameRequest
<1> HIDE DEF b
<1>3. /\ d \in Call /\ d.pc = "answered" /\ d.status = "ok" /\ d.mounted = c.mounted
      /\ d.fresh = c.fresh /\ d.view = v /\ SameParty(c, d)
  BY <1>2 DEF Call, SameParty, SameRequest
<1> HIDE DEF d
<1>4. WithView(c, d, v)
  BY <1>3 DEF WithView, OkAnswer, SameParty
<1> QED BY <1>4 DEF a, b, d

LEMMA Grants ==
    \A c \in Call, p \in Parties :
        WithParty(c, [[[[c EXCEPT !.pc = "answered"] EXCEPT !.status = "ok"] EXCEPT !.party = p]
                         EXCEPT !.done = TRUE], p)
<1> SUFFICES ASSUME NEW c \in Call, NEW p \in Parties
             PROVE  LET d == [[[[c EXCEPT !.pc = "answered"] EXCEPT !.status = "ok"]
                                  EXCEPT !.party = p] EXCEPT !.done = TRUE]
                    IN  WithParty(c, d, p)
  OBVIOUS
<1> DEFINE a == [c EXCEPT !.pc = "answered"]
           b == [a EXCEPT !.status = "ok"]
           e == [b EXCEPT !.party = p]
           d == [e EXCEPT !.done = TRUE]
<1>1. /\ a \in Call /\ a.pc = "answered" /\ a.mounted = c.mounted /\ a.fresh = c.fresh
      /\ a.view = c.view /\ SameRequest(c, a)
  BY DEF Call, SameRequest
<1> HIDE DEF a
<1>2. /\ b \in Call /\ b.pc = "answered" /\ b.status = "ok" /\ b.mounted = c.mounted
      /\ b.fresh = c.fresh /\ b.view = c.view /\ SameRequest(c, b)
  BY <1>1 DEF Call, SameRequest
<1> HIDE DEF b
<1>3. /\ e \in Call /\ e.pc = "answered" /\ e.status = "ok" /\ e.mounted = c.mounted
      /\ e.fresh = c.fresh /\ e.view = c.view /\ e.party = p /\ SameRequest(c, e)
  BY <1>2 DEF Call, SameRequest
<1> HIDE DEF e
<1>4. /\ d \in Call /\ d.pc = "answered" /\ d.status = "ok" /\ d.mounted = c.mounted
      /\ d.fresh = c.fresh /\ d.view = c.view /\ d.party = p /\ d.done /\ SameRequest(c, d)
  BY <1>3 DEF Call, SameRequest
<1> HIDE DEF d
<1>5. WithParty(c, d, p)
  BY <1>4 DEF WithParty, OkAnswer
<1> QED BY <1>5 DEF a, b, e, d

\* The answer d to c once a statement has failed; done, if the server did what
\* c asks all the same.
FailedAnswer(c, d, status) ==
    /\ d \in Call
    /\ d.pc = "answered" /\ d.status = status /\ d.mounted = c.mounted
    /\ d.fresh = c.fresh /\ d.view = c.view /\ d.failed /\ SameParty(c, d)

LEMMA FailedAnswers ==
    \A c \in Call, st \in {"ok", "refused"} :
        LET d == [[[c EXCEPT !.pc = "answered"] EXCEPT !.status = st] EXCEPT !.failed = TRUE] IN
        /\ FailedAnswer(c, d, st)
        /\ FailedAnswer(c, [d EXCEPT !.done = TRUE], st) /\ [d EXCEPT !.done = TRUE].done
<1> SUFFICES ASSUME NEW c \in Call, NEW st \in {"ok", "refused"}
             PROVE  LET d == [[[c EXCEPT !.pc = "answered"] EXCEPT !.status = st]
                                EXCEPT !.failed = TRUE]
                    IN  /\ FailedAnswer(c, d, st)
                        /\ FailedAnswer(c, [d EXCEPT !.done = TRUE], st)
                        /\ [d EXCEPT !.done = TRUE].done
  OBVIOUS
<1> DEFINE a == [[c EXCEPT !.pc = "answered"] EXCEPT !.status = st]
           d == [a EXCEPT !.failed = TRUE]
<1>1. /\ a \in Call /\ a.pc = "answered" /\ a.status = st /\ a.mounted = c.mounted
      /\ a.fresh = c.fresh /\ a.view = c.view /\ SameParty(c, a)
  BY Answers
<1> HIDE DEF a
<1>2. FailedAnswer(c, d, st)
  BY <1>1 DEF FailedAnswer, Call, SameParty, SameRequest
<1> HIDE DEF d
<1>3. FailedAnswer(c, [d EXCEPT !.done = TRUE], st) /\ [d EXCEPT !.done = TRUE].done
  BY <1>2 DEF FailedAnswer, Call, SameParty, SameRequest
<1> QED BY <1>2, <1>3 DEF a, d

LEMMA Loses ==
    ASSUME NEW c \in Call
    PROVE  LET d == [[[c EXCEPT !.pc = "answered"] EXCEPT !.status = "lost"] EXCEPT !.view = NoView]
           IN
           /\ d \in Call
           /\ d.pc = "answered" /\ d.status = "lost" /\ d.mounted = c.mounted
           /\ d.fresh = c.fresh /\ d.view = NoView /\ SameParty(c, d)
BY IdleCall DEF Call, SameParty, SameRequest

LEMMA Reopens ==
    ASSUME NEW c \in Call
    PROVE  LET d == [[[[[c EXCEPT !.pc = "asked"] EXCEPT !.status = "none"] EXCEPT !.fresh = FALSE]
                         EXCEPT !.done = FALSE] EXCEPT !.failed = FALSE]
           IN
           /\ d \in Call
           /\ d.pc = "asked" /\ d.status = "none" /\ d.mounted = c.mounted
           /\ ~d.fresh /\ d.view = c.view /\ SameParty(c, d)
BY DEF Call, SameParty, SameRequest

LEMMA Sends ==
    ASSUME NEW c \in Call
    PROVE  LET d == [c EXCEPT !.pc = "sent"] IN
           /\ d \in Call
           /\ d.pc = "sent" /\ d.status = c.status /\ d.mounted = c.mounted
           /\ d.fresh = c.fresh /\ d.view = c.view /\ SameParty(c, d)
BY DEF Call, SameParty, SameRequest

LEMMA Unmounts ==
    ASSUME NEW c \in Call
    PROVE  LET d == [c EXCEPT !.mounted = FALSE] IN
           /\ d \in Call
           /\ d.pc = c.pc /\ d.status = c.status /\ ~d.mounted
           /\ d.fresh = c.fresh /\ d.view = c.view /\ SameParty(c, d) /\ SameOutcome(c, d)
BY DEF Call, SameParty, SameRequest, SameOutcome

LEMMA Ages ==
    ASSUME NEW c \in Call
    PROVE  LET d == [c EXCEPT !.fresh = FALSE] IN
           /\ d \in Call
           /\ d.pc = c.pc /\ d.status = c.status /\ d.mounted = c.mounted
           /\ ~d.fresh /\ d.view = c.view /\ SameParty(c, d) /\ SameOutcome(c, d)
BY DEF Call, SameParty, SameRequest, SameOutcome

LEMMA NewTabFields ==
    ASSUME NEW r
    PROVE  /\ NewTab(r) \in Tab
           /\ NewTab(r).loading = Loads(r.page) /\ ~NewTab(r).err /\ NewTab(r).view = NoView
           /\ NewTab(r).calm /\ ~NewTab(r).jumped /\ NewTab(r).ticked = {}
BY IdleCall DEF NewTab, Tab, Loads

LEMMA PutOne ==
    ASSUME NEW calls, Room(calls), NEW c
    PROVE  \E s \in Slots : calls[s].pc = "idle" /\ Put(calls, c) = [calls EXCEPT ![s] = c]
<1> DEFINE s == CHOOSE s \in Slots : calls[s].pc = "idle"
<1>1. s \in Slots /\ calls[s].pc = "idle"
  BY DEF Room
<1>2. Put(calls, c) = [calls EXCEPT ![s] = c]
  BY DEF Put
<1> HIDE DEF s
<1> QED BY <1>1, <1>2

\* What Load makes of the page's state t.
TabLoads(t, calls, r, d) ==
    /\ d \in Tab
    /\ d.loading <=> t.loading \/ r.page \in Resets
    /\ d.err <=> t.err /\ r.page \notin Resets
    /\ d.calm <=> t.calm /\ ~Busy(calls)
    /\ d.view = t.view /\ d.ticked = t.ticked /\ d.jumped = t.jumped

LEMMA LoadEffect ==
    ASSUME NEW calls, NEW r, NEW t \in Tab, Load(calls, r, t)
    PROVE  /\ \E s \in Slots : /\ calls[s].pc = "idle"
                               /\ call' = [calls EXCEPT ![s] = LoadCall(r)]
           /\ TabLoads(t, calls, r, tab')
<1>1. Room(calls) /\ call' = Put(calls, LoadCall(r))
  BY DEF Load
<1> DEFINE loading == t.loading \/ r.page \in Resets
           err == t.err /\ r.page \notin Resets
           calm == t.calm /\ ~Busy(calls)
<1>2. tab' = [[[t EXCEPT !.loading = loading] EXCEPT !.err = err] EXCEPT !.calm = calm]
  BY DEF Load, Tab
<1>3. loading \in BOOLEAN /\ err \in BOOLEAN /\ calm \in BOOLEAN
  OBVIOUS
<1> HIDE DEF loading, err, calm
<1>5. /\ tab' \in Tab /\ tab'.loading = loading /\ tab'.err = err /\ tab'.calm = calm
      /\ tab'.view = t.view /\ tab'.ticked = t.ticked /\ tab'.jumped = t.jumped
  BY <1>2, <1>3 DEF Tab
<1>6. TabLoads(t, calls, r, tab')
  BY <1>5 DEF TabLoads, loading, err, calm
<1> QED BY <1>1, <1>6, PutOne

-----------------------------------------------------------------------------
(* Addresses and links *)

LEMMA RouteFields ==
    ASSUME NEW r \in Routes
    PROVE  /\ r.page \in Pages /\ r.party \in Parties \cup {None}
           /\ r.page \in PartyPages => r.party \in Parties
           /\ r.page \in ListPages => r.party = None
           /\ r = At(r.page, r.party)
BY DEF Routes, At

LEMMA AtRoute ==
    ASSUME NEW page \in Pages, NEW p \in Parties \cup {None},
           page \in PartyPages => p # None, page \in ListPages => p = None
    PROVE  At(page, p) \in Routes /\ At(page, p).page = page /\ At(page, p).party = p
BY DEF Routes, At

LEMMA ToRoutes ==
    ASSUME NEW page \in PartyPages \cup {"add"}, NEW ps \in SUBSET Parties
    PROVE  To(page, ps) \subseteq Routes
<1>1. SUFFICES ASSUME NEW p \in ps PROVE At(page, p) \in Routes
  BY DEF To
<1>2. page \in Pages /\ page \notin ListPages /\ p \in Parties /\ p # None
  BY NoneAssumption DEF Pages, PartyPages, ListPages
<1> QED BY <1>2, AtRoute

LEMMA ListRoute == \A page \in ListPages \cup {"add"} : At(page, None) \in Routes
<1> SUFFICES ASSUME NEW page \in ListPages \cup {"add"} PROVE At(page, None) \in Routes
  OBVIOUS
<1>1. page \in Pages /\ page \notin PartyPages
  BY DEF Pages, PartyPages, ListPages
<1> QED BY <1>1, AtRoute

LEMMA PartyRoute == \A page \in PartyPages \cup {"add"}, p \in Parties : At(page, p) \in Routes
<1> SUFFICES ASSUME NEW page \in PartyPages \cup {"add"}, NEW p \in Parties
             PROVE  At(page, p) \in Routes
  OBVIOUS
<1>1. page \in Pages /\ page \notin ListPages /\ p # None
  BY NoneAssumption DEF Pages, PartyPages, ListPages
<1> QED BY <1>1, AtRoute

LEMMA HeaderRoutes ==
    ASSUME NEW r \in Routes, NEW v \in View
    PROVE  HeaderLinks(r, v) \subseteq Routes
<1>1. Menu(r) \subseteq Routes
  BY ListRoute DEF Menu, ListPages
<1>2. Back(r) \subseteq Routes
  <2>1. CASE r.page \in {"members", "bestpay", "myItems", "edit", "manage"}
    <3>1. Back(r) = {At("show", r.party)} /\ r.party \in Parties
      BY <2>1, RouteFields DEF Back, PartyPages
    <3> QED BY <3>1, PartyRoute DEF PartyPages
  <2>2. CASE r.page \notin {"members", "bestpay", "myItems", "edit", "manage"}
    <3>1. Back(r) \subseteq {At("list", None), At("payments", None), At("items", None)}
      BY <2>2 DEF Back
    <3> QED BY <3>1, ListRoute DEF ListPages
  <2> QED BY <2>1, <2>2
<1>3. Extra(r, v) \subseteq Routes
  <2>1. TypedCode \subseteq Routes
    BY ToRoutes DEF TypedCode, PartyPages
  <2>2. {At("create", None), At("add", None), At("joinForm", None)} \subseteq Routes
    BY ListRoute DEF ListPages
  <2>3. CASE r.page \in {"manage", "myItems"}
    <3>1. Extra(r, v) \subseteq {At("add", r.party)} /\ r.party \in Parties
      BY <2>3, RouteFields DEF Extra, AddLink, PartyPages
    <3> QED BY <3>1, PartyRoute
  <2>4. CASE r.page \notin {"manage", "myItems"}
    BY <2>1, <2>2, <2>4 DEF Extra, HomeExtra, ListExtra
  <2> QED BY <2>3, <2>4
<1> QED BY <1>1, <1>2, <1>3 DEF HeaderLinks

LEMMA BodyRoutes ==
    ASSUME NEW r \in Routes, NEW v \in View,
           r.page = "invite" /\ v.users # {} => v.party # None
    PROVE  BodyLinks(r, v) \subseteq Routes
<1>1. v.parties \subseteq Parties /\ v.due \subseteq Parties /\ v.party \in Parties \cup {None}
  BY DEF View
<1>2. CASE r.page = "show"
  <2>1. ShowLinks(r, v) \subseteq
           {At(page, r.party) : page \in {"members", "bestpay", "myItems", "manage", "add", "edit"}}
    BY DEF ShowLinks
  <2>2. r.party \in Parties
    BY <1>2, RouteFields DEF PartyPages
  <2>3. \A page \in {"members", "bestpay", "myItems", "manage", "add", "edit"} :
            At(page, r.party) \in Routes
    BY <2>2, PartyRoute DEF PartyPages
  <2> QED BY <1>2, <2>1, <2>3 DEF BodyLinks
<1>3. CASE r.page = "invite"
  <2>1. BodyLinks(r, v) = InviteLinks(r, v)
    BY <1>3 DEF BodyLinks
  <2>2. Me \in v.users => v.party \in Parties
    BY <1>1, <1>3
  <2> QED BY <2>1, <2>2, ListRoute, PartyRoute DEF InviteLinks, ListPages, PartyPages
<1>4. CASE r.page = "myItems"
  <2>1. r.party \in Parties
    BY <1>4, RouteFields DEF PartyPages
  <2> QED BY <1>4, <2>1, PartyRoute DEF BodyLinks, MyItemsLinks, PartyPages
<1>5. CASE r.page = "add"
  BY <1>5, ListRoute DEF BodyLinks, AddLinks, ListPages
<1>6. CASE r.page \in {"home", "list", "bills", "items", "payments"}
  <2>1. \A page \in {"show", "payment", "manage", "myItems"}, ps \in {v.parties, v.due} :
            To(page, ps) \subseteq Routes
    BY <1>1, ToRoutes DEF PartyPages
  <2> QED BY <1>6, <2>1
          DEF BodyLinks, HomeLinks, ListLinks, BillsLinks, ItemsLinks, PaymentsLinks
<1>7. CASE r.page \notin {"show", "invite", "myItems", "add", "home", "list", "bills", "items",
                          "payments"}
  BY <1>7 DEF BodyLinks
<1> QED BY <1>2, <1>3, <1>4, <1>5, <1>6, <1>7

-----------------------------------------------------------------------------
(* The replies to loads *)

LEMMA RowsFields ==
    ASSUME NEW v \in View, NEW is \in SUBSET ItemIds
    PROVE  /\ Rows(v, is) \in View
           /\ Rows(v, is).party = v.party /\ Rows(v, is).owner = v.owner
           /\ Rows(v, is).archived = v.archived /\ Rows(v, is).users = v.users
           /\ Rows(v, is).parties = v.parties /\ Rows(v, is).due = v.due
           /\ Rows(v, is).items = is /\ Rows(v, is).paid = {i \in is : item[i].paid}
           /\ Rows(v, is).mine = {i \in is : item[i].initiator = Me}
<1> DEFINE paid == {i \in is : item[i].paid}
           mine == {i \in is : item[i].initiator = Me}
<1>1. Rows(v, is) = [[[v EXCEPT !.items = is] EXCEPT !.paid = paid] EXCEPT !.mine = mine]
  BY DEF Rows
<1>2. paid \in SUBSET ItemIds /\ mine \in SUBSET ItemIds
  OBVIOUS
<1> HIDE DEF paid, mine
<1>3. /\ Rows(v, is) \in View
      /\ Rows(v, is).party = v.party /\ Rows(v, is).owner = v.owner
      /\ Rows(v, is).archived = v.archived /\ Rows(v, is).users = v.users
      /\ Rows(v, is).parties = v.parties /\ Rows(v, is).due = v.due
      /\ Rows(v, is).items = is /\ Rows(v, is).paid = paid /\ Rows(v, is).mine = mine
  BY <1>1, <1>2 DEF View
<1> QED BY <1>3 DEF paid, mine

LEMMA OfPartyFields ==
    ASSUME NEW p \in Parties \cup {None}
    PROVE  /\ OfParty(p) \in View
           /\ OfParty(p).party = p /\ ~OfParty(p).owner /\ ~OfParty(p).archived
           /\ OfParty(p).items = {} /\ OfParty(p).paid = {} /\ OfParty(p).mine = {}
           /\ OfParty(p).users = {} /\ OfParty(p).parties = {} /\ OfParty(p).due = {}
BY IdleCall DEF OfParty, NoView, View

LEMMA HeadFields ==
    ASSUME StoreTypeOK, NEW p \in Parties
    PROVE  LET v == [[[OfParty(p) EXCEPT !.owner = Owner(p)] EXCEPT !.archived = Archived(p)]
                        EXCEPT !.users = members[p]] IN
           /\ v \in View /\ v.party = p /\ v.owner = Owner(p) /\ v.archived = Archived(p)
           /\ v.users = members[p]
<1> DEFINE e == OfParty(p)
           a == Owner(p)
           b == Archived(p)
           us == members[p]
<1>1. e \in View /\ e.party = p
  BY OfPartyFields
<1>2. a \in BOOLEAN /\ b \in BOOLEAN /\ us \in SUBSET Users
  BY DEF Owner, Archived, StoreTypeOK
<1> HIDE DEF e, a, b, us
<1> DEFINE v == [[[e EXCEPT !.owner = a] EXCEPT !.archived = b] EXCEPT !.users = us]
<1>3. v \in View /\ v.owner = a /\ v.archived = b /\ v.users = us
  BY <1>1, <1>2 DEF View
<1>4. v.party = p
  BY <1>1 DEF View
<1> QED BY <1>3, <1>4 DEF e, a, b, us

LEMMA Queries ==
    \A p \in Parties :
        /\ Owner(p) \in BOOLEAN /\ Archived(p) \in BOOLEAN
        /\ ItemsOf(p) \subseteq ItemIds /\ Unpaid(p) \subseteq ItemIds
        /\ Related(p, Me) \subseteq ItemIds /\ Owing(p) \subseteq ItemIds
        /\ Plan(p, members[p]) \subseteq ItemIds
<1> TAKE p \in Parties
<1>1. Owner(p) \in BOOLEAN /\ Archived(p) \in BOOLEAN
  BY DEF Owner, Archived
<1>2. ItemsOf(p) \subseteq ItemIds /\ Unpaid(p) \subseteq ItemIds /\ Related(p, Me) \subseteq ItemIds
  BY DEF ItemsOf, Unpaid, Related
<1>3. Owing(p) \subseteq ItemIds /\ Plan(p, members[p]) \subseteq ItemIds
  BY <1>2 DEF Owing, Plan
<1> QED BY <1>1, <1>2, <1>3

LEMMA ShowFields ==
    ASSUME StoreTypeOK, NEW p \in Parties
    PROVE  /\ ShowView(p) \in View /\ ShowView(p).party = p
           /\ ShowView(p).owner = Owner(p) /\ ShowView(p).archived = Archived(p)
           /\ ShowView(p).users = members[p] /\ ShowView(p).items = ItemsOf(p)
<1> DEFINE v == [[[OfParty(p) EXCEPT !.owner = Owner(p)] EXCEPT !.archived = Archived(p)]
                     EXCEPT !.users = members[p]]
<1>1. v \in View /\ v.party = p /\ v.owner = Owner(p) /\ v.archived = Archived(p)
      /\ v.users = members[p]
  BY HeadFields
<1>2. ShowView(p) = Rows(v, ItemsOf(p))
  BY DEF ShowView
<1> HIDE DEF v
<1> QED BY <1>1, <1>2, RowsFields, Queries

LEMMA MembersFields ==
    ASSUME StoreTypeOK, NEW p \in Parties
    PROVE  /\ MembersView(p) \in View /\ MembersView(p).party = p
           /\ MembersView(p).owner = Owner(p) /\ MembersView(p).archived = Archived(p)
           /\ MembersView(p).users = members[p]
<1>1. MembersView(p) = [[[OfParty(p) EXCEPT !.owner = Owner(p)] EXCEPT !.archived = Archived(p)]
                           EXCEPT !.users = members[p]]
  BY DEF MembersView
<1> QED BY <1>1, HeadFields

LEMMA BestPayFields ==
    ASSUME StoreTypeOK, NEW p \in Parties
    PROVE  BestPayView(p) \in View /\ BestPayView(p).party = p /\ BestPayView(p).owner = Owner(p)
<1> DEFINE v == [OfParty(p) EXCEPT !.owner = Owner(p)]
<1>1. v \in View /\ v.party = p /\ v.owner = Owner(p)
  BY OfPartyFields, Queries DEF View
<1>2. BestPayView(p) = Rows(v, Plan(p, members[p]))
  BY DEF BestPayView
<1> HIDE DEF v
<1> QED BY <1>1, <1>2, RowsFields, Queries

LEMMA MyItemsFields ==
    ASSUME StoreTypeOK, NEW p \in Parties
    PROVE  /\ MyItemsView(p) \in View /\ MyItemsView(p).party = p
           /\ MyItemsView(p).archived = Archived(p)
           /\ MyItemsView(p).mine = {i \in Related(p, Me) : item[i].initiator = Me}
<1> DEFINE v == [OfParty(p) EXCEPT !.archived = Archived(p)]
<1>1. v \in View /\ v.party = p /\ v.archived = Archived(p)
  BY OfPartyFields, Queries DEF View
<1>2. MyItemsView(p) = Rows(v, Related(p, Me))
  BY DEF MyItemsView
<1> HIDE DEF v
<1> QED BY <1>1, <1>2, RowsFields, Queries

LEMMA ManageFields ==
    ASSUME StoreTypeOK, NEW p \in Parties
    PROVE  /\ ManageView(p) \in View /\ ManageView(p).party = p
           /\ ManageView(p).owner = Owner(p) /\ ManageView(p).archived = Archived(p)
           /\ ManageView(p).items = ItemsOf(p)
           /\ ManageView(p).mine = {i \in ItemsOf(p) : item[i].initiator = Me}
<1> DEFINE v == [[OfParty(p) EXCEPT !.owner = Owner(p)] EXCEPT !.archived = Archived(p)]
<1>1. v \in View /\ v.party = p /\ v.owner = Owner(p) /\ v.archived = Archived(p)
  <2> DEFINE e == OfParty(p)
  <2>1. e \in View /\ e.party = p
    BY OfPartyFields
  <2> HIDE DEF e
  <2> QED BY <2>1, Queries DEF View, e
<1>2. ManageView(p) = Rows(v, ItemsOf(p))
  BY DEF ManageView
<1> HIDE DEF v
<1> QED BY <1>1, <1>2, RowsFields, Queries

LEMMA PaymentFields ==
    ASSUME NEW p \in Parties
    PROVE  PaymentView(p) \in View /\ PaymentView(p).party = p
BY OfPartyFields, RowsFields, Queries DEF PaymentView

LEMMA InviteFields ==
    ASSUME StoreTypeOK, NEW p \in Parties
    PROVE  /\ InviteView(p) \in View /\ InviteView(p).party = p
           /\ InviteView(p).users = members[p] \cap {Me}
BY OfPartyFields, MeAssumption DEF InviteView, View, StoreTypeOK

LEMMA AddFields ==
    ASSUME StoreTypeOK, NEW p \in Parties \cup {None}
    PROVE  /\ AddView(p) \in View /\ AddView(p).party = p
           /\ AddView(p).parties = Choices
           /\ AddView(p).users = IF p = None THEN {} ELSE members[p]
<1> DEFINE us == IF p = None THEN {} ELSE members[p]
<1>1. us \in SUBSET Users /\ Choices \in SUBSET Parties
  BY DEF StoreTypeOK, Choices
<1>2. AddView(p) = [[OfParty(p) EXCEPT !.parties = Choices] EXCEPT !.users = us]
  BY DEF AddView, Choices
<1> DEFINE e == OfParty(p)
<1>3. e \in View /\ e.party = p
  BY OfPartyFields
<1> HIDE DEF us, e
<1>4. LET v == [[e EXCEPT !.parties = Choices] EXCEPT !.users = us] IN
      v \in View /\ v.party = p /\ v.parties = Choices /\ v.users = us
  BY <1>1, <1>3 DEF View
<1> QED BY <1>2, <1>4 DEF us, e

LEMMA ListFields ==
    /\ HomeView \in View /\ ListView \in View /\ PaymentsView \in View /\ ItemsView \in View
    /\ BillsView \in View
    /\ HomeView.parties = {p \in Parties : Member(p)}
    /\ ListView.parties = {p \in Parties : Member(p) \/ Owner(p)}
    /\ PaymentsView.parties = Payments /\ ItemsView.parties = Receivings
    /\ BillsView.parties = Receivings /\ BillsView.due = Payments
<1> DEFINE home == {p \in Parties : Member(p)}
           list == {p \in Parties : Member(p) \/ Owner(p)}
<1>1. home \in SUBSET Parties /\ list \in SUBSET Parties /\ Payments \in SUBSET Parties
      /\ Receivings \in SUBSET Parties
  BY DEF Payments, Receivings
<1>2. /\ HomeView = [NoView EXCEPT !.parties = home]
      /\ ListView = [NoView EXCEPT !.parties = list]
      /\ PaymentsView = [NoView EXCEPT !.parties = Payments]
      /\ ItemsView = [NoView EXCEPT !.parties = Receivings]
      /\ BillsView = [[NoView EXCEPT !.parties = Receivings] EXCEPT !.due = Payments]
  BY DEF HomeView, ListView, PaymentsView, ItemsView, BillsView
<1> HIDE DEF home, list
<1>3. \A ps \in SUBSET Parties, qs \in SUBSET Parties :
         /\ [NoView EXCEPT !.parties = ps] \in View
         /\ [NoView EXCEPT !.parties = ps].parties = ps
         /\ [[NoView EXCEPT !.parties = ps] EXCEPT !.due = qs] \in View
         /\ [[NoView EXCEPT !.parties = ps] EXCEPT !.due = qs].parties = ps
         /\ [[NoView EXCEPT !.parties = ps] EXCEPT !.due = qs].due = qs
  BY IdleCall DEF View
<1>4. HomeView \in View /\ ListView \in View /\ HomeView.parties = home /\ ListView.parties = list
  BY <1>1, <1>2, <1>3
<1>5. /\ PaymentsView \in View /\ ItemsView \in View /\ BillsView \in View
      /\ PaymentsView.parties = Payments /\ ItemsView.parties = Receivings
      /\ BillsView.parties = Receivings /\ BillsView.due = Payments
  BY <1>1, <1>2, <1>3
<1> QED BY <1>4, <1>5 DEF home, list

LEMMA ViewOfFields ==
    ASSUME StoreTypeOK, NEW page \in Pages, NEW p \in Parties \cup {None},
           page \in PartyPages => p \in Parties
    PROVE  /\ ViewOf(page, p) \in View
           /\ page \in PartyPages => ViewOf(page, p).party = p
<1>1. CASE page \in PartyPages
  <2>1. p \in Parties
    BY <1>1
  <2>2. /\ page = "show" => ViewOf(page, p) = ShowView(p)
        /\ page = "members" => ViewOf(page, p) = MembersView(p)
        /\ page = "bestpay" => ViewOf(page, p) = BestPayView(p)
        /\ page = "myItems" => ViewOf(page, p) = MyItemsView(p)
        /\ page = "manage" => ViewOf(page, p) = ManageView(p)
        /\ page = "payment" => ViewOf(page, p) = PaymentView(p)
        /\ page = "edit" => ViewOf(page, p) = OfParty(p)
        /\ page = "invite" => ViewOf(page, p) = InviteView(p)
    BY DEF ViewOf, EditView
  <2> QED BY <1>1, <2>1, <2>2, ShowFields, MembersFields, BestPayFields, MyItemsFields, ManageFields,
             PaymentFields, OfPartyFields, InviteFields DEF PartyPages
<1>2. CASE page \in ListPages \cup {"add"}
  <2>1. page \notin PartyPages
    BY <1>2 DEF PartyPages, ListPages
  <2>2. ViewOf(page, p) \in
           {AddView(p), HomeView, ListView, PaymentsView, ItemsView, BillsView, NoView}
    BY <1>2 DEF ViewOf, ListPages
  <2> QED BY <2>1, <2>2, AddFields, ListFields, IdleCall
<1> QED BY <1>1, <1>2 DEF Pages

-----------------------------------------------------------------------------
(* Every endpoint writes by one of the statements of LedgerStore. *)

LEMMA MembershipWrites ==
    ASSUME NEW p \in Parties, NEW u \in Users
    PROVE  /\ Server!Join(p, u) => Written
           /\ Server!Leave(p, u) => Written
           /\ Server!RemoveMember(p, u) => Written
           /\ u # party[p].owner /\ Server!DeleteMember(p, u) => Written
           /\ \A c \in Currencies : Server!CreateParty(p, u, c) => Written
<1>1. Server!Join(p, u) => InsertMember(p, u)
  BY DEF Server!Join, Server!InsertMember, InsertMember
<1>2. Server!Leave(p, u) => u # party[p].owner /\ DeleteMember(p, u)
  BY DEF Server!Leave, Server!DeleteMember, DeleteMember
<1>3. Server!RemoveMember(p, u) => u # party[p].owner /\ DeleteMember(p, u)
  BY DEF Server!RemoveMember, Server!DeleteMember, DeleteMember
<1>4. \A c \in Currencies :
         Server!CreateParty(p, u, c) => party[p].state = "unused" /\ InsertParty(p, u, c)
  BY DEF Server!CreateParty, Server!InsertParty, InsertParty
<1>5. Server!DeleteMember(p, u) => DeleteMember(p, u)
  BY DEF Server!DeleteMember, DeleteMember
<1> QED BY <1>1, <1>2, <1>3, <1>4, <1>5 DEF Written

LEMMA PartyWrites ==
    ASSUME StoreTypeOK, NEW p \in Parties
    PROVE  /\ Server!DeleteParty(p) => Written
           /\ Server!DeleteRows(p) => Written
           /\ Server!ClearBestPay(p) => Written
           /\ \A c \in Currencies : Server!UpdateParty(p, c) => Written
           /\ \A r \in Reqs : Server!Archive(p, r) => Written
<1>0. Server!DeleteRows(p) => DeleteRows(p)
  BY DEF Server!DeleteRows, Server!ItemsOf, Server!NoItem, DeleteRows, ItemsOf, NoItem
<1>1. Server!DeleteParty(p) => DeleteRows(p)
  BY <1>0 DEF Server!DeleteParty
<1>2. Server!ClearBestPay(p) => SettleAll(p)
  BY DEF Server!ClearBestPay, Server!SettleAll, Server!AllPaid, Server!Unpaid, Server!ItemsOf,
         SettleAll, AllPaid, Unpaid, ItemsOf
<1>3. \A c \in Currencies : Server!UpdateParty(p, c) => UpdateBase(p, c)
  BY DEF Server!UpdateParty, Server!UpdateBase, Server!Live, UpdateBase, Live
<1>4. ASSUME NEW r \in Reqs, Server!Archive(p, r)
      PROVE  ArchiveRows(p, r) /\ file' \in [Parties -> Snapshot]
  <2>1. ArchiveRows(p, r)
    BY <1>4 DEF Server!Archive, Server!ArchiveRows, Server!AllPaid, Server!Unpaid, Server!ItemsOf,
       ArchiveRows, AllPaid, Unpaid, ItemsOf
  <2>2. Server!ItemsOf(p) \in SUBSET ItemIds /\ Server!Plan(p, members[p]) \in SUBSET ItemIds
    BY DEF Server!ItemsOf, Server!Plan, Server!Unpaid
  <2>3. file' = [file EXCEPT ![p] = [exists |-> TRUE, listed |-> Server!ItemsOf(p),
                                     plan |-> Server!Plan(p, members[p])]]
    BY <1>4 DEF Server!Archive
  <2> QED BY <2>1, <2>2, <2>3 DEF StoreTypeOK, Snapshot
<1> QED BY <1>0, <1>1, <1>2, <1>3, <1>4 DEF Written

LEMMA ItemWrites ==
    ASSUME StoreTypeOK
    PROVE  /\ \A p \in Parties, u \in Users, payers \in SUBSET Users :
                  Server!AddItem(p, u, payers) => Written
           /\ \A i \in ItemIds : /\ Server!DeleteItem(i) => Written
                                 /\ \A b \in BOOLEAN :
                                       /\ Server!UpdateItemStatus(i, b) => Written
                                       /\ Server!UpdateItemStatusUnread(i, b) => Written
<1>1. ASSUME NEW p \in Parties, NEW u \in Users, NEW payers \in SUBSET Users,
             Server!AddItem(p, u, payers)
      PROVE  Written
  <2>1. InsertItems(p, u, payers, party[p].base)
    BY <1>1 DEF Server!AddItem, Server!InsertItems, InsertItems
  <2>2. party[p].base \in Currencies \cup {None} /\ party[p].state # "unused"
    BY <1>1 DEF StoreTypeOK, PartyRow, Server!AddItem, Server!Open, Server!Live
  <2> QED BY <2>1, <2>2 DEF Written
<1>2. ASSUME NEW i \in ItemIds, Server!DeleteItem(i) PROVE Written
  <2>1. DeleteItemRow(i)
    BY <1>2 DEF Server!DeleteItem, Server!DeleteItemRow, Server!NoItem, DeleteItemRow, NoItem
  <2> QED BY <2>1 DEF Written
<1>3. ASSUME NEW i \in ItemIds, NEW b \in BOOLEAN,
             Server!UpdateItemStatus(i, b) \/ Server!UpdateItemStatusUnread(i, b)
      PROVE  Written
  <2>1. SetPaid(i, b)
    BY <1>3 DEF Server!UpdateItemStatus, Server!UpdateItemStatusUnread, Server!SetPaid, SetPaid
  <2> QED BY <2>1 DEF Written
<1> QED BY <1>1, <1>2, <1>3

LEMMA ServerWrites == StoreTypeOK /\ Server!Next => Written
BY MembershipWrites, PartyWrites, ItemWrites DEF Server!Next

LEMMA PerformWrites ==
    ASSUME StoreTypeOK, NEW c \in Call, WellMade(c), NEW p \in Parties, Perform(c, p)
    PROVE  Written
<1>1. c.users \in SUBSET Users /\ c.paid \in BOOLEAN
      /\ (c.op \in {"mark", "deleteItem"} => c.item \in ItemIds)
  BY DEF Call, WellMade, Writes
<1>2. CASE c.op \in {"create", "leave", "remove", "join"}
  BY <1>1, <1>2, MembershipWrites, MeAssumption DEF Perform
<1>3. CASE c.op \in {"delete", "archive", "update", "clear"}
  BY <1>3, PartyWrites DEF Perform
<1>4. CASE c.op \in {"add", "mark", "deleteItem"}
  BY <1>1, <1>4, ItemWrites, MeAssumption DEF Perform
<1> QED BY <1>2, <1>3, <1>4 DEF Perform

LEMMA OverlookedWrites ==
    ASSUME StoreTypeOK, NEW c \in Call, WellMade(c), c.op \in Writes, Overlooked(c)
    PROVE  Written
<1>1. c.users \in SUBSET Users /\ c.paid \in BOOLEAN
      /\ (c.op # "create" => c.party \in Parties) /\ (c.op = "mark" => c.item \in ItemIds)
  BY DEF Call, WellMade
<1>2. CASE c.op = "leave"
  <2>1. ~Owner(c.party) /\ Live(c.party) /\ Server!DeleteMember(c.party, Me)
    BY <1>2 DEF Overlooked, Member
  <2>2. Me # party[c.party].owner
    BY <2>1 DEF Owner
  <2> QED BY <1>1, <1>2, <2>1, <2>2, MembershipWrites, MeAssumption
<1>3. CASE c.op = "delete"
  BY <1>1, <1>3, PartyWrites DEF Overlooked
<1>4. CASE c.op = "remove"
  <2>1. PICK u \in (c.users \cap members[c.party]) \ {Me} : Server!DeleteMember(c.party, u)
    BY <1>4 DEF Overlooked
  <2>2. u # party[c.party].owner
    BY <1>4, <2>1 DEF Overlooked, Owner
  <2> QED BY <1>1, <1>4, <2>1, <2>2, MembershipWrites
<1>5. CASE c.op = "mark"
  BY <1>1, <1>5, ItemWrites DEF Overlooked
<1> QED BY <1>2, <1>3, <1>4, <1>5 DEF Overlooked

-----------------------------------------------------------------------------
(* What a step leaves of the requests *)

\* A request that is still fresh, or that was refused, is the one that was.
Inherits(c, d) ==
    /\ d.fresh => c.fresh /\ SameParty(c, d) /\ SameOutcome(c, d)
                  /\ d.pc = c.pc /\ d.status = c.status
    /\ d.status = "refused" => c.status = "refused"

LEMMA Inheritance ==
    \A c, d, e : Inherits(c, d) /\ Inherits(d, e) => Inherits(c, e)
BY DEF Inherits, SameParty, SameRequest, SameOutcome

LEMMA QueriesStay ==
    ASSUME UNCHANGED storeVars, NEW p
    PROVE  /\ Live(p)' = Live(p) /\ Archived(p)' = Archived(p) /\ Open(p)' = Open(p)
           /\ Member(p)' = Member(p) /\ Owner(p)' = Owner(p)
           /\ ItemsOf(p)' = ItemsOf(p) /\ Unpaid(p)' = Unpaid(p)
           /\ \A u : Related(p, u)' = Related(p, u)
<1>1. party' = party /\ members' = members /\ item' = item
  BY DEF storeVars
<1>2. Live(p)' = Live(p) /\ Archived(p)' = Archived(p)
  BY <1>1 DEF Live, Archived
<1>3. Open(p)' = Open(p) /\ Member(p)' = Member(p) /\ Owner(p)' = Owner(p)
  BY <1>1, <1>2 DEF Open, Member, Owner
<1>4. ItemsOf(p)' = ItemsOf(p)
  BY <1>1 DEF ItemsOf
<1>5. Unpaid(p)' = Unpaid(p) /\ \A u : Related(p, u)' = Related(p, u)
  BY <1>1, <1>4 DEF Unpaid, Related
<1> QED BY <1>2, <1>3, <1>4, <1>5

LEMMA SameAccepts ==
    ASSUME NEW c, NEW d, SameParty(c, d), c.op \in Writes
    PROVE  /\ Accepts(d) = Accepts(c) /\ Excused(d) = Excused(c)
           /\ d.page = c.page => Unchecked(d) = Unchecked(c)
BY DEF SameParty, SameRequest, Accepts, Excused, Unchecked

LEMMA AcceptsStays ==
    ASSUME UNCHANGED storeVars, NEW c, c.op \in Writes
    PROVE  Accepts(c)' = Accepts(c) /\ Excused(c)' = Excused(c)
<1>1. party' = party /\ members' = members /\ item' = item
  BY DEF storeVars
<1>2. Excused(c)' = Excused(c)
  BY QueriesStay DEF Excused
<1>3. Accepts(c)' = Accepts(c)
  <2>1. CASE c.op = "leave"
    BY <1>1, <2>1, QueriesStay DEF Accepts
  <2>2. CASE c.op = "delete"
    BY <1>1, <2>2, QueriesStay DEF Accepts
  <2>3. CASE c.op \in {"archive", "update", "clear"}
    BY <1>1, <2>3, QueriesStay DEF Accepts
  <2>4. CASE c.op = "remove"
    BY <1>1, <2>4, QueriesStay DEF Accepts
  <2>5. CASE c.op = "join"
    BY <1>1, <2>5, QueriesStay DEF Accepts
  <2>6. CASE c.op = "add"
    BY <1>1, <2>6, QueriesStay DEF Accepts
  <2>7. CASE c.op = "create"
    BY <1>1, <2>7, QueriesStay DEF Accepts
  <2>8. CASE c.op = "mark"
    BY <1>1, <2>8, QueriesStay DEF Accepts
  <2>9. CASE c.op = "deleteItem"
    BY <1>1, <2>9, QueriesStay DEF Accepts
  <2> QED BY <2>1, <2>2, <2>3, <2>4, <2>5, <2>6, <2>7, <2>8, <2>9 DEF Writes
<1> QED BY <1>2, <1>3

LEMMA HonoursInherited ==
    ASSUME NEW c \in Call, NEW d \in Call, Inherits(c, d), Honours(c)
    PROVE  Honours(d)
<1> SUFFICES ASSUME d.op \in Writes, d.fresh PROVE Honours(d)
  BY DEF Honours
<1>1. c.fresh /\ SameParty(c, d) /\ d.pc = c.pc /\ d.status = c.status /\ c.op \in Writes
      /\ d.page = c.page /\ d.failed = c.failed
  BY DEF Inherits, SameParty, SameRequest, SameOutcome
<1>2. Accepts(d) = Accepts(c) /\ Excused(d) = Excused(c) /\ Unchecked(d) = Unchecked(c)
  BY <1>1, SameAccepts
<1> QED BY <1>1, <1>2 DEF Honours

LEMMA HonouredKept ==
    ASSUME TypeOK, Honoured, UNCHANGED storeVars, call' \in [Slots -> Call],
           \A s \in Slots : Inherits(call[s], call'[s])
    PROVE  Honoured'
<1> SUFFICES ASSUME NEW s \in Slots, NEW d \in Call, call'[s] = d PROVE Honours(d)'
  BY DEF Honoured
<1>1. PICK c \in Call : c = call[s]
  BY DEF TypeOK
<1>2. Honours(d)
  BY <1>1, HonoursInherited DEF Honoured
<1>3. d.op \in Writes => Accepts(d)' = Accepts(d) /\ Excused(d)' = Excused(d)
  BY AcceptsStays
<1> QED BY <1>2, <1>3 DEF Honours, Unchecked

LEMMA IdleFits ==
    \A r : WellMade(Idle) /\ Answered(Idle) /\ Fits(Idle, r) /\ OnParty(Idle, r)
BY IdleCall DEF WellMade, Answered, Fits, OnParty, Writes, Reads

LEMMA LoadFits ==
    ASSUME NEW r, r.page \in Pages, r.party \in Parties \cup {None}, Loads(r.page),
           r.page \in PartyPages => r.party \in Parties
    PROVE  LET c == LoadCall(r) IN
           c \in Call /\ WellMade(c) /\ Answered(c) /\ Fits(c, r) /\ OnParty(c, r)
BY LoadCallFields DEF WellMade, Answered, Fits, OnParty, Writes, Reads

LEMMA UnmountFields ==
    ASSUME NEW calls, Requests(calls)
    PROVE  /\ Requests(Unmount(calls))
           /\ \A s \in Slots : LET d == Unmount(calls)[s] IN
                 /\ ~d.mounted /\ d.op \notin Reads
                 /\ Inherits(calls[s], d)
                 /\ d = Idle \/ d = [calls[s] EXCEPT !.mounted = FALSE]
<1>1. ASSUME NEW s \in Slots
      PROVE  LET d == Unmount(calls)[s] IN
             /\ d \in Call /\ WellMade(d) /\ Answered(d)
             /\ ~d.mounted /\ d.op \notin Reads
             /\ Inherits(calls[s], d)
             /\ d = Idle \/ d = [calls[s] EXCEPT !.mounted = FALSE]
  <2> DEFINE c == calls[s]
             d == Unmount(calls)[s]
  <2>1. c \in Call /\ WellMade(c) /\ Answered(c)
    BY DEF Requests
  <2>2. CASE c.op \in Reads \/ (c.pc = "asked" /\ c.page = "manage")
    <3>1. d = Idle
      BY <2>2 DEF Unmount
    <3>2. Idle.op \notin Reads
      BY IdleCall DEF Reads
    <3> HIDE DEF d
    <3> QED BY <3>1, <3>2, IdleCall, IdleFits DEF Inherits, d
  <2>3. CASE ~(c.op \in Reads \/ (c.pc = "asked" /\ c.page = "manage"))
    <3>1. d = [c EXCEPT !.mounted = FALSE]
      BY <2>3 DEF Unmount
    <3>2. /\ d \in Call /\ d.pc = c.pc /\ d.status = c.status /\ ~d.mounted /\ d.fresh = c.fresh
          /\ d.view = c.view /\ SameParty(c, d) /\ SameOutcome(c, d)
      BY <2>1, <3>1, Unmounts
    <3> HIDE DEF c, d
    <3>3. d.op \notin Reads
      BY <2>3, <3>2 DEF SameParty, SameRequest
    <3>4. WellMade(d) /\ Answered(d)
      BY <2>1, <3>2 DEF SameParty, SameRequest, SameOutcome, WellMade, Answered
    <3>5. Inherits(c, d)
      BY <3>2 DEF Inherits
    <3> QED BY <3>1, <3>2, <3>3, <3>4, <3>5 DEF c, d
  <2> QED BY <2>2, <2>3
<1>2. Unmount(calls) = [s \in Slots |-> Unmount(calls)[s]]
  BY DEF Unmount
<1>3. Unmount(calls) \in [Slots -> Call]
  BY <1>1, <1>2
<1> QED BY <1>1, <1>3 DEF Requests

-----------------------------------------------------------------------------
(* Pages come and go *)

LEMMA ResetPages == Resets = PartyPages \ {"payment"}
BY DEF Resets, PartyPages

LEMMA LoadKeeps ==
    ASSUME NEW calls, NEW r \in Routes, NEW t \in Tab, NEW q,
           Belong(calls, r, t.jumped), ViewFits(t.view, r),
           q.page = r.page, q.party \in Parties \cup {None}, Loads(r.page),
           r.page \in PartyPages => q.party \in Parties, t.jumped \/ q.party = r.party,
           Load(calls, q, t), route' = r
    PROVE  PageInv' /\ \A s \in Slots : Inherits(calls[s], call'[s])
<1>1. PICK s \in Slots : calls[s].pc = "idle" /\ call' = [calls EXCEPT ![s] = LoadCall(q)]
  BY LoadEffect
<1>2. TabLoads(t, calls, q, tab')
  BY LoadEffect
<1>3. calls \in [Slots -> Call]
  BY DEF Belong, Requests
<1>4. r.page \in Pages
  BY RouteFields
<1>5. LET c == LoadCall(q) IN
      /\ c \in Call /\ WellMade(c) /\ Answered(c) /\ ~c.fresh /\ c.status = "none"
      /\ c.op = "load" /\ c.page = r.page /\ c.mounted /\ c.party = q.party
  BY <1>4, LoadFits, LoadCallFields
<1>6. call' \in [Slots -> Call] /\ call'[s] = LoadCall(q)
      /\ \A z \in Slots \ {s} : call'[z] = calls[z]
  BY <1>1, <1>3, <1>5
<1>7. tab'.jumped = t.jumped /\ tab'.view = t.view /\ tab' \in Tab
  BY <1>2 DEF TabLoads
<1>8. Fits(call'[s], r) /\ (t.jumped \/ OnParty(call'[s], r))
  BY <1>5, <1>6 DEF Fits, OnParty
<1>9. Belong(call', r, t.jumped)
  BY <1>5, <1>6, <1>8 DEF Belong, Requests
<1>10. PageShowsItsParty'
  <2>1. r.page \in PartyPages \ {"payment"} => tab'.loading
    BY <1>2, ResetPages DEF TabLoads
  <2> QED BY <2>1 DEF PageShowsItsParty, AtRest
<1>11. SpinnerHasALoad'
  BY <1>5, <1>6 DEF SpinnerHasALoad
<1>12. PageInv'
  BY <1>7, <1>9, <1>10, <1>11 DEF PageInv
<1>13. \A z \in Slots : Inherits(calls[z], call'[z])
  BY <1>5, <1>6 DEF Inherits, SameParty, SameRequest, SameOutcome
<1> QED BY <1>12, <1>13

LEMMA MountKeeps ==
    ASSUME NEW calls, NEW r \in Routes, Requests(calls), Mount(calls, r)
    PROVE  PageInv' /\ \A s \in Slots : Inherits(calls[s], call'[s])
<1>1. r.page \in Pages /\ r.party \in Parties \cup {None} /\ route' = r
      /\ (r.page \in PartyPages => r.party \in Parties)
  BY RouteFields DEF Mount
<1>2. \A s \in Slots : /\ ~Unmount(calls)[s].mounted /\ Unmount(calls)[s].op \notin Reads
                       /\ Inherits(calls[s], Unmount(calls)[s])
  BY UnmountFields
<1>3. Belong(Unmount(calls), r, FALSE)
  BY <1>2, UnmountFields DEF Belong, Fits, OnParty
<1>4. /\ NewTab(r) \in Tab /\ NewTab(r).view = NoView /\ NewTab(r).jumped = FALSE
      /\ NewTab(r).loading = Loads(r.page)
  BY NewTabFields DEF Tab
<1>5. ViewFits(NoView, r)
  BY DEF ViewFits, NoView
<1>6. CASE Loads(r.page)
  <2>1. Load(Unmount(calls), r, NewTab(r))
    BY <1>6 DEF Mount
  <2>2. PageInv' /\ \A s \in Slots : Inherits(Unmount(calls)[s], call'[s])
    BY <1>1, <1>3, <1>4, <1>5, <1>6, <2>1, LoadKeeps
  <2> QED BY <1>2, <2>2, Inheritance
<1>7. CASE ~Loads(r.page)
  <2>1. call' = Unmount(calls) /\ tab' = [NewTab(r) EXCEPT !.calm = ~Busy(Unmount(calls))]
    BY <1>7 DEF Mount
  <2>2. tab' \in Tab /\ tab'.view = NoView /\ tab'.jumped = FALSE /\ ~tab'.loading
    <3> DEFINE b == ~Busy(Unmount(calls))
    <3>1. b \in BOOLEAN
      OBVIOUS
    <3> HIDE DEF b
    <3>2. tab' = [NewTab(r) EXCEPT !.calm = b]
      BY <2>1 DEF b
    <3> QED BY <1>4, <1>7, <3>1, <3>2 DEF Tab
  <2>3. r.page \notin PartyPages
    BY <1>7 DEF Loads, PartyPages
  <2>4. Belong(call', r, tab'.jumped)
    BY <1>3, <2>1, <2>2
  <2>5. PageShowsItsParty' /\ SpinnerHasALoad'
    BY <1>1, <2>2, <2>3 DEF PageShowsItsParty, SpinnerHasALoad
  <2>6. PageInv'
    BY <1>1, <1>5, <2>2, <2>4, <2>5 DEF PageInv
  <2> QED BY <1>2, <2>1, <2>6
<1> QED BY <1>6, <1>7

LEMMA TurnKeeps ==
    ASSUME PageInv, NEW calls, NEW r \in Routes, r.page = route.page, Loads(r.page),
           Belong(calls, route, tab.jumped), Turn(calls, r)
    PROVE  PageInv' /\ \A s \in Slots : Inherits(calls[s], call'[s])
<1> DEFINE j == tab.jumped \/ \E s \in Slots : calls[s].mounted
           t == [tab EXCEPT !.jumped = j]
<1>1. route' = r /\ r.party \in Parties \cup {None} /\ (r.page \in PartyPages => r.party \in Parties)
  BY RouteFields DEF Turn
<1>2. Load(calls, r, t)
  BY DEF Turn, PageInv, Tab
<1>3. j \in BOOLEAN
  OBVIOUS
<1>4. Belong(calls, r, j)
  BY DEF Belong, Fits, OnParty
<1> HIDE DEF j
<1>5. t \in Tab /\ t.jumped = j /\ t.view = tab.view
  BY <1>3 DEF PageInv, Tab
<1>6. ViewFits(t.view, r)
  BY <1>5 DEF PageInv, ViewFits
<1> HIDE DEF t
<1> QED BY <1>1, <1>2, <1>4, <1>5, <1>6, LoadKeeps

LEMMA ArriveKeeps ==
    ASSUME PageInv, NEW calls, NEW r \in Routes, Belong(calls, route, tab.jumped), Arrive(calls, r),
           tab.loading /\ route.page \in Catches =>
              \E s \in Slots : calls[s].op = "load" /\ calls[s].page = route.page /\ calls[s].mounted
    PROVE  PageInv' /\ \A s \in Slots : Inherits(calls[s], call'[s])
<1>1. CASE r = route
  <2>1. call' = calls /\ route' = route /\ tab' = tab
    BY <1>1 DEF Arrive
  <2>2. PageShowsItsParty' /\ SpinnerHasALoad'
    BY <2>1 DEF PageInv, PageShowsItsParty, SpinnerHasALoad, AtRest
  <2>3. PageInv'
    BY <2>1, <2>2 DEF PageInv
  <2> QED BY <2>1, <2>3 DEF Inherits, SameParty, SameRequest, SameOutcome
<1>2. CASE r # route /\ r.page = route.page
  <2>1. Loads(r.page)
    <3>1. r.page \notin ListPages
      BY <1>2, RouteFields DEF PageInv
    <3> QED BY <3>1 DEF Loads, ListPages
  <2> QED BY <1>2, <2>1, TurnKeeps DEF Arrive
<1>3. CASE r.page # route.page
  BY <1>3, MountKeeps DEF Arrive, Belong
<1> QED BY <1>1, <1>2, <1>3

-----------------------------------------------------------------------------
(* What the pages offer *)

\* A request of page r for party p that a button can send.
FromPage(o, page, p) ==
    /\ o \in Request
    /\ page \in From(o.op)
    /\ o.op # "create" => p \in Parties
    /\ o.op \in {"mark", "deleteItem"} => o.item \in ItemIds

LEMMA ButtonFields ==
    ASSUME NEW op \in Writes
    PROVE  /\ Button(op) \in Request /\ Button(op).op = op
           /\ Button(op).item = None /\ Button(op).users = {}
BY DEF Button, Request, Writes

LEMMA OnItemsFields ==
    ASSUME NEW op \in Writes, NEW is \in SUBSET ItemIds, NEW o \in OnItems(op, is)
    PROVE  o \in Request /\ o.op = op /\ o.item \in is /\ o.users = {}
BY DEF OnItems, Request, Writes

LEMMA HeaderOffersFit ==
    ASSUME NEW v \in View, NEW page \in Pages, NEW p, page \in PartyPages => p \in Parties,
           NEW o \in HeaderOffers(page, v)
    PROVE  FromPage(o, page, p)
<1>1. CASE page = "show"
  <2>1. PICK op \in {"archive", "delete", "leave"} : o = Button(op)
    BY <1>1 DEF HeaderOffers, ShowMenu
  <2>2. o \in Request /\ o.op = op
    BY <2>1, ButtonFields DEF Writes
  <2> QED BY <1>1, <2>2 DEF FromPage, From, PartyPages
<1>2. CASE page = "bestpay"
  <2>1. o = Button("clear")
    BY <1>2 DEF HeaderOffers, BestPayClear
  <2>2. o \in Request /\ o.op = "clear"
    BY <2>1, ButtonFields DEF Writes
  <2> QED BY <1>2, <2>2 DEF FromPage, From, PartyPages
<1> QED BY <1>1, <1>2 DEF HeaderOffers

LEMMA BodyOffersFit ==
    ASSUME NEW v \in View, NEW page \in Pages, NEW p, page \in PartyPages => p \in Parties,
           page = "add" => p = v.party, NEW ticked \in SUBSET Users,
           NEW o \in BodyOffers(page, v, ticked)
    PROVE  FromPage(o, page, p)
<1>0. v.items \in SUBSET ItemIds /\ v.mine \in SUBSET ItemIds /\ v.users \in SUBSET Users
      /\ v.party \in Parties \cup {None}
  BY DEF View
<1>1. CASE page = "show"
  <2>1. o \in OnItems("deleteItem", v.items)
    BY <1>1 DEF BodyOffers, ShowItems
  <2>2. o \in Request /\ o.op = "deleteItem" /\ o.item \in ItemIds
    BY <1>0, <2>1, OnItemsFields DEF Writes
  <2> QED BY <1>1, <2>2 DEF FromPage, From, PartyPages
<1>2. CASE page = "manage"
  <2>1. o \in OnItems("mark", v.mine) \cup OnItems("deleteItem", v.items)
    BY <1>2 DEF BodyOffers, ManageItems
  <2>2. o \in Request /\ o.op \in {"mark", "deleteItem"} /\ o.item \in ItemIds
    BY <1>0, <2>1, OnItemsFields DEF Writes
  <2> QED BY <1>2, <2>2 DEF FromPage, From, PartyPages
<1>3. CASE page = "myItems"
  <2>1. o \in OnItems("mark", v.mine)
    BY <1>3 DEF BodyOffers, MyItemsMarks
  <2>2. o \in Request /\ o.op = "mark" /\ o.item \in ItemIds
    BY <1>0, <2>1, OnItemsFields DEF Writes
  <2> QED BY <1>3, <2>2 DEF FromPage, From, PartyPages
<1>4. CASE page = "members"
  <2>1. PICK u \in Users : o = [op |-> "remove", item |-> None, users |-> {u}]
    BY <1>0, <1>4 DEF BodyOffers, Removals
  <2>2. o \in Request /\ o.op = "remove"
    BY <2>1 DEF Request
  <2> QED BY <1>4, <2>2 DEF FromPage, From, PartyPages
<1>5. CASE page \in {"invite", "edit", "create"}
  <2>1. \/ page = "invite" /\ o = Button("join")
        \/ page = "edit" /\ o = Button("update")
        \/ page = "create" /\ o = Button("create")
    BY <1>5 DEF BodyOffers, InviteJoin
  <2>2. o \in Request /\ \/ page = "invite" /\ o.op = "join"
                         \/ page = "edit" /\ o.op = "update"
                         \/ page = "create" /\ o.op = "create"
    BY <2>1, ButtonFields DEF Writes
  <2> QED BY <2>2 DEF FromPage, From, PartyPages
<1>6. CASE page = "add"
  <2>1. o = [op |-> "add", item |-> None, users |-> ticked] /\ v.party # None
    BY <1>6 DEF BodyOffers, AddSubmit
  <2>2. o \in Request /\ o.op = "add"
    BY <2>1 DEF Request
  <2> QED BY <1>0, <1>6, <2>1, <2>2 DEF FromPage, From
<1> QED BY <1>1, <1>2, <1>3, <1>4, <1>5, <1>6 DEF BodyOffers

LEMMA OffersFit ==
    ASSUME PageInv, NEW o \in Offers
    PROVE  FromPage(o, route.page, Subject)
<1>1. /\ route.page \in Pages /\ tab.view \in View /\ tab.ticked \in SUBSET Users
      /\ route.page \in PartyPages => Subject \in Parties
      /\ route.page = "add" => Subject = tab.view.party
  BY RouteFields DEF PageInv, Tab, Subject, PartyPages
<1> QED BY <1>1, HeaderOffersFit, BodyOffersFit DEF Offers

-----------------------------------------------------------------------------
(* One slot at a time *)

LEMMA SlotBelongs ==
    ASSUME NEW calls, NEW r, NEW j, Belong(calls, r, j), NEW s \in Slots, NEW d \in Call,
           WellMade(d), Answered(d), Fits(d, r), j \/ OnParty(d, r)
    PROVE  Belong([calls EXCEPT ![s] = d], r, j)
<1>1. calls \in [Slots -> Call]
  BY DEF Belong, Requests
<1>2. [calls EXCEPT ![s] = d] \in [Slots -> Call]
      /\ \A z \in Slots : [calls EXCEPT ![s] = d][z] = IF z = s THEN d ELSE calls[z]
  BY <1>1
<1> QED BY <1>2 DEF Belong, Requests

LEMMA DropBelongs ==
    ASSUME PageInv, NEW s \in Slots
    PROVE  Belong(Drop(s), route, tab.jumped) /\ Drop(s)[s] = Idle
           /\ \A z \in Slots : z # s => Drop(s)[z] = call[z]
<1>1. Belong(call, route, tab.jumped) /\ call \in [Slots -> Call]
  BY DEF PageInv, Belong, Requests
<1>2. Belong(Drop(s), route, tab.jumped)
  BY <1>1, SlotBelongs, IdleCall, IdleFits DEF Drop
<1> QED BY <1>1, <1>2 DEF Drop

LEMMA SameFits ==
    ASSUME NEW c \in Call, NEW d \in Call, NEW r, SameParty(c, d), d.mounted = c.mounted
    PROVE  /\ Fits(c, r) => Fits(d, r)
           /\ OnParty(c, r) => OnParty(d, r)
BY DEF SameParty, SameRequest, Fits, OnParty

\* A step that leaves the page alone, and its loads under way.
LEMMA PageStays ==
    ASSUME PageInv, route' = route, tab' \in Tab, tab'.jumped = tab.jumped,
           Belong(call', route, tab.jumped),
           AtRest' => AtRest /\ tab'.view.party = tab.view.party, ViewFits(tab'.view, route),
           tab'.loading => tab.loading,
           \A s \in Slots : call[s].op = "load" /\ call[s].mounted =>
              call'[s].op = "load" /\ call'[s].page = call[s].page /\ call'[s].mounted
    PROVE  PageInv'
<1>1. PageShowsItsParty'
  BY DEF PageInv, PageShowsItsParty
<1>2. SpinnerHasALoad'
  BY DEF PageInv, SpinnerHasALoad
<1> QED BY <1>1, <1>2 DEF PageInv

\* The same, when the page's state does not change at all.
LEMMA OnlyCalls ==
    ASSUME PageInv, UNCHANGED <<route, tab>>, NEW s \in Slots, NEW d \in Call,
           call' = [call EXCEPT ![s] = d],
           WellMade(d), Answered(d), Fits(d, route), tab.jumped \/ OnParty(d, route),
           call[s].op = "load" /\ call[s].mounted =>
              d.op = "load" /\ d.page = call[s].page /\ d.mounted
    PROVE  PageInv'
<1>1. Belong(call', route, tab.jumped)
  BY SlotBelongs DEF PageInv
<1>2. call \in [Slots -> Call]
  BY DEF PageInv, Belong, Requests
<1>3. \A z \in Slots : call[z].op = "load" /\ call[z].mounted =>
         call'[z].op = "load" /\ call'[z].page = call[z].page /\ call'[z].mounted
  BY <1>2
<1>4. AtRest' = AtRest
  BY DEF AtRest
<1> QED BY <1>1, <1>3, <1>4, PageStays DEF PageInv

\* A request that is new, or that went on, is granted if it is fresh.
LEMMA HonouredSlot ==
    ASSUME TypeOK, Honoured, UNCHANGED storeVars, NEW s \in Slots, NEW d \in Call, Honours(d),
           call' = [call EXCEPT ![s] = d]
    PROVE  Honoured'
<1> SUFFICES ASSUME NEW z \in Slots, NEW e \in Call, call'[z] = e PROVE Honours(e)'
  BY DEF Honoured
<1>1. call \in [Slots -> Call]
  BY DEF TypeOK
<1>2. e = d \/ e = call[z]
  BY <1>1
<1>3. Honours(e)
  BY <1>2 DEF Honoured
<1>4. e.op \in Writes => Accepts(e)' = Accepts(e) /\ Excused(e)' = Excused(e)
  BY AcceptsStays
<1> QED BY <1>3, <1>4 DEF Honours, Unchecked

\* A write makes every other request stale.
LEMMA HonouredAged ==
    ASSUME TypeOK, Honoured, call' \in [Slots -> Call],
           \A s \in Slots : /\ call'[s].pc \in {"asked", "sent"} => ~call'[s].fresh
                            /\ call'[s].status = "refused" => call'[s] = call[s]
    PROVE  Honoured'
<1> SUFFICES ASSUME NEW s \in Slots, NEW d \in Call, call'[s] = d, d.op \in Writes, d.fresh
             PROVE  Honours(d)'
  BY DEF Honoured, Honours
<1>1. d.pc \notin {"asked", "sent"}
  OBVIOUS
<1>2. d.status = "refused" => call[s] = d
  OBVIOUS
<1>3. d.status = "refused" => ~Unchecked(d) \/ d.failed
  BY <1>2 DEF Honoured, Honours
<1> QED BY <1>1, <1>3 DEF Honours, Unchecked

LEMMA StoreStays ==
    ASSUME TabInv, UNCHANGED storeVars
    PROVE  StoreInv' /\ OwnersIn'
<1>1. StoreInv'
  BY UnchangedStore DEF TabInv, TypeOK, StoreInv, StoreStep
<1>2. OwnersIn'
  BY DEF TabInv, OwnersIn, Live, storeVars
<1> QED BY <1>1, <1>2

LEMMA StoreWritten ==
    ASSUME TabInv, Written
    PROVE  StoreInv' /\ OwnersIn'
BY WrittenKeeps DEF TabInv, TypeOK, StoreInv

LEMMA Assembles ==
    ASSUME StoreInv', OwnersIn', Honoured', PageInv',
           used' \in [{"moves", "writes", "elsewhere", "lost"} -> Nat]
    PROVE  TabInv'
BY DEF TabInv, TypeOK, StoreInv, PageInv, Belong, Requests

LEMMA SpendTyped ==
    ASSUME TypeOK, NEW what \in {"moves", "writes", "elsewhere", "lost"}, NEW bound,
           Spend(what, bound)
    PROVE  used' \in [{"moves", "writes", "elsewhere", "lost"} -> Nat]
BY DEF TypeOK, Spend

-----------------------------------------------------------------------------
(* Links, and the requests a button makes *)

LEMMA LinkRoutes ==
    ASSUME PageInv
    PROVE  Links \subseteq Routes
<1>1. route \in Routes /\ tab.view \in View
  BY DEF PageInv, Tab
<1>2. HeaderLinks(route, tab.view) \subseteq Routes
  BY <1>1, HeaderRoutes
<1>3. BodyLinks(route, tab.view) \subseteq Routes
  BY <1>1, BodyRoutes DEF PageInv, ViewFits
<1>4. At("home", None) \in Routes
  BY ListRoute DEF ListPages
<1> QED BY <1>2, <1>3, <1>4 DEF Links

LEMMA MadeFields ==
    ASSUME PageInv, NEW o \in Offers, NEW pc \in {"asked", "sent"}
    PROVE  LET c == Made(o, pc) IN
           /\ c \in Call /\ WellMade(c) /\ Answered(c) /\ Fits(c, route) /\ OnParty(c, route)
           /\ c.pc = pc /\ c.op = o.op /\ c.op \in Writes /\ c.page = route.page
           /\ c.party = Subject /\ c.item = o.item /\ c.users = o.users /\ c.mounted
           /\ c.status = "none"
           /\ c.fresh => Current /\ o.users \subseteq tab.view.users
<1> DEFINE paid == o.item \in ItemIds \ tab.view.paid
           fresh == Current /\ o.users \subseteq tab.view.users
           c == Made(o, pc)
<1>1. FromPage(o, route.page, Subject) /\ o \in Request
  BY OffersFit DEF FromPage
<1>2. o.op \in Writes /\ o.item \in ItemIds \cup {None} /\ o.users \in SUBSET Users
  BY <1>1 DEF Request, Writes
<1>3. route.page \in Pages /\ route.party \in Parties \cup {None} /\ tab.view \in View
  BY RouteFields DEF PageInv, Tab
<1>4. Subject \in Parties \cup {None}
  BY <1>3 DEF Subject, View
<1>5. paid \in BOOLEAN /\ fresh \in BOOLEAN
  BY DEF Current
<1>6. c = [pc |-> pc, op |-> o.op, page |-> route.page, party |-> Subject, item |-> o.item,
           users |-> o.users, paid |-> paid, mounted |-> TRUE, fresh |-> fresh,
           done |-> FALSE, failed |-> FALSE, status |-> "none", view |-> NoView]
  BY DEF Made
<1> HIDE DEF paid, fresh, c
<1>7. /\ c.pc = pc /\ c.op = o.op /\ c.page = route.page /\ c.party = Subject
      /\ c.item = o.item /\ c.users = o.users /\ c.mounted /\ c.status = "none"
      /\ c.fresh = fresh
  BY <1>6
<1>8. c \in Call
  BY <1>2, <1>3, <1>4, <1>5, <1>6, IdleCall DEF Call
<1>9. o.op \notin Reads
  BY <1>2 DEF Writes, Reads
<1>10. WellMade(c) /\ Answered(c)
  BY <1>1, <1>2, <1>7, <1>9 DEF WellMade, Answered, FromPage, Writes, Reads
<1>11. Fits(c, route)
  BY <1>7 DEF Fits
<1>12. OnParty(c, route)
  BY <1>7 DEF OnParty, Subject, PartyPages
<1>13. c.fresh => Current /\ o.users \subseteq tab.view.users
  BY <1>7 DEF fresh
<1> QED BY <1>2, <1>7, <1>8, <1>10, <1>11, <1>12, <1>13 DEF c

\* What a header offers over a current view.
LEMMA HeaderHonoured ==
    ASSUME StoreTypeOK, NEW page \in Pages, NEW p, page \in PartyPages => p \in Parties,
           MayRead(page, p), NEW o \in HeaderOffers(page, ViewOf(page, p)),
           NEW c, c.op = o.op, c.op # "create" => c.party = p
    PROVE  Accepts(c) \/ Excused(c)
<1>1. CASE page = "show"
  <2>1. p \in Parties /\ ViewOf(page, p) = ShowView(p) /\ Member(p)
    BY <1>1 DEF PartyPages, ViewOf, MayRead
  <2>2. PICK op \in {"archive", "delete", "leave"} :
            /\ o = Button(op)
            /\ op \in {"archive", "delete"} => Owner(p) /\ ~Archived(p)
            /\ op = "leave" => ~Owner(p)
    BY <1>1, <2>1, ShowFields DEF HeaderOffers, ShowMenu
  <2>3. c.op = op
    BY <2>2 DEF Button
  <2>4. c.party = p
    BY <2>3
  <2> QED BY <2>1, <2>2, <2>3, <2>4 DEF Accepts, Excused
<1>2. CASE page = "bestpay"
  <2>1. p \in Parties /\ ViewOf(page, p) = BestPayView(p) /\ Member(p)
    BY <1>2 DEF PartyPages, ViewOf, MayRead
  <2>2. o = Button("clear") /\ Owner(p)
    BY <1>2, <2>1, BestPayFields DEF HeaderOffers, BestPayClear
  <2>3. c.op = "clear"
    BY <2>2 DEF Button
  <2>4. c.party = p
    BY <2>3
  <2> QED BY <2>2, <2>3, <2>4 DEF Accepts, Excused
<1> QED BY <1>1, <1>2 DEF HeaderOffers

LEMMA BodyHonoured ==
    ASSUME StoreTypeOK, NEW page \in Pages, NEW p \in Parties \cup {None},
           page \in PartyPages => p \in Parties,
           NEW v, v = ViewOf(page, p), MayRead(page, p), NEW ticked \in SUBSET Users,
           page = "manage" /\ ~v.owner => v.items = {} /\ v.mine = {},
           page = "add" /\ p # None => p \in v.parties,
           NEW o \in BodyOffers(page, v, ticked), o.users \subseteq v.users,
           NEW c, c.op = o.op, c.op # "create" => c.party = p, c.item = o.item, c.users = o.users
    PROVE  Accepts(c) \/ Excused(c)
<1>1. CASE page \in {"show", "manage", "myItems"}
  <2>1. p \in Parties /\ Member(p)
    BY <1>1 DEF PartyPages, MayRead
  <2>2. \A op, is : o \in OnItems(op, is) => c.op = op /\ c.item \in is
    BY DEF OnItems
  <2>3. ASSUME NEW i \in ItemsOf(p), c.item = i, c.op = "deleteItem", Owner(p), ~Archived(p)
        PROVE  Accepts(c)
    BY <2>3 DEF ItemsOf, Accepts
  <2>4. ASSUME NEW i \in ItemsOf(p), c.item = i, c.op = "mark", item[i].initiator = Me,
               ~Archived(p)
        PROVE  Accepts(c)
    BY <2>1, <2>4 DEF ItemsOf, Accepts
  <2>5. CASE page = "show"
    <3>1. o \in OnItems("deleteItem", ItemsOf(p)) /\ Owner(p) /\ ~Archived(p)
      BY <2>1, <2>5, ShowFields DEF BodyOffers, ShowItems, ViewOf
    <3> QED BY <2>2, <2>3, <3>1
  <2>6. CASE page = "manage"
    <3>1. /\ v.owner = Owner(p) /\ v.archived = Archived(p) /\ v.items = ItemsOf(p)
          /\ v.mine = {i \in ItemsOf(p) : item[i].initiator = Me}
      BY <2>1, <2>6, ManageFields DEF ViewOf
    <3>2. ~v.archived /\ o \in OnItems("mark", v.mine) \cup OnItems("deleteItem", v.items)
      BY <2>6 DEF BodyOffers, ManageItems
    <3>3. c.item \in v.items \cup v.mine
      BY <2>2, <3>2
    <3>4. Owner(p)
      BY <2>6, <3>1, <3>3
    <3>5. CASE o \in OnItems("mark", v.mine)
      BY <2>2, <2>4, <3>1, <3>2, <3>5
    <3>6. CASE o \in OnItems("deleteItem", v.items)
      BY <2>2, <2>3, <3>1, <3>2, <3>4, <3>6
    <3> QED BY <3>2, <3>5, <3>6
  <2>7. CASE page = "myItems"
    <3>1. o \in OnItems("mark", {i \in Related(p, Me) : item[i].initiator = Me}) /\ ~Archived(p)
      BY <2>1, <2>7, MyItemsFields DEF BodyOffers, MyItemsMarks, ViewOf
    <3> QED BY <2>2, <2>4, <3>1 DEF Related
  <2> QED BY <1>1, <2>5, <2>6, <2>7
<1>2. CASE page = "members"
  <2>1. p \in Parties /\ v = MembersView(p)
    BY <1>2 DEF PartyPages, ViewOf
  <2>2. Owner(p) /\ ~Archived(p) /\ o \in {[op |-> "remove", item |-> None, users |-> {u}] :
                                             u \in members[p] \ {Me}}
    BY <1>2, <2>1, MembersFields DEF BodyOffers, Removals
  <2>3. c.op = "remove" /\ \A u \in c.users : u \in members[p] \ {Me}
    BY <2>2
  <2>4. c.party = p
    BY <2>3
  <2> QED BY <2>2, <2>3, <2>4 DEF Accepts, Excused
<1>3. CASE page = "invite"
  <2>1. o = Button("join") /\ Open(p)
    BY <1>3 DEF BodyOffers, InviteJoin, MayRead
  <2>2. c.op = "join" /\ c.party = p
    BY <2>1 DEF Button
  <2> QED BY <2>1, <2>2 DEF Accepts
<1>4. CASE page = "edit"
  <2>1. o = Button("update") /\ Owner(p) /\ ~Archived(p)
    BY <1>4 DEF BodyOffers, MayRead
  <2>2. c.op = "update" /\ c.party = p
    BY <2>1 DEF Button
  <2> QED BY <2>1, <2>2 DEF Accepts
<1>5. CASE page = "create"
  <2>1. c.op = "create"
    BY <1>5 DEF BodyOffers, Button
  <2> QED BY <2>1 DEF Accepts
<1>6. CASE page = "add"
  <2>1. v = AddView(p)
    BY <1>6 DEF ViewOf
  <2>2. v.party = p /\ v.parties = Choices /\ v.users = IF p = None THEN {} ELSE members[p]
    BY <2>1, AddFields
  <2>3. c.op = "add" /\ p # None
    BY <1>6, <2>2 DEF BodyOffers, AddSubmit
  <2>4. c.party = p
    BY <2>3
  <2>5. p \in Choices /\ c.users \subseteq members[p]
    BY <1>6, <2>2, <2>3
  <2>6. Open(p) /\ Me \in members[p]
    BY <2>5 DEF Choices, Member
  <2> QED BY <2>3, <2>4, <2>5, <2>6 DEF Accepts
<1> QED BY <1>1, <1>2, <1>3, <1>4, <1>5, <1>6 DEF BodyOffers

LEMMA MadeHonoured ==
    ASSUME TabInv, NEW o \in Offers, NEW pc \in {"asked", "sent"}
    PROVE  Honours(Made(o, pc))
<1> DEFINE c == Made(o, pc)
<1>0. PageInv /\ StoreTypeOK
  BY DEF TabInv, TypeOK
<1>1. /\ c.op = o.op /\ c.page = route.page /\ c.party = Subject /\ c.item = o.item
      /\ c.users = o.users /\ c.status = "none"
      /\ c.fresh => Current /\ o.users \subseteq tab.view.users
  BY <1>0, MadeFields
<1> HIDE DEF c
<1> SUFFICES ASSUME c.fresh PROVE Accepts(c) \/ Excused(c)
  BY <1>1 DEF Honours, c
<1>2. /\ AtRest /\ MayRead(route.page, Subject) /\ tab.view = ViewOf(route.page, Subject)
      /\ route.page = "add" /\ Subject # None => Subject \in tab.view.parties
      /\ o.users \subseteq tab.view.users
  BY <1>1 DEF Current
<1>3. /\ route.page \in Pages /\ tab.view \in View /\ tab.ticked \in SUBSET Users
      /\ Subject \in Parties \cup {None} /\ (route.page \in PartyPages => Subject \in Parties)
  BY <1>0, RouteFields DEF PageInv, Tab, Subject, PartyPages, View
<1>4. CASE o \in HeaderOffers(route.page, tab.view)
  BY <1>0, <1>1, <1>2, <1>3, <1>4, HeaderHonoured
<1>5. CASE o \in BodyOffers(route.page, tab.view, tab.ticked)
  BY <1>0, <1>1, <1>2, <1>3, <1>5, BodyHonoured DEF PageInv, ViewFits
<1> QED BY <1>2, <1>4, <1>5 DEF Offers

-----------------------------------------------------------------------------
(* Every action keeps TabInv: what the user does *)

\* A step that writes nothing, and leaves of the requests what it should.
LEMMA QuietStep ==
    ASSUME TabInv, UNCHANGED storeVars, PageInv', \A s \in Slots : Inherits(call[s], call'[s]),
           used' \in [{"moves", "writes", "elsewhere", "lost"} -> Nat]
    PROVE  TabInv'
<1>1. call' \in [Slots -> Call]
  BY DEF PageInv, Belong, Requests
<1>2. Honoured'
  BY <1>1, HonouredKept DEF TabInv
<1> QED BY <1>2, StoreStays, Assembles

\* The same, where one slot gets a request that is new or that went on.
LEMMA SlotStep ==
    ASSUME TabInv, UNCHANGED storeVars, PageInv', NEW s \in Slots, NEW d \in Call, Honours(d),
           call' = [call EXCEPT ![s] = d],
           used' \in [{"moves", "writes", "elsewhere", "lost"} -> Nat]
    PROVE  TabInv'
<1>1. Honoured'
  BY HonouredSlot DEF TabInv
<1> QED BY <1>1, StoreStays, Assembles

LEMMA UsedStays ==
    ASSUME TabInv, used' = used
    PROVE  used' \in [{"moves", "writes", "elsewhere", "lost"} -> Nat]
BY DEF TabInv, TypeOK

LEMMA ArriveStep ==
    ASSUME TabInv, NEW r \in Routes, Arrive(call, r), Spend("moves", MaxMoves), UNCHANGED storeVars
    PROVE  TabInv'
<1>1. PageInv' /\ \A s \in Slots : Inherits(call[s], call'[s])
  BY ArriveKeeps DEF TabInv, PageInv, SpinnerHasALoad
<1>2. used' \in [{"moves", "writes", "elsewhere", "lost"} -> Nat]
  BY SpendTyped DEF TabInv
<1> QED BY <1>1, <1>2, QuietStep

LEMMA FollowStep == TabInv /\ Follow => TabInv'
BY ArriveStep, LinkRoutes DEF Follow, TabInv

LEMMA VisitStep == TabInv /\ Visit => TabInv'
BY ArriveStep DEF Visit

LEMMA AskStep == TabInv /\ Ask => TabInv'
<1> SUFFICES ASSUME TabInv, Ask PROVE TabInv'
  OBVIOUS
<1>1. PICK o \in Offers : call' = Put(call, Made(o, "asked"))
  BY DEF Ask
<1>2. PICK s \in Slots : /\ call[s].pc = "idle"
                         /\ call' = [call EXCEPT ![s] = Made(o, "asked")]
  BY <1>1, PutOne DEF Ask
<1>3. LET c == Made(o, "asked") IN
      /\ c \in Call /\ WellMade(c) /\ Answered(c) /\ Fits(c, route) /\ OnParty(c, route)
  BY MadeFields DEF TabInv
<1>4. call[s].op # "load"
  BY <1>2 DEF TabInv, PageInv, Belong, Requests, WellMade
<1>5. PageInv'
  BY <1>2, <1>3, <1>4, OnlyCalls DEF TabInv, Ask
<1>6. Honours(Made(o, "asked"))
  BY MadeHonoured
<1> QED BY <1>2, <1>3, <1>5, <1>6, SlotStep, UsedStays DEF Ask

LEMMA CancelStep == \A s \in Slots : TabInv /\ Cancel(s) => TabInv'
<1> SUFFICES ASSUME NEW s \in Slots, TabInv, Cancel(s) PROVE TabInv'
  OBVIOUS
<1>1. call' = [call EXCEPT ![s] = Idle]
  BY DEF Cancel, Drop
<1>2. call[s].op # "load"
  BY DEF Cancel, TabInv, PageInv, Belong, Requests, WellMade, Reads
<1>3. PageInv'
  BY <1>1, <1>2, OnlyCalls, IdleCall, IdleFits DEF TabInv, Cancel
<1>4. Honours(Idle)
  BY IdleCall DEF Honours
<1> QED BY <1>1, <1>3, <1>4, SlotStep, IdleCall, UsedStays DEF Cancel

\* calm is history, the page does not show it.
LEMMA CalmFields ==
    ASSUME NEW t \in Tab, NEW b, b \in BOOLEAN
    PROVE  LET d == [t EXCEPT !.calm = b] IN
           /\ d \in Tab /\ d.loading = t.loading /\ d.err = t.err /\ d.view = t.view
           /\ d.ticked = t.ticked /\ d.jumped = t.jumped
BY DEF Tab

LEMMA CalmStays ==
    ASSUME PageInv, route' = route, NEW b, b \in BOOLEAN, tab' = [tab EXCEPT !.calm = b],
           NEW s \in Slots, NEW d \in Call, call' = [call EXCEPT ![s] = d],
           WellMade(d), Answered(d), Fits(d, route), tab.jumped \/ OnParty(d, route),
           call[s].op = "load" /\ call[s].mounted =>
              d.op = "load" /\ d.page = call[s].page /\ d.mounted
    PROVE  PageInv'
<1>1. Belong(call', route, tab.jumped) /\ call \in [Slots -> Call]
  BY SlotBelongs DEF PageInv, Belong, Requests
<1>2. tab' \in Tab /\ tab'.loading = tab.loading /\ tab'.err = tab.err /\ tab'.view = tab.view
      /\ tab'.jumped = tab.jumped
  BY CalmFields DEF PageInv
<1>3. \A z \in Slots : call[z].op = "load" /\ call[z].mounted =>
         call'[z].op = "load" /\ call'[z].page = call[z].page /\ call'[z].mounted
  BY <1>1
<1>4. AtRest' = AtRest
  BY <1>2 DEF AtRest
<1> QED BY <1>1, <1>2, <1>3, <1>4, PageStays DEF PageInv

LEMMA ConfirmStep == \A s \in Slots : TabInv /\ Confirm(s) => TabInv'
<1> SUFFICES ASSUME NEW s \in Slots, TabInv, Confirm(s) PROVE TabInv'
  OBVIOUS
<1> DEFINE c == call[s]
           d == [c EXCEPT !.pc = "sent"]
           b == tab.calm /\ ~Busy(call) /\ c.mounted
<1>1. c \in Call /\ WellMade(c) /\ Answered(c) /\ Fits(c, route) /\ (tab.jumped \/ OnParty(c, route))
      /\ Honours(c) /\ c.pc = "asked"
  BY DEF TabInv, PageInv, Belong, Requests, Honoured, Confirm
<1>2. /\ d \in Call /\ d.pc = "sent" /\ d.status = c.status /\ d.mounted = c.mounted
      /\ d.fresh = c.fresh /\ d.view = c.view /\ SameParty(c, d)
  BY <1>1, Sends
<1>3. call' = [call EXCEPT ![s] = d]
  BY DEF Confirm, TabInv, TypeOK, Call
<1>4. tab' = [tab EXCEPT !.calm = b]
  BY DEF Confirm, TabInv, PageInv, Tab
<1>5. b \in BOOLEAN
  OBVIOUS
<1>6. call[s] = c
  OBVIOUS
<1> HIDE DEF b, c, d
<1>7. c.op \in Writes /\ c.op # "load" /\ c.status = "none"
  BY <1>1 DEF WellMade, Call, Reads, Writes
<1>8. WellMade(d) /\ Answered(d)
  BY <1>1, <1>2, <1>7 DEF WellMade, Answered, SameParty, SameRequest, Writes, Reads
<1>9. Fits(d, route) /\ (tab.jumped \/ OnParty(d, route))
  BY <1>1, <1>2, SameFits
<1>10. PageInv'
  BY <1>3, <1>4, <1>5, <1>6, <1>2, <1>7, <1>8, <1>9, CalmStays DEF TabInv, Confirm
<1>11. Honours(d)
  <2>1. Accepts(d) = Accepts(c) /\ Excused(d) = Excused(c)
    BY <1>2, <1>7, SameAccepts
  <2> QED BY <1>1, <1>2, <1>7, <2>1 DEF Honours
<1>12. used' \in [{"moves", "writes", "elsewhere", "lost"} -> Nat]
  BY SpendTyped DEF TabInv, Confirm
<1> QED BY <1>2, <1>3, <1>10, <1>11, <1>12, SlotStep DEF Confirm

LEMMA ClickStep == TabInv /\ Click => TabInv'
<1> SUFFICES ASSUME TabInv, Click PROVE TabInv'
  OBVIOUS
<1> DEFINE b == tab.calm /\ ~Busy(call)
<1>1. PICK o \in Offers : call' = Put(call, Made(o, "sent"))
  BY DEF Click
<1>2. PICK s \in Slots : /\ call[s].pc = "idle"
                         /\ call' = [call EXCEPT ![s] = Made(o, "sent")]
  BY <1>1, PutOne DEF Click
<1>3. LET c == Made(o, "sent") IN
      /\ c \in Call /\ WellMade(c) /\ Answered(c) /\ Fits(c, route) /\ OnParty(c, route)
  BY MadeFields DEF TabInv
<1>4. call[s].op # "load"
  BY <1>2 DEF TabInv, PageInv, Belong, Requests, WellMade
<1>5. tab' = [tab EXCEPT !.calm = b] /\ b \in BOOLEAN
  BY DEF Click, TabInv, PageInv, Tab
<1> HIDE DEF b
<1>6. PageInv'
  BY <1>2, <1>3, <1>4, <1>5, CalmStays DEF TabInv, Click
<1>7. Honours(Made(o, "sent"))
  BY MadeHonoured
<1>8. used' \in [{"moves", "writes", "elsewhere", "lost"} -> Nat]
  BY SpendTyped DEF TabInv, Click
<1> QED BY <1>2, <1>3, <1>6, <1>7, <1>8, SlotStep DEF Click

\* items/add is no page of a party, and its load catches nothing.
LEMMA AddPage ==
    ASSUME route \in Routes, route.page = "add", route' = route, tab' \in Tab,
           Belong(call', route, tab'.jumped)
    PROVE  PageInv'
<1>1. "add" \notin PartyPages \cup Catches
  BY DEF PartyPages, Catches
<1> QED BY <1>1 DEF PageInv, ViewFits, PageShowsItsParty, SpinnerHasALoad

LEMMA PickKeeps ==
    ASSUME route \in Routes, route.page = "add", route' = route, NEW calls, NEW t \in Tab,
           NEW p \in Parties, Belong(calls, route, t.jumped), Pick(calls, t, p)
    PROVE  PageInv' /\ \A s \in Slots : Inherits(calls[s], call'[s])
<1> DEFINE c == [LoadCall(At("add", p)) EXCEPT !.op = "info"]
           v == [t.view EXCEPT !.party = p]
           b == t.calm /\ ~Busy(calls)
<1>0. Room(calls) /\ call' = Put(calls, c)
  BY DEF Pick
<1> HIDE DEF c
<1>1. PICK s \in Slots : calls[s].pc = "idle" /\ call' = [calls EXCEPT ![s] = c]
  BY <1>0, PutOne
<1>2. /\ c \in Call /\ c.pc = "sent" /\ c.op = "info" /\ c.page = "add" /\ c.party = p
      /\ c.mounted /\ ~c.fresh /\ c.status = "none" /\ c.view = NoView
  BY InfoCallFields DEF c
<1>3. tab' = [[t EXCEPT !.view = v] EXCEPT !.calm = b]
  BY DEF Pick, Tab
<1>4. v \in View /\ b \in BOOLEAN
  BY DEF Tab, View
<1> HIDE DEF v, b
<1>5. tab' \in Tab /\ tab'.jumped = t.jumped
  BY <1>3, <1>4 DEF Tab
<1>6. "add" \notin PartyPages
  BY DEF PartyPages
<1>7. WellMade(c) /\ Answered(c) /\ Fits(c, route) /\ OnParty(c, route)
  BY <1>2, <1>6 DEF WellMade, Answered, Fits, OnParty, Reads, Writes
<1>8. Belong(call', route, tab'.jumped)
  BY <1>1, <1>2, <1>5, <1>7, SlotBelongs
<1>9. PageInv'
  BY <1>5, <1>8, AddPage
<1>10. calls \in [Slots -> Call]
  BY DEF Belong, Requests
<1>11. \A z \in Slots : Inherits(calls[z], call'[z])
  BY <1>1, <1>2, <1>10 DEF Inherits, SameParty, SameRequest, SameOutcome
<1> QED BY <1>9, <1>11

LEMMA PickPartyStep == TabInv /\ PickParty => TabInv'
<1> SUFFICES ASSUME TabInv, PickParty PROVE TabInv'
  OBVIOUS
<1>1. PICK p \in tab.view.parties : Pick(call, tab, p)
  BY DEF PickParty
<1>2. p \in Parties
  BY DEF TabInv, PageInv, Tab, View
<1>3. PageInv' /\ \A s \in Slots : Inherits(call[s], call'[s])
  BY <1>1, <1>2, PickKeeps DEF TabInv, PageInv, PickParty
<1>4. used' \in [{"moves", "writes", "elsewhere", "lost"} -> Nat]
  BY SpendTyped DEF TabInv, PickParty
<1> QED BY <1>3, <1>4, QuietStep DEF PickParty

LEMMA TickStep == TabInv /\ Tick => TabInv'
<1> SUFFICES ASSUME TabInv, Tick PROVE TabInv'
  OBVIOUS
<1>1. PICK us \in SUBSET tab.view.users : tab' = [tab EXCEPT !.ticked = us]
  BY DEF Tick
<1>2. us \in SUBSET Users
  BY DEF TabInv, PageInv, Tab, View
<1>3. tab' \in Tab /\ tab'.jumped = tab.jumped
  BY <1>1, <1>2 DEF TabInv, PageInv, Tab
<1>4. PageInv'
  BY <1>3, AddPage DEF TabInv, PageInv, Tick
<1>5. \A s \in Slots : Inherits(call[s], call'[s])
  BY DEF Tick, Inherits, SameParty, SameRequest, SameOutcome
<1> QED BY <1>4, <1>5, QuietStep, UsedStays DEF Tick

-----------------------------------------------------------------------------
(* The server *)

\* What TabInv says of one request.
LEMMA OneRequest ==
    ASSUME TabInv, NEW s \in Slots
    PROVE  LET c == call[s] IN
           /\ c \in Call /\ WellMade(c) /\ Answered(c) /\ Honours(c)
           /\ Fits(c, route) /\ (tab.jumped \/ OnParty(c, route))
BY DEF TabInv, PageInv, Belong, Requests, Honoured

LEMMA ServeReadStep == \A s \in Slots : TabInv /\ ServeRead(s) => TabInv'
<1> SUFFICES ASSUME NEW s \in Slots, TabInv, ServeRead(s) PROVE TabInv'
  OBVIOUS
<1> DEFINE c == call[s]
           v == ViewOf(c.page, c.party)
           yes == [[[c EXCEPT !.pc = "answered"] EXCEPT !.status = "ok"] EXCEPT !.view = v]
           no == [[c EXCEPT !.pc = "answered"] EXCEPT !.status = "refused"]
           may == MayRead(IF c.op = "info" THEN "show" ELSE c.page, c.party)
<1>1. c \in Call /\ WellMade(c) /\ Answered(c) /\ Fits(c, route) /\ (tab.jumped \/ OnParty(c, route))
      /\ c.pc = "sent" /\ c.op \in Reads
  BY OneRequest DEF ServeRead
<1>2. c.page \in Pages /\ c.party \in Parties \cup {None}
      /\ (c.page \in PartyPages => c.party \in Parties)
  BY <1>1 DEF WellMade, Call
<1>3. v \in View /\ (c.page \in PartyPages => v.party = c.party)
  BY <1>2, ViewOfFields DEF TabInv, TypeOK
<1>4. \/ call' = [call EXCEPT ![s] = yes] /\ may
      \/ call' = [call EXCEPT ![s] = no] /\ ~may
  <2>1. call' = IF may THEN [Reply(s, "ok") EXCEPT ![s].view = v] ELSE Reply(s, "refused")
    BY DEF ServeRead
  <2> HIDE DEF v, may
  <2>2. call \in [Slots -> Call]
    BY DEF TabInv, TypeOK
  <2>3. [Reply(s, "ok") EXCEPT ![s].view = v] = [call EXCEPT ![s] = yes]
    BY <2>2 DEF Reply, Call
  <2>4. Reply(s, "refused") = [call EXCEPT ![s] = no]
    BY <2>2 DEF Reply, Call
  <2> HIDE DEF yes, no
  <2>5. CASE may
    BY <2>1, <2>3, <2>5
  <2>6. CASE ~may
    BY <2>1, <2>4, <2>6
  <2> QED BY <2>5, <2>6
<1>6. call[s] = c
  OBVIOUS
<1>7. /\ yes \in Call /\ yes.pc = "answered" /\ yes.status = "ok" /\ yes.mounted = c.mounted
      /\ yes.view = v /\ SameParty(c, yes)
  <2>1. WithView(c, yes, v)
    BY <1>1, <1>3, AnswersWith
  <2> HIDE DEF c, yes, v
  <2> QED BY <2>1 DEF WithView, OkAnswer
<1>8. /\ no \in Call /\ no.pc = "answered" /\ no.status = "refused" /\ no.mounted = c.mounted
      /\ SameParty(c, no)
  BY <1>1, Answers
<1> HIDE DEF c, v, yes, no, may
<1>9. ASSUME NEW d \in {yes, no}, call' = [call EXCEPT ![s] = d], d = yes \/ ~may
      PROVE  TabInv'
  <2>1. d \in Call /\ SameParty(c, d) /\ d.mounted = c.mounted /\ d.pc = "answered"
        /\ d.status \in {"ok", "refused"} /\ (d.status = "ok" => d.view = v)
        /\ (d.status = "refused" => ~may)
    BY <1>7, <1>8, <1>9
  <2>2. d.op = c.op /\ d.page = c.page /\ d.party = c.party
    BY <2>1 DEF SameParty, SameRequest
  <2>3. d.op \notin Writes
    BY <1>1, <2>2 DEF Reads, Writes
  <2>4. WellMade(d)
    BY <1>1, <2>1, <2>2, <2>3 DEF WellMade, Reads
  <2>5. Answered(d)
    BY <1>3, <2>1, <2>2, <2>3 DEF Answered
  <2>6. Fits(d, route) /\ (tab.jumped \/ OnParty(d, route))
    BY <1>1, <2>1, SameFits
  <2>7. PageInv'
    BY <1>6, <1>9, <2>1, <2>2, <2>4, <2>5, <2>6, OnlyCalls DEF ServeRead, TabInv
  <2>8. Honours(d)
    BY <2>3 DEF Honours
  <2> QED BY <1>9, <2>1, <2>7, <2>8, SlotStep, UsedStays DEF ServeRead
<1> QED BY <1>4, <1>9

LEMMA RefuseStep == \A s \in Slots : TabInv /\ Refuse(s) => TabInv'
<1> SUFFICES ASSUME NEW s \in Slots, TabInv, Refuse(s) PROVE TabInv'
  OBVIOUS
<1> DEFINE c == call[s]
           d == [[c EXCEPT !.pc = "answered"] EXCEPT !.status = "refused"]
<1>1. c \in Call /\ WellMade(c) /\ Answered(c) /\ Fits(c, route) /\ (tab.jumped \/ OnParty(c, route))
      /\ Honours(c) /\ c.pc = "sent" /\ c.op \in Writes /\ ~Accepts(c)
  BY OneRequest DEF Refuse
<1>2. call' = [call EXCEPT ![s] = d]
  BY DEF Refuse, Reply, TabInv, TypeOK, Call
<1>3. /\ d \in Call /\ d.pc = "answered" /\ d.status = "refused" /\ d.mounted = c.mounted
      /\ d.fresh = c.fresh /\ SameParty(c, d)
  BY <1>1, Answers
<1>4. call[s] = c
  OBVIOUS
<1> HIDE DEF c, d
<1>5. d.op = c.op /\ d.page = c.page /\ d.party = c.party /\ d.item = c.item
  BY <1>3 DEF SameParty, SameRequest
<1>6. WellMade(d) /\ Answered(d) /\ c.op # "load"
  BY <1>1, <1>3, <1>5 DEF WellMade, Answered, Writes, Reads
<1>7. Fits(d, route) /\ (tab.jumped \/ OnParty(d, route))
  BY <1>1, <1>3, SameFits
<1>8. PageInv'
  BY <1>2, <1>3, <1>4, <1>6, <1>7, OnlyCalls DEF TabInv, Refuse
<1>9. Honours(d)
  <2>1. c.fresh => Excused(c)
    BY <1>1 DEF Honours
  <2>2. Excused(c) => ~Unchecked(d)
    BY <1>5 DEF Excused, Unchecked
  <2> QED BY <1>3, <2>1, <2>2 DEF Honours
<1> QED BY <1>2, <1>3, <1>8, <1>9, SlotStep, UsedStays DEF Refuse

LEMMA LoseStep == \A s \in Slots : TabInv /\ Lose(s) => TabInv'
<1> SUFFICES ASSUME NEW s \in Slots, TabInv, Lose(s) PROVE TabInv'
  OBVIOUS
<1> DEFINE c == call[s]
           d == [[[c EXCEPT !.pc = "answered"] EXCEPT !.status = "lost"] EXCEPT !.view = NoView]
<1>1. c \in Call /\ WellMade(c) /\ Answered(c) /\ Fits(c, route) /\ (tab.jumped \/ OnParty(c, route))
      /\ c.pc \in {"sent", "answered"}
  BY OneRequest DEF Lose
<1>2. call' = [call EXCEPT ![s] = d]
  BY DEF Lose, TabInv, TypeOK, Call
<1>3. /\ d \in Call /\ d.pc = "answered" /\ d.status = "lost" /\ d.mounted = c.mounted
      /\ d.fresh = c.fresh /\ SameParty(c, d)
  BY <1>1, Loses
<1>4. call[s] = c
  OBVIOUS
<1> HIDE DEF c, d
<1>5. d.op = c.op /\ d.page = c.page /\ d.party = c.party /\ d.item = c.item
  BY <1>3 DEF SameParty, SameRequest
<1>6. WellMade(d) /\ Answered(d)
  BY <1>1, <1>3, <1>5 DEF WellMade, Answered, Writes, Reads
<1>7. Fits(d, route) /\ (tab.jumped \/ OnParty(d, route))
  BY <1>1, <1>3, SameFits
<1>8. PageInv'
  BY <1>2, <1>3, <1>4, <1>5, <1>6, <1>7, CalmStays DEF TabInv, Lose
<1>9. Honours(d)
  BY <1>3 DEF Honours
<1>10. used' \in [{"moves", "writes", "elsewhere", "lost"} -> Nat]
  BY SpendTyped DEF TabInv, Lose
<1> QED BY <1>2, <1>3, <1>8, <1>9, <1>10, SlotStep DEF Lose

\* The request c, when somebody has written since.
Aged(c, d) ==
    /\ d.op = c.op /\ d.page = c.page /\ d.mounted = c.mounted
    /\ d.pc = c.pc /\ d.status = c.status
    /\ d.pc \in {"asked", "sent"} => ~d.fresh
    /\ d.pc \notin {"asked", "sent"} => d = c

LEMMA StaleBelongs ==
    ASSUME NEW calls, NEW r, NEW j, Belong(calls, r, j)
    PROVE  Belong(Stale(calls), r, j) /\ \A s \in Slots : Aged(calls[s], Stale(calls)[s])
<1>1. ASSUME NEW s \in Slots
      PROVE  LET d == Stale(calls)[s] IN
             /\ d \in Call /\ WellMade(d) /\ Answered(d) /\ Fits(d, r) /\ (j \/ OnParty(d, r))
             /\ Aged(calls[s], d)
  <2> DEFINE c == calls[s]
             d == Stale(calls)[s]
  <2>1. c \in Call /\ WellMade(c) /\ Answered(c) /\ Fits(c, r) /\ (j \/ OnParty(c, r))
    BY DEF Belong, Requests
  <2>2. CASE c.pc \in {"asked", "sent"}
    <3>1. d = [c EXCEPT !.fresh = FALSE]
      BY <2>2 DEF Stale
    <3>2. /\ d \in Call /\ d.pc = c.pc /\ d.status = c.status /\ d.mounted = c.mounted
          /\ ~d.fresh /\ d.view = c.view /\ SameParty(c, d) /\ SameOutcome(c, d)
      BY <2>1, <3>1, Ages
    <3>3. c = calls[s]
      OBVIOUS
    <3> HIDE DEF c, d
    <3>4. WellMade(d) /\ Answered(d)
      BY <2>1, <3>2 DEF WellMade, Answered, SameParty, SameRequest, SameOutcome
    <3>5. Fits(d, r) /\ (j \/ OnParty(d, r))
      BY <2>1, <3>2, SameFits
    <3>6. d.op = c.op /\ d.page = c.page
      BY <3>2 DEF SameParty, SameRequest
    <3>7. Aged(c, d)
      BY <2>2, <3>2, <3>6 DEF Aged
    <3> QED BY <3>2, <3>3, <3>4, <3>5, <3>7 DEF d
  <2>3. CASE c.pc \notin {"asked", "sent"}
    <3>1. d = c
      BY <2>3 DEF Stale
    <3> QED BY <2>1, <2>3, <3>1 DEF Aged
  <2> QED BY <2>2, <2>3
<1>2. Stale(calls) = [s \in Slots |-> Stale(calls)[s]]
  BY DEF Stale
<1>3. Stale(calls) \in [Slots -> Call]
  BY <1>1, <1>2
<1> QED BY <1>1, <1>3 DEF Belong, Requests

\* Somebody has written; the page shows what it did.
LEMMA WriteKeeps ==
    ASSUME TabInv, Written, UNCHANGED <<route, tab>>, NEW calls, Belong(calls, route, tab.jumped),
           \A s \in Slots : /\ calls[s].status = "refused" => calls[s] = call[s]
                            /\ call[s].op = "load" => calls[s] = call[s],
           call' = Stale(calls), used' \in [{"moves", "writes", "elsewhere", "lost"} -> Nat]
    PROVE  TabInv'
<1>0. Belong(call', route, tab.jumped) /\ \A s \in Slots : Aged(calls[s], call'[s])
  BY StaleBelongs
<1>1. Belong(call', route, tab.jumped) /\ call' \in [Slots -> Call]
  BY <1>0 DEF Belong, Requests
<1>2. \A s \in Slots :
         /\ call'[s].op = calls[s].op /\ call'[s].page = calls[s].page
         /\ call'[s].mounted = calls[s].mounted
         /\ call'[s].pc = calls[s].pc /\ call'[s].status = calls[s].status
         /\ call'[s].pc \in {"asked", "sent"} => ~call'[s].fresh
         /\ call'[s].pc \notin {"asked", "sent"} => call'[s] = calls[s]
  BY <1>0 DEF Aged
<1>3. \A s \in Slots : call[s].op = "load" /\ call[s].mounted =>
         call'[s].op = "load" /\ call'[s].page = call[s].page /\ call'[s].mounted
  BY <1>2
<1>4. AtRest' = AtRest
  BY DEF AtRest
<1>5. PageInv'
  BY <1>1, <1>3, <1>4, PageStays DEF TabInv, PageInv
<1>6. \A s \in Slots : call'[s].status = "refused" => call'[s] = call[s]
  <2> SUFFICES ASSUME NEW s \in Slots, call'[s].status = "refused" PROVE call'[s] = call[s]
    OBVIOUS
  <2>1. WellMade(call'[s])
    BY <1>1 DEF Belong, Requests
  <2>2. call'[s].pc = "answered"
    BY <2>1 DEF WellMade
  <2> QED BY <1>2, <2>2
<1>7. Honoured'
  BY <1>1, <1>2, <1>6, HonouredAged DEF TabInv
<1> QED BY <1>5, <1>7, StoreWritten, Assembles

LEMMA ElsewhereStep == TabInv /\ Elsewhere => TabInv'
<1> SUFFICES ASSUME TabInv, Elsewhere PROVE TabInv'
  OBVIOUS
<1>1. Written
  BY ServerWrites DEF Elsewhere, TabInv, TypeOK
<1>2. used' \in [{"moves", "writes", "elsewhere", "lost"} -> Nat]
  BY SpendTyped DEF TabInv, Elsewhere
<1> QED BY <1>1, <1>2, WriteKeeps DEF Elsewhere, TabInv, PageInv

LEMMA AcceptStep == \A s \in Slots : TabInv /\ Accept(s) => TabInv'
<1> SUFFICES ASSUME NEW s \in Slots, TabInv, Accept(s) PROVE TabInv'
  OBVIOUS
<1> DEFINE c == call[s]
<1>1. c \in Call /\ WellMade(c) /\ Answered(c) /\ Fits(c, route) /\ (tab.jumped \/ OnParty(c, route))
      /\ c.pc = "sent" /\ c.op \in Writes
  BY OneRequest DEF Accept
<1>2. PICK p \in Parties :
         /\ Perform(c, p)
         /\ call' = Stale([Reply(s, "ok") EXCEPT ![s].party = p, ![s].done = TRUE])
  BY DEF Accept
<1> DEFINE d == [[[[c EXCEPT !.pc = "answered"] EXCEPT !.status = "ok"] EXCEPT !.party = p]
                    EXCEPT !.done = TRUE]
           calls == [call EXCEPT ![s] = d]
<1>3. [Reply(s, "ok") EXCEPT ![s].party = p, ![s].done = TRUE] = calls
  BY DEF Reply, TabInv, TypeOK, Call
<1>4. /\ d \in Call /\ d.pc = "answered" /\ d.status = "ok" /\ d.mounted = c.mounted
      /\ d.party = p /\ d.done /\ SameRequest(c, d)
  <2>1. WithParty(c, d, p)
    BY <1>1, Grants
  <2> HIDE DEF c, d
  <2> QED BY <2>1 DEF WithParty, OkAnswer
<1>5. Written
  BY <1>1, <1>2, PerformWrites DEF TabInv, TypeOK
<1>6. call[s] = c /\ call \in [Slots -> Call]
  BY DEF TabInv, TypeOK
<1> HIDE DEF c, d
<1>7. d.op = c.op /\ d.page = c.page /\ d.item = c.item
  BY <1>4 DEF SameRequest
<1>8. WellMade(d) /\ Answered(d) /\ c.op # "load"
  BY <1>1, <1>4, <1>7 DEF WellMade, Answered, Writes, Reads
<1>9. Fits(d, route)
  BY <1>1, <1>4, <1>7 DEF Fits
<1>10. tab.jumped \/ OnParty(d, route)
  <2>1. CASE c.op = "create"
    <3>1. c.page = "create"
      BY <1>1, <2>1 DEF WellMade, From
    <3>2. c.mounted => route.page \notin PartyPages
      BY <1>1, <3>1 DEF Fits, PartyPages
    <3> QED BY <1>4, <3>2 DEF OnParty
  <2>2. CASE c.op # "create"
    <3>1. p = c.party
      BY <1>2, <2>2 DEF Perform
    <3> QED BY <1>1, <1>4, <3>1 DEF OnParty
  <2> QED BY <2>1, <2>2
<1>11. Belong(calls, route, tab.jumped)
  BY <1>4, <1>8, <1>9, <1>10, SlotBelongs DEF TabInv, PageInv
<1>12. \A z \in Slots : /\ calls[z].status = "refused" => calls[z] = call[z]
                        /\ call[z].op = "load" => calls[z] = call[z]
  BY <1>4, <1>6, <1>8
<1>13. call' = Stale(calls)
  BY <1>2, <1>3
<1> HIDE DEF calls
<1> QED BY <1>5, <1>11, <1>12, <1>13, WriteKeeps, UsedStays DEF Accept

\* What stands in a slot once a statement of its request has failed.
LEMMA FailedSlot ==
    ASSUME TabInv, NEW s \in Slots, call[s].pc = "sent", NEW st \in {"ok", "refused"}
    PROVE  LET d == [[[call[s] EXCEPT !.pc = "answered"] EXCEPT !.status = st]
                       EXCEPT !.failed = TRUE]
           IN
           /\ FailedReply(s, st) = [call EXCEPT ![s] = d]
           /\ FailedAnswer(call[s], d, st)
           /\ Fits(d, route) /\ (tab.jumped \/ OnParty(d, route))
           /\ (st = "ok" => call[s].op # "create") => WellMade(d)
<1> DEFINE c == call[s]
           d == [[[c EXCEPT !.pc = "answered"] EXCEPT !.status = st] EXCEPT !.failed = TRUE]
<1>1. c \in Call /\ WellMade(c) /\ Fits(c, route) /\ (tab.jumped \/ OnParty(c, route))
      /\ c.pc = "sent"
  BY OneRequest
<1>2. FailedReply(s, st) = [call EXCEPT ![s] = d]
  BY DEF FailedReply, Reply, TabInv, TypeOK, Call
<1>3. FailedAnswer(c, d, st)
  BY <1>1, FailedAnswers
<1> HIDE DEF c, d
<1>4. /\ d \in Call /\ d.pc = "answered" /\ d.status = st /\ d.mounted = c.mounted
      /\ SameParty(c, d)
  BY <1>3 DEF FailedAnswer
<1>5. Fits(d, route) /\ (tab.jumped \/ OnParty(d, route))
  BY <1>1, <1>4, SameFits
<1>6. d.op = c.op /\ d.page = c.page /\ d.party = c.party /\ d.item = c.item
  BY <1>4 DEF SameParty, SameRequest
<1>7. (st = "ok" => c.op # "create") => WellMade(d)
  BY <1>1, <1>4, <1>6 DEF WellMade, Writes, Reads
<1> QED BY <1>2, <1>3, <1>5, <1>7 DEF c, d

LEMMA RefusedStep ==
    ASSUME TabInv, NEW s \in Slots, call[s].pc = "sent", Refused(s), route' = route,
           used' \in [{"moves", "writes", "elsewhere", "lost"} -> Nat]
    PROVE  TabInv'
<1> DEFINE c == call[s]
           d == [[[c EXCEPT !.pc = "answered"] EXCEPT !.status = "refused"] EXCEPT !.failed = TRUE]
<1>1. /\ call' = [call EXCEPT ![s] = d] /\ FailedAnswer(c, d, "refused")
      /\ Fits(d, route) /\ (tab.jumped \/ OnParty(d, route)) /\ WellMade(d)
  BY FailedSlot DEF Refused
<1>2. call[s] = c
  OBVIOUS
<1>3. tab.calm \in BOOLEAN /\ PageInv
  BY DEF TabInv, PageInv, Tab
<1>4. tab' = [tab EXCEPT !.calm = tab.calm /\ c.op # "info"]
  BY <1>2 DEF Refused
<1> HIDE DEF c, d
<1>5. d \in Call /\ d.status = "refused" /\ d.mounted = c.mounted /\ d.failed
      /\ d.op = c.op /\ d.page = c.page
  BY <1>1 DEF FailedAnswer, SameParty, SameRequest
<1>6. Answered(d) /\ Honours(d)
  BY <1>1, <1>5 DEF Answered, Honours, FailedAnswer
<1>7. PageInv'
  BY <1>1, <1>2, <1>3, <1>4, <1>5, <1>6, CalmStays
<1> QED BY <1>1, <1>5, <1>6, <1>7, SlotStep DEF Refused

LEMMA RemovedNobodyStep ==
    ASSUME TabInv, NEW s \in Slots, call[s].pc = "sent", RemovedNobody(s), route' = route,
           used' \in [{"moves", "writes", "elsewhere", "lost"} -> Nat]
    PROVE  TabInv'
<1> DEFINE c == call[s]
           d == [[[c EXCEPT !.pc = "answered"] EXCEPT !.status = "ok"] EXCEPT !.failed = TRUE]
<1>1. /\ call' = [call EXCEPT ![s] = d] /\ FailedAnswer(c, d, "ok")
      /\ Fits(d, route) /\ (tab.jumped \/ OnParty(d, route)) /\ WellMade(d) /\ c.op = "remove"
  BY FailedSlot DEF RemovedNobody
<1>2. call[s] = c
  OBVIOUS
<1> HIDE DEF c, d
<1>3. d \in Call /\ d.pc = "answered" /\ d.status = "ok" /\ d.failed /\ d.op = "remove"
  BY <1>1 DEF FailedAnswer, SameParty, SameRequest
<1>4. Answered(d) /\ Honours(d)
  BY <1>3 DEF Answered, Honours
<1>5. PageInv'
  BY <1>1, <1>2, <1>3, <1>4, OnlyCalls DEF TabInv, RemovedNobody
<1> QED BY <1>1, <1>3, <1>4, <1>5, SlotStep DEF RemovedNobody

LEMMA InvitedAgainStep ==
    ASSUME TabInv, NEW s \in Slots, call[s].pc = "sent", InvitedAgain(s), route' = route,
           used' \in [{"moves", "writes", "elsewhere", "lost"} -> Nat]
    PROVE  TabInv'
<1> DEFINE c == call[s]
           a == [[[c EXCEPT !.pc = "answered"] EXCEPT !.status = "ok"] EXCEPT !.failed = TRUE]
           v == OfParty(c.party)
           d == [a EXCEPT !.view = v]
<1>1. /\ FailedReply(s, "ok") = [call EXCEPT ![s] = a] /\ FailedAnswer(c, a, "ok")
      /\ Fits(a, route) /\ (tab.jumped \/ OnParty(a, route)) /\ WellMade(a)
      /\ c.op = "load" /\ c.page = "invite"
  BY FailedSlot DEF InvitedAgain
<1>2. c \in Call /\ WellMade(c) /\ call[s] = c
  BY OneRequest
<1>3. c.party \in Parties
  BY <1>1, <1>2 DEF WellMade, Reads, PartyPages
<1>4. v \in View /\ v.party = c.party
  BY <1>3, OfPartyFields
<1>5. call \in [Slots -> Call] /\ tab' = [tab EXCEPT !.calm = FALSE] /\ PageInv
  BY DEF TabInv, TypeOK, InvitedAgain
<1>6. call' = [call EXCEPT ![s] = d]
  <2>1. call' = [[call EXCEPT ![s] = a] EXCEPT ![s].view = v]
    BY <1>1, <1>2 DEF InvitedAgain
  <2> HIDE DEF a, v, c
  <2> QED BY <2>1, <1>5
<1> HIDE DEF c, a, v, d
<1>7. a \in Call /\ a.pc = "answered" /\ a.status = "ok" /\ a.mounted = c.mounted
      /\ a.op = "load" /\ a.page = "invite" /\ a.party = c.party
  BY <1>1 DEF FailedAnswer, SameParty, SameRequest
<1>8. /\ d \in Call /\ d.pc = "answered" /\ d.status = "ok" /\ d.mounted = c.mounted
      /\ d.op = "load" /\ d.page = "invite" /\ d.party = c.party /\ d.view = v
      /\ SameParty(a, d)
  BY <1>4, <1>7 DEF d, Call, SameParty, SameRequest
<1>9. Answered(d) /\ WellMade(d) /\ Honours(d)
  BY <1>1, <1>3, <1>4, <1>7, <1>8 DEF Answered, WellMade, Honours, Writes, Reads
<1>10. Fits(d, route) /\ (tab.jumped \/ OnParty(d, route))
  BY <1>1, <1>7, <1>8, SameFits
<1>11. PageInv'
  BY <1>1, <1>2, <1>5, <1>6, <1>8, <1>9, <1>10, CalmStays
<1> QED BY <1>6, <1>8, <1>9, <1>11, SlotStep DEF InvitedAgain

LEMMA OverlooksStep ==
    ASSUME TabInv, NEW s \in Slots, call[s].pc = "sent", Overlooks(s), route' = route,
           used' \in [{"moves", "writes", "elsewhere", "lost"} -> Nat]
    PROVE  TabInv'
<1> DEFINE c == call[s]
           a == [[[c EXCEPT !.pc = "answered"] EXCEPT !.status = "ok"] EXCEPT !.failed = TRUE]
           d == [a EXCEPT !.done = TRUE]
           calls == [call EXCEPT ![s] = d]
<1>0. c.op \in Writes /\ c.op # "create" /\ Overlooked(c)
  BY DEF Overlooks, Overlooked
<1>1. /\ FailedReply(s, "ok") = [call EXCEPT ![s] = a] /\ Fits(a, route)
      /\ (tab.jumped \/ OnParty(a, route)) /\ WellMade(a)
  BY <1>0, FailedSlot
<1>2. c \in Call /\ WellMade(c) /\ call[s] = c /\ call \in [Slots -> Call]
  BY OneRequest DEF TabInv, TypeOK
<1>3. FailedAnswer(c, a, "ok") /\ FailedAnswer(c, d, "ok") /\ d.done
  BY <1>2, FailedAnswers
<1>4. call' = Stale(calls)
  <2>1. call' = Stale([[call EXCEPT ![s] = a] EXCEPT ![s].done = TRUE])
    BY <1>1 DEF Overlooks
  <2> HIDE DEF a, c
  <2>2. [[call EXCEPT ![s] = a] EXCEPT ![s].done = TRUE] = calls
    BY <1>2
  <2> HIDE DEF calls
  <2> QED BY <2>1, <2>2
<1>5. Written
  BY <1>0, <1>2, OverlookedWrites DEF TabInv, TypeOK
<1> HIDE DEF c, a, d
<1>6. /\ a.op = c.op /\ a.page = c.page /\ a.party = c.party /\ a.item = c.item
      /\ d.op = c.op /\ d.page = c.page /\ d.party = c.party /\ d.item = c.item
      /\ a \in Call /\ d \in Call /\ SameParty(a, d) /\ d.mounted = a.mounted
      /\ d.pc = a.pc /\ d.status = "ok" /\ a.status = "ok"
  BY <1>3 DEF FailedAnswer, SameParty, SameRequest
<1>7. WellMade(d) /\ Answered(d) /\ c.op # "load"
  BY <1>0, <1>1, <1>3, <1>6 DEF WellMade, Answered, Writes, Reads
<1>8. Fits(d, route) /\ (tab.jumped \/ OnParty(d, route))
  BY <1>1, <1>6, SameFits
<1>9. Belong(calls, route, tab.jumped)
  BY <1>6, <1>7, <1>8, SlotBelongs DEF TabInv, PageInv
<1>10. \A z \in Slots : /\ calls[z].status = "refused" => calls[z] = call[z]
                        /\ call[z].op = "load" => calls[z] = call[z]
  BY <1>2, <1>6, <1>7
<1> HIDE DEF calls
<1> QED BY <1>4, <1>5, <1>9, <1>10, WriteKeeps DEF Overlooks

LEMMA FailStep == \A s \in Slots : TabInv /\ Fail(s) => TabInv'
<1> SUFFICES ASSUME NEW s \in Slots, TabInv, Fail(s) PROVE TabInv'
  OBVIOUS
<1>1. used' \in [{"moves", "writes", "elsewhere", "lost"} -> Nat]
  BY SpendTyped DEF TabInv, Fail
<1> QED BY <1>1, RefusedStep, RemovedNobodyStep, InvitedAgainStep, OverlooksStep DEF Fail

-----------------------------------------------------------------------------
(* Replies to loads *)

LEMMA DropInherits ==
    ASSUME PageInv, NEW s \in Slots
    PROVE  \A z \in Slots : Inherits(call[z], Drop(s)[z])
<1>1. ~Idle.fresh /\ Idle.status = "none"
  BY IdleCall
<1> QED BY <1>1, DropBelongs DEF Inherits, SameParty, SameRequest, SameOutcome

\* The reply of a load comes to the page that asked for it.
LEMMA LoadReply ==
    ASSUME TabInv, NEW s \in Slots, call[s].op \in Reads
    PROVE  LET c == call[s] IN
           /\ c \in Call /\ WellMade(c) /\ Answered(c)
           /\ c.page = route.page /\ (tab.jumped \/ OnParty(c, route)) /\ c.mounted
           /\ c.view \in View
           /\ route.page \in PartyPages => c.party \in Parties
<1>1. call[s] \in Call /\ WellMade(call[s]) /\ Answered(call[s]) /\ Fits(call[s], route)
      /\ (tab.jumped \/ OnParty(call[s], route))
  BY OneRequest
<1> QED BY <1>1 DEF Fits, WellMade, Call

LEMMA PageLoadedKeeps ==
    \A s \in Slots : TabInv /\ PageLoaded(s) =>
        PageInv' /\ \A z \in Slots : Inherits(call[z], call'[z])
<1> SUFFICES ASSUME NEW s \in Slots, TabInv, PageLoaded(s)
             PROVE  PageInv' /\ \A z \in Slots : Inherits(call[z], call'[z])
  OBVIOUS
<1> DEFINE c == call[s]
<1>1. /\ c \in Call /\ WellMade(c) /\ Answered(c) /\ c.page = route.page /\ c.mounted
      /\ (tab.jumped \/ OnParty(c, route)) /\ c.view \in View
      /\ (route.page \in PartyPages => c.party \in Parties)
      /\ c.op = "load" /\ c.status = "ok"
  BY LoadReply DEF PageLoaded, Reads
<1>2. PageInv /\ route \in Routes /\ tab \in Tab
  BY DEF TabInv, PageInv
<1>3. Belong(Drop(s), route, tab.jumped) /\ \A z \in Slots : Inherits(call[z], Drop(s)[z])
  BY <1>2, DropBelongs, DropInherits
<1>4. CASE c.page = "manage" /\ ~c.view.owner
  <2>1. Mount(Drop(s), At("myItems", route.party))
    BY <1>4 DEF PageLoaded
  <2>2. route.party \in Parties
    BY <1>1, <1>2, <1>4, RouteFields DEF PartyPages
  <2>3. At("myItems", route.party) \in Routes
    BY <2>2, PartyRoute DEF PartyPages
  <2>4. PageInv' /\ \A z \in Slots : Inherits(Drop(s)[z], call'[z])
    BY <1>3, <2>1, <2>3, MountKeeps DEF Belong
  <2> QED BY <1>3, <2>4, Inheritance
<1>5. CASE ~(c.page = "manage" /\ ~c.view.owner)
  <2>1. /\ call' = Drop(s) /\ route' = route
        /\ tab' = [[tab EXCEPT !.loading = FALSE] EXCEPT !.view = c.view]
    BY <1>2, <1>5 DEF PageLoaded, Tab
  <2> HIDE DEF c
  <2>2. tab' \in Tab /\ tab'.view = c.view /\ ~tab'.loading /\ tab'.jumped = tab.jumped
        /\ tab'.err = tab.err
    BY <1>1, <1>2, <2>1 DEF Tab
  <2>3. route.page \in PartyPages => c.view.party = c.party
    BY <1>1 DEF Answered
  <2>4. ViewFits(c.view, route)
    <3>1. route.page = "invite" => c.view.party \in Parties
      BY <1>1, <2>3 DEF PartyPages
    <3> QED BY <1>1, <1>5, <3>1, NoneAssumption DEF ViewFits
  <2>5. PageShowsItsParty'
    BY <1>1, <2>1, <2>2, <2>3 DEF PageShowsItsParty, OnParty
  <2>6. SpinnerHasALoad'
    BY <2>2 DEF SpinnerHasALoad
  <2>7. PageInv'
    BY <1>2, <1>3, <2>1, <2>2, <2>4, <2>5, <2>6 DEF PageInv
  <2> QED BY <1>3, <2>1, <2>7
<1> QED BY <1>4, <1>5

LEMMA AddLoadedKeeps ==
    \A s \in Slots : TabInv /\ AddLoaded(s) /\ route' = route =>
        PageInv' /\ \A z \in Slots : Inherits(call[z], call'[z])
<1> SUFFICES ASSUME NEW s \in Slots, TabInv, AddLoaded(s), route' = route
             PROVE  PageInv' /\ \A z \in Slots : Inherits(call[z], call'[z])
  OBVIOUS
<1> DEFINE c == call[s]
           ps == c.view.parties
           v == [tab.view EXCEPT !.parties = ps]
           t == [[tab EXCEPT !.loading = FALSE] EXCEPT !.view = v]
<1>1. c.page = route.page /\ c.view \in View /\ route.page = "add"
  BY LoadReply DEF AddLoaded, Reads
<1>2. PageInv /\ route \in Routes /\ tab \in Tab /\ tab.view \in View
  BY DEF TabInv, PageInv, Tab
<1>3. Belong(Drop(s), route, tab.jumped) /\ \A z \in Slots : Inherits(call[z], Drop(s)[z])
  BY <1>2, DropBelongs, DropInherits
<1>4. ps \in SUBSET Parties
  BY <1>1 DEF View
<1>5. PICK p \in ps :
         \/ call' = Drop(s) /\ tab' = t
         \/ Pick(Drop(s), t, p)
  <2>1. t = [tab EXCEPT !.loading = FALSE, !.view.parties = ps]
    BY <1>2 DEF Tab
  <2> QED BY <2>1 DEF AddLoaded
<1> HIDE DEF ps
<1>6. v \in View
  BY <1>2, <1>4 DEF View
<1> HIDE DEF v
<1>7. t \in Tab /\ t.jumped = tab.jumped
  BY <1>2, <1>6 DEF Tab
<1> HIDE DEF t
<1>8. CASE call' = Drop(s) /\ tab' = t
  BY <1>1, <1>2, <1>3, <1>7, <1>8, AddPage
<1>9. CASE Pick(Drop(s), t, p)
  <2>1. PageInv' /\ \A z \in Slots : Inherits(Drop(s)[z], call'[z])
    BY <1>1, <1>2, <1>3, <1>4, <1>7, <1>9, PickKeeps
  <2> QED BY <1>3, <2>1, Inheritance
<1> QED BY <1>5, <1>8, <1>9

LEMMA AddEmptyKeeps ==
    \A s \in Slots : TabInv /\ AddEmpty(s) /\ route' = route =>
        PageInv' /\ \A z \in Slots : Inherits(call[z], call'[z])
<1> SUFFICES ASSUME NEW s \in Slots, TabInv, AddEmpty(s), route' = route
             PROVE  PageInv' /\ \A z \in Slots : Inherits(call[z], call'[z])
  OBVIOUS
<1> DEFINE v == [tab.view EXCEPT !.parties = {}]
<1>1. route.page = "add"
  BY LoadReply DEF AddEmpty, Reads
<1>2. PageInv /\ route \in Routes /\ tab \in Tab /\ tab.view \in View
  BY DEF TabInv, PageInv, Tab
<1>3. call' = Drop(s) /\ tab' = [[tab EXCEPT !.loading = FALSE] EXCEPT !.view = v]
  BY <1>2 DEF AddEmpty, Tab
<1>4. v \in View
  BY <1>2 DEF View
<1> HIDE DEF v
<1>5. tab' \in Tab /\ tab'.jumped = tab.jumped
  BY <1>2, <1>3, <1>4 DEF Tab
<1> QED BY <1>1, <1>2, <1>3, <1>5, DropBelongs, DropInherits, AddPage

LEMMA InfoLoadedKeeps ==
    \A s \in Slots : TabInv /\ InfoLoaded(s) /\ route' = route =>
        PageInv' /\ \A z \in Slots : Inherits(call[z], call'[z])
<1> SUFFICES ASSUME NEW s \in Slots, TabInv, InfoLoaded(s), route' = route
             PROVE  PageInv' /\ \A z \in Slots : Inherits(call[z], call'[z])
  OBVIOUS
<1> DEFINE users == call[s].view.users
           v == [tab.view EXCEPT !.users = users]
<1>1. route.page = "add" /\ call[s].view \in View
  BY LoadReply DEF InfoLoaded, Reads, WellMade
<1>2. PageInv /\ route \in Routes /\ tab \in Tab /\ tab.view \in View
  BY DEF TabInv, PageInv, Tab
<1>3. call' = Drop(s)
      /\ \/ tab' = tab
         \/ \E us \in {tab.ticked, {}} : tab' = [[tab EXCEPT !.view = v] EXCEPT !.ticked = us]
  BY <1>2 DEF InfoLoaded, Tab
<1>4. v \in View
  BY <1>1, <1>2 DEF View
<1> HIDE DEF v, users
<1>5. tab' \in Tab /\ tab'.jumped = tab.jumped
  BY <1>2, <1>3, <1>4 DEF Tab
<1> QED BY <1>1, <1>2, <1>3, <1>5, DropBelongs, DropInherits, AddPage

LEMMA LoadFailedKeeps ==
    \A s \in Slots : TabInv /\ LoadFailed(s) /\ route' = route =>
        PageInv' /\ \A z \in Slots : Inherits(call[z], call'[z])
<1> SUFFICES ASSUME NEW s \in Slots, TabInv, LoadFailed(s), route' = route
             PROVE  PageInv' /\ \A z \in Slots : Inherits(call[z], call'[z])
  OBVIOUS
<1> DEFINE c == call[s]
           t == [[tab EXCEPT !.loading = FALSE] EXCEPT !.err = TRUE]
           v == [tab.view EXCEPT !.users = {}]
<1>1. c.page = route.page /\ c.op = "load" /\ c.status \in {"refused", "lost"}
  BY LoadReply DEF LoadFailed, Reads
<1>2. PageInv /\ route \in Routes /\ tab \in Tab /\ tab.view \in View
      /\ ViewFits(tab.view, route)
  BY DEF TabInv, PageInv, Tab
<1>3. call' = Drop(s)
  BY DEF LoadFailed
<1>4. Belong(Drop(s), route, tab.jumped) /\ \A z \in Slots : Inherits(call[z], Drop(s)[z])
  BY <1>2, DropBelongs, DropInherits
<1>5. \/ tab' = [t EXCEPT !.view = v] /\ route.page = "members"
      \/ tab' = t
      \/ tab' = tab /\ route.page \notin Catches
  <2>1. t = [tab EXCEPT !.loading = FALSE, !.err = TRUE]
    BY <1>2 DEF Tab
  <2>2. [t EXCEPT !.view = v] = [t EXCEPT !.view.users = {}]
    BY <1>2 DEF Tab
  <2> QED BY <1>1, <2>1, <2>2 DEF LoadFailed
<1>6. t \in Tab /\ ~t.loading /\ t.err /\ t.view = tab.view /\ t.jumped = tab.jumped
  BY <1>2 DEF Tab
<1>7. v \in View
  BY <1>2 DEF View
<1> HIDE DEF t, v
<1>8. CASE tab' = [t EXCEPT !.view = v] /\ route.page = "members"
  <2>1. tab' \in Tab /\ ~tab'.loading /\ tab'.err /\ tab'.jumped = tab.jumped
    BY <1>6, <1>7, <1>8 DEF Tab
  <2>2. PageShowsItsParty' /\ SpinnerHasALoad'
    BY <2>1 DEF PageShowsItsParty, AtRest, SpinnerHasALoad
  <2>3. ViewFits(tab'.view, route)
    BY <1>8 DEF ViewFits
  <2> QED BY <1>2, <1>3, <1>4, <2>1, <2>2, <2>3 DEF PageInv
<1>9. CASE tab' = t
  <2>1. PageShowsItsParty' /\ SpinnerHasALoad'
    BY <1>6, <1>9 DEF PageShowsItsParty, AtRest, SpinnerHasALoad
  <2> QED BY <1>2, <1>3, <1>4, <1>6, <1>9, <2>1 DEF PageInv
<1>10. CASE tab' = tab /\ route.page \notin Catches
  <2>1. SpinnerHasALoad'
    BY <1>10 DEF SpinnerHasALoad
  <2>2. PageShowsItsParty'
    BY <1>2, <1>10 DEF PageInv, PageShowsItsParty, AtRest
  <2> QED BY <1>2, <1>3, <1>4, <1>10, <2>1, <2>2 DEF PageInv
<1> QED BY <1>5, <1>8, <1>9, <1>10

LEMMA ReceiveLoadStep == \A s \in Slots : TabInv /\ ReceiveLoad(s) => TabInv'
<1> SUFFICES ASSUME NEW s \in Slots, TabInv, ReceiveLoad(s) PROVE TabInv'
  OBVIOUS
<1>1. PageInv' /\ \A z \in Slots : Inherits(call[z], call'[z])
  BY PageLoadedKeeps, AddLoadedKeeps, AddEmptyKeeps, InfoLoadedKeeps, LoadFailedKeeps
     DEF ReceiveLoad
<1> QED BY <1>1, QuietStep, UsedStays DEF ReceiveLoad

-----------------------------------------------------------------------------
(* Replies to writes *)

LEMMA OnwardRoute ==
    ASSUME NEW c \in Call, WellMade(c), Moves(c)
    PROVE  Onward(c) \in Routes
<1>1. /\ c.op \in {"leave", "delete"} => Onward(c) = At("list", None)
      /\ c.op \in {"update", "create", "join"} => Onward(c) = At("show", c.party)
      /\ c.op = "add" => Onward(c) = At("manage", c.party)
  BY DEF Onward
<1>2. c.party \in Parties
  BY DEF Moves, WellMade, Writes
<1> QED BY <1>1, <1>2, ListRoute, PartyRoute DEF Moves, ListPages, PartyPages

\* The answer of a write is dropped; the loads under way stay.
LEMMA DropWrite ==
    ASSUME TabInv, NEW s \in Slots, call[s].op \in Writes
    PROVE  /\ Belong(Drop(s), route, tab.jumped)
           /\ \A z \in Slots : Inherits(call[z], Drop(s)[z])
           /\ \A z \in Slots : call[z].op = "load" => Drop(s)[z] = call[z]
<1>1. PageInv /\ call[s].op # "load"
  BY DEF TabInv, Writes
<1> QED BY <1>1, DropBelongs, DropInherits

LEMMA MoveKeeps ==
    \A s \in Slots : TabInv /\ call[s].op \in Writes /\ ReceiveAndMove(s) =>
        PageInv' /\ \A z \in Slots : Inherits(call[z], call'[z])
<1> SUFFICES ASSUME NEW s \in Slots, TabInv, call[s].op \in Writes, ReceiveAndMove(s)
             PROVE  PageInv' /\ \A z \in Slots : Inherits(call[z], call'[z])
  OBVIOUS
<1>1. Onward(call[s]) \in Routes /\ Arrive(Drop(s), Onward(call[s]))
  BY OneRequest, OnwardRoute DEF ReceiveAndMove
<1>2. PageInv
  BY DEF TabInv
<1>3. tab.loading /\ route.page \in Catches =>
        \E z \in Slots : /\ Drop(s)[z].op = "load" /\ Drop(s)[z].page = route.page
                         /\ Drop(s)[z].mounted
  BY <1>2, DropWrite DEF PageInv, SpinnerHasALoad
<1>4. PageInv' /\ \A z \in Slots : Inherits(Drop(s)[z], call'[z])
  BY <1>1, <1>2, <1>3, DropWrite, ArriveKeeps
<1> QED BY <1>4, DropWrite, Inheritance

\* The page stays as it is, but for the answer.
LEMMA DroppedKeeps ==
    ASSUME TabInv, NEW s \in Slots, call[s].op \in Writes, call' = Drop(s), route' = route,
           tab' = tab
    PROVE  PageInv' /\ \A z \in Slots : Inherits(call[z], call'[z])
<1>1. AtRest' = AtRest
  BY DEF AtRest
<1>2. PageInv'
  BY <1>1, DropWrite, PageStays DEF TabInv, PageInv
<1> QED BY <1>2, DropWrite

LEMMA ReloadKeeps ==
    \A s \in Slots : TabInv /\ call[s].op \in Writes /\ ReceiveAndReload(s) =>
        PageInv' /\ \A z \in Slots : Inherits(call[z], call'[z])
<1> SUFFICES ASSUME NEW s \in Slots, TabInv, call[s].op \in Writes, ReceiveAndReload(s)
             PROVE  PageInv' /\ \A z \in Slots : Inherits(call[z], call'[z])
  OBVIOUS
<1> DEFINE c == call[s]
<1>1. c \in Call /\ WellMade(c) /\ Fits(c, route) /\ (tab.jumped \/ OnParty(c, route))
      /\ c.op \in Writes /\ Reloads(c) /\ route' = route
  BY OneRequest DEF ReceiveAndReload
<1>2. CASE c.mounted
  <2>1. Load(Drop(s), At(c.page, c.party), tab)
    BY <1>2 DEF ReceiveAndReload
  <2>2. c.page = route.page
    BY <1>1, <1>2 DEF Fits
  <2>3. c.page \in {"show", "manage", "myItems", "members", "bestpay"}
    BY <1>1 DEF Reloads, Unchecked, WellMade, From
  <2>4. c.party \in Parties
    BY <1>1 DEF Reloads, Unchecked, WellMade
  <2>5. Loads(route.page) /\ route.page \in PartyPages
    BY <2>2, <2>3 DEF Loads, PartyPages
  <2>6. tab.jumped \/ c.party = route.party
    BY <1>1, <1>2, <2>5 DEF OnParty
  <2> DEFINE q == At(c.page, c.party)
  <2>7. q.page = route.page /\ q.party = c.party
    BY <2>2 DEF At
  <2> HIDE DEF c, q
  <2>8. Load(Drop(s), q, tab)
    BY <2>1 DEF q, c
  <2>9. PageInv' /\ \A z \in Slots : Inherits(Drop(s)[z], call'[z])
    BY <1>1, <2>4, <2>5, <2>6, <2>7, <2>8, DropWrite, LoadKeeps DEF TabInv, PageInv, c
  <2> QED BY <1>1, <2>9, DropWrite, Inheritance DEF c
<1>3. CASE ~c.mounted
  BY <1>1, <1>3, DroppedKeeps DEF ReceiveAndReload
<1> QED BY <1>2, <1>3

LEMMA RefusalKeeps ==
    \A s \in Slots : TabInv /\ call[s].op \in Writes /\ ReceiveRefusal(s) =>
        PageInv' /\ \A z \in Slots : Inherits(call[z], call'[z])
<1> SUFFICES ASSUME NEW s \in Slots, TabInv, call[s].op \in Writes, ReceiveRefusal(s)
             PROVE  PageInv' /\ \A z \in Slots : Inherits(call[z], call'[z])
  OBVIOUS
<1> DEFINE b == tab.err \/ (call[s].mounted /\ call[s].op \in {"update", "join"})
<1>1. tab' = [tab EXCEPT !.err = b] /\ tab \in Tab /\ tab.err \in BOOLEAN
  BY DEF ReceiveRefusal, TabInv, PageInv, Tab
<1>2. b \in BOOLEAN /\ (tab.err => b)
  OBVIOUS
<1> HIDE DEF b
<1>3. tab' \in Tab /\ tab'.err = b /\ tab'.loading = tab.loading /\ tab'.view = tab.view
      /\ tab'.jumped = tab.jumped
  BY <1>1, <1>2 DEF Tab
<1>4. AtRest' => AtRest
  BY <1>2, <1>3 DEF AtRest
<1>5. PageInv'
  BY <1>3, <1>4, DropWrite, PageStays DEF ReceiveRefusal, TabInv, PageInv
<1> QED BY <1>5, DropWrite DEF ReceiveRefusal

LEMMA NothingKeeps ==
    \A s \in Slots : TabInv /\ call[s].op \in Writes /\ ReceiveNothing(s) =>
        PageInv' /\ \A z \in Slots : Inherits(call[z], call'[z])
<1> SUFFICES ASSUME NEW s \in Slots, TabInv, call[s].op \in Writes, ReceiveNothing(s)
             PROVE  PageInv' /\ \A z \in Slots : Inherits(call[z], call'[z])
  OBVIOUS
<1> DEFINE c == call[s]
           d == [[[[[c EXCEPT !.pc = "asked"] EXCEPT !.status = "none"] EXCEPT !.fresh = FALSE]
                    EXCEPT !.done = FALSE] EXCEPT !.failed = FALSE]
<1>1. c \in Call /\ WellMade(c) /\ Answered(c) /\ Fits(c, route) /\ (tab.jumped \/ OnParty(c, route))
      /\ c.op \in Writes
  BY OneRequest
<1>2. call' = Drop(s) \/ call' = [call EXCEPT ![s] = d]
  BY DEF ReceiveNothing, TabInv, TypeOK, Call
<1>3. /\ d \in Call /\ d.pc = "asked" /\ d.status = "none" /\ d.mounted = c.mounted
      /\ ~d.fresh /\ SameParty(c, d)
  BY <1>1, Reopens
<1>4. call[s] = c /\ call \in [Slots -> Call] /\ UNCHANGED <<route, tab>> /\ PageInv
  BY DEF TabInv, TypeOK, ReceiveNothing
<1> HIDE DEF c, d
<1>5. d.op = c.op /\ d.page = c.page /\ d.party = c.party /\ d.item = c.item /\ c.op # "load"
  BY <1>1, <1>3 DEF SameParty, SameRequest, Writes
<1>6. WellMade(d) /\ Answered(d)
  BY <1>1, <1>3, <1>5 DEF WellMade, Answered, Writes, Reads
<1>7. Fits(d, route) /\ (tab.jumped \/ OnParty(d, route))
  BY <1>1, <1>3, SameFits
<1>8. CASE call' = Drop(s)
  BY <1>1, <1>4, <1>8, DroppedKeeps
<1>9. CASE call' = [call EXCEPT ![s] = d]
  <2>1. PageInv'
    BY <1>3, <1>4, <1>5, <1>6, <1>7, <1>9, OnlyCalls
  <2>2. \A z \in Slots : call'[z].fresh \/ call'[z].status = "refused" =>
                            z # s /\ call'[z] = call[z]
    BY <1>3, <1>4, <1>9
  <2> QED BY <2>1, <2>2 DEF Inherits, SameParty, SameRequest, SameOutcome
<1> QED BY <1>2, <1>8, <1>9

LEMMA ReceiveWriteStep == \A s \in Slots : TabInv /\ ReceiveWrite(s) => TabInv'
<1> SUFFICES ASSUME NEW s \in Slots, TabInv, ReceiveWrite(s) PROVE TabInv'
  OBVIOUS
<1>1. PageInv' /\ \A z \in Slots : Inherits(call[z], call'[z])
  BY MoveKeeps, ReloadKeeps, RefusalKeeps, NothingKeeps DEF ReceiveWrite
<1> QED BY <1>1, QuietStep, UsedStays DEF ReceiveWrite

-----------------------------------------------------------------------------
(* TabInv is an invariant *)

LEMMA TabInit == Init => TabInv
<1> SUFFICES ASSUME Init PROVE TabInv
  OBVIOUS
<1>1. StoreTypeOK
  <2>1. party \in [Parties -> PartyRow]
    <3>1. NoParty \in PartyRow /\ \A u \in Users, c \in Currencies : OpenRow(u, c) \in PartyRow
      BY DEF NoParty, OpenRow, PartyRow
    <3> QED BY <3>1 DEF Init
  <2>2. item \in [ItemIds -> ItemRow]
    <3>1. NoItem("unused") \in ItemRow
      BY DEF NoItem, ItemRow
    <3>2. [state : {"live"}, party : Parties, payer : Users, initiator : Users, paid : BOOLEAN,
           currency : Currencies] \subseteq ItemRow
      BY DEF ItemRow
    <3> QED BY <3>1, <3>2 DEF Init
  <2>3. file \in [Parties -> Snapshot]
    BY DEF Init, NoFile, Snapshot
  <2> QED BY <2>1, <2>2, <2>3 DEF StoreTypeOK, Init
<1>2. OwnersIn
  BY DEF Init, OwnersIn
<1>3. ItemsFormed
  <2> SUFFICES ASSUME NEW i \in ItemIds, item[i].state = "live"
               PROVE  /\ item[i].party \in Parties /\ party[item[i].party].state # "unused"
                      /\ item[i].payer \in Users /\ item[i].initiator \in Users
    BY DEF ItemsFormed
  <2>1. item[i] \in [state : {"live"}, party : Parties, payer : Users, initiator : Users,
                     paid : BOOLEAN, currency : Currencies]
    BY DEF Init, NoItem
  <2>2. item[i].payer \in members[item[i].party]
    BY DEF Init
  <2>3. Live(item[i].party)
    BY <2>1, <2>2 DEF Init
  <2> QED BY <2>1, <2>3 DEF Live
<1>4. route \in Routes /\ route.page \in Pages /\ route.party \in Parties \cup {None}
      /\ (route.page \in PartyPages => route.party \in Parties)
  BY RouteFields DEF Init
<1>5. tab \in Tab /\ tab.view = NoView /\ ~tab.jumped /\ tab.loading = Loads(route.page)
      /\ ~tab.err
  BY NewTabFields DEF Init
<1> DEFINE none == [s \in Slots |-> Idle]
<1>6. Belong(none, route, tab.jumped)
  BY IdleCall, IdleFits DEF Belong, Requests
<1>7. \/ Loads(route.page) /\ \E s \in Slots : call = [none EXCEPT ![s] = LoadCall(route)]
      \/ ~Loads(route.page) /\ call = none
  <2>1. Room(none)
    BY TabAssumption, IdleCall DEF Room
  <2> QED BY <2>1, PutOne DEF Init
<1> HIDE DEF none
<1>8. CASE Loads(route.page)
  <2>1. PICK s \in Slots : call = [none EXCEPT ![s] = LoadCall(route)]
    BY <1>7, <1>8
  <2>2. LET c == LoadCall(route) IN
        c \in Call /\ WellMade(c) /\ Answered(c) /\ Fits(c, route) /\ OnParty(c, route)
    BY <1>4, <1>8, LoadFits
  <2>3. Belong(call, route, tab.jumped)
    BY <1>6, <2>1, <2>2, SlotBelongs
  <2>4. call[s] = LoadCall(route)
    BY <1>6, <2>1 DEF Belong, Requests
  <2>5. SpinnerHasALoad
    BY <1>4, <2>4, LoadCallFields DEF SpinnerHasALoad
  <2>6. PageShowsItsParty
    BY <1>5, <1>8 DEF PageShowsItsParty, AtRest
  <2>7. ViewFits(tab.view, route)
    BY <1>5 DEF ViewFits, NoView
  <2>8. \A z \in Slots : ~call[z].fresh
    <3>1. ~Idle.fresh /\ ~LoadCall(route).fresh
      BY <1>4, IdleCall, LoadCallFields
    <3> QED BY <2>1, <3>1 DEF none
  <2>9. Honoured
    BY <2>8 DEF Honoured, Honours
  <2> QED BY <1>1, <1>2, <1>3, <1>4, <1>5, <2>3, <2>5, <2>6, <2>7, <2>9
          DEF TabInv, TypeOK, PageInv, Belong, Requests, Init
<1>9. CASE ~Loads(route.page)
  <2>1. call = none
    BY <1>7, <1>9
  <2>2. SpinnerHasALoad
    BY <1>5, <1>9 DEF SpinnerHasALoad
  <2>3. route.page \notin PartyPages
    BY <1>9 DEF Loads, PartyPages
  <2>4. PageShowsItsParty
    BY <2>3 DEF PageShowsItsParty
  <2>5. ViewFits(tab.view, route)
    BY <1>5 DEF ViewFits, NoView
  <2>6. Honoured
    BY <2>1, IdleCall DEF Honoured, Honours, none
  <2> QED BY <1>1, <1>2, <1>3, <1>4, <1>5, <1>6, <2>1, <2>2, <2>4, <2>5, <2>6
          DEF TabInv, TypeOK, PageInv, Belong, Requests, Init
<1> QED BY <1>8, <1>9

LEMMA TabStutters == TabInv /\ UNCHANGED vars => TabInv'
<1> SUFFICES ASSUME TabInv, UNCHANGED vars PROVE TabInv'
  OBVIOUS
<1>1. UNCHANGED storeVars /\ route' = route /\ tab' = tab /\ call' = call /\ used' = used
  BY DEF vars, tabVars
<1>2. AtRest' = AtRest
  BY <1>1 DEF AtRest
<1>3. PageInv'
  BY <1>1, <1>2, PageStays DEF TabInv, PageInv
<1>4. \A s \in Slots : Inherits(call[s], call'[s])
  BY <1>1 DEF Inherits, SameParty, SameRequest, SameOutcome
<1> QED BY <1>1, <1>3, <1>4, QuietStep, UsedStays

LEMMA TabNext == TabInv /\ [Next]_vars => TabInv'
BY FollowStep, VisitStep, AskStep, ClickStep, PickPartyStep, TickStep, ElsewhereStep, CancelStep,
   ConfirmStep, ServeReadStep, AcceptStep, RefuseStep, FailStep, LoseStep, ReceiveLoadStep, ReceiveWriteStep,
   TabStutters DEF Next

LEMMA TabAlways == Spec => []TabInv
<1> QED BY TabInit, TabNext, PTL DEF Spec

-----------------------------------------------------------------------------
(* Who refuses *)

\* A request is refused by the server, whose guard it does not pass or which
\* failed.
RefusedByGuard ==
    \A z \in Slots : call[z].pc = "sent" /\ call[z].op \in Writes /\ call'[z].status = "refused" =>
        ~Accepts(call[z]) \/ call'[z].failed

LEMMA SentHasNoStatus ==
    ASSUME TabInv, NEW z \in Slots, call[z].pc = "sent"
    PROVE  call[z].status = "none"
BY OneRequest DEF WellMade

LEMMA InheritedRefusal ==
    ASSUME TabInv, \A s \in Slots : Inherits(call[s], call'[s])
    PROVE  RefusedByGuard
BY SentHasNoStatus DEF RefusedByGuard, Inherits

LEMMA SlotRefusal ==
    ASSUME TabInv, NEW s \in Slots, NEW d, d.status # "refused" \/ call[s].op \notin Writes,
           call' = [call EXCEPT ![s] = d]
    PROVE  RefusedByGuard
<1>1. call \in [Slots -> Call]
  BY DEF TabInv, TypeOK
<1> QED BY <1>1, SentHasNoStatus DEF RefusedByGuard

LEMMA StaleRefusal ==
    ASSUME TabInv, NEW calls, Belong(calls, route, tab.jumped), call' = Stale(calls),
           \A s \in Slots : calls[s].status = "refused" => calls[s] = call[s]
    PROVE  RefusedByGuard
<1>1. \A s \in Slots : Aged(calls[s], call'[s])
  BY StaleBelongs
<1>2. \A s \in Slots : call'[s].status = calls[s].status
  BY <1>1 DEF Aged
<1> QED BY <1>2, SentHasNoStatus DEF RefusedByGuard

LEMMA NextRefusesByGuard == TabInv /\ [Next]_vars => RefusedByGuard
<1> SUFFICES ASSUME TabInv, [Next]_vars PROVE RefusedByGuard
  OBVIOUS
<1>0. PageInv /\ call \in [Slots -> Call]
  BY DEF TabInv, TypeOK
<1>1. ASSUME NEW r \in Routes, Arrive(call, r) PROVE RefusedByGuard
  BY <1>1, ArriveKeeps, InheritedRefusal DEF TabInv, PageInv, SpinnerHasALoad
<1>2. CASE Follow
  BY <1>0, <1>1, <1>2, LinkRoutes DEF Follow
<1>3. CASE Visit
  BY <1>1, <1>3 DEF Visit
<1>4. ASSUME NEW o \in Offers, NEW pc \in {"asked", "sent"}, Room(call),
             call' = Put(call, Made(o, pc))
      PROVE  RefusedByGuard
  <2>1. Made(o, pc).status # "refused"
    BY <1>0, MadeFields
  <2> QED BY <1>4, <2>1, PutOne, SlotRefusal
<1>5. CASE Ask
  BY <1>4, <1>5 DEF Ask
<1>6. CASE Click
  BY <1>4, <1>6 DEF Click
<1>7. CASE PickParty
  <2>1. PICK p \in tab.view.parties : Pick(call, tab, p)
    BY <1>7 DEF PickParty
  <2>2. p \in Parties
    BY DEF TabInv, PageInv, Tab, View
  <2> QED BY <1>7, <2>1, <2>2, PickKeeps, InheritedRefusal DEF TabInv, PageInv, PickParty
<1>8. CASE Tick \/ UNCHANGED vars
  BY <1>8, SentHasNoStatus DEF Tick, vars, tabVars, RefusedByGuard
<1>9. CASE Elsewhere
  BY <1>9, StaleRefusal DEF Elsewhere, TabInv, PageInv
<1>10. ASSUME NEW s \in Slots, Cancel(s) PROVE RefusedByGuard
  BY <1>10, SlotRefusal, IdleCall DEF Cancel, Drop
<1>11. ASSUME NEW s \in Slots, Confirm(s) PROVE RefusedByGuard
  <2>1. call[s] \in Call /\ call[s].status # "refused"
    BY <1>11, OneRequest DEF Confirm, WellMade
  <2>2. [call[s] EXCEPT !.pc = "sent"].status # "refused"
    BY <2>1, Sends
  <2>3. call' = [call EXCEPT ![s] = [call[s] EXCEPT !.pc = "sent"]]
    BY <1>0, <1>11 DEF Confirm, Call
  <2> QED BY <2>2, <2>3, SlotRefusal
<1>12. ASSUME NEW s \in Slots, ServeRead(s) PROVE RefusedByGuard
  <2>1. call[s].op \notin Writes /\ \A z \in Slots : z # s => call'[z] = call[z]
    BY <1>0, <1>12 DEF ServeRead, Reply, Reads, Writes
  <2> QED BY <2>1, SentHasNoStatus DEF RefusedByGuard
<1>13. ASSUME NEW s \in Slots, Refuse(s) PROVE RefusedByGuard
  <2>1. ~Accepts(call[s]) /\ \A z \in Slots : z # s => call'[z] = call[z]
    BY <1>0, <1>13 DEF Refuse, Reply
  <2> QED BY <2>1, SentHasNoStatus DEF RefusedByGuard
<1>14. ASSUME NEW s \in Slots, Lose(s) PROVE RefusedByGuard
  <2>1. call'[s].status = "lost" /\ \A z \in Slots : z # s => call'[z] = call[z]
    BY <1>0, <1>14 DEF Lose, Call
  <2> QED BY <2>1, SentHasNoStatus DEF RefusedByGuard
<1>18. ASSUME NEW s \in Slots, NEW d \in Call, d.status = "ok",
              call' = Stale([call EXCEPT ![s] = d])
       PROVE  RefusedByGuard
  <2> DEFINE calls == [call EXCEPT ![s] = d]
  <2>1. calls[s].status = "ok" /\ \A z \in Slots : z # s => calls[z] = call[z]
    BY <1>0, <1>18
  <2>2. \A z \in Slots : calls[z] \in Call
    BY <1>0
  <2>3. \A z \in Slots : call'[z] = calls[z] \/ call'[z] = [calls[z] EXCEPT !.fresh = FALSE]
    BY <1>18 DEF Stale
  <2> HIDE DEF calls
  <2>4. \A z \in Slots : call'[z].status = calls[z].status
    BY <2>2, <2>3 DEF Call
  <2> QED BY <2>1, <2>4, SentHasNoStatus DEF RefusedByGuard
<1>15. ASSUME NEW s \in Slots, Accept(s) PROVE RefusedByGuard
  <2>1. PICK p \in Parties :
           call' = Stale([Reply(s, "ok") EXCEPT ![s].party = p, ![s].done = TRUE])
    BY <1>15 DEF Accept
  <2> DEFINE d == [[[[call[s] EXCEPT !.pc = "answered"] EXCEPT !.status = "ok"]
                      EXCEPT !.party = p] EXCEPT !.done = TRUE]
  <2>2. [Reply(s, "ok") EXCEPT ![s].party = p, ![s].done = TRUE] = [call EXCEPT ![s] = d]
    BY <1>0 DEF Reply, Call
  <2>3. d \in Call /\ d.status = "ok"
    <3>1. WithParty(call[s], d, p)
      BY <1>0, Grants
    <3> HIDE DEF d
    <3> QED BY <3>1 DEF WithParty, OkAnswer
  <2> HIDE DEF d
  <2> QED BY <1>0, <2>1, <2>2, <2>3, <1>18
<1>19. ASSUME NEW s \in Slots, Fail(s) PROVE RefusedByGuard
  <2> DEFINE a(st) == [[[call[s] EXCEPT !.pc = "answered"] EXCEPT !.status = st]
                         EXCEPT !.failed = TRUE]
  <2>1. \A st \in {"ok", "refused"} :
           /\ FailedReply(s, st) = [call EXCEPT ![s] = a(st)]
           /\ a(st) \in Call /\ a(st).status = st /\ a(st).failed
    BY <1>19, FailedSlot DEF FailedAnswer, Fail
  <2> HIDE DEF a
  <2>2. CASE Refused(s)
    <3>1. call'[s].failed /\ \A z \in Slots : z # s => call'[z] = call[z]
      BY <1>0, <2>1, <2>2 DEF Refused
    <3> QED BY <3>1, SentHasNoStatus DEF RefusedByGuard
  <2>3. CASE RemovedNobody(s)
    BY <2>1, <2>3, SlotRefusal DEF RemovedNobody
  <2>4. CASE InvitedAgain(s)
    <3>1. call[s].op \notin Writes /\ \A z \in Slots : z # s => call'[z] = call[z]
      BY <1>0, <2>1, <2>4 DEF InvitedAgain, Writes
    <3> QED BY <3>1, SentHasNoStatus DEF RefusedByGuard
  <2>5. CASE Overlooks(s)
    <3> DEFINE d == [a("ok") EXCEPT !.done = TRUE]
    <3>1. d \in Call /\ d.status = "ok"
      BY <2>1 DEF Call
    <3>2. [FailedReply(s, "ok") EXCEPT ![s].done = TRUE] = [call EXCEPT ![s] = d]
      BY <1>0, <2>1
    <3> HIDE DEF d
    <3> QED BY <2>5, <3>1, <3>2, <1>18 DEF Overlooks
  <2> QED BY <1>19, <2>2, <2>3, <2>4, <2>5 DEF Fail
<1>16. ASSUME NEW s \in Slots, ReceiveLoad(s) PROVE RefusedByGuard
  BY <1>16, PageLoadedKeeps, AddLoadedKeeps, AddEmptyKeeps, InfoLoadedKeeps, LoadFailedKeeps,
     InheritedRefusal DEF ReceiveLoad
<1>17. ASSUME NEW s \in Slots, ReceiveWrite(s) PROVE RefusedByGuard
  BY <1>17, MoveKeeps, ReloadKeeps, RefusalKeeps, NothingKeeps, InheritedRefusal DEF ReceiveWrite
<1> QED BY <1>2, <1>3, <1>5, <1>6, <1>7, <1>8, <1>9, <1>10, <1>11, <1>12, <1>13, <1>14, <1>15,
           <1>16, <1>17, <1>19 DEF Next

\* The links of a current view lead to pages the server lets the user read.
LEMMA LinksHonoured ==
    ASSUME TabInv, Current, NEW r \in BodyLinks(route, tab.view)
    PROVE  MayRead(r.page, r.party)
<1> DEFINE p == route.party
           v == tab.view
<1>0. StoreTypeOK /\ OwnersIn /\ route \in Routes
  BY DEF TabInv, TypeOK
<1>1. /\ MayRead(route.page, Subject) /\ v = ViewOf(route.page, Subject)
      /\ route.page \in PartyPages => Subject = p /\ p \in Parties
  BY <1>0, RouteFields DEF Current, Subject, PartyPages
<1>2. \A page, q : At(page, q).page = page /\ At(page, q).party = q
  BY DEF At
<1>3. ASSUME NEW page \in {"show", "payment", "manage", "myItems"}, NEW ps,
             \A q \in ps : Member(q), r \in To(page, ps)
      PROVE  MayRead(r.page, r.party)
  BY <1>2, <1>3 DEF To, MayRead
<1>4. CASE route.page = "show"
  <2>1. Member(p) /\ v.owner = Owner(p) /\ v.archived = Archived(p)
    BY <1>0, <1>1, <1>4, ShowFields DEF MayRead, ViewOf, PartyPages
  <2>2. \/ r \in {At(page, p) : page \in {"members", "bestpay", "myItems", "manage", "add"}}
        \/ r = At("edit", p) /\ Owner(p) /\ ~Archived(p)
    BY <1>4, <2>1 DEF BodyLinks, ShowLinks
  <2>3. CASE r \in {At(page, p) : page \in {"members", "bestpay", "myItems", "manage", "add"}}
    BY <1>2, <2>1, <2>3 DEF MayRead
  <2>4. CASE r = At("edit", p) /\ Owner(p) /\ ~Archived(p)
    BY <1>2, <2>4 DEF MayRead
  <2> QED BY <2>2, <2>3, <2>4
<1>5. CASE route.page = "invite"
  <2>1. Open(p) /\ v.party = p /\ v.users = members[p] \cap {Me}
    BY <1>0, <1>1, <1>5, InviteFields DEF MayRead, ViewOf, PartyPages
  <2>2. \/ r = At("list", None)
        \/ r = At("show", p) /\ Member(p)
    BY <1>5, <2>1 DEF BodyLinks, InviteLinks, Member, Open
  <2>3. CASE r = At("list", None)
    BY <1>2, <2>3 DEF MayRead
  <2>4. CASE r = At("show", p) /\ Member(p)
    BY <1>2, <2>4 DEF MayRead
  <2> QED BY <2>2, <2>3, <2>4
<1>6. CASE route.page = "myItems"
  BY <1>1, <1>2, <1>6 DEF BodyLinks, MyItemsLinks, MayRead, PartyPages
<1>7. CASE route.page = "add"
  <2>1. r = At("create", None) \/ r = At("joinForm", None)
    BY <1>7 DEF BodyLinks, AddLinks
  <2> QED BY <1>2, <2>1 DEF MayRead
<1>8. CASE route.page = "home"
  BY <1>1, <1>3, <1>8, ListFields DEF BodyLinks, HomeLinks, ViewOf
<1>9. CASE route.page = "list"
  <2>1. v.parties = {q \in Parties : Member(q) \/ Owner(q)}
    BY <1>1, <1>9, ListFields DEF ViewOf
  <2>2. \A q \in v.parties : Member(q)
    BY <1>0, <2>1 DEF OwnersIn, Owner, Member
  <2> QED BY <1>3, <1>9, <2>2 DEF BodyLinks, ListLinks
<1>10. CASE route.page \in {"bills", "items", "payments"}
  <2>1. \A q \in Payments \cup Receivings : Member(q)
    BY DEF Payments, Receivings
  <2>2. CASE route.page = "bills"
    BY <1>1, <1>3, <2>1, <2>2, ListFields DEF BodyLinks, BillsLinks, ViewOf
  <2>3. CASE route.page = "items"
    BY <1>1, <1>3, <2>1, <2>3, ListFields DEF BodyLinks, ItemsLinks, ViewOf
  <2>4. CASE route.page = "payments"
    BY <1>1, <1>3, <2>1, <2>4, ListFields DEF BodyLinks, PaymentsLinks, ViewOf
  <2> QED BY <1>10, <2>2, <2>3, <2>4
<1> QED BY <1>4, <1>5, <1>6, <1>7, <1>8, <1>9, <1>10 DEF BodyLinks

-----------------------------------------------------------------------------
(* Theorems *)

(* Every variable of the tab and of the server keeps its type, however     *)
(* many requests, users and parties there are.                             *)
THEOREM TabIsTyped == Spec => []TypeOK
<1>1. TabInv => TypeOK
  BY DEF TabInv
<1> QED BY <1>1, TabAlways, PTL

(* A page at rest shows the party of its address, unless the address got   *)
(* another party under a request of the page: the loads that a handler of  *)
(* a page that is gone starts, and replies in any order, do not break it.  *)
THEOREM PagesShowTheirParty == Spec => []PageShowsItsParty
<1>1. TabInv => PageShowsItsParty
  BY DEF TabInv, PageInv
<1> QED BY <1>1, TabAlways, PTL

(* A page that catches the errors of its load and still spins has a load   *)
(* under way.                                                              *)
THEOREM SpinnersHaveALoad == Spec => []SpinnerHasALoad
<1>1. TabInv => SpinnerHasALoad
  BY DEF TabInv, PageInv
<1> QED BY <1>1, TabAlways, PTL

(* What a page announces as done was done by the server, but for a removal *)
(* whose DELETE failed, and for the handlers that do not look at ret, over *)
(* a view that a write has outdated or when a statement failed.            *)
THEOREM SuccessIsNoLie == Spec => []SuccessIsTrue
<1>1. TabInv => SuccessIsTrue
  <2> SUFFICES ASSUME TabInv, NEW s \in Slots, call[s].pc = "answered", call[s].op \in Writes,
                      SaysDone(call[s])
               PROVE  \/ call[s].done
                      \/ Unchecked(call[s]) /\ (~call[s].fresh \/ call[s].failed)
                      \/ call[s].op = "remove" /\ call[s].failed
    BY DEF SuccessIsTrue
  <2>1. call[s] \in Call /\ WellMade(call[s]) /\ Honours(call[s]) /\ Answered(call[s])
    BY OneRequest
  <2>2. CASE call[s].status = "ok"
    BY <2>1, <2>2 DEF Answered
  <2>3. CASE call[s].status # "ok"
    <3>1. Unchecked(call[s]) /\ call[s].status = "refused"
      BY <2>1, <2>3 DEF SaysDone, WellMade, Call
    <3> QED BY <2>1, <3>1 DEF Honours
  <2> QED BY <2>2, <2>3
<1> QED BY <1>1, TabAlways, PTL

(* A button or a link of a page that shows what the server has is refused  *)
(* only for the reasons no page can know (Excused), or by a failure.       *)
THEOREM FreshOffersHold == Spec => FreshOffersAreHonoured
<1> DEFINE Honest ==
      /\ \A s \in Slots :
            call[s].pc = "sent" /\ call'[s].status = "refused"
               /\ call[s].op \in Writes /\ call[s].fresh =>
                  Excused(call[s]) \/ call'[s].failed
      /\ Current /\ route' # route /\ route' \in BodyLinks(route, tab.view) =>
            MayRead(route'.page, route'.party)
<1>1. TabInv /\ [Next]_vars => Honest
  <2> SUFFICES ASSUME TabInv, [Next]_vars PROVE Honest
    OBVIOUS
  <2>1. RefusedByGuard
    BY NextRefusesByGuard
  <2>2. \A s \in Slots : Honours(call[s])
    BY OneRequest
  <2> QED BY <2>1, <2>2, LinksHonoured DEF RefusedByGuard, Honours
<1> QED BY <1>1, TabAlways, PTL DEF Spec, FreshOffersAreHonoured

-----------------------------------------------------------------------------
(* Quiet tabs: what a step leaves alone *)

LEMMA RowsStay ==
    ASSUME UNCHANGED storeVars, NEW v, NEW is
    PROVE  Rows(v, is)' = Rows(v, is)
<1>1. item' = item
  BY DEF storeVars
<1>2. {i \in is : item[i].paid}' = {i \in is : item[i].paid}
      /\ {i \in is : item[i].initiator = Me}' = {i \in is : item[i].initiator = Me}
  BY <1>1
<1> QED BY <1>2 DEF Rows

LEMMA ViewsStay ==
    ASSUME UNCHANGED storeVars, NEW page, NEW p
    PROVE  /\ ViewOf(page, p)' = ViewOf(page, p)
           /\ MayRead(page, p)' = MayRead(page, p)
           /\ Choices' = Choices /\ MembersOf(p)' = MembersOf(p)
<1>1. members' = members /\ party' = party /\ item' = item
  BY DEF storeVars
<1>2. MayRead(page, p)' = MayRead(page, p)
  BY QueriesStay DEF MayRead
<1>3. Choices' = Choices
  BY QueriesStay DEF Choices
<1>4. MembersOf(p)' = MembersOf(p)
  BY <1>1 DEF MembersOf
<1>5. \A q : Owing(q)' = Owing(q) /\ Waiting(q)' = Waiting(q)
             /\ Plan(q, members[q])' = Plan(q, members[q])
  BY <1>1, QueriesStay DEF Owing, Waiting, Plan
<1>6. Payments' = Payments /\ Receivings' = Receivings
  BY <1>5, QueriesStay DEF Payments, Receivings
<1>7. /\ HomeView' = HomeView /\ ListView' = ListView
      /\ PaymentsView' = PaymentsView /\ ItemsView' = ItemsView /\ BillsView' = BillsView
  BY <1>6, QueriesStay DEF HomeView, ListView, PaymentsView, ItemsView, BillsView
<1>8. \A q : /\ ShowView(q)' = ShowView(q) /\ MembersView(q)' = MembersView(q)
             /\ BestPayView(q)' = BestPayView(q) /\ MyItemsView(q)' = MyItemsView(q)
             /\ ManageView(q)' = ManageView(q) /\ PaymentView(q)' = PaymentView(q)
  BY <1>1, <1>5, QueriesStay, RowsStay
     DEF ShowView, MembersView, BestPayView, MyItemsView, ManageView, PaymentView
<1>9. \A q : /\ InviteView(q)' = InviteView(q) /\ EditView(q)' = EditView(q)
             /\ AddView(q)' = AddView(q)
  BY <1>1, <1>3, <1>4 DEF InviteView, EditView, AddView, Choices, MembersOf
<1>10. ViewOf(page, p)' = ViewOf(page, p)
  BY <1>7, <1>8, <1>9 DEF ViewOf
<1> QED BY <1>2, <1>3, <1>4, <1>10

LEMMA CurrentStays ==
    ASSUME Current, UNCHANGED storeVars, route' = route, tab'.view = tab.view, AtRest'
    PROVE  Current'
<1>1. Subject' = Subject
  BY DEF Subject
<1>2. /\ MayRead(route.page, Subject)' = MayRead(route.page, Subject)
      /\ ViewOf(route.page, Subject)' = ViewOf(route.page, Subject)
  <2>1. PICK page, p : page = route.page /\ p = Subject
    OBVIOUS
  <2>2. MayRead(page, p)' = MayRead(page, p) /\ ViewOf(page, p)' = ViewOf(page, p)
    BY ViewsStay
  <2> QED BY <1>1, <2>1, <2>2
<1> QED BY <1>1, <1>2 DEF Current

LEMMA StillTrueStays ==
    ASSUME UNCHANGED storeVars, NEW c, StillTrue(c)
    PROVE  StillTrue(c)'
BY ViewsStay DEF StillTrue

\* The page and the server are as before, but that the page may show an error.
PageUnchanged ==
    /\ UNCHANGED storeVars /\ route' = route
    /\ tab'.view = tab.view /\ tab'.loading = tab.loading /\ (AtRest' => AtRest)
    /\ (Quiet' => Quiet)

LEMMA OneCallStays ==
    ASSUME PageUnchanged, NEW c, OneCall(c)
    PROVE  OneCall(c)'
<1>1. StillTrue(c) => StillTrue(c)'
  BY StillTrueStays DEF PageUnchanged
<1>2. Current /\ AtRest' => Current'
  BY CurrentStays DEF PageUnchanged
<1> QED BY <1>1, <1>2 DEF OneCall, PageUnchanged

LEMMA AddStays ==
    ASSUME AddInv, UNCHANGED storeVars, tab'.view = tab.view,
           \A s \in Slots : call'[s].op = "info" =>
                             call'[s].party = tab.view.party /\ ~tab'.loading,
           (\E s \in Slots : Done(call[s])) => \E s \in Slots : Done(call'[s]),
           UnderWay("info") => UnderWay("info")', tab.loading => tab'.loading
    PROVE  AddInv'
<1>1. Choices' = Choices /\ MembersOf(tab.view.party)' = MembersOf(tab.view.party)
  <2>1. PICK p : p = tab.view.party
    OBVIOUS
  <2>2. Choices' = Choices /\ MembersOf(p)' = MembersOf(p)
    BY ViewsStay
  <2> QED BY <2>1, <2>2
<1>2. /\ PickIsOpen => PickIsOpen'
      /\ UsersAreCurrent => UsersAreCurrent'
      /\ ListIsCurrent => ListIsCurrent'
  BY <1>1 DEF PickIsOpen, UsersAreCurrent, ListIsCurrent
<1> QED BY <1>2 DEF AddInv

\* One slot changes, and is no other load than it was.
LEMMA AddSlot ==
    ASSUME AddInv, UNCHANGED storeVars, tab'.view = tab.view, tab'.loading = tab.loading,
           call \in [Slots -> Call],
           NEW s \in Slots, NEW d, call' = [call EXCEPT ![s] = d], ~Done(call[s]),
           \/ d.op = call[s].op /\ d.party = call[s].party
           \/ d.op \notin Reads /\ call[s].op \notin Reads
    PROVE  AddInv'
<1>1. call'[s] = d /\ \A z \in Slots \ {s} : call'[z] = call[z]
  OBVIOUS
<1>2. \A z \in Slots : call'[z].op = "info" =>
                        call'[z].party = tab.view.party /\ ~tab'.loading
  BY <1>1 DEF AddInv, Reads
<1>3. UnderWay("info") => UnderWay("info")'
  BY <1>1 DEF UnderWay, Reads
<1> QED BY <1>1, <1>2, <1>3, AddStays

\* The rows of QuietInv, from what the step leaves under way: nothing,
LEMMA NobodyBusy ==
    ASSUME Quiet' => /\ \A s \in Slots : ~IsBusy(call'[s])
                     /\ AtRest' => Current'
                     /\ route'.page = "add" => AddInv'
    PROVE  QuietInv'
BY DEF QuietInv, OnlyBusy

\* or one request.
LEMMA OneBusy ==
    ASSUME NEW s \in Slots, NEW d \in Call, call'[s] = d, IsBusy(d),
           Quiet' => /\ OnlyBusy(call', s)
                     /\ OneCall(d)'
                     /\ route'.page = "add" => AddInv'
    PROVE  QuietInv'
<1>1. Busy(call')
  BY DEF Busy, IsBusy
<1> QED BY <1>1 DEF QuietInv, OnlyBusy

LEMMA NotBusy == \A calls : ~Busy(calls) <=> \A s \in Slots : ~IsBusy(calls[s])
BY DEF Busy, IsBusy

\* A load is under way from the start; nothing else is.
LEMMA NoReads ==
    ASSUME NEW calls, Requests(calls), ~Busy(calls)
    PROVE  \A s \in Slots : calls[s].op \notin Reads
BY DEF Requests, WellMade, Busy, Call, Reads

\* The fields of such a view.
PickOf(v, p, ps, us) ==
    /\ v \in View /\ v.party = p /\ v.parties = ps /\ v.users = us
    /\ v.owner = FALSE /\ v.archived = FALSE
    /\ v.items = {} /\ v.paid = {} /\ v.mine = {} /\ v.due = {}

LEMMA PickedFields ==
    \A p \in Parties \cup {None}, ps \in SUBSET Parties, us \in SUBSET Users :
        PickOf(Picked(p, ps, us), p, ps, us)
<1> SUFFICES ASSUME NEW p \in Parties \cup {None}, NEW ps \in SUBSET Parties,
                    NEW us \in SUBSET Users
             PROVE  PickOf(Picked(p, ps, us), p, ps, us)
  OBVIOUS
<1> DEFINE v == [NoView EXCEPT !.party = p]
           w == [v EXCEPT !.parties = ps]
           x == [w EXCEPT !.users = us]
<1>1. /\ v \in View /\ v.party = p /\ ~v.owner /\ ~v.archived /\ v.items = {} /\ v.paid = {}
      /\ v.mine = {} /\ v.due = {}
  BY IdleCall DEF View, NoView
<1> HIDE DEF v
<1>2. /\ w \in View /\ w.party = p /\ ~w.owner /\ ~w.archived /\ w.items = {} /\ w.paid = {}
      /\ w.mine = {} /\ w.due = {} /\ w.parties = ps
  BY <1>1 DEF View
<1> HIDE DEF w
<1>3. /\ x \in View /\ x.party = p /\ ~x.owner /\ ~x.archived /\ x.items = {} /\ x.paid = {}
      /\ x.mine = {} /\ x.due = {} /\ x.parties = ps /\ x.users = us
  BY <1>2 DEF View
<1>4. x = Picked(p, ps, us)
  BY DEF Picked, v, w, x
<1> HIDE DEF x
<1>5. PickOf(x, p, ps, us)
  BY <1>3 DEF View, PickOf
<1> QED BY <1>4, <1>5

\* The view of items/add is what the server has, when nothing is under way.
LEMMA AddViewIs ==
    ASSUME StoreTypeOK, NEW p \in Parties \cup {None}
    PROVE  AddView(p) = Picked(p, Choices, MembersOf(p))
<1>1. Choices \in SUBSET Parties /\ MembersOf(p) \in SUBSET Users
  BY DEF Choices, MembersOf, StoreTypeOK
<1>2. AddView(p) = [[OfParty(p) EXCEPT !.parties = Choices] EXCEPT !.users = MembersOf(p)]
  BY DEF AddView, Choices, MembersOf
<1> QED BY <1>2 DEF Picked, OfParty

\* Views are told apart by their fields.
LEMMA SameView ==
    ASSUME NEW v \in View, NEW w \in View,
           v.party = w.party, v.owner = w.owner, v.archived = w.archived, v.items = w.items,
           v.paid = w.paid, v.mine = w.mine, v.users = w.users, v.parties = w.parties, v.due = w.due
    PROVE  v = w
BY DEF View

LEMMA NoViewPicked == NoView = Picked(None, {}, {})
<1>1. Picked(None, {}, {}) \in View /\ NoView \in View
  <2>1. PickOf(Picked(None, {}, {}), None, {}, {})
    <3>1. {} \in SUBSET Parties /\ {} \in SUBSET Users /\ None \in Parties \cup {None}
      OBVIOUS
    <3> QED BY <3>1, PickedFields
  <2> QED BY <2>1, IdleCall DEF PickOf
<1>2. LET v == Picked(None, {}, {}) IN
      /\ v.party = None /\ v.parties = {} /\ v.users = {} /\ v.owner = FALSE /\ v.archived = FALSE
      /\ v.items = {} /\ v.paid = {} /\ v.mine = {} /\ v.due = {}
  <2>1. PickOf(Picked(None, {}, {}), None, {}, {})
    <3>1. {} \in SUBSET Parties /\ {} \in SUBSET Users /\ None \in Parties \cup {None}
      OBVIOUS
    <3> QED BY <3>1, PickedFields
  <2> QED BY <2>1 DEF PickOf
<1>3. /\ NoView.party = None /\ NoView.parties = {} /\ NoView.users = {} /\ NoView.owner = FALSE
      /\ NoView.archived = FALSE /\ NoView.items = {} /\ NoView.paid = {} /\ NoView.mine = {}
      /\ NoView.due = {}
  BY DEF NoView
<1> QED BY <1>1, <1>2, <1>3, SameView

LEMMA LoadQuiet ==
    ASSUME NEW calls \in [Slots -> Call], NEW q, q.page \in Pages, q.party \in Parties \cup {None},
           NEW t \in Tab, Load(calls, q, t), q.page = "list" => t.loading,
           Quiet' => (route'.page = "add" => AddInv')
    PROVE  QuietInv'
<1>1. PICK s \in Slots : calls[s].pc = "idle" /\ call' = [calls EXCEPT ![s] = LoadCall(q)]
  BY LoadEffect
<1>2. TabLoads(t, calls, q, tab')
  BY LoadEffect
<1>3. PICK d \in Call : d = LoadCall(q)
  BY LoadCallFields
<1>4. /\ d.pc = "sent" /\ d.op = "load" /\ d.page = q.page /\ d.mounted /\ d.status = "none"
  BY <1>3, LoadCallFields
<1>5. call'[s] = d /\ \A z \in Slots \ {s} : call'[z] = calls[z]
  BY <1>1, <1>3
<1>6. Quiet' => ~Busy(calls)
  BY <1>2 DEF Quiet, TabLoads
<1>7. Quiet' => OnlyBusy(call', s)
  BY <1>5, <1>6, NotBusy DEF OnlyBusy
<1>8. OneCall(d)'
  BY <1>2, <1>4 DEF OneCall, TabLoads, Writes, Reads
<1>9. IsBusy(d)
  BY <1>4 DEF IsBusy
<1> QED BY <1>5, <1>7, <1>8, <1>9, OneBusy

LEMMA MountQuiet ==
    ASSUME NEW calls, NEW r \in Routes, Requests(calls), Mount(calls, r)
    PROVE  QuietInv'
<1> DEFINE left == Unmount(calls)
<1>1. route' = r /\ r.page \in Pages /\ r.party \in Parties \cup {None}
  BY RouteFields DEF Mount
<1>2. left \in [Slots -> Call] /\ \A s \in Slots : left[s].op \notin Reads
  BY UnmountFields DEF Requests
<1>3. NewTab(r) \in Tab /\ NewTab(r).view = NoView /\ NewTab(r).loading = Loads(r.page)
      /\ ~NewTab(r).err
  BY NewTabFields
<1> HIDE DEF left
<1>4. CASE Loads(r.page)
  <2>1. Load(left, r, NewTab(r))
    BY <1>4 DEF Mount, left
  <2>2. PICK s \in Slots : left[s].pc = "idle" /\ call' = [left EXCEPT ![s] = LoadCall(r)]
    BY <1>3, <2>1, LoadEffect
  <2>3. tab'.view = NoView /\ tab'.loading
    BY <1>3, <1>4, <2>1, LoadEffect DEF TabLoads
  <2>4. call'[s].op = "load" /\ \A z \in Slots \ {s} : call'[z] = left[z]
    BY <1>1, <1>2, <2>2, LoadCallFields
  <2>5. AddInv'
    <3>1. tab'.view.party = None /\ tab'.view.parties = {} /\ tab'.view.users = {}
      BY <2>3 DEF NoView
    <3>2. tab'.view = Picked(tab'.view.party, tab'.view.parties, tab'.view.users)
      BY <2>3, <3>1, NoViewPicked
    <3>3. \A z \in Slots : call'[z].op # "info"
      BY <1>2, <2>4 DEF Reads
    <3>4. PickIsOpen' /\ UsersAreCurrent'
      BY <3>1 DEF PickIsOpen, UsersAreCurrent, MembersOf
    <3> QED BY <2>3, <3>1, <3>2, <3>3, <3>4 DEF AddInv
  <2> QED BY <1>1, <1>2, <1>3, <1>4, <2>1, <2>5, LoadQuiet
<1>5. CASE ~Loads(r.page)
  <2>1. call' = left /\ tab' = [NewTab(r) EXCEPT !.calm = ~Busy(left)]
    BY <1>5 DEF Mount, left
  <2>2. tab'.view = NoView /\ (tab'.calm => ~Busy(left))
    <3> DEFINE b == ~Busy(left)
    <3>1. b \in BOOLEAN
      OBVIOUS
    <3>2. b => ~Busy(left)
      OBVIOUS
    <3>3. tab' = [NewTab(r) EXCEPT !.calm = b]
      BY <2>1
    <3> HIDE DEF b
    <3> QED BY <1>3, <3>1, <3>2, <3>3 DEF Tab
  <2>3. r.page \in {"create", "joinForm"}
    BY <1>5 DEF Loads
  <2>4. AtRest' => Current'
    <3>1. \A p : MayRead(r.page, p)' /\ ViewOf(r.page, p)' = NoView
      BY <2>3 DEF MayRead, ViewOf
    <3> QED BY <1>1, <2>2, <2>3, <3>1 DEF Current
  <2> QED BY <1>1, <2>1, <2>2, <2>3, <2>4, NobodyBusy, NotBusy DEF Quiet
<1> QED BY <1>4, <1>5

\* items/add at rest: list, members and party are the server's.
LEMMA AddAtRest ==
    ASSUME AddInv, Requests(call), ~Busy(call), ~tab.loading
    PROVE  PickIsOpen /\ UsersAreCurrent /\ ListIsCurrent
<1>1. ~UnderWay("info")
  BY NoReads DEF UnderWay, Reads
<1>2. ~(\E s \in Slots : Done(call[s]))
  BY NotBusy DEF Done
<1> QED BY <1>1, <1>2 DEF AddInv

LEMMA TurnQuiet ==
    ASSUME PageInv, QuietInv, UNCHANGED storeVars, used'.elsewhere = used.elsewhere,
           NEW r \in Routes, r # route, r.page = route.page, Turn(call, r)
    PROVE  QuietInv'
<1> DEFINE j == tab.jumped \/ \E s \in Slots : call[s].mounted
           t == [tab EXCEPT !.jumped = j]
<1>1. route' = r /\ r.page \in Pages /\ r.party \in Parties \cup {None} /\ Load(call, r, t)
  BY RouteFields DEF Turn, PageInv, Tab
<1>2. t \in Tab /\ t.view = tab.view /\ t.calm = tab.calm /\ t.jumped = j
      /\ t.loading = tab.loading
  <2>1. j \in BOOLEAN
    BY DEF PageInv, Tab
  <2> HIDE DEF j
  <2> QED BY <2>1 DEF PageInv, Tab
<1> HIDE DEF t
<1>3. Requests(call) /\ call \in [Slots -> Call]
  BY DEF PageInv, Belong, Requests
<1>4. TabLoads(t, call, r, tab')
  BY <1>1, <1>2, LoadEffect
<1>5. PICK s \in Slots : call[s].pc = "idle" /\ call' = [call EXCEPT ![s] = LoadCall(r)]
  BY <1>1, <1>2, LoadEffect
<1>6. ASSUME Quiet', r.page = "add" PROVE AddInv'
  <2>1. Quiet /\ ~Busy(call)
    BY <1>2, <1>4, <1>6 DEF Quiet, TabLoads
  <2>2. AddInv
    BY <1>6, <2>1 DEF QuietInv
  <2>3. call[s].op \notin Reads
    BY <1>3, <2>1, NoReads
  <2>4. tab'.view = tab.view
    BY <1>2, <1>4 DEF TabLoads
  <2>5. LoadCall(r).op = "load"
    BY <1>1, LoadCallFields
  <2>6. call'[s].op = "load" /\ \A z \in Slots \ {s} : call'[z] = call[z]
    BY <1>3, <1>5, <2>5
  <2>7. \A z \in Slots : call'[z].op # "info"
    BY <1>3, <2>1, <2>6, NoReads DEF Reads
  <2>8. \A z \in Slots : ~Done(call[z])
    BY <2>1, NotBusy DEF Done
  <2>9. ~UnderWay("info") /\ (tab.loading => tab'.loading)
    BY <1>2, <1>3, <1>4, <2>1, NoReads DEF UnderWay, Reads, TabLoads
  <2> QED BY <2>2, <2>4, <2>7, <2>8, <2>9, AddStays
<1>7. r.page # "list"
  <2>1. route \in Routes
    BY DEF PageInv
  <2>2. "list" \in ListPages
    BY DEF ListPages
  <2>3. r.page = "list" => r.party = None /\ route.party = None
    BY <2>1, <2>2, RouteFields
  <2>4. r.page = "list" => r = route
    BY <2>1, <2>3, RouteFields
  <2> QED BY <2>4
<1> QED BY <1>1, <1>2, <1>3, <1>6, <1>7, LoadQuiet

\* Only slots that are not busy change, and none of them is a load.
LEMMA RestQuiet ==
    ASSUME QuietInv, PageUnchanged, call' \in [Slots -> Call],
           \A s \in Slots : \/ call'[s] = call[s]
                            \/ /\ ~IsBusy(call[s]) /\ ~IsBusy(call'[s])
                               /\ call[s].op \notin Reads /\ call'[s].op \notin Reads
    PROVE  QuietInv'
<1> SUFFICES ASSUME Quiet' PROVE QuietInv'
  BY DEF QuietInv
<1>1. Quiet /\ UNCHANGED storeVars /\ route' = route /\ tab'.view = tab.view /\ (AtRest' => AtRest)
  BY DEF PageUnchanged
<1>2. \A s \in Slots : IsBusy(call'[s]) => OnlyBusy(call', s)
  BY <1>1 DEF QuietInv, OnlyBusy
<1>3. ASSUME NEW s \in Slots, NEW c \in Call, call'[s] = c, IsBusy(c) PROVE OneCall(c)'
  <2>1. call[s] = c
    BY <1>3
  <2> QED BY <1>1, <1>3, <2>1, OneCallStays DEF QuietInv
<1>4. ~Busy(call') /\ AtRest' => Current'
  <2>1. ~Busy(call') => ~Busy(call)
    BY NotBusy
  <2> QED BY <1>1, <2>1, CurrentStays DEF QuietInv
<1>5. ASSUME route'.page = "add" PROVE AddInv'
  <2>1. AddInv
    BY <1>1, <1>5 DEF QuietInv
  <2>2. \A s \in Slots : call'[s].op = "info" =>
                          call'[s].party = tab.view.party /\ ~tab'.loading
    BY <2>1 DEF AddInv, Reads, PageUnchanged
  <2>3. (\E s \in Slots : Done(call[s])) => \E s \in Slots : Done(call'[s])
    BY DEF Done
  <2>4. UnderWay("info") => UnderWay("info")'
    BY DEF UnderWay, Reads
  <2>5. tab.loading => tab'.loading
    BY DEF PageUnchanged
  <2> QED BY <1>1, <2>1, <2>2, <2>3, <2>4, <2>5, AddStays
<1> QED BY <1>2, <1>3, <1>4, <1>5 DEF QuietInv

LEMMA ArriveQuiet ==
    ASSUME TabInv, QuietInv, UNCHANGED storeVars, used'.elsewhere = used.elsewhere,
           NEW r \in Routes, Arrive(call, r)
    PROVE  QuietInv'
<1>0. PageInv /\ Requests(call)
  BY DEF TabInv, PageInv, Belong
<1>1. CASE r = route
  <2>1. call' = call /\ route' = route /\ tab' = tab
    BY <1>1 DEF Arrive
  <2>2. PageUnchanged
    BY <2>1 DEF PageUnchanged, AtRest, Quiet
  <2> QED BY <1>0, <2>1, <2>2, RestQuiet DEF Requests
<1>2. CASE r # route /\ r.page = route.page
  BY <1>0, <1>2, TurnQuiet DEF Arrive
<1>3. CASE r.page # route.page
  BY <1>0, <1>3, MountQuiet DEF Arrive
<1> QED BY <1>1, <1>2, <1>3

-----------------------------------------------------------------------------
(* Every action keeps QuietInv *)

LEMMA MovesQuiet ==
    ASSUME TabInv, QuietInv, Spend("moves", MaxMoves)
    PROVE  used'.elsewhere = used.elsewhere
BY DEF TabInv, TypeOK, Spend

LEMMA WritesQuiet ==
    ASSUME TabInv, QuietInv, Spend("writes", MaxWrites)
    PROVE  used'.elsewhere = used.elsewhere
BY DEF TabInv, TypeOK, Spend

LEMMA FollowQuiet == TabInv /\ QuietInv /\ Follow => QuietInv'
BY ArriveQuiet, LinkRoutes, MovesQuiet DEF Follow, TabInv

LEMMA VisitQuiet == TabInv /\ QuietInv /\ Visit => QuietInv'
BY ArriveQuiet, MovesQuiet DEF Visit

\* A dialog opens or closes.
LEMMA DialogQuiet ==
    ASSUME TabInv, QuietInv, TabInv', UNCHANGED <<storeVars, route, tab, used>>, NEW s \in Slots,
           ~IsBusy(call[s]), call[s].op \notin Reads, NEW d, ~IsBusy(d), d.op \notin Reads,
           call' = [call EXCEPT ![s] = d]
    PROVE  QuietInv'
<1>1. PageUnchanged
  BY DEF PageUnchanged, AtRest, Quiet
<1>2. call \in [Slots -> Call] /\ call' \in [Slots -> Call]
  BY DEF TabInv, TypeOK
<1> QED BY <1>1, <1>2, RestQuiet

LEMMA IdleSlot ==
    ASSUME TabInv, NEW s \in Slots, call[s].pc \in {"idle", "asked"}
    PROVE  ~IsBusy(call[s]) /\ call[s].op \notin Reads
<1>1. call[s] \in Call /\ WellMade(call[s])
  BY OneRequest
<1> QED BY <1>1 DEF IsBusy, WellMade, Reads

LEMMA AskQuiet == TabInv /\ QuietInv /\ TabInv' /\ Ask => QuietInv'
<1> SUFFICES ASSUME TabInv, QuietInv, TabInv', Ask PROVE QuietInv'
  OBVIOUS
<1>1. PICK o \in Offers : call' = Put(call, Made(o, "asked"))
  BY DEF Ask
<1>2. PICK s \in Slots : /\ call[s].pc = "idle"
                         /\ call' = [call EXCEPT ![s] = Made(o, "asked")]
  BY <1>1, PutOne DEF Ask
<1>3. Made(o, "asked").pc = "asked" /\ Made(o, "asked").op \in Writes
  BY MadeFields DEF TabInv
<1>4. ~IsBusy(Made(o, "asked")) /\ Made(o, "asked").op \notin Reads
  BY <1>3 DEF IsBusy, Writes, Reads
<1> QED BY <1>2, <1>4, IdleSlot, DialogQuiet DEF Ask

LEMMA CancelQuiet == \A s \in Slots : TabInv /\ QuietInv /\ TabInv' /\ Cancel(s) => QuietInv'
<1> SUFFICES ASSUME NEW s \in Slots, TabInv, QuietInv, TabInv', Cancel(s) PROVE QuietInv'
  OBVIOUS
<1>1. ~IsBusy(Idle) /\ Idle.op \notin Reads
  BY IdleCall DEF IsBusy, Reads
<1> QED BY <1>1, IdleSlot, DialogQuiet DEF Cancel, Drop

LEMMA TickQuiet == TabInv /\ QuietInv /\ Tick => QuietInv'
<1> SUFFICES ASSUME TabInv, QuietInv, Tick PROVE QuietInv'
  OBVIOUS
<1>1. PICK us \in SUBSET tab.view.users : tab' = [tab EXCEPT !.ticked = us]
  BY DEF Tick
<1>2. tab'.view = tab.view /\ tab'.loading = tab.loading /\ tab'.err = tab.err
      /\ tab'.calm = tab.calm /\ tab'.jumped = tab.jumped
  BY <1>1 DEF TabInv, PageInv, Tab
<1>3. PageUnchanged
  BY <1>2 DEF PageUnchanged, AtRest, Quiet, Tick
<1> QED BY <1>3, RestQuiet DEF Tick, TabInv, TypeOK

\* A write is sent, when nothing else is under way.
LEMMA SentQuiet ==
    ASSUME TabInv, QuietInv, UNCHANGED <<storeVars, route>>, NEW b, b \in BOOLEAN,
           tab' = [tab EXCEPT !.calm = b], b => tab.calm /\ ~Busy(call),
           used'.elsewhere = used.elsewhere,
           NEW s \in Slots, call[s].pc \in {"idle", "asked"}, NEW d \in Call,
           call' = [call EXCEPT ![s] = d],
           d.pc = "sent", d.op \in Writes, d.status = "none", b => d.mounted
    PROVE  QuietInv'
<1>1. call \in [Slots -> Call] /\ ~IsBusy(call[s]) /\ call[s].op \notin Reads
  BY IdleSlot DEF TabInv, TypeOK
<1>2. call'[s] = d /\ \A z \in Slots \ {s} : call'[z] = call[z]
  BY <1>1
<1>3. tab'.view = tab.view /\ tab'.loading = tab.loading /\ tab'.err = tab.err
      /\ tab'.calm = b /\ tab'.jumped = tab.jumped
  BY DEF TabInv, PageInv, Tab
<1>4. Quiet' => Quiet /\ b /\ ~Busy(call)
  BY <1>3 DEF Quiet
<1>5. AtRest' => AtRest
  BY <1>3 DEF AtRest
<1>6. Quiet' => OnlyBusy(call', s)
  BY <1>2, <1>4, NotBusy DEF OnlyBusy
<1>7. Quiet' => OneCall(d)'
  <2>1. Quiet' /\ AtRest' => Current'
    BY <1>3, <1>4, <1>5, CurrentStays DEF QuietInv
  <2>2. d.op \notin Reads /\ d.op # "load" /\ d.op # "info"
    BY DEF Writes, Reads
  <2> QED BY <1>4, <2>1, <2>2 DEF OneCall
<1>8. Quiet' /\ route'.page = "add" => AddInv'
  <2>1. d.op \notin Reads
    BY DEF Writes, Reads
  <2>2. ~Done(call[s])
    BY <1>1 DEF Done
  <2> QED BY <1>1, <1>3, <1>4, <2>1, <2>2, AddSlot DEF QuietInv
<1>9. IsBusy(d)
  BY DEF IsBusy
<1> QED BY <1>2, <1>6, <1>7, <1>8, <1>9, OneBusy

LEMMA ConfirmQuiet == \A s \in Slots : TabInv /\ QuietInv /\ Confirm(s) => QuietInv'
<1> SUFFICES ASSUME NEW s \in Slots, TabInv, QuietInv, Confirm(s) PROVE QuietInv'
  OBVIOUS
<1> DEFINE c == call[s]
           d == [c EXCEPT !.pc = "sent"]
           b == tab.calm /\ ~Busy(call) /\ c.mounted
<1>1. c \in Call /\ WellMade(c) /\ c.pc = "asked"
  BY OneRequest DEF Confirm
<1>2. d \in Call /\ d.pc = "sent" /\ d.status = c.status /\ d.mounted = c.mounted
      /\ SameParty(c, d)
  BY <1>1, Sends
<1>3. call' = [call EXCEPT ![s] = d]
  BY DEF Confirm, TabInv, TypeOK, Call
<1>4. tab' = [tab EXCEPT !.calm = b]
  BY DEF Confirm, TabInv, PageInv, Tab
<1>5. b \in BOOLEAN /\ (b => tab.calm /\ ~Busy(call)) /\ (b => c.mounted)
  OBVIOUS
<1>6. call[s].pc \in {"idle", "asked"}
  BY <1>1
<1> HIDE DEF b, c, d
<1>7. d.op \in Writes /\ d.status = "none"
  BY <1>1, <1>2 DEF WellMade, Call, Reads, Writes, SameParty, SameRequest
<1>8. used'.elsewhere = used.elsewhere
  BY WritesQuiet DEF Confirm
<1> QED BY <1>2, <1>3, <1>4, <1>5, <1>6, <1>7, <1>8, SentQuiet DEF Confirm

LEMMA ClickQuiet == TabInv /\ QuietInv /\ Click => QuietInv'
<1> SUFFICES ASSUME TabInv, QuietInv, Click PROVE QuietInv'
  OBVIOUS
<1> DEFINE b == tab.calm /\ ~Busy(call)
<1>1. PICK o \in Offers : call' = Put(call, Made(o, "sent"))
  BY DEF Click
<1>2. PICK s \in Slots : /\ call[s].pc = "idle"
                         /\ call' = [call EXCEPT ![s] = Made(o, "sent")]
  BY <1>1, PutOne DEF Click
<1>3. LET d == Made(o, "sent") IN
      d \in Call /\ d.pc = "sent" /\ d.op \in Writes /\ d.status = "none" /\ d.mounted
  BY MadeFields DEF TabInv
<1>4. tab' = [tab EXCEPT !.calm = b] /\ b \in BOOLEAN /\ (b => tab.calm /\ ~Busy(call))
  BY DEF Click, TabInv, PageInv, Tab
<1>5. used'.elsewhere = used.elsewhere
  BY WritesQuiet DEF Click
<1> HIDE DEF b
<1>6. PICK d \in Call : d = Made(o, "sent")
  BY <1>3
<1> QED BY <1>2, <1>3, <1>4, <1>5, <1>6, SentQuiet DEF Click

\* A party is picked that an item can be for; the list is the server's.
LEMMA PickQuiet ==
    ASSUME StoreTypeOK, UNCHANGED storeVars, NEW calls, Requests(calls), NEW t \in Tab,
           NEW p \in Choices, Pick(calls, t, p), ~t.loading,
           Quiet' => t.view = Picked(t.view.party, Choices, t.view.users)
    PROVE  QuietInv'
<1> DEFINE c == [LoadCall(At("add", p)) EXCEPT !.op = "info"]
           v == [t.view EXCEPT !.party = p]
           b == t.calm /\ ~Busy(calls)
<1>0. Room(calls) /\ call' = Put(calls, c)
  BY DEF Pick
<1> HIDE DEF c
<1>1. PICK s \in Slots : calls[s].pc = "idle" /\ call' = [calls EXCEPT ![s] = c]
  BY <1>0, PutOne
<1>2. p \in Parties
  BY DEF Choices
<1>3. /\ c \in Call /\ c.pc = "sent" /\ c.op = "info" /\ c.party = p /\ c.mounted
      /\ c.status = "none"
  BY <1>2, InfoCallFields DEF c
<1>4. PICK d \in Call : d = c
  BY <1>3
<1>5. tab' = [[t EXCEPT !.view = v] EXCEPT !.calm = b] /\ t.view \in View
  BY DEF Pick, Tab
<1>6. /\ v \in View /\ v.party = p /\ v.parties = t.view.parties /\ v.users = t.view.users
      /\ v.owner = t.view.owner /\ v.archived = t.view.archived /\ v.items = t.view.items
      /\ v.paid = t.view.paid /\ v.mine = t.view.mine /\ v.due = t.view.due
  BY <1>2, <1>5 DEF View
<1>7. b \in BOOLEAN /\ (b => ~Busy(calls))
  OBVIOUS
<1> HIDE DEF v, b
<1>8. tab'.view = v /\ tab'.calm = b /\ ~tab'.loading
  BY <1>5, <1>6, <1>7 DEF Tab
<1>9. Quiet' => ~Busy(calls)
  BY <1>7, <1>8 DEF Quiet
<1>10. call'[s] = d /\ \A z \in Slots \ {s} : call'[z] = calls[z]
  BY <1>1, <1>4 DEF Requests
<1>11. Quiet' => OnlyBusy(call', s)
  BY <1>9, <1>10, NotBusy DEF OnlyBusy
<1>12. OneCall(d)' /\ IsBusy(d)
  BY <1>3, <1>4 DEF OneCall, IsBusy, Reads, Writes
<1>13. ASSUME Quiet' PROVE AddInv'
  <2>1. t.view.users \in SUBSET Users /\ t.view.party \in Parties \cup {None}
        /\ Choices \in SUBSET Parties
    BY <1>5 DEF View, Choices
  <2>2. PICK q \in Parties \cup {None}, ps \in SUBSET Parties, us \in SUBSET Users :
           q = t.view.party /\ ps = Choices /\ us = t.view.users
    BY <2>1
  <2>3. t.view = Picked(q, ps, us)
    BY <1>13, <2>2
  <2>4. PickOf(t.view, q, ps, us)
    BY <2>3, PickedFields
  <2> DEFINE w == Picked(p, ps, us)
  <2>5. PickOf(w, p, ps, us)
    BY <1>2, PickedFields
  <2> HIDE DEF w
  <2>6. v = w
    <3>1. w \in View /\ v.party = w.party /\ v.parties = w.parties /\ v.users = w.users
      BY <1>6, <2>4, <2>5 DEF PickOf
    <3>2. v.owner = w.owner /\ v.archived = w.archived
      BY <1>6, <2>4, <2>5 DEF PickOf
    <3>3. v.items = w.items /\ v.paid = w.paid /\ v.mine = w.mine /\ v.due = w.due
      BY <1>6, <2>4, <2>5 DEF PickOf
    <3> QED BY <1>6, <3>1, <3>2, <3>3, SameView
  <2>7. ps = v.parties /\ us = v.users
    BY <2>5, <2>6 DEF PickOf
  <2>8. v = Picked(v.party, v.parties, v.users)
    BY <1>6, <2>6, <2>7 DEF w
  <2>9. Choices' = Choices
    BY ViewsStay
  <2>10. PickIsOpen' /\ ListIsCurrent' /\ tab'.view.party # None
    BY <1>2, <1>6, <1>8, <2>2, <2>7, <2>9, NoneAssumption DEF PickIsOpen, ListIsCurrent
  <2>11. UnderWay("info")'
    BY <1>3, <1>4, <1>10 DEF UnderWay
  <2>12. \A z \in Slots : call'[z].op = "info" =>
                           call'[z].party = tab'.view.party /\ ~tab'.loading
    <3>1. \A z \in Slots : calls[z].op # "info"
      BY <1>9, <1>13, NoReads DEF Reads
    <3> QED BY <1>3, <1>4, <1>6, <1>8, <1>10, <3>1
  <2> QED BY <1>8, <2>8, <2>10, <2>11, <2>12 DEF AddInv
<1> QED BY <1>10, <1>11, <1>12, <1>13, OneBusy

LEMMA PickPartyQuiet == TabInv /\ QuietInv /\ PickParty => QuietInv'
<1> SUFFICES ASSUME TabInv, QuietInv, PickParty PROVE QuietInv'
  OBVIOUS
<1> SUFFICES ASSUME Quiet' PROVE QuietInv'
  BY DEF QuietInv
<1>1. PICK p \in tab.view.parties : Pick(call, tab, p)
  BY DEF PickParty
<1>2. Requests(call) /\ tab \in Tab /\ StoreTypeOK /\ route.page = "add" /\ ~tab.loading
  BY DEF TabInv, TypeOK, PageInv, Belong, PickParty, AtRest
<1>3. tab'.jumped = tab.jumped /\ (tab'.calm => tab.calm /\ ~Busy(call))
  <2> DEFINE v == [tab.view EXCEPT !.party = p]
             b == tab.calm /\ ~Busy(call)
  <2>1. tab' = [[tab EXCEPT !.view = v] EXCEPT !.calm = b]
    BY <1>1, <1>2 DEF Pick, Tab
  <2>2. b \in BOOLEAN /\ (b => tab.calm /\ ~Busy(call))
    OBVIOUS
  <2> HIDE DEF v, b
  <2> QED BY <1>2, <2>1, <2>2 DEF Tab
<1>4. used'.elsewhere = used.elsewhere
  BY MovesQuiet DEF PickParty
<1>5. Quiet /\ ~Busy(call)
  BY <1>3, <1>4 DEF Quiet
<1>6. AddInv
  BY <1>2, <1>5 DEF QuietInv
<1>7. tab.view.parties = Choices
  BY <1>2, <1>5, <1>6, AddAtRest DEF ListIsCurrent
<1>8. tab.view = Picked(tab.view.party, Choices, tab.view.users)
  BY <1>6, <1>7 DEF AddInv
<1> QED BY <1>1, <1>2, <1>7, <1>8, PickQuiet DEF PickParty

-----------------------------------------------------------------------------
(* The server's answers, to a quiet tab *)

\* The one request is answered, by a server that it has not changed.
LEMMA AnswerQuiet ==
    ASSUME TabInv, QuietInv, UNCHANGED <<storeVars, route, tab>>,
           used'.elsewhere = used.elsewhere, NEW s \in Slots,
           NEW d \in Call, call[s].pc = "sent", call' = [call EXCEPT ![s] = d],
           d.pc = "answered", d.op = call[s].op, d.party = call[s].party,
           Quiet /\ OnlyBusy(call, s) /\ OneCall(call[s]) => OneCall(d)
    PROVE  QuietInv'
<1>1. call[s] \in Call /\ WellMade(call[s]) /\ call \in [Slots -> Call]
  BY OneRequest DEF TabInv, TypeOK
<1>2. call'[s] = d /\ \A z \in Slots \ {s} : call'[z] = call[z]
  BY <1>1
<1>3. PageUnchanged
  BY DEF PageUnchanged, AtRest, Quiet
<1>4. IsBusy(call[s]) /\ IsBusy(d)
  BY DEF IsBusy
<1> SUFFICES ASSUME Quiet' PROVE QuietInv'
  BY DEF QuietInv
<1>5. Quiet
  BY <1>3 DEF PageUnchanged
<1>6. OnlyBusy(call, s) /\ OneCall(call[s])
  BY <1>1, <1>4, <1>5 DEF QuietInv
<1>7. OnlyBusy(call', s)
  BY <1>2, <1>6 DEF OnlyBusy
<1>8. OneCall(d)'
  BY <1>3, <1>5, <1>6, OneCallStays
<1>9. route'.page = "add" => AddInv'
  <2>1. ~Done(call[s])
    BY <1>1 DEF Done, WellMade
  <2>2. route.page = "add" => AddInv
    BY <1>5 DEF QuietInv
  <2> QED BY <1>1, <2>1, <2>2, AddSlot
<1> QED BY <1>2, <1>4, <1>7, <1>8, <1>9, OneBusy

\* items/add asks for the members of a party that an item can be for.
LEMMA InfoIsGranted ==
    ASSUME TabInv, QuietInv, Quiet, NEW s \in Slots, call[s].op = "info", OnlyBusy(call, s)
    PROVE  Member(call[s].party)
<1>1. call[s].party \in Parties /\ call[s].page = "add" /\ route.page = "add"
  BY OneRequest DEF WellMade, Fits, Reads
<1>2. AddInv
  BY <1>1 DEF QuietInv
<1>3. call[s].party = tab.view.party
  BY <1>2 DEF AddInv
<1>4. ~(\E z \in Slots : Done(call[z]))
  BY DEF Done, OnlyBusy, Writes
<1>5. PickIsOpen
  BY <1>2, <1>4 DEF AddInv
<1> QED BY <1>1, <1>3, <1>5, NoneAssumption DEF PickIsOpen, Choices

LEMMA ServeReadQuiet == \A s \in Slots : TabInv /\ QuietInv /\ ServeRead(s) => QuietInv'
<1> SUFFICES ASSUME NEW s \in Slots, TabInv, QuietInv, ServeRead(s) PROVE QuietInv'
  OBVIOUS
<1> DEFINE c == call[s]
           v == ViewOf(c.page, c.party)
           yes == [[[c EXCEPT !.pc = "answered"] EXCEPT !.status = "ok"] EXCEPT !.view = v]
           no == [[c EXCEPT !.pc = "answered"] EXCEPT !.status = "refused"]
           may == MayRead(IF c.op = "info" THEN "show" ELSE c.page, c.party)
<1>1. c \in Call /\ WellMade(c) /\ c.pc = "sent" /\ c.op \in Reads
  BY OneRequest DEF ServeRead
<1>2. c.page \in Pages /\ c.party \in Parties \cup {None}
      /\ (c.page \in PartyPages => c.party \in Parties)
  BY <1>1 DEF WellMade, Call
<1>3. v \in View
  BY <1>2, ViewOfFields DEF TabInv, TypeOK
<1>4. \/ call' = [call EXCEPT ![s] = yes] /\ may
      \/ call' = [call EXCEPT ![s] = no] /\ ~may
  <2>1. call' = IF may THEN [Reply(s, "ok") EXCEPT ![s].view = v] ELSE Reply(s, "refused")
    BY DEF ServeRead
  <2> HIDE DEF v, may
  <2>2. call \in [Slots -> Call]
    BY DEF TabInv, TypeOK
  <2>3. [Reply(s, "ok") EXCEPT ![s].view = v] = [call EXCEPT ![s] = yes]
    BY <2>2 DEF Reply, Call
  <2>4. Reply(s, "refused") = [call EXCEPT ![s] = no]
    BY <2>2 DEF Reply, Call
  <2> HIDE DEF yes, no
  <2>5. CASE may
    BY <2>1, <2>3, <2>5
  <2>6. CASE ~may
    BY <2>1, <2>4, <2>6
  <2> QED BY <2>5, <2>6
<1>5. may => MayRead(c.page, c.party)
  BY <1>1 DEF MayRead, WellMade, Reads
<1>6. c.op = "info" /\ Member(c.party) => may
  BY DEF MayRead
<1>7. call[s] = c
  OBVIOUS
<1>8. /\ yes \in Call /\ yes.pc = "answered" /\ yes.status = "ok" /\ yes.mounted = c.mounted
      /\ yes.view = v /\ SameParty(c, yes)
  <2>1. WithView(c, yes, v)
    BY <1>1, <1>3, AnswersWith
  <2> HIDE DEF c, yes, v
  <2> QED BY <2>1 DEF WithView, OkAnswer
<1>9. /\ no \in Call /\ no.pc = "answered" /\ no.status = "refused" /\ no.mounted = c.mounted
      /\ SameParty(c, no)
  BY <1>1, Answers
<1> HIDE DEF c, yes, no, may
<1>10. ASSUME NEW d \in Call, call' = [call EXCEPT ![s] = d], d.pc = "answered",
              d.mounted = c.mounted, SameParty(c, d), d.status \in {"ok", "refused"},
              d.status = "ok" => may /\ d.view = v, d.status = "refused" => ~may
       PROVE  QuietInv'
  <2>1. d.op = c.op /\ d.page = c.page /\ d.party = c.party
    BY <1>10 DEF SameParty, SameRequest
  <2>2. Quiet /\ OnlyBusy(call, s) /\ OneCall(c) => OneCall(d)
    <3> SUFFICES ASSUME Quiet, OnlyBusy(call, s), OneCall(c) PROVE OneCall(d)
      OBVIOUS
    <3>1. d.status = "ok" => StillTrue(d)
      BY <1>5, <1>10, <2>1 DEF StillTrue
    <3>2. d.op = "info" => d.status # "refused"
      BY <1>6, <1>7, <1>10, <2>1, InfoIsGranted
    <3>3. d.op \notin Writes
      BY <1>1, <2>1 DEF Reads, Writes
    <3> QED BY <1>10, <2>1, <3>1, <3>2, <3>3 DEF OneCall
  <2> QED BY <1>1, <1>7, <1>10, <2>1, <2>2, AnswerQuiet DEF ServeRead
<1>11. CASE call' = [call EXCEPT ![s] = yes] /\ may
  BY <1>8, <1>10, <1>11
<1>12. CASE call' = [call EXCEPT ![s] = no] /\ ~may
  BY <1>9, <1>10, <1>12
<1> QED BY <1>4, <1>11, <1>12

LEMMA RefuseQuiet == \A s \in Slots : TabInv /\ QuietInv /\ Refuse(s) => QuietInv'
<1> SUFFICES ASSUME NEW s \in Slots, TabInv, QuietInv, Refuse(s) PROVE QuietInv'
  OBVIOUS
<1> DEFINE c == call[s]
           d == [[c EXCEPT !.pc = "answered"] EXCEPT !.status = "refused"]
<1>1. c \in Call /\ WellMade(c) /\ c.pc = "sent" /\ c.op \in Writes
  BY OneRequest DEF Refuse
<1>2. call' = [call EXCEPT ![s] = d]
  BY DEF Refuse, Reply, TabInv, TypeOK, Call
<1>3. /\ d \in Call /\ d.pc = "answered" /\ d.status = "refused" /\ d.mounted = c.mounted
      /\ SameParty(c, d)
  BY <1>1, Answers
<1>4. call[s] = c
  OBVIOUS
<1> HIDE DEF c, d
<1>5. d.op = c.op /\ d.page = c.page /\ d.party = c.party
  BY <1>3 DEF SameParty, SameRequest
<1>6. c.status = "none"
  BY <1>1 DEF WellMade
<1>7. OneCall(c) => OneCall(d)
  BY <1>1, <1>3, <1>5, <1>6 DEF OneCall, Writes, Reads
<1> QED BY <1>1, <1>2, <1>3, <1>4, <1>5, <1>7, AnswerQuiet DEF Refuse

\* A reply that is lost, or a write elsewhere: the tab is not quiet any more.
LEMMA LoseQuiet == \A s \in Slots : TabInv /\ Lose(s) => QuietInv'
BY DEF TabInv, PageInv, Tab, Lose, QuietInv, Quiet

LEMMA ElsewhereQuiet == TabInv /\ Elsewhere => QuietInv'
<1> SUFFICES ASSUME TabInv, Elsewhere PROVE QuietInv'
  OBVIOUS
<1>1. used'.elsewhere = used.elsewhere + 1 /\ used.elsewhere \in Nat
  BY DEF TabInv, TypeOK, Elsewhere, Spend
<1>2. used'.elsewhere # 0
  BY <1>1
<1> QED BY <1>2 DEF QuietInv, Quiet

\* The one write is done: the page waits for its reply, to load or to go.
LEMMA DoneQuiet ==
    ASSUME TabInv, QuietInv, UNCHANGED <<route, tab>>, used'.elsewhere = used.elsewhere,
           NEW s \in Slots, call[s].pc = "sent", call[s].op \in Writes,
           NEW d \in Call, d.pc = "answered", d.status = "ok", d.mounted = call[s].mounted,
           d.op = call[s].op, call' = Stale([call EXCEPT ![s] = d])
    PROVE  QuietInv'
<1>1. call[s] \in Call /\ WellMade(call[s]) /\ call \in [Slots -> Call]
  BY OneRequest DEF TabInv, TypeOK
<1>2. call'[s] = d
  BY <1>1 DEF Stale
<1>3. \A z \in Slots \ {s} : /\ call'[z].pc = call[z].pc /\ call'[z].op = call[z].op
  BY <1>1 DEF Stale, Call
<1>4. IsBusy(call[s]) /\ IsBusy(d) /\ Done(d)
  BY DEF IsBusy, Done
<1> SUFFICES ASSUME Quiet' PROVE QuietInv'
  BY DEF QuietInv
<1>5. Quiet
  BY DEF Quiet
<1>6. OnlyBusy(call, s) /\ OneCall(call[s])
  BY <1>1, <1>4, <1>5 DEF QuietInv
<1>7. OnlyBusy(call', s)
  BY <1>3, <1>6 DEF OnlyBusy, IsBusy
<1>8. OneCall(d)'
  <2>1. d.op \notin Reads /\ d.op # "load" /\ d.op # "info"
    BY DEF Writes, Reads
  <2>2. d.mounted /\ d.status = "ok"
    BY <1>6 DEF OneCall
  <2> QED BY <2>1, <2>2 DEF OneCall
<1>9. ASSUME route'.page = "add" PROVE AddInv'
  <2>1. AddInv
    BY <1>5, <1>9 DEF QuietInv
  <2>2. \A z \in Slots : call'[z].op # "info"
    <3> SUFFICES ASSUME NEW z \in Slots, call'[z].op = "info" PROVE FALSE
      OBVIOUS
    <3>1. z # s
      BY <1>2 DEF Writes
    <3>2. call[z].op = "info"
      BY <1>3, <3>1
    <3>3. IsBusy(call[z])
      BY <3>2, OneRequest DEF WellMade, Reads, Call, IsBusy
    <3> QED BY <1>6, <3>1, <3>3 DEF OnlyBusy
  <2> QED BY <1>2, <1>4, <2>1, <2>2 DEF AddInv
<1> QED BY <1>2, <1>4, <1>7, <1>8, <1>9, OneBusy

LEMMA AcceptQuiet == \A s \in Slots : TabInv /\ QuietInv /\ Accept(s) => QuietInv'
<1> SUFFICES ASSUME NEW s \in Slots, TabInv, QuietInv, Accept(s) PROVE QuietInv'
  OBVIOUS
<1> DEFINE c == call[s]
<1>1. c \in Call /\ c.pc = "sent" /\ c.op \in Writes
  BY OneRequest DEF Accept
<1>2. PICK p \in Parties :
         call' = Stale([Reply(s, "ok") EXCEPT ![s].party = p, ![s].done = TRUE])
  BY DEF Accept
<1> DEFINE d == [[[[c EXCEPT !.pc = "answered"] EXCEPT !.status = "ok"] EXCEPT !.party = p]
                   EXCEPT !.done = TRUE]
<1>3. [Reply(s, "ok") EXCEPT ![s].party = p, ![s].done = TRUE] = [call EXCEPT ![s] = d]
  BY DEF Reply, TabInv, TypeOK, Call
<1>4. WithParty(c, d, p)
  BY <1>1, Grants
<1> HIDE DEF d
<1> QED BY <1>1, <1>2, <1>3, <1>4, DoneQuiet
     DEF Accept, WithParty, OkAnswer, SameRequest

\* A statement fails: the handler refuses, or answers as if it had not.
LEMMA FailQuiet == \A s \in Slots : TabInv /\ QuietInv /\ Fail(s) => QuietInv'
<1> SUFFICES ASSUME NEW s \in Slots, TabInv, QuietInv, Fail(s) PROVE QuietInv'
  OBVIOUS
<1> DEFINE c == call[s]
<1>1. c \in Call /\ WellMade(c) /\ c.pc = "sent" /\ route' = route
  BY OneRequest DEF Fail
<1>2. used'.elsewhere = used.elsewhere
  BY DEF TabInv, TypeOK, Fail, Spend
<1>3. \A st \in {"ok", "refused"} :
         FailedReply(s, st) = [call EXCEPT ![s] = [[[c EXCEPT !.pc = "answered"]
                                                      EXCEPT !.status = st] EXCEPT !.failed = TRUE]]
  BY DEF FailedReply, Reply, TabInv, TypeOK, Call
<1>4. call[s] = c /\ tab \in Tab
  BY DEF TabInv, PageInv
<1>5. CASE Refused(s)
  <2> DEFINE d == [[[c EXCEPT !.pc = "answered"] EXCEPT !.status = "refused"] EXCEPT !.failed = TRUE]
  <2>1. FailedAnswer(c, d, "refused") /\ call' = [call EXCEPT ![s] = d]
    BY <1>1, <1>3, <1>5, FailedAnswers DEF Refused
  <2> DEFINE b == tab.calm /\ c.op # "info"
  <2>2. tab' = [tab EXCEPT !.calm = b] /\ UNCHANGED storeVars
    BY <1>4, <1>5 DEF Refused, Tab
  <2>3. b \in BOOLEAN /\ (b => tab.calm /\ c.op # "info") /\ (c.op # "info" => b = tab.calm)
    BY <1>4 DEF Tab
  <2> HIDE DEF b, c, d
  <2>4. tab'.calm = b /\ (b = tab.calm => tab' = tab)
    BY <1>4, <2>2, <2>3 DEF Tab
  <2>5. CASE c.op = "info"
    BY <2>3, <2>4, <2>5 DEF QuietInv, Quiet
  <2>6. CASE c.op # "info"
    <3>1. d \in Call /\ d.pc = "answered" /\ d.status = "refused" /\ d.mounted = c.mounted
          /\ d.op = c.op /\ d.page = c.page /\ d.party = c.party
      BY <2>1 DEF FailedAnswer, SameParty, SameRequest
    <3>2. c.status = "none"
      BY <1>1 DEF WellMade
    <3>3. OneCall(c) => OneCall(d)
      BY <2>6, <3>1, <3>2 DEF OneCall, Writes, Reads
    <3> QED BY <1>1, <1>2, <1>4, <2>1, <2>2, <2>3, <2>4, <2>6, <3>1, <3>3, AnswerQuiet
  <2> QED BY <2>5, <2>6
<1>6. CASE RemovedNobody(s)
  <2> DEFINE d == [[[c EXCEPT !.pc = "answered"] EXCEPT !.status = "ok"] EXCEPT !.failed = TRUE]
  <2>1. FailedAnswer(c, d, "ok") /\ call' = [call EXCEPT ![s] = d]
    BY <1>1, <1>3, <1>6, FailedAnswers DEF RemovedNobody
  <2>2. c.op = "remove" /\ UNCHANGED <<storeVars, tab>>
    BY <1>6 DEF RemovedNobody
  <2> HIDE DEF c, d
  <2>3. d \in Call /\ d.pc = "answered" /\ d.status = "ok" /\ d.mounted = c.mounted
        /\ d.op = c.op /\ d.party = c.party
    BY <2>1 DEF FailedAnswer, SameParty, SameRequest
  <2>4. OneCall(c) => OneCall(d)
    BY <2>2, <2>3 DEF OneCall, Reads
  <2> QED BY <1>1, <1>2, <1>4, <2>1, <2>2, <2>3, <2>4, AnswerQuiet
<1>7. CASE InvitedAgain(s)
  BY <1>4, <1>7 DEF InvitedAgain, QuietInv, Quiet, Tab
<1>8. CASE Overlooks(s)
  <2> DEFINE e == [[[c EXCEPT !.pc = "answered"] EXCEPT !.status = "ok"] EXCEPT !.failed = TRUE]
             d == [e EXCEPT !.done = TRUE]
  <2>1. FailedAnswer(c, d, "ok")
    BY <1>1, FailedAnswers
  <2>2. call' = Stale([FailedReply(s, "ok") EXCEPT ![s].done = TRUE])
    BY <1>8 DEF Overlooks
  <2>3. FailedReply(s, "ok") = [call EXCEPT ![s] = e]
    BY <1>3
  <2>4. e \in Call
    BY <1>1, FailedAnswers DEF FailedAnswer
  <2> HIDE DEF e
  <2>5. [FailedReply(s, "ok") EXCEPT ![s].done = TRUE] = [call EXCEPT ![s] = d]
    BY <2>3 DEF TabInv, TypeOK
  <2> HIDE DEF d
  <2> QED BY <1>1, <1>2, <1>4, <1>8, <2>1, <2>2, <2>5, DoneQuiet
       DEF Overlooks, FailedAnswer, SameParty, SameRequest
<1> QED BY <1>5, <1>6, <1>7, <1>8 DEF Fail

-----------------------------------------------------------------------------
(* Replies to the loads of a quiet tab *)

LEMMA NoneLeft ==
    ASSUME TabInv, NEW s \in Slots, OnlyBusy(call, s), call' = Drop(s)
    PROVE  \A z \in Slots : ~IsBusy(call'[z])
<1>1. call'[s] = Idle /\ \A z \in Slots \ {s} : call'[z] = call[z]
  BY DropBelongs DEF TabInv
<1> QED BY <1>1, IdleCall DEF IsBusy, OnlyBusy

\* The reply of a quiet page, before and after the page has it.
LEMMA ReplyIsTrue ==
    ASSUME TabInv, QuietInv, Quiet, NEW s \in Slots, call[s].pc = "answered"
    PROVE  OnlyBusy(call, s) /\ OneCall(call[s])
<1>1. call[s] \in Call /\ IsBusy(call[s])
  BY OneRequest DEF IsBusy
<1> QED BY <1>1 DEF QuietInv

\* The pages that are about no party show the same under each.
LEMMA ListPagesSame ==
    ASSUME NEW page \in ListPages, NEW p, NEW q
    PROVE  ViewOf(page, p) = ViewOf(page, q) /\ MayRead(page, p) = MayRead(page, q)
<1>1. page \notin {"show", "members", "bestpay", "myItems", "manage", "payment", "edit",
                   "invite", "add"}
  BY DEF ListPages
<1>2. MayRead(page, p) = MayRead(page, q)
  BY <1>1 DEF MayRead
<1>3. ViewOf(page, p) = ViewOf(page, q)
  BY <1>1 DEF ViewOf
<1> QED BY <1>2, <1>3

LEMMA PageLoadedQuiet ==
    \A s \in Slots : TabInv /\ QuietInv /\ PageLoaded(s) /\ call[s].pc = "answered"
                        /\ UNCHANGED <<storeVars, used>> => QuietInv'
<1> SUFFICES ASSUME NEW s \in Slots, TabInv, QuietInv, PageLoaded(s), call[s].pc = "answered",
                    UNCHANGED <<storeVars, used>>
             PROVE  QuietInv'
  OBVIOUS
<1> DEFINE c == call[s]
<1>1. /\ c \in Call /\ c.page = route.page /\ (tab.jumped \/ OnParty(c, route)) /\ c.mounted
      /\ c.view \in View /\ c.op = "load" /\ c.status = "ok" /\ c.page # "add"
      /\ (route.page \in PartyPages => c.party \in Parties)
  BY LoadReply DEF PageLoaded, Reads
<1>2. PageInv /\ route \in Routes /\ tab \in Tab
  BY DEF TabInv, PageInv
<1>3. CASE c.page = "manage" /\ ~c.view.owner
  <2>1. Mount(Drop(s), At("myItems", route.party))
    BY <1>3 DEF PageLoaded
  <2>2. route.party \in Parties
    BY <1>1, <1>2, <1>3, RouteFields DEF PartyPages
  <2>3. At("myItems", route.party) \in Routes
    BY <2>2, PartyRoute DEF PartyPages
  <2>4. Requests(Drop(s))
    BY <1>2, DropBelongs DEF Belong
  <2> QED BY <2>1, <2>3, <2>4, MountQuiet
<1>4. CASE ~(c.page = "manage" /\ ~c.view.owner)
  <2>1. /\ call' = Drop(s) /\ route' = route
        /\ tab' = [[tab EXCEPT !.loading = FALSE] EXCEPT !.view = c.view]
    BY <1>2, <1>4 DEF PageLoaded, Tab
  <2>2. call[s] = c
    OBVIOUS
  <2> HIDE DEF c
  <2>3. tab'.view = c.view /\ tab'.jumped = tab.jumped /\ tab'.calm = tab.calm
    BY <1>1, <1>2, <2>1 DEF Tab
  <2>4. Quiet' => Quiet
    BY <2>3 DEF Quiet
  <2>5. ASSUME Quiet', AtRest' PROVE Current'
    <3>1. StillTrue(c) /\ ~tab.jumped
      BY <1>1, <2>2, <2>4, <2>5, ReplyIsTrue DEF OneCall, Reads, Quiet
    <3>2. MayRead(route.page, route.party) /\ c.view = ViewOf(route.page, route.party)
      <4>1. CASE route.page \in PartyPages
        BY <1>1, <3>1, <4>1 DEF OnParty, StillTrue
      <4>2. CASE route.page \notin PartyPages
        <5>1. route.page \in ListPages
          BY <1>1, <1>2, <4>2, RouteFields DEF Pages
        <5> QED BY <1>1, <3>1, <5>1, ListPagesSame DEF StillTrue
      <4> QED BY <4>1, <4>2
    <3>3. MayRead(route.page, route.party)' /\ c.view = ViewOf(route.page, route.party)'
      <4>1. PICK page, p : page = route.page /\ p = route.party
        OBVIOUS
      <4>2. MayRead(page, p)' /\ c.view = ViewOf(page, p)'
        BY <3>2, <4>1, ViewsStay
      <4> QED BY <2>1, <4>1, <4>2
    <3>4. Subject' = route'.party
      BY <1>1, <2>1 DEF Subject
    <3> QED BY <1>1, <2>1, <2>3, <2>5, <3>3, <3>4 DEF Current
  <2>6. Quiet' => \A z \in Slots : ~IsBusy(call'[z])
    BY <2>1, <2>4, ReplyIsTrue, NoneLeft
  <2> QED BY <1>1, <2>1, <2>5, <2>6, NobodyBusy
<1> QED BY <1>3, <1>4

\* items/add has its list and its members, and waits for nothing.
LEMMA AddRests ==
    ASSUME StoreTypeOK, UNCHANGED storeVars, route' = route, route.page = "add",
           NEW p \in Choices \cup {None}, tab'.view = Picked(p, Choices, MembersOf(p)),
           \A s \in Slots : call'[s].op # "info"
    PROVE  AddInv' /\ (AtRest' => Current')
<1>1. /\ p \in Parties \cup {None} /\ Choices \in SUBSET Parties /\ MembersOf(p) \in SUBSET Users
      /\ p = None => MembersOf(p) = {}
  BY DEF Choices, MembersOf, StoreTypeOK
<1>2. PICK ps \in SUBSET Parties, us \in SUBSET Users : ps = Choices /\ us = MembersOf(p)
  BY <1>1
<1>3. tab'.view = Picked(p, ps, us)
  BY <1>2
<1>4. PickOf(tab'.view, p, ps, us)
  BY <1>1, <1>3, PickedFields
<1>5. tab'.view.party = p /\ tab'.view.parties = ps
  BY <1>4 DEF PickOf
<1>6. tab'.view.users = us
  BY <1>4 DEF PickOf
<1>7. tab'.view = Picked(tab'.view.party, tab'.view.parties, tab'.view.users)
  BY <1>3, <1>5, <1>6
<1>8. Choices' = Choices /\ MembersOf(p)' = MembersOf(p)
  BY ViewsStay
<1>9. PickIsOpen' /\ ListIsCurrent'
  BY <1>2, <1>5, <1>8 DEF PickIsOpen, ListIsCurrent
<1>10. MembersOf(tab.view.party)' = MembersOf(p)
  BY <1>5, <1>8 DEF MembersOf
<1>11. UsersAreCurrent'
  BY <1>2, <1>6, <1>10 DEF UsersAreCurrent
<1>12. AddInv'
  BY <1>1, <1>2, <1>5, <1>6, <1>7, <1>9, <1>11 DEF AddInv
<1>13. AtRest' => Current'
  <2>1. AddView(p) = tab'.view
    BY <1>1, AddViewIs
  <2>2. PICK page : page = "add"
    OBVIOUS
  <2>3. MayRead(page, p)' /\ ViewOf(page, p)' = tab'.view
    <3>1. MayRead(page, p)' = MayRead(page, p) /\ ViewOf(page, p)' = ViewOf(page, p)
      BY ViewsStay
    <3>2. MayRead(page, p) /\ ViewOf(page, p) = AddView(p)
      BY <2>2 DEF MayRead, ViewOf
    <3> QED BY <2>1, <3>1, <3>2
  <2>4. Subject' = p
    BY <1>5 DEF Subject
  <2>5. route'.page = page
    BY <2>2
  <2>6. p # None => p \in tab'.view.parties
    BY <1>2, <1>5
  <2> QED BY <2>3, <2>4, <2>5, <2>6 DEF Current
<1> QED BY <1>12, <1>13

LEMMA LoadFailedQuiet ==
    \A s \in Slots : TabInv /\ QuietInv /\ LoadFailed(s) /\ call[s].pc = "answered"
                        /\ route' = route /\ UNCHANGED <<storeVars, used>> => QuietInv'
<1> SUFFICES ASSUME NEW s \in Slots, TabInv, QuietInv, LoadFailed(s), call[s].pc = "answered",
                    route' = route, UNCHANGED <<storeVars, used>>
             PROVE  QuietInv'
  OBVIOUS
<1> DEFINE c == call[s]
           t == [[tab EXCEPT !.loading = FALSE] EXCEPT !.err = TRUE]
           v == [tab.view EXCEPT !.users = {}]
<1>1. c.page = route.page /\ c.op = "load" /\ c.status \in {"refused", "lost"} /\ Answered(c)
  BY LoadReply DEF LoadFailed, Reads
<1>2. tab \in Tab /\ tab.view \in View
  BY DEF TabInv, PageInv, Tab
<1>3. call' = Drop(s)
  BY DEF LoadFailed
<1>4. \/ tab' = [t EXCEPT !.view = v]
      \/ tab' = t
      \/ tab' = tab /\ route.page \notin Catches /\ (c.status = "refused" => route.page # "invite")
  <2>1. t = [tab EXCEPT !.loading = FALSE, !.err = TRUE]
    BY <1>2 DEF Tab
  <2>2. [t EXCEPT !.view = v] = [t EXCEPT !.view.users = {}]
    BY <1>2 DEF Tab
  <2> QED BY <1>1, <2>1, <2>2 DEF LoadFailed
<1>5. t \in Tab /\ t.err /\ t.jumped = tab.jumped /\ t.calm = tab.calm
  BY <1>2 DEF Tab
<1>6. v \in View
  BY <1>2 DEF View
<1> HIDE DEF t, v
<1>7. tab'.jumped = tab.jumped /\ tab'.calm = tab.calm
  BY <1>4, <1>5, <1>6 DEF Tab
<1> SUFFICES ASSUME Quiet' PROVE QuietInv'
  BY DEF QuietInv
<1>8. Quiet
  BY <1>7 DEF Quiet
<1>9. OnlyBusy(call, s) /\ OneCall(c)
  BY <1>8, ReplyIsTrue
<1>10. c.status = "refused"
  BY <1>1, <1>9 DEF OneCall
<1>11. CASE route.page # "add"
  <2>1. ~AtRest'
    <3>1. CASE tab' = [t EXCEPT !.view = v] \/ tab' = t
      BY <1>5, <1>6, <3>1 DEF Tab, AtRest
    <3>2. CASE tab' = tab /\ route.page \notin Catches /\ route.page # "invite"
      <4>1. route.page \in Pages /\ Loads(route.page)
        BY <1>1, LoadReply, RouteFields DEF TabInv, PageInv, LoadFailed, WellMade, Reads
      <4>2. route.page \in {"edit", "list"}
        BY <1>11, <3>2, <4>1 DEF Pages, ListPages, PartyPages, Catches, Loads
      <4>3. tab.loading
        BY <1>1, <1>9, <4>2 DEF OneCall, Resets
      <4> QED BY <3>2, <4>3 DEF AtRest
    <3> QED BY <1>4, <1>10, <3>1, <3>2
  <2> QED BY <1>3, <1>9, <1>11, <2>1, NoneLeft, NobodyBusy
<1>12. CASE route.page = "add"
  <2>1. tab' = tab
    BY <1>1, <1>12 DEF LoadFailed, Catches
  <2>2. AddInv /\ StoreTypeOK
    BY <1>8, <1>12 DEF QuietInv, TabInv, TypeOK
  <2>3. \A z \in Slots : IsBusy(call[z]) => z = s
    BY <1>9 DEF OnlyBusy
  <2>4. \A z \in Slots : call[z].op # "info" /\ ~Done(call[z])
    <3> SUFFICES ASSUME NEW z \in Slots PROVE call[z].op # "info" /\ ~Done(call[z])
      OBVIOUS
    <3>1. call[z].op \in Reads => IsBusy(call[z])
      BY OneRequest DEF WellMade, Reads, Call, IsBusy
    <3> QED BY <1>1, <2>3, <3>1 DEF Done, Reads, Writes
  <2>5. call'[s] = Idle /\ \A z \in Slots \ {s} : call'[z] = call[z]
    BY <1>3, DropBelongs DEF TabInv
  <2>6. \A z \in Slots : call'[z].op # "info"
    BY <2>4, <2>5, IdleCall
  <2>7. ~UnderWay("info")
    BY <2>4 DEF UnderWay
  <2>8. CASE tab.loading
    <3>1. AddInv'
      BY <2>1, <2>2, <2>4, <2>6, <2>7, AddStays
    <3>2. ~AtRest'
      BY <2>1, <2>8 DEF AtRest
    <3> QED BY <1>3, <1>9, <3>1, <3>2, NoneLeft, NobodyBusy
  <2>9. CASE ~tab.loading
    <3>1. PickIsOpen /\ UsersAreCurrent /\ ListIsCurrent
      BY <2>2, <2>4, <2>7, <2>9 DEF AddInv
    <3>2. PICK p \in Choices \cup {None} : p = tab.view.party
      BY <3>1 DEF PickIsOpen
    <3>3. tab'.view = Picked(p, Choices, MembersOf(p))
      BY <2>1, <2>2, <3>1, <3>2 DEF AddInv, UsersAreCurrent, ListIsCurrent
    <3>4. AddInv' /\ (AtRest' => Current')
      BY <1>12, <2>2, <2>6, <3>3, AddRests
    <3> QED BY <1>3, <1>9, <3>4, NoneLeft, NobodyBusy
  <2> QED BY <2>8, <2>9
<1> QED BY <1>11, <1>12

\* What a reply to quiet items/add carries, and what the page has already.
LEMMA AddReply ==
    ASSUME TabInv, QuietInv, Quiet, NEW s \in Slots, call[s].pc = "answered",
           call[s].op \in Reads, call[s].status = "ok", call[s].page = "add"
    PROVE  /\ route.page = "add" /\ call[s].view = AddView(call[s].party)
           /\ call[s].party \in Parties \cup {None}
           /\ tab.view = Picked(tab.view.party, tab.view.parties, tab.view.users)
           /\ tab.view.party \in Choices \cup {None}
           /\ call[s].op = "info" => ListIsCurrent /\ call[s].party = tab.view.party
           /\ call[s].op = "load" => UsersAreCurrent
           /\ \A z \in Slots : Drop(s)[z].op # "info"
<1>1. OnlyBusy(call, s) /\ OneCall(call[s])
  BY ReplyIsTrue
<1>2. route.page = "add" /\ call[s].party \in Parties \cup {None}
  BY LoadReply DEF Call
<1>3. AddInv
  BY <1>2 DEF QuietInv
<1>4. call[s].view = AddView(call[s].party)
  BY <1>1 DEF OneCall, StillTrue, ViewOf
<1>5. ~(\E z \in Slots : Done(call[z]))
  BY <1>1 DEF Done, OnlyBusy, Writes, Reads
<1>6. \A z \in Slots : call[z].op \in Reads => z = s
  <2> SUFFICES ASSUME NEW z \in Slots, call[z].op \in Reads PROVE z = s
    OBVIOUS
  <2>1. IsBusy(call[z])
    BY OneRequest DEF WellMade, Reads, Call, IsBusy
  <2> QED BY <1>1, <2>1 DEF OnlyBusy
<1>7. /\ call[s].op = "info" => ~tab.loading
      /\ call[s].op = "load" => ~UnderWay("info")
  BY <1>3, <1>6 DEF AddInv, UnderWay, Reads
<1>8. \A z \in Slots : Drop(s)[z].op # "info"
  <2>1. Drop(s)[s] = Idle /\ \A z \in Slots : z # s => Drop(s)[z] = call[z]
    BY DropBelongs DEF TabInv
  <2> QED BY <1>6, <2>1, IdleCall DEF Reads
<1>9. tab.view.party \in Choices \cup {None}
  BY <1>3, <1>5 DEF AddInv, PickIsOpen
<1>10. /\ call[s].op = "info" => ListIsCurrent /\ call[s].party = tab.view.party
       /\ call[s].op = "load" => UsersAreCurrent
  BY <1>3, <1>5, <1>7 DEF AddInv
<1> QED BY <1>2, <1>3, <1>4, <1>8, <1>9, <1>10 DEF AddInv

\* The view of items/add with another list or other members.
LEMMA Repicked ==
    ASSUME NEW v \in View, v = Picked(v.party, v.parties, v.users),
           NEW ps \in SUBSET Parties, NEW us \in SUBSET Users
    PROVE  /\ [v EXCEPT !.parties = ps] = Picked(v.party, ps, v.users)
           /\ [v EXCEPT !.users = us] = Picked(v.party, v.parties, us)
<1>1. PICK p \in Parties \cup {None}, qs \in SUBSET Parties, ws \in SUBSET Users :
         p = v.party /\ qs = v.parties /\ ws = v.users
  BY DEF View
<1> DEFINE x == [NoView EXCEPT !.party = p]
<1>2. x \in View
  BY IdleCall DEF View
<1>3. v = [[x EXCEPT !.parties = qs] EXCEPT !.users = ws]
  BY <1>1 DEF Picked
<1> HIDE DEF x
<1>4. [v EXCEPT !.parties = ps] = [[x EXCEPT !.parties = ps] EXCEPT !.users = ws]
  BY <1>2, <1>3 DEF View
<1>5. [v EXCEPT !.users = us] = [[x EXCEPT !.parties = qs] EXCEPT !.users = us]
  BY <1>2, <1>3 DEF View
<1> QED BY <1>1, <1>4, <1>5 DEF Picked, x

LEMMA InfoLoadedQuiet ==
    \A s \in Slots : TabInv /\ QuietInv /\ InfoLoaded(s) /\ call[s].pc = "answered"
                        /\ route' = route /\ UNCHANGED <<storeVars, used>> => QuietInv'
<1> SUFFICES ASSUME NEW s \in Slots, TabInv, QuietInv, InfoLoaded(s), call[s].pc = "answered",
                    route' = route, UNCHANGED <<storeVars, used>>
             PROVE  QuietInv'
  OBVIOUS
<1> DEFINE users == call[s].view.users
           v == [tab.view EXCEPT !.users = users]
<1>1. /\ WellMade(call[s]) /\ call[s].op = "info" /\ call[s].op \in Reads
      /\ call[s].page = "add" /\ call[s].view \in View /\ call[s].status # "none"
  BY LoadReply DEF InfoLoaded, Reads, WellMade
<1>2. tab \in Tab /\ tab.view \in View /\ StoreTypeOK
  BY DEF TabInv, TypeOK, PageInv, Tab
<1>3. users \in SUBSET Users
  BY <1>1 DEF View
<1>4. call' = Drop(s)
      /\ \/ tab' = tab /\ call[s].status # "ok"
         \/ \E us \in {tab.ticked, {}} : tab' = [[tab EXCEPT !.view = v] EXCEPT !.ticked = us]
  BY <1>2 DEF InfoLoaded, Tab
<1>5. v \in View
  BY <1>2, <1>3 DEF View
<1> HIDE DEF v
<1>6. tab'.jumped = tab.jumped /\ tab'.calm = tab.calm
  BY <1>2, <1>4, <1>5 DEF Tab
<1> SUFFICES ASSUME Quiet' PROVE QuietInv'
  BY DEF QuietInv
<1>7. Quiet
  BY <1>6 DEF Quiet
<1>8. OnlyBusy(call, s) /\ OneCall(call[s])
  BY <1>7, ReplyIsTrue DEF InfoLoaded
<1>9. call[s].status = "ok"
  BY <1>1, <1>8, OneRequest DEF OneCall, Call
<1>10. /\ route.page = "add" /\ call[s].view = AddView(call[s].party)
       /\ tab.view = Picked(tab.view.party, tab.view.parties, tab.view.users)
       /\ tab.view.party \in Choices \cup {None}
       /\ ListIsCurrent /\ call[s].party = tab.view.party
       /\ \A z \in Slots : Drop(s)[z].op # "info"
  BY <1>1, <1>7, <1>9, AddReply DEF InfoLoaded
<1>11. users = MembersOf(tab.view.party)
  <2>1. PICK p \in Parties \cup {None}, ps \in SUBSET Parties, us \in SUBSET Users :
           p = tab.view.party /\ ps = Choices /\ us = MembersOf(p)
    BY <1>2, <1>10 DEF View, Choices, MembersOf, StoreTypeOK
  <2>2. call[s].view = Picked(p, ps, us)
    BY <1>2, <1>10, <2>1, AddViewIs
  <2>3. PickOf(Picked(p, ps, us), p, ps, us)
    BY PickedFields
  <2> QED BY <2>1, <2>2, <2>3 DEF PickOf
<1>12. v = Picked(tab.view.party, tab.view.parties, users)
  BY <1>2, <1>3, <1>10, Repicked DEF v
<1>13. tab'.view = v
  BY <1>2, <1>4, <1>5, <1>9 DEF Tab
<1>14. PICK p \in Choices \cup {None} : p = tab.view.party
  BY <1>10
<1>15. tab'.view = Picked(p, Choices, MembersOf(p))
  BY <1>10, <1>11, <1>12, <1>13, <1>14 DEF ListIsCurrent
<1>16. AddInv' /\ (AtRest' => Current')
  BY <1>2, <1>4, <1>10, <1>15, AddRests
<1> QED BY <1>4, <1>8, <1>16, NoneLeft, NobodyBusy

\* What is left of the list's reply.
LEMMA ListReply ==
    ASSUME TabInv, QuietInv, Quiet, NEW s \in Slots, call[s].pc = "answered",
           call[s].op = "load", call[s].status = "ok", call[s].page = "add"
    PROVE  /\ route.page = "add" /\ call[s].view.parties = Choices
           /\ tab.view.party \in Choices \cup {None}
           /\ [tab.view EXCEPT !.parties = Choices]
                 = Picked(tab.view.party, Choices, MembersOf(tab.view.party))
           /\ \A z \in Slots : Drop(s)[z].op # "info"
<1>1. /\ route.page = "add" /\ call[s].view = AddView(call[s].party)
      /\ call[s].party \in Parties \cup {None}
      /\ tab.view = Picked(tab.view.party, tab.view.parties, tab.view.users)
      /\ tab.view.party \in Choices \cup {None}
      /\ UsersAreCurrent
      /\ \A z \in Slots : Drop(s)[z].op # "info"
  BY AddReply DEF Reads
<1>2. StoreTypeOK /\ tab.view \in View
  BY DEF TabInv, TypeOK, PageInv, Tab
<1>3. call[s].view.parties = Choices
  <2>1. PICK p \in Parties \cup {None}, ps \in SUBSET Parties, us \in SUBSET Users :
           p = call[s].party /\ ps = Choices /\ us = MembersOf(p)
    BY <1>1, <1>2 DEF Choices, MembersOf, StoreTypeOK
  <2>2. call[s].view = Picked(p, ps, us)
    BY <1>1, <1>2, <2>1, AddViewIs
  <2>3. PickOf(Picked(p, ps, us), p, ps, us)
    BY PickedFields
  <2> QED BY <2>1, <2>2, <2>3 DEF PickOf
<1>4. [tab.view EXCEPT !.parties = Choices] = Picked(tab.view.party, Choices, tab.view.users)
  <2>1. Choices \in SUBSET Parties /\ tab.view.users \in SUBSET Users
    BY <1>2 DEF Choices, View
  <2> QED BY <1>1, <1>2, <2>1, Repicked
<1> QED BY <1>1, <1>3, <1>4 DEF UsersAreCurrent

LEMMA AddEmptyQuiet ==
    \A s \in Slots : TabInv /\ QuietInv /\ AddEmpty(s) /\ call[s].pc = "answered"
                        /\ route' = route /\ UNCHANGED <<storeVars, used>> => QuietInv'
<1> SUFFICES ASSUME NEW s \in Slots, TabInv, QuietInv, AddEmpty(s), call[s].pc = "answered",
                    route' = route, UNCHANGED <<storeVars, used>>
             PROVE  QuietInv'
  OBVIOUS
<1> DEFINE v == [tab.view EXCEPT !.parties = {}]
<1>1. tab \in Tab /\ tab.view \in View /\ StoreTypeOK
  BY DEF TabInv, TypeOK, PageInv, Tab
<1>2. call' = Drop(s) /\ tab' = [[tab EXCEPT !.loading = FALSE] EXCEPT !.view = v]
  BY <1>1 DEF AddEmpty, Tab
<1>3. v \in View
  BY <1>1 DEF View
<1> HIDE DEF v
<1>4. tab'.view = v /\ tab'.jumped = tab.jumped /\ tab'.calm = tab.calm
  BY <1>1, <1>2, <1>3 DEF Tab
<1> SUFFICES ASSUME Quiet' PROVE QuietInv'
  BY DEF QuietInv
<1>5. Quiet
  BY <1>4 DEF Quiet
<1>6. /\ route.page = "add" /\ call[s].view.parties = Choices
      /\ tab.view.party \in Choices \cup {None}
      /\ [tab.view EXCEPT !.parties = Choices]
            = Picked(tab.view.party, Choices, MembersOf(tab.view.party))
      /\ \A z \in Slots : Drop(s)[z].op # "info"
  BY <1>5, ListReply DEF AddEmpty
<1>7. Choices = {}
  BY <1>6 DEF AddEmpty
<1>8. PICK p \in Choices \cup {None} : p = tab.view.party
  BY <1>6
<1>9. tab'.view = Picked(p, Choices, MembersOf(p))
  BY <1>4, <1>6, <1>7, <1>8 DEF v
<1>10. AddInv' /\ (AtRest' => Current')
  BY <1>1, <1>2, <1>6, <1>9, AddRests
<1>11. OnlyBusy(call, s)
  BY <1>5, ReplyIsTrue
<1> QED BY <1>2, <1>10, <1>11, NoneLeft, NobodyBusy

LEMMA AddLoadedQuiet ==
    \A s \in Slots : TabInv /\ QuietInv /\ AddLoaded(s) /\ call[s].pc = "answered"
                        /\ route' = route /\ UNCHANGED <<storeVars, used>> => QuietInv'
<1> SUFFICES ASSUME NEW s \in Slots, TabInv, QuietInv, AddLoaded(s), call[s].pc = "answered",
                    route' = route, UNCHANGED <<storeVars, used>>
             PROVE  QuietInv'
  OBVIOUS
<1> DEFINE c == call[s]
           ps == c.view.parties
           v == [tab.view EXCEPT !.parties = ps]
           t == [[tab EXCEPT !.loading = FALSE] EXCEPT !.view = v]
<1>1. c.view \in View /\ c.op = "load" /\ c.status = "ok" /\ c.page = "add"
  BY LoadReply DEF AddLoaded, Reads
<1>2. tab \in Tab /\ tab.view \in View /\ StoreTypeOK /\ PageInv
  BY DEF TabInv, TypeOK, PageInv, Tab
<1>3. ps \in SUBSET Parties
  BY <1>1 DEF View
<1>4. PICK p \in ps :
         \/ call' = Drop(s) /\ tab' = t /\ p = tab.view.party
         \/ Pick(Drop(s), t, p)
  <2>1. t = [tab EXCEPT !.loading = FALSE, !.view.parties = ps]
    BY <1>2 DEF Tab
  <2> QED BY <2>1 DEF AddLoaded
<1>5. call[s] = c
  OBVIOUS
<1> HIDE DEF c, ps
<1>6. v \in View
  BY <1>2, <1>3 DEF View
<1> HIDE DEF v
<1>7. t \in Tab /\ t.view = v /\ t.jumped = tab.jumped /\ t.calm = tab.calm /\ ~t.loading
  BY <1>2, <1>6 DEF Tab
<1> HIDE DEF t
<1> SUFFICES ASSUME Quiet' PROVE QuietInv'
  BY DEF QuietInv
<1>8. Quiet
  <2>1. CASE Pick(Drop(s), t, p)
    <3> DEFINE w == [t.view EXCEPT !.party = p]
               b == t.calm /\ ~Busy(Drop(s))
    <3>1. tab' = [[t EXCEPT !.view = w] EXCEPT !.calm = b]
      BY <1>7, <2>1 DEF Pick, Tab
    <3>2. b \in BOOLEAN /\ (b => t.calm)
      BY <1>7 DEF Tab
    <3> HIDE DEF w, b
    <3>3. tab'.calm = b /\ tab'.jumped = t.jumped
      BY <1>7, <3>1, <3>2 DEF Tab
    <3> QED BY <1>7, <3>2, <3>3 DEF Quiet
  <2>2. CASE tab' = t
    BY <1>7, <2>2 DEF Quiet
  <2> QED BY <1>4, <2>1, <2>2
<1>9. /\ route.page = "add" /\ ps = Choices
      /\ tab.view.party \in Choices \cup {None}
      /\ v = Picked(tab.view.party, Choices, MembersOf(tab.view.party))
      /\ \A z \in Slots : Drop(s)[z].op # "info"
  BY <1>1, <1>5, <1>8, ListReply DEF v, ps
<1>10. CASE call' = Drop(s) /\ tab' = t /\ p = tab.view.party
  <2>1. p \in Choices \cup {None} /\ tab'.view = Picked(p, Choices, MembersOf(p))
    BY <1>7, <1>9, <1>10
  <2>2. AddInv' /\ (AtRest' => Current')
    BY <1>2, <1>9, <1>10, <2>1, AddRests
  <2>3. OnlyBusy(call, s)
    BY <1>8, ReplyIsTrue
  <2> QED BY <1>10, <2>2, <2>3, NoneLeft, NobodyBusy
<1>11. CASE Pick(Drop(s), t, p)
  <2>1. t.view = Picked(t.view.party, Choices, t.view.users)
    <3>1. PICK q \in Parties \cup {None}, cs \in SUBSET Parties, us \in SUBSET Users :
             q = tab.view.party /\ cs = Choices /\ us = MembersOf(q)
      BY <1>2, <1>9 DEF View, Choices, MembersOf, StoreTypeOK
    <3>2. v = Picked(q, cs, us)
      BY <1>9, <3>1
    <3>3. PickOf(v, q, cs, us)
      BY <3>2, PickedFields
    <3>4. v.party = q /\ v.users = us
      BY <3>3 DEF PickOf
    <3> QED BY <1>7, <3>1, <3>2, <3>4
  <2>2. Requests(Drop(s))
    BY <1>2, DropBelongs DEF Belong
  <2> QED BY <1>2, <1>7, <1>9, <1>11, <2>1, <2>2, PickQuiet
<1> QED BY <1>4, <1>10, <1>11

LEMMA ReceiveLoadQuiet == \A s \in Slots : TabInv /\ QuietInv /\ ReceiveLoad(s) => QuietInv'
BY PageLoadedQuiet, AddLoadedQuiet, AddEmptyQuiet, InfoLoadedQuiet, LoadFailedQuiet
   DEF ReceiveLoad

-----------------------------------------------------------------------------
(* Replies to the writes of a quiet tab *)

\* The page that asked is still there, and nav() leaves it.
LEMMA GoesAway ==
    ASSUME TabInv, QuietInv, Quiet, NEW s \in Slots, call[s].pc = "answered",
           call[s].op \in Writes, Moves(call[s])
    PROVE  Onward(call[s]).page # route.page
<1> DEFINE c == call[s]
<1>1. c.mounted
  BY ReplyIsTrue DEF OneCall
<1>2. c.page = route.page /\ c.page \in From(c.op)
  BY <1>1, OneRequest DEF Fits, WellMade
<1> HIDE DEF c
<1>3. CASE c.op \in {"leave", "delete"}
  BY <1>2, <1>3 DEF From, Onward, At, c
<1>4. CASE c.op \in {"update", "create", "join"}
  BY <1>2, <1>4 DEF From, Onward, At, c
<1>5. CASE c.op = "add"
  BY <1>2, <1>5 DEF From, Onward, At, c
<1> QED BY <1>3, <1>4, <1>5 DEF Moves, c

LEMMA MoveQuiet ==
    \A s \in Slots : TabInv /\ QuietInv /\ ReceiveAndMove(s) /\ call[s].pc = "answered"
                        /\ call[s].op \in Writes /\ UNCHANGED <<storeVars, used>> => QuietInv'
<1> SUFFICES ASSUME NEW s \in Slots, TabInv, QuietInv, ReceiveAndMove(s),
                    call[s].pc = "answered", call[s].op \in Writes, UNCHANGED <<storeVars, used>>
             PROVE  QuietInv'
  OBVIOUS
<1>1. PICK r \in Routes : r = Onward(call[s])
  BY OneRequest, OnwardRoute DEF ReceiveAndMove
<1>2. Arrive(Drop(s), r) /\ Moves(call[s])
  BY <1>1 DEF ReceiveAndMove
<1>3. Quiet => r.page # route.page
  BY <1>1, <1>2, GoesAway
<1>4. CASE r = route
  <2>1. Quiet' => Quiet
    BY <1>2, <1>4 DEF Arrive, Quiet
  <2> QED BY <1>3, <1>4, <2>1 DEF QuietInv
<1>5. CASE r # route /\ r.page = route.page
  <2> DEFINE j == tab.jumped \/ \E z \in Slots : Drop(s)[z].mounted
             t == [tab EXCEPT !.jumped = j]
  <2>1. Load(Drop(s), r, t) /\ tab \in Tab
    BY <1>2, <1>5 DEF Arrive, Turn, TabInv, PageInv, Tab
  <2>2. j \in BOOLEAN /\ (tab.jumped => j)
    BY <2>1 DEF Tab
  <2> HIDE DEF j
  <2>3. t \in Tab /\ t.calm = tab.calm /\ t.jumped = j
    BY <2>1, <2>2 DEF Tab
  <2> HIDE DEF t
  <2>4. TabLoads(t, Drop(s), r, tab')
    BY <2>1, <2>3, LoadEffect
  <2>5. Quiet' => Quiet
    BY <2>2, <2>3, <2>4 DEF Quiet, TabLoads
  <2> QED BY <1>3, <1>5, <2>5 DEF QuietInv
<1>6. CASE r.page # route.page
  <2>1. Requests(Drop(s)) /\ Mount(Drop(s), r)
    BY <1>2, <1>6, DropWrite DEF Arrive, Belong
  <2> QED BY <2>1, MountQuiet
<1> QED BY <1>4, <1>5, <1>6

LEMMA ReloadQuiet ==
    \A s \in Slots : TabInv /\ QuietInv /\ ReceiveAndReload(s) /\ call[s].pc = "answered"
                        /\ call[s].op \in Writes /\ UNCHANGED <<storeVars, used>> => QuietInv'
<1> SUFFICES ASSUME NEW s \in Slots, TabInv, QuietInv, ReceiveAndReload(s),
                    call[s].pc = "answered", call[s].op \in Writes, UNCHANGED <<storeVars, used>>
             PROVE  QuietInv'
  OBVIOUS
<1> DEFINE c == call[s]
           q == At(c.page, c.party)
<1>1. c \in Call /\ WellMade(c) /\ Fits(c, route) /\ c.op \in Writes /\ Reloads(c)
      /\ route' = route /\ tab \in Tab
  BY OneRequest DEF ReceiveAndReload, TabInv, PageInv
<1>2. CASE c.mounted
  <2>1. Load(Drop(s), q, tab)
    BY <1>2 DEF ReceiveAndReload
  <2>2. c.page = route.page
    BY <1>1, <1>2 DEF Fits
  <2>3. c.page \in {"show", "manage", "myItems", "members", "bestpay"}
    BY <1>1 DEF Reloads, Unchecked, WellMade, From
  <2>4. q.page \in Pages /\ q.party \in Parties \cup {None}
    BY <1>1 DEF At, Call
  <2>5. Drop(s) \in [Slots -> Call]
    BY DropWrite DEF Belong, Requests
  <2>6. q.page # "list" /\ q.page # "add" /\ q.page = route.page
    BY <2>2, <2>3 DEF At
  <2> HIDE DEF c, q
  <2> QED BY <1>1, <2>1, <2>4, <2>5, <2>6, LoadQuiet
<1>3. CASE ~c.mounted
  <2>1. Quiet' => Quiet
    BY <1>3 DEF ReceiveAndReload, Quiet
  <2>2. ~Quiet
    BY <1>3, ReplyIsTrue DEF OneCall
  <2> QED BY <2>1, <2>2 DEF QuietInv
<1> QED BY <1>2, <1>3

LEMMA RefusalQuiet ==
    \A s \in Slots : TabInv /\ QuietInv /\ ReceiveRefusal(s) /\ call[s].pc = "answered"
                        /\ call[s].op \in Writes /\ UNCHANGED <<storeVars, used>> => QuietInv'
<1> SUFFICES ASSUME NEW s \in Slots, TabInv, QuietInv, ReceiveRefusal(s),
                    call[s].pc = "answered", call[s].op \in Writes, UNCHANGED <<storeVars, used>>
             PROVE  QuietInv'
  OBVIOUS
<1> DEFINE b == tab.err \/ (call[s].mounted /\ call[s].op \in {"update", "join"})
<1>1. tab' = [tab EXCEPT !.err = b] /\ tab \in Tab /\ tab.err \in BOOLEAN
  BY DEF ReceiveRefusal, TabInv, PageInv, Tab
<1>2. b \in BOOLEAN /\ (tab.err => b)
  OBVIOUS
<1> HIDE DEF b
<1>3. tab'.err = b /\ tab'.loading = tab.loading /\ tab'.view = tab.view
      /\ tab'.jumped = tab.jumped /\ tab'.calm = tab.calm
  BY <1>1, <1>2 DEF Tab
<1>4. AtRest' => AtRest
  BY <1>2, <1>3 DEF AtRest
<1>5. call' = Drop(s) /\ route' = route /\ call[s].status = "refused"
      /\ call \in [Slots -> Call]
  BY DEF ReceiveRefusal, TabInv, TypeOK
<1> SUFFICES ASSUME Quiet' PROVE QuietInv'
  BY DEF QuietInv
<1>6. Quiet
  BY <1>3 DEF Quiet
<1>7. OnlyBusy(call, s) /\ OneCall(call[s])
  BY <1>6, ReplyIsTrue
<1>8. AtRest' => Current'
  BY <1>3, <1>4, <1>5, <1>7, CurrentStays DEF OneCall
<1>9. ASSUME route'.page = "add" PROVE AddInv'
  <2>1. AddInv
    BY <1>5, <1>6, <1>9 DEF QuietInv
  <2>2. ~Done(call[s])
    BY <1>5 DEF Done
  <2>3. Idle.op \notin Reads /\ call[s].op \notin Reads
    BY IdleCall DEF Reads, Writes
  <2> QED BY <1>3, <1>5, <2>1, <2>2, <2>3, AddSlot DEF Drop
<1> QED BY <1>5, <1>7, <1>8, <1>9, NoneLeft, NobodyBusy

\* A reply that was lost is never that of a quiet tab.
LEMMA NothingQuiet ==
    \A s \in Slots : TabInv /\ QuietInv /\ ReceiveNothing(s) /\ call[s].pc = "answered"
                        /\ UNCHANGED <<storeVars, used>> => QuietInv'
<1> SUFFICES ASSUME NEW s \in Slots, TabInv, QuietInv, ReceiveNothing(s),
                    call[s].pc = "answered", UNCHANGED <<storeVars, used>>
             PROVE  QuietInv'
  OBVIOUS
<1>1. ~Quiet
  BY ReplyIsTrue DEF ReceiveNothing, OneCall
<1>2. Quiet' => Quiet
  BY DEF ReceiveNothing, Quiet
<1> QED BY <1>1, <1>2 DEF QuietInv

LEMMA ReceiveWriteQuiet == \A s \in Slots : TabInv /\ QuietInv /\ ReceiveWrite(s) => QuietInv'
BY MoveQuiet, ReloadQuiet, RefusalQuiet, NothingQuiet DEF ReceiveWrite

-----------------------------------------------------------------------------
(* QuietInv is an invariant *)

LEMMA QuietInit == Init => QuietInv
<1> SUFFICES ASSUME Init PROVE QuietInv
  OBVIOUS
<1> DEFINE none == [s \in Slots |-> Idle]
<1>1. route \in Routes /\ tab = NewTab(route)
  BY DEF Init
<1>2. route.page \in Pages /\ route.party \in Parties \cup {None}
  BY <1>1, RouteFields
<1>3. tab.view = NoView /\ tab.loading = Loads(route.page)
  BY <1>1, NewTabFields
<1>4. \A s \in Slots : none[s].pc = "idle" /\ none[s].op = "none"
  BY IdleCall
<1>5. none \in [Slots -> Call]
  BY IdleCall
<1>6. CASE Loads(route.page)
  <2>1. call = Put(none, LoadCall(route))
    BY <1>6 DEF Init
  <2>2. Room(none)
    BY <1>4, TabAssumption DEF Room
  <2> HIDE DEF none
  <2>3. PICK s \in Slots : call = [none EXCEPT ![s] = LoadCall(route)]
    BY <2>1, <2>2, PutOne
  <2>4. PICK d \in Call : d = LoadCall(route)
    BY <1>2, LoadCallFields
  <2>5. d.pc = "sent" /\ d.op = "load" /\ d.mounted /\ d.status = "none"
    BY <1>2, <2>4, LoadCallFields
  <2>6. call[s] = d /\ \A z \in Slots \ {s} : call[z] = none[z]
    BY <1>5, <2>3, <2>4
  <2>7. OnlyBusy(call, s)
    BY <1>4, <2>6 DEF OnlyBusy, IsBusy
  <2>8. tab.loading
    BY <1>3, <1>6
  <2>9. OneCall(d)
    BY <2>5, <2>8 DEF OneCall, Writes, Reads
  <2>10. AddInv
    <3>1. tab.view.party = None /\ tab.view.parties = {} /\ tab.view.users = {}
      BY <1>3 DEF NoView
    <3>2. tab.view = Picked(tab.view.party, tab.view.parties, tab.view.users)
      BY <1>3, <3>1, NoViewPicked
    <3>3. \A z \in Slots : call[z].op # "info"
      BY <1>4, <2>5, <2>6
    <3>4. PickIsOpen /\ UsersAreCurrent
      BY <3>1 DEF PickIsOpen, UsersAreCurrent, MembersOf
    <3> QED BY <2>8, <3>1, <3>2, <3>3, <3>4 DEF AddInv
  <2> QED BY <2>6, <2>7, <2>8, <2>9, <2>10 DEF QuietInv, OnlyBusy, AtRest
<1>7. CASE ~Loads(route.page)
  <2>1. call = none
    BY <1>7 DEF Init
  <2>2. \A s \in Slots : ~IsBusy(call[s])
    BY <1>4, <2>1 DEF IsBusy
  <2>3. route.page \in {"create", "joinForm"}
    BY <1>7 DEF Loads
  <2>4. AtRest => Current
    <3>1. \A p : MayRead(route.page, p) /\ ViewOf(route.page, p) = NoView
      BY <2>3 DEF MayRead, ViewOf
    <3> QED BY <1>3, <2>3, <3>1 DEF Current
  <2> QED BY <2>2, <2>3, <2>4 DEF QuietInv, OnlyBusy
<1> QED BY <1>6, <1>7

LEMMA QuietStutters == TabInv /\ QuietInv /\ UNCHANGED vars => QuietInv'
<1> SUFFICES ASSUME TabInv, QuietInv, UNCHANGED vars PROVE QuietInv'
  OBVIOUS
<1>1. UNCHANGED <<storeVars, route, tab, call, used>>
  BY DEF vars, tabVars
<1>2. PageUnchanged
  BY <1>1 DEF PageUnchanged, AtRest, Quiet
<1> QED BY <1>1, <1>2, RestQuiet DEF TabInv, TypeOK

LEMMA QuietNext == TabInv /\ QuietInv /\ TabInv' /\ [Next]_vars => QuietInv'
BY FollowQuiet, VisitQuiet, AskQuiet, ClickQuiet, PickPartyQuiet, TickQuiet, ElsewhereQuiet,
   CancelQuiet, ConfirmQuiet, ServeReadQuiet, AcceptQuiet, RefuseQuiet, FailQuiet,
   LoseQuiet, ReceiveLoadQuiet, ReceiveWriteQuiet, QuietStutters DEF Next

\* A page at rest whose requests never overlapped shows what the server has, though the user
\* moved between pages and wrote from them, and though statements failed: every handler of a
\* write loads again or leaves, and a load that is refused leaves an error or the spinner.
THEOREM RestingPagesAreCurrent == Spec => []RestingPageIsCurrent
<1>1. Spec => []QuietInv
  BY QuietInit, QuietNext, TabAlways, PTL DEF Spec
<1>2. QuietInv => RestingPageIsCurrent
  BY DEF QuietInv, Quiet, RestingPageIsCurrent
<1> QED BY <1>1, <1>2, PTL
=============================================================================
