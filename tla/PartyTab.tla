----------------------------- MODULE PartyTab ------------------------------
(***************************************************************************)
(* One tab of the browser client on the party and item pages: the route,   *)
(* the page's loading, error and view, the requests it has in flight, the  *)
(* dialogs it has open.  Each endpoint is one atomic step of Ledger, taken *)
(* when the server gets to it; PartyLedger has the statements inside.      *)
(* Somebody else, or the same user in another window, uses the same        *)
(* endpoints meanwhile.                                                    *)
(*                                                                         *)
(* A request that is sent is answered in any order, or its reply is lost,  *)
(* or one of its statements fails, whether or not the handler notices.     *)
(* A page's handler keeps running when the page is gone: its setState then *)
(* has no effect, its messages and its nav() do.                           *)
(***************************************************************************)
EXTENDS PageViews, Naturals

CONSTANTS
    Slots,         \* bound: requests and dialogs at a time
    MaxMoves,      \* bound: links followed and addresses opened
    MaxWrites,     \* bound: requests sent that write
    MaxElsewhere,  \* bound: writes that do not come from this tab
    MaxLost,       \* bound: replies lost and statements failed
    MaxEvents      \* bound: all of these together

ASSUME TabAssumption ==
    /\ Slots # {}
    /\ {MaxMoves, MaxWrites, MaxElsewhere, MaxLost, MaxEvents} \subseteq Nat

VARIABLES
    route,   \* the address: a page and its party
    tab,     \* the state of the mounted page
    call,    \* requests and dialogs, by slot
    used     \* how much of each bound is used

tabVars == <<route, tab, call, used>>
vars == <<storeVars, tabVars>>

Server == INSTANCE Ledger

Reads == {"load", "info"}
Writes == {"archive", "delete", "leave", "deleteItem", "remove", "clear", "mark",
           "update", "create", "join", "add"}

(* A request, or with pc = "asked" a dialog that will send one.  page and  *)
(* party are those of the component that made it, mounted says whether it  *)
(* is still there.  fresh, done and failed are history: the view it was    *)
(* made from was what the server had, and no write came in between; the    *)
(* server did what it asks; a statement of its handler failed.             *)
Call == [pc : {"idle", "asked", "sent", "answered"}, op : Reads \cup Writes \cup {"none"},
         page : Pages, party : Parties \cup {None}, item : ItemIds \cup {None},
         users : SUBSET Users, paid : BOOLEAN, mounted : BOOLEAN, fresh : BOOLEAN,
         done : BOOLEAN, failed : BOOLEAN,
         status : {"none", "ok", "refused", "lost"}, view : View]

Idle == [pc |-> "idle", op |-> "none", page |-> "home", party |-> None, item |-> None,
         users |-> {}, paid |-> FALSE, mounted |-> FALSE, fresh |-> FALSE,
         done |-> FALSE, failed |-> FALSE,
         status |-> "none", view |-> NoView]

(* ticked is the form's users in items/add.  calm and jumped are history,  *)
(* since the page was opened: the tab had one request at a time, each from *)
(* this page and answered; the party of the address changed under a        *)
(* request or a dialog.                                                    *)
Tab == [loading : BOOLEAN, err : BOOLEAN, view : View, ticked : SUBSET Users,
        calm : BOOLEAN, jumped : BOOLEAN]

-----------------------------------------------------------------------------
(* Loading                                                                 *)

\* create renders without a load; its currencies are not modelled.
Loads(page) == page \notin {"create", "joinForm"}

\* Mistake: the page of members does not set loading when it loads.
Resets_NotMembers == {"show", "manage", "myItems", "bestpay", "edit", "invite"}

\* A load of these pages sets loading again and clears the error.
Resets == {"show", "manage", "myItems", "members", "bestpay", "edit", "invite"}

\* A load of these pages handles a reply that is an error.
Catches == {"home", "bills", "payments", "items", "payment", "show", "manage", "myItems",
            "members", "bestpay"}

LoadCall(r) == [Idle EXCEPT !.pc = "sent", !.op = "load", !.page = r.page,
                            !.party = r.party, !.mounted = TRUE]

Busy(calls) == \E s \in Slots : calls[s].pc \in {"sent", "answered"}
Room(calls) == \E s \in Slots : calls[s].pc = "idle"

Put(calls, c) == [calls EXCEPT ![CHOOSE s \in Slots : calls[s].pc = "idle"] = c]

Drop(s) == [call EXCEPT ![s] = Idle]

\* load() on page r, among these calls.
Load(calls, r, t) ==
    /\ Room(calls)
    /\ call' = Put(calls, LoadCall(r))
    /\ tab' = [t EXCEPT !.loading = @ \/ r.page \in Resets,
                        !.err = @ /\ r.page \notin Resets,
                        !.calm = @ /\ ~Busy(calls)]

NewTab(r) == [loading |-> Loads(r.page), err |-> FALSE, view |-> NoView, ticked |-> {},
              calm |-> TRUE, jumped |-> FALSE]

\* The page is replaced: its replies will change nothing, a Popconfirm goes
\* with it, a Modal stays.
Unmount(calls) ==
    [s \in Slots |->
        IF calls[s].op \in Reads \/ (calls[s].pc = "asked" /\ calls[s].page = "manage")
        THEN Idle ELSE [calls[s] EXCEPT !.mounted = FALSE]]

Mount(calls, r) ==
    /\ route' = r
    /\ IF Loads(r.page) THEN Load(Unmount(calls), r, NewTab(r))
       ELSE call' = Unmount(calls)
            /\ tab' = [NewTab(r) EXCEPT !.calm = ~Busy(Unmount(calls))]

\* The same component gets another party; its effect loads, and nothing
\* cancels what it has in flight.
Turn(calls, r) ==
    /\ route' = r
    /\ Load(calls, r, [tab EXCEPT !.jumped = @ \/ \E s \in Slots : calls[s].mounted])

Arrive(calls, r) ==
    IF r = route THEN call' = calls /\ UNCHANGED <<route, tab>>
    ELSE IF r.page = route.page THEN Turn(calls, r) ELSE Mount(calls, r)

-----------------------------------------------------------------------------

OpenRow(u, c) == [state |-> "live", owner |-> u, base |-> c, archived |-> None]

(* A party that was used for a while, and a page that was just opened.     *)
Init ==
    /\ party \in [Parties -> {NoParty} \cup {OpenRow(u, c) : u \in Users, c \in Currencies}]
    /\ members \in [Parties -> SUBSET Users]
    /\ \A p \in Parties : IF Live(p) THEN party[p].owner \in members[p] ELSE members[p] = {}
    /\ item \in [ItemIds -> {NoItem("unused")} \cup
                    [state : {"live"}, party : Parties, payer : Users, initiator : Users,
                     paid : BOOLEAN, currency : Currencies]]
    /\ \A i \in ItemIds :
          item[i].state = "live" =>
             /\ {item[i].payer, item[i].initiator} \subseteq members[item[i].party]
             /\ item[i].payer = item[i].initiator => item[i].paid
             /\ item[i].currency = party[item[i].party].base
    /\ file = [p \in Parties |-> NoFile]
    /\ route \in Routes
    /\ tab = NewTab(route)
    /\ call = LET none == [s \in Slots |-> Idle]
              IN  IF Loads(route.page) THEN Put(none, LoadCall(route)) ELSE none
    /\ used = [moves |-> 0, writes |-> 0, elsewhere |-> 0, lost |-> 0]

Within(what, bound) ==
    /\ used[what] < bound
    /\ used.moves + used.writes + used.elsewhere + used.lost < MaxEvents

Spend(what, bound) ==
    /\ Within(what, bound)
    /\ used' = [used EXCEPT ![what] = @ + 1]

-----------------------------------------------------------------------------
(* What the user does                                                      *)

\* The mask of an open dialog covers the page.
Masked == \E s \in Slots : call[s].pc = "asked"

AtRest == ~tab.loading /\ ~tab.err

Links == HeaderLinks(route, tab.view)
         \cup (IF AtRest THEN BodyLinks(route, tab.view) ELSE {})
         \cup (IF route.page = "invite" /\ tab.err THEN {At("home", None)} ELSE {})

Follow ==
    /\ ~Masked
    /\ \E r \in Links : Arrive(call, r)
    /\ Spend("moves", MaxMoves)
    /\ UNCHANGED <<storeVars>>

\* Back and forward, a bookmark, an edited address.
Visit ==
    /\ \E r \in Routes : Arrive(call, r)
    /\ Spend("moves", MaxMoves)
    /\ UNCHANGED <<storeVars>>

Offers == HeaderOffers(route.page, tab.view)
          \cup (IF AtRest THEN BodyOffers(route.page, tab.view, tab.ticked) ELSE {})

\* The party of the address; the one picked in the form of items/add.
Subject == IF route.page = "add" THEN tab.view.party ELSE route.party

\* The page shows what its load would answer now, and the form has picked one
\* of the parties it lists.
Current == /\ AtRest
           /\ MayRead(route.page, Subject)
           /\ tab.view = ViewOf(route.page, Subject)
           /\ route.page = "add" /\ Subject # None => Subject \in tab.view.parties

\* mark sends the opposite of what the row shows.
Made(o, pc) ==
    [pc |-> pc, op |-> o.op, page |-> route.page, party |-> Subject, item |-> o.item,
     users |-> o.users, paid |-> o.item \in ItemIds \ tab.view.paid, mounted |-> TRUE,
     fresh |-> Current /\ o.users \subseteq tab.view.users,
     done |-> FALSE, failed |-> FALSE, status |-> "none", view |-> NoView]

Confirmed == {"archive", "delete", "leave", "deleteItem", "remove", "clear"}

\* Modal.confirm and Popconfirm.
Ask ==
    /\ ~Masked /\ Room(call)
    /\ Within("writes", MaxWrites)
    /\ \E o \in Offers :
          /\ o.op \in Confirmed
          /\ call' = Put(call, Made(o, "asked"))
    /\ UNCHANGED <<storeVars, route, tab, used>>

Cancel(s) ==
    /\ call[s].pc = "asked"
    /\ call' = Drop(s)
    /\ UNCHANGED <<storeVars, route, tab, used>>

Confirm(s) ==
    /\ call[s].pc = "asked"
    /\ Spend("writes", MaxWrites)
    /\ call' = [call EXCEPT ![s].pc = "sent"]
    /\ tab' = [tab EXCEPT !.calm = @ /\ ~Busy(call) /\ call[s].mounted]
    /\ UNCHANGED <<storeVars, route>>

\* The other buttons send at once.  Only joining disables its button.
Click ==
    /\ ~Masked /\ Room(call)
    /\ Spend("writes", MaxWrites)
    /\ \E o \in Offers :
          /\ o.op \notin Confirmed
          /\ o.op = "join" => \A s \in Slots : call[s].op # "join"
          /\ call' = Put(call, Made(o, "sent"))
    /\ tab' = [tab EXCEPT !.calm = @ /\ ~Busy(call)]
    /\ UNCHANGED <<storeVars, route>>

\* PartyPicker, and its first value: loadParty(p).
Pick(calls, t, p) ==
    /\ Room(calls)
    /\ call' = Put(calls, [LoadCall(At("add", p)) EXCEPT !.op = "info"])
    /\ tab' = [t EXCEPT !.view.party = p, !.calm = @ /\ ~Busy(calls)]

PickParty ==
    /\ ~Masked /\ route.page = "add" /\ AtRest
    /\ \E p \in tab.view.parties \ {tab.view.party} : Pick(call, tab, p)
    /\ Spend("moves", MaxMoves)
    /\ UNCHANGED <<storeVars, route>>

\* The check boxes are the members shown, in each of the three ways to enter
\* an amount.
Tick ==
    /\ ~Masked /\ route.page = "add" /\ AtRest
    /\ \E us \in (SUBSET tab.view.users) \ {{}} : tab' = [tab EXCEPT !.ticked = us]
    /\ tab'.ticked # tab.ticked
    /\ UNCHANGED <<storeVars, route, call, used>>

-----------------------------------------------------------------------------
(* The server                                                              *)

Reply(s, status) == [call EXCEPT ![s].pc = "answered", ![s].status = status]

\* The requests that are under way no longer come from what the store holds.
Stale(calls) ==
    [s \in Slots |-> IF calls[s].pc \in {"asked", "sent"} THEN [calls[s] EXCEPT !.fresh = FALSE]
                     ELSE calls[s]]

ServeRead(s) ==
    LET c == call[s] IN
    /\ c.pc = "sent" /\ c.op \in Reads
    /\ call' = IF MayRead(IF c.op = "info" THEN "show" ELSE c.page, c.party)
               THEN [Reply(s, "ok") EXCEPT ![s].view = ViewOf(c.page, c.party)]
               ELSE Reply(s, "refused")
    /\ UNCHANGED <<storeVars, route, tab, used>>

(* The guards of the handlers, as Ledger has them.                         *)
Accepts(c) ==
    LET p == c.party
        q == item[c.item].party
    IN
    CASE c.op = "leave"  -> Member(p) /\ ~Owner(p) /\ Unpaid(p) = {}
      [] c.op = "delete" -> Owner(p) /\ ~Archived(p) /\ Unpaid(p) = {}
      [] c.op \in {"archive", "update", "clear"} -> Owner(p) /\ ~Archived(p)
      [] c.op = "remove" -> /\ Owner(p) /\ ~Archived(p)
                            /\ \A u \in c.users : u \in members[p] \ {Me} /\ Related(p, u) = {}
      [] c.op = "join"   -> Open(p)
      [] c.op = "add"    -> Open(p) /\ c.users \cup {Me} \subseteq members[p]
      [] c.op = "create" -> TRUE
      [] c.op = "mark"   -> /\ item[c.item].state = "live" /\ item[c.item].initiator = Me
                            /\ Member(q) /\ ~Archived(q)
      [] c.op = "deleteItem" -> item[c.item].state = "live" /\ Owner(q) /\ ~Archived(q)

\* p is the party created, and otherwise the party of the request.
Perform(c, p) ==
    \/ c.op = "create" /\ \E b \in Currencies : Server!CreateParty(p, Me, b)
    \/ /\ p = c.party
       /\ \/ c.op = "leave" /\ Server!Leave(p, Me)
          \/ c.op = "delete" /\ Server!DeleteParty(p)
          \/ c.op = "archive" /\ \E r \in Reqs : Server!Archive(p, r)
          \/ c.op = "update" /\ \E b \in Currencies : Server!UpdateParty(p, b)
          \/ c.op = "clear" /\ Server!ClearBestPay(p)
          \/ c.op = "remove" /\ \E u \in c.users : Server!RemoveMember(p, u)
          \/ c.op = "join" /\ Server!Join(p, Me)
          \/ c.op = "add" /\ Server!AddItem(p, Me, c.users)
          \/ c.op = "mark" /\ Server!UpdateItemStatus(c.item, c.paid)
          \/ c.op = "deleteItem" /\ Server!DeleteItem(c.item)

\* A created party's id is in the reply; joinParty answers a member's second
\* request with the id as well.
Accept(s) ==
    LET c == call[s] IN
    /\ c.pc = "sent" /\ c.op \in Writes
    /\ Accepts(c)
    /\ \E p \in Parties :
          /\ Perform(c, p)
          /\ call' = Stale([Reply(s, "ok") EXCEPT ![s].party = p, ![s].done = TRUE])
    /\ UNCHANGED <<route, tab, used>>

Refuse(s) ==
    /\ call[s].pc = "sent" /\ call[s].op \in Writes
    /\ ~Accepts(call[s])
    /\ call' = Reply(s, "refused")
    /\ UNCHANGED <<storeVars, route, tab, used>>

(* A statement of the handler fails.                                       *)

\* The reply once a statement has failed.
FailedReply(s, status) == [Reply(s, status) EXCEPT ![s].failed = TRUE]

\* Most handlers look at the error and refuse.  Only loadParty of items/add
\* passes over the refusal of a read.
Refused(s) ==
    /\ call' = FailedReply(s, "refused")
    /\ tab' = [tab EXCEPT !.calm = @ /\ call[s].op # "info"]
    /\ UNCHANGED storeVars

\* removePartyMember does not look at the error of its DELETE.
RemovedNobody(s) ==
    /\ call[s].op = "remove" /\ Accepts(call[s])
    /\ call' = FailedReply(s, "ok")
    /\ UNCHANGED <<storeVars, tab>>

\* The preview of an invitation takes a count that failed for no membership.
InvitedAgain(s) ==
    /\ call[s].op = "load" /\ call[s].page = "invite"
    /\ Open(call[s].party) /\ Member(call[s].party)
    /\ call' = [FailedReply(s, "ok") EXCEPT ![s].view = OfParty(call[s].party)]
    /\ tab' = [tab EXCEPT !.calm = FALSE]
    /\ UNCHANGED storeVars

\* The check that would refuse is passed over: a count that failed is zero, a
\* party that could not be read is taken for open.
Overlooked(c) ==
    LET p == c.party
        q == item[c.item].party
    IN
    \/ /\ c.op = "leave" /\ Member(p) /\ ~Owner(p)
       /\ Server!DeleteMember(p, Me)
    \/ /\ c.op = "delete" /\ Owner(p) /\ ~Archived(p)
       /\ Server!DeleteRows(p)
    \/ /\ c.op = "remove" /\ Owner(p) /\ ~Archived(p)
       /\ \E u \in (c.users \cap members[p]) \ {Me} : Server!DeleteMember(p, u)
    \/ /\ c.op = "mark" /\ item[c.item].state = "live" /\ item[c.item].initiator = Me
       /\ Member(q) /\ Server!UpdateItemStatusUnread(c.item, c.paid)

Overlooks(s) ==
    /\ call[s].op \in Writes /\ ~Accepts(call[s])
    /\ Overlooked(call[s])
    /\ call' = Stale([FailedReply(s, "ok") EXCEPT ![s].done = TRUE])
    /\ UNCHANGED tab

Fail(s) ==
    /\ call[s].pc = "sent"
    /\ Refused(s) \/ RemovedNobody(s) \/ InvitedAgain(s) \/ Overlooks(s)
    /\ Spend("lost", MaxLost)
    /\ UNCHANGED route

\* The request does not get through, or its reply does not.
Lose(s) ==
    /\ call[s].pc \in {"sent", "answered"} /\ call[s].status # "lost"
    /\ Spend("lost", MaxLost)
    /\ call' = [call EXCEPT ![s].pc = "answered", ![s].status = "lost", ![s].view = NoView]
    /\ tab' = [tab EXCEPT !.calm = FALSE]
    /\ UNCHANGED <<storeVars, route>>

Elsewhere ==
    /\ Server!Next
    /\ Spend("elsewhere", MaxElsewhere)
    /\ call' = Stale(call)
    /\ UNCHANGED <<route, tab>>

-----------------------------------------------------------------------------
(* Replies to loads.  Those of a page that is gone were dropped with it.   *)

\* items/add: the party of the query if it is in the list, else the first.
AddLoaded(s) ==
    LET c  == call[s]
        ps == c.view.parties
        t  == [tab EXCEPT !.loading = FALSE, !.view.parties = ps]
    IN
    /\ c.op = "load" /\ c.status = "ok" /\ c.page = "add"
    /\ \E p \in IF c.party \in ps THEN {c.party} ELSE ps :
          IF p = tab.view.party THEN call' = Drop(s) /\ tab' = t ELSE Pick(Drop(s), t, p)

AddEmpty(s) ==
    LET c == call[s] IN
    /\ c.op = "load" /\ c.status = "ok" /\ c.page = "add" /\ c.view.parties = {}
    /\ call' = Drop(s)
    /\ tab' = [tab EXCEPT !.loading = FALSE, !.view.parties = {}]

\* loadParty replaces the members, whatever party is picked by now; its
\* errors are not caught.  Of what was ticked it forgets the persons with an
\* amount of their own, and keeps the users that share one.
InfoLoaded(s) ==
    /\ call[s].op = "info"
    /\ call' = Drop(s)
    /\ IF call[s].status = "ok"
       THEN \E us \in {tab.ticked, {}} :
                tab' = [tab EXCEPT !.view.users = call[s].view.users, !.ticked = us]
       ELSE UNCHANGED tab

PageLoaded(s) ==
    LET c == call[s] IN
    /\ c.op = "load" /\ c.status = "ok" /\ c.page # "add"
    /\ IF c.page = "manage" /\ ~c.view.owner
       THEN \* the effect of ItemPartyPage, with the id of the address
            Mount(Drop(s), At("myItems", route.party))
       ELSE /\ call' = Drop(s)
            /\ tab' = [tab EXCEPT !.loading = FALSE, !.view = c.view]
            /\ UNCHANGED route

\* Mistake: loading is reset by a refusal, and not by a reply that was lost.
LoadFailed_NoFinally(s) ==
    LET c == call[s] IN
    /\ c.op = "load" /\ c.status \in {"refused", "lost"}
    /\ call' = Drop(s)
    /\ tab' = IF c.status = "refused" /\ c.page \in Catches \cup {"invite"}
              THEN [tab EXCEPT !.loading = FALSE, !.err = TRUE] ELSE tab

\* The members page clears its rows for a refusal.  The invitation shows a
\* refusal, and not a reply that was lost.
LoadFailed(s) ==
    LET c == call[s]
        t == [tab EXCEPT !.loading = FALSE, !.err = TRUE]
    IN
    /\ c.op = "load" /\ c.status \in {"refused", "lost"}
    /\ call' = Drop(s)
    /\ tab' = CASE c.page = "members" /\ c.status = "refused" -> [t EXCEPT !.view.users = {}]
                [] c.page \in Catches \/ (c.page = "invite" /\ c.status = "refused") -> t
                [] OTHER -> tab

ReceiveLoad(s) ==
    /\ call[s].pc = "answered"
    /\ \/ PageLoaded(s)
       \/ (AddLoaded(s) \/ AddEmpty(s) \/ InfoLoaded(s) \/ LoadFailed(s)) /\ UNCHANGED route
    /\ UNCHANGED <<storeVars, used>>

-----------------------------------------------------------------------------
(* Replies to writes                                                       *)

\* Mistake: the id of a created party is not taken from the reply.
Onward_NoId(c) ==
    CASE c.op \in {"leave", "delete"} -> At("list", None)
      [] c.op = "create"              -> At("show", None)
      [] c.op \in {"update", "join"}  -> At("show", c.party)
      [] c.op = "add"                 -> At("manage", c.party)

\* Where nav() goes when the request was accepted.
Onward(c) ==
    CASE c.op \in {"leave", "delete"}           -> At("list", None)
      [] c.op \in {"update", "create", "join"} -> At("show", c.party)
      [] c.op = "add"                          -> At("manage", c.party)

Moves(c) == c.op \in {"leave", "delete", "update", "create", "join", "add"} /\ c.status = "ok"

\* The handlers of ItemPartyPage and of PartyMyItemsPage do not look at ret.
Unchecked(c) == c.op = "mark" \/ (c.op = "deleteItem" /\ c.page = "manage")

\* Mistake: removeMember does not look at ret either.
SaysDone_RemoveUnchecked(c) ==
    \/ c.op \in {"leave", "update", "add", "deleteItem", "clear"} /\ c.status = "ok"
    \/ (Unchecked(c) \/ c.op = "remove") /\ c.status # "lost"

\* message.success; the other handlers announce nothing, or a failure.
SaysDone(c) ==
    \/ c.op \in {"leave", "update", "add", "deleteItem", "remove", "clear"} /\ c.status = "ok"
    \/ Unchecked(c) /\ c.status # "lost"

\* What a handler follows with load(); clearAll loads after a refusal too.
Reloads(c) ==
    \/ c.op \in {"archive", "deleteItem", "remove"} /\ c.status = "ok"
    \/ (c.op = "clear" \/ Unchecked(c)) /\ c.status # "lost"

ReceiveAndMove(s) ==
    LET c == call[s] IN
    /\ Moves(c)
    /\ Arrive(Drop(s), Onward(c))

\* Mistake: removeMember does not load again.
ReceiveAndReload_NotRemove(s) ==
    LET c == call[s] IN
    /\ Reloads(c)
    /\ IF c.mounted /\ c.op # "remove" THEN Load(Drop(s), At(c.page, c.party), tab)
       ELSE call' = Drop(s) /\ UNCHANGED tab
    /\ UNCHANGED route

\* load is the closure of the component that asked, with its party.
ReceiveAndReload(s) ==
    LET c == call[s] IN
    /\ Reloads(c)
    /\ IF c.mounted THEN Load(Drop(s), At(c.page, c.party), tab)
       ELSE call' = Drop(s) /\ UNCHANGED tab
    /\ UNCHANGED route

\* The editor and the invitation put the refusal in place of the page.
ReceiveRefusal(s) ==
    LET c == call[s] IN
    /\ c.status = "refused" /\ ~Reloads(c)
    /\ call' = Drop(s)
    /\ tab' = [tab EXCEPT !.err = @ \/ (c.mounted /\ c.op \in {"update", "join"})]
    /\ UNCHANGED route

\* The handler throws: Modal.confirm stays open, for another try.
ReceiveNothing(s) ==
    LET c == call[s] IN
    /\ c.status = "lost"
    /\ call' = IF c.op \in Confirmed /\ c.page # "manage"
               THEN [call EXCEPT ![s].pc = "asked", ![s].status = "none", ![s].fresh = FALSE,
                                ![s].done = FALSE, ![s].failed = FALSE]
               ELSE Drop(s)
    /\ UNCHANGED <<route, tab>>

ReceiveWrite(s) ==
    /\ call[s].pc = "answered" /\ call[s].op \in Writes
    /\ ReceiveAndMove(s) \/ ReceiveAndReload(s) \/ ReceiveRefusal(s) \/ ReceiveNothing(s)
    /\ UNCHANGED <<storeVars, used>>

-----------------------------------------------------------------------------

Next ==
    \/ Follow \/ Visit \/ Ask \/ Click \/ PickParty \/ Tick
    \/ Elsewhere
    \/ \E s \in Slots :
          \/ Cancel(s) \/ Confirm(s)
          \/ ServeRead(s) \/ Accept(s) \/ Refuse(s) \/ Fail(s) \/ Lose(s)
          \/ ReceiveLoad(s) \/ ReceiveWrite(s)

Spec == Init /\ [][Next]_vars

-----------------------------------------------------------------------------
(* Properties                                                              *)

(* Every variable has its type.                                            *)
TypeOK ==
    /\ StoreTypeOK
    /\ route \in Routes
    /\ tab \in Tab
    /\ call \in [Slots -> Call]
    /\ used \in [{"moves", "writes", "elsewhere", "lost"} -> Nat]

(* While nobody else writes, a page that is at rest shows what the server  *)
(* has, though the user moved between pages and wrote from them: every     *)
(* handler of a write loads again or goes to a page that does.  Statements *)
(* may fail, but for the count of an invitation and the load of items/add's *)
(* members.  Pages whose requests overlapped, or were lost, are exempt.    *)
RestingPageIsCurrent ==
    AtRest /\ tab.calm /\ ~tab.jumped /\ ~Busy(call) /\ used.elsewhere = 0 => Current

(* A page never shows one party under the address of another, however its  *)
(* loads and its handlers' loads are answered, unless the address got      *)
(* another party while a request or a dialog of the page was open: no      *)
(* component cancels a load.  The page of payments is exempt, its load     *)
(* does not bring the spinner back.                                        *)
PageShowsItsParty ==
    AtRest /\ route.page \in PartyPages \ {"payment"} /\ ~tab.jumped =>
        tab.view.party = route.party

\* The reasons to refuse that a page does not know of.
Excused(c) ==
    \/ c.op \in {"leave", "delete"} /\ Unpaid(c.party) # {}
    \/ c.op = "remove" /\ \E u \in c.users : Related(c.party, u) # {}
    \/ c.op = "clear" /\ Archived(c.party)

(* What a page offers over a view that is current, a button or a link, the *)
(* server grants: the conditions the pages render by (isOwner, archived,   *)
(* is_my_initiation) are those the handlers check.  It refuses only for a  *)
(* reason the page cannot know, or because one of its statements failed.   *)
FreshOffersAreHonoured ==
    [][/\ \A s \in Slots :
             call[s].pc = "sent" /\ call'[s].status = "refused"
                /\ call[s].op \in Writes /\ call[s].fresh =>
                   Excused(call[s]) \/ call'[s].failed
       /\ Current /\ route' # route /\ route' \in BodyLinks(route, tab.view) =>
             MayRead(route'.page, route'.party)]_vars

(* What is announced as done was done by the server, but for two kinds of  *)
(* handlers: those of the client that do not look at ret, when the view is *)
(* outdated or a statement failed, and the server's removal of a member    *)
(* when its DELETE failed.                                                 *)
SuccessIsTrue ==
    \A s \in Slots :
        call[s].pc = "answered" /\ call[s].op \in Writes /\ SaysDone(call[s]) =>
            \/ call[s].done
            \/ Unchecked(call[s]) /\ (~call[s].fresh \/ call[s].failed)
            \/ call[s].op = "remove" /\ call[s].failed

(* A page that catches the errors of its load never spins for nothing:     *)
(* some load of this very page is still to be answered, though replies are *)
(* lost, refused or out of order, addresses change and handlers load again *)
(* for pages that are gone.                                                *)
SpinnerHasALoad ==
    tab.loading /\ route.page \in Catches =>
        \E s \in Slots : /\ call[s].op = "load" /\ call[s].page = route.page
                         /\ call[s].mounted
=============================================================================
