----------------------------- MODULE PageViews -----------------------------
(***************************************************************************)
(* The party and item pages of the browser client, one by one: what the    *)
(* server answers to a page's load, and what the page then offers, the     *)
(* links it renders and the requests its buttons send.  A page is a name;  *)
(* what it shows is the view made of the reply.  Amounts, wording and      *)
(* layout are left out, and so are filters that only hide rows.            *)
(*                                                                         *)
(* The server's side is LedgerStore's rows; who may read what is the       *)
(* memberParty and ownerParty of the handlers.                             *)
(***************************************************************************)
EXTENDS LedgerStore

CONSTANT Me     \* the user who is signed in

ASSUME MeAssumption == Me \in Users

\* Routes with a party in their path, and those without.
PartyPages == {"show", "members", "bestpay", "myItems", "edit", "manage", "payment", "invite"}
ListPages  == {"home", "bills", "payments", "items", "list", "create", "joinForm"}
Pages      == PartyPages \cup ListPages \cup {"add"}

\* items/add carries its party in the query, or none.
Routes == {r \in [page : Pages, party : Parties \cup {None}] :
              /\ r.page \in PartyPages => r.party # None
              /\ r.page \in ListPages => r.party = None}

At(page, p) == [page |-> page, party |-> p]

\* What a page keeps of a reply.  In the view of items/add, party is the one
\* picked and users are its members.
View == [party : Parties \cup {None}, owner : BOOLEAN, archived : BOOLEAN,
         items : SUBSET ItemIds, paid : SUBSET ItemIds, mine : SUBSET ItemIds,
         users : SUBSET Users, parties : SUBSET Parties, due : SUBSET Parties]

\* The state a page mounts with.
NoView == [party |-> None, owner |-> FALSE, archived |-> FALSE, items |-> {},
           paid |-> {}, mine |-> {}, users |-> {}, parties |-> {}, due |-> {}]

-----------------------------------------------------------------------------
(* The answers of the server                                               *)

Member(p) == Live(p) /\ Me \in members[p]
Owner(p)  == Live(p) /\ party[p].owner = Me

\* The reply to the load is 200; any other one is an error of the page.
MayRead(page, p) ==
    CASE page \in {"show", "members", "bestpay", "myItems", "manage", "payment"} -> Member(p)
      [] page = "edit"   -> Owner(p) /\ ~Archived(p)
      [] page = "invite" -> Open(p)
      [] OTHER           -> TRUE

Owing(p)   == {i \in Unpaid(p) : item[i].payer = Me}
Waiting(p) == {i \in Unpaid(p) : item[i].initiator = Me}

\* partyTotals: parties of the user that are open and have items of the role.
Payments   == {p \in Parties : Open(p) /\ Member(p) /\ Owing(p) # {}}
Receivings == {p \in Parties : Open(p) /\ Member(p) /\ Waiting(p) # {}}

\* Rows with their paid and is_my_initiation.
Rows(v, is) == [v EXCEPT !.items = is, !.paid = {i \in is : item[i].paid},
                         !.mine = {i \in is : item[i].initiator = Me}]

OfParty(p) == [NoView EXCEPT !.party = p]

ShowView(p) ==
    Rows([OfParty(p) EXCEPT !.owner = Owner(p), !.archived = Archived(p), !.users = members[p]],
         ItemsOf(p))

MembersView(p) ==
    [OfParty(p) EXCEPT !.owner = Owner(p), !.archived = Archived(p), !.users = members[p]]

BestPayView(p) == Rows([OfParty(p) EXCEPT !.owner = Owner(p)], Plan(p, members[p]))

MyItemsView(p) == Rows([OfParty(p) EXCEPT !.archived = Archived(p)], Related(p, Me))

ManageView(p) ==
    Rows([OfParty(p) EXCEPT !.owner = Owner(p), !.archived = Archived(p)], ItemsOf(p))

PaymentView(p) == Rows(OfParty(p), Owing(p))

EditView(p) == OfParty(p)

\* already_member, when the preview is asked for by a user.
InviteView(p) == [OfParty(p) EXCEPT !.users = members[p] \cap {Me}]

\* The party picked, and its members once loadParty has them.
AddView(p) ==
    [OfParty(p) EXCEPT !.parties = {q \in Parties : Open(q) /\ Member(q)},
                       !.users = IF p = None THEN {} ELSE members[p]]

HomeView == [NoView EXCEPT !.parties = {p \in Parties : Member(p)}]

\* Owned and joined, archived ones too.
ListView == [NoView EXCEPT !.parties = {p \in Parties : Member(p) \/ Owner(p)}]

PaymentsView == [NoView EXCEPT !.parties = Payments]
ItemsView    == [NoView EXCEPT !.parties = Receivings]

\* Both tabs, answered together.
BillsView == [NoView EXCEPT !.parties = Receivings, !.due = Payments]

ViewOf(page, p) ==
    CASE page = "show"     -> ShowView(p)
      [] page = "members"  -> MembersView(p)
      [] page = "bestpay"  -> BestPayView(p)
      [] page = "myItems"  -> MyItemsView(p)
      [] page = "manage"   -> ManageView(p)
      [] page = "payment"  -> PaymentView(p)
      [] page = "edit"     -> EditView(p)
      [] page = "invite"   -> InviteView(p)
      [] page = "add"      -> AddView(p)
      [] page = "home"     -> HomeView
      [] page = "list"     -> ListView
      [] page = "payments" -> PaymentsView
      [] page = "items"    -> ItemsView
      [] page = "bills"    -> BillsView
      [] OTHER             -> NoView

-----------------------------------------------------------------------------
(* The requests a page's buttons send.  The first argument is the view.    *)

Request == [op : {"archive", "delete", "leave", "deleteItem", "remove", "clear", "mark",
                  "update", "create", "join", "add"},
            item : ItemIds \cup {None}, users : SUBSET Users]

Button(op) == [op |-> op, item |-> None, users |-> {}]
OnItems(op, is) == {[op |-> op, item |-> i, users |-> {}] : i \in is}

\* PartyShowPage: the menu in the header, there while the page loads.
ShowMenu(v) ==
    IF v.archived THEN {}
    ELSE IF v.owner THEN {Button("archive"), Button("delete")} ELSE {Button("leave")}

ShowItems(v) == IF v.owner /\ ~v.archived THEN OnItems("deleteItem", v.items) ELSE {}

\* ItemPartyPage: marks of the user's own items, deletion of any.
ManageItems(v) ==
    IF v.archived THEN {} ELSE OnItems("mark", v.mine) \cup OnItems("deleteItem", v.items)

\* PartyMyItemsPage
MyItemsMarks(v) == IF v.archived THEN {} ELSE OnItems("mark", v.mine)

\* Mistake: the row of the owner has the button as well.
Removals_OwnerToo(v) ==
    {[op |-> "remove", item |-> None, users |-> {u}] :
        u \in IF v.owner /\ ~v.archived THEN v.users ELSE {}}

\* PartyMembersPage: canRemove
Removals(v) ==
    {[op |-> "remove", item |-> None, users |-> {u}] :
        u \in IF v.owner /\ ~v.archived THEN v.users \ {Me} ELSE {}}

\* PartyBestPayPage does not know whether the party is archived.
BestPayClear(v) == IF v.owner THEN {Button("clear")} ELSE {}

\* PartyInvitePage: a member is offered to enter the party instead.
InviteJoin(v) == IF Me \in v.users THEN {} ELSE {Button("join")}

\* ItemAddPage: onFinish needs a party and at least one user.
AddSubmit(v, ticked) ==
    IF v.party = None \/ ticked = {} THEN {}
    ELSE {[op |-> "add", item |-> None, users |-> ticked]}

\* What stands in the header of PageShell, whatever its body shows.
HeaderOffers(page, v) ==
    CASE page = "show"    -> ShowMenu(v)
      [] page = "bestpay" -> BestPayClear(v)
      [] OTHER            -> {}

BodyOffers(page, v, ticked) ==
    CASE page = "show"    -> ShowItems(v)
      [] page = "manage"  -> ManageItems(v)
      [] page = "myItems" -> MyItemsMarks(v)
      [] page = "members" -> Removals(v)
      [] page = "invite"  -> InviteJoin(v)
      [] page = "edit"    -> {Button("update")}
      [] page = "create"  -> {Button("create")}
      [] page = "add"     -> AddSubmit(v, ticked)
      [] OTHER            -> {}

-----------------------------------------------------------------------------
(* The links a page renders.  r is its route, v its view.                  *)

To(page, ps) == {At(page, p) : p \in ps}

\* The menu of MainLayout, which the invitation is shown without.
Menu(r) == IF r.page = "invite" THEN {} ELSE {At(page, None) : page \in {"home", "bills", "list"}}

Back(r) ==
    CASE r.page \in {"members", "bestpay", "myItems", "edit", "manage"} -> {At("show", r.party)}
      [] r.page \in {"show", "create", "joinForm"}                     -> {At("list", None)}
      [] r.page = "payment"                                            -> {At("payments", None)}
      [] r.page = "add"                                                -> {At("items", None)}
      [] OTHER                                                         -> {}

\* A code typed into PartyJoinPage or PartyJoinModal may be of any party, or
\* of none.
TypedCode == To("invite", Parties)

HomeExtra == {At("create", None), At("add", None)} \cup TypedCode
ListExtra == {At("create", None), At("joinForm", None)}
AddLink(v, p) == IF v.archived THEN {} ELSE {At("add", p)}

Extra(r, v) ==
    CASE r.page = "home"     -> HomeExtra
      [] r.page = "list"     -> ListExtra
      [] r.page = "joinForm" -> TypedCode
      [] r.page \in {"items", "bills"} -> {At("add", None)}
      [] r.page \in {"manage", "myItems"} -> AddLink(v, r.party)
      [] OTHER               -> {}

HeaderLinks(r, v) == Menu(r) \cup Back(r) \cup Extra(r, v)

ShowLinks(r, v) ==
    {At(page, r.party) : page \in
        {"members", "bestpay", "myItems"}
        \cup (IF v.owner THEN {"manage"} ELSE {})
        \cup (IF v.archived THEN {} ELSE {"add"})
        \cup (IF v.owner /\ ~v.archived THEN {"edit"} ELSE {})}

InviteLinks(r, v) ==
    {At("list", None)} \cup IF Me \in v.users THEN {At("show", v.party)} ELSE {}

MyItemsLinks(r) == {At("payment", r.party)}

\* The rows of the lists, and the parties on the first page.
ListLinks(v)     == To("show", v.parties)
HomeLinks(v)     == To("show", v.parties)
PaymentsLinks(v) == To("payment", v.parties)
ItemsLinks(v)    == To("manage", v.parties)
BillsLinks(v)    == To("payment", v.due) \cup To("myItems", v.parties)

\* PartyPicker without an option.
AddLinks(v) == IF v.parties = {} THEN {At("create", None), At("joinForm", None)} ELSE {}

BodyLinks(r, v) ==
    CASE r.page = "show"     -> ShowLinks(r, v)
      [] r.page = "invite"   -> InviteLinks(r, v)
      [] r.page = "myItems"  -> MyItemsLinks(r)
      [] r.page = "add"      -> AddLinks(v)
      [] r.page = "home"     -> HomeLinks(v)
      [] r.page = "list"     -> ListLinks(v)
      [] r.page = "bills"    -> BillsLinks(v)
      [] r.page = "items"    -> ItemsLinks(v)
      [] r.page = "payments" -> PaymentsLinks(v)
      [] OTHER               -> {}
=============================================================================
