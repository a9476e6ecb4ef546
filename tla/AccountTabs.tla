---------------------------- MODULE AccountTabs -----------------------------
(***************************************************************************)
(* Browser tabs on the pages of AccountServer's endpoints: sign-in, second *)
(* factor, profile, users, currencies.  Replies come in any order or are   *)
(* lost, and statements fail.  A handler goes on when its page is gone:    *)
(* its setState then has no effect, a sign-in that comes late has one.     *)
(***************************************************************************)
EXTENDS AccountServer

CONSTANTS
    MaxMoves,   \* bound: links followed, and times that pass
    MaxWrites,  \* bound: requests that are not loads
    MaxLost,    \* bound: replies lost, and statements that fail
    MaxEvents   \* bound: all of these together

ASSUME TabsAssumption ==
    /\ {MaxMoves, MaxWrites, MaxLost, MaxEvents} \subseteq Nat
    /\ None \notin Tabs

VARIABLES
    tab,   \* the state of each tab
    used   \* how much of each bound is used, and history: the tabs that wrote

tabVars == <<tab, used>>
vars == <<serverVars, tabVars>>

AdminPages == {"users", "currencies"}
Pages == {"login", "mfa", "home", "profile"} \cup AdminPages

(* admin is the user's is_admin as the tab knows it from the sign-in.      *)
(* challenge is the TOTP dialog of the profile.  calm is history: since    *)
(* the page was opened the tab had one request at a time, each was         *)
(* answered, and no statement of a load failed.                            *)
Tab == [page : Pages, user : Users \cup {None}, admin : BOOLEAN, loading : BOOLEAN,
        view : View, ticket : TicketIds \cup {None}, challenge : DeviceIds \cup {None},
        calm : BOOLEAN]

-----------------------------------------------------------------------------
(* Pages and their loads                                                   *)

InFlight(calls, t) == \E s \in Slots : calls[s].tab = t /\ calls[s].pc \notin {"idle", "asked"}

Room(calls) == \E s \in Slots : calls[s].pc = "idle"
Put(calls, c) == [calls EXCEPT ![CHOOSE s \in Slots : calls[s].pc = "idle"] = c]
Drop(s) == [req EXCEPT ![s] = Idle]

\* The gate of the routes below /admin.
Loads(x) == x.page = "profile" \/ (x.page \in AdminPages /\ x.admin)

LoadOf(t, x) == [Idle EXCEPT !.pc = "sent", !.op = x.page, !.tab = t, !.user = x.user,
                             !.mounted = TRUE]

\* load() of the page of t; only the profile's sets loading again.
Load(calls, t, x) ==
    /\ Room(calls)
    /\ req' = Put(calls, LoadOf(t, x))
    /\ tab' = [tab EXCEPT ![t] = [x EXCEPT !.loading = @ \/ x.page = "profile",
                                           !.calm = @ /\ ~InFlight(calls, t)]]

\* Mistake: loading is not set anew.
Fresh_KeepsLoading(x) == [x EXCEPT !.loading = @ \/ Loads(x), !.view = NoView, !.challenge = None,
                                   !.calm = TRUE]

Fresh(x) == [x EXCEPT !.loading = Loads(x), !.view = NoView, !.challenge = None, !.calm = TRUE]

\* The page is replaced.  What is left of it finds no component.
Unmount(calls, t) ==
    [s \in Slots |->
        IF calls[s].tab # t THEN calls[s]
        ELSE IF calls[s].op \in Reads THEN Idle ELSE [calls[s] EXCEPT !.mounted = FALSE]]

Open(calls, t, x) ==
    IF Loads(x) THEN Load(Unmount(calls, t), t, Fresh(x))
    ELSE /\ req' = Unmount(calls, t)
         /\ tab' = [tab EXCEPT ![t] = Fresh(x)]

\* The home page stands for the page that asked to sign in, too.
SignedIn(t, u, admin) ==
    [tab[t] EXCEPT !.page = "home", !.user = u, !.admin = admin, !.ticket = None]

\* The page of sign-in forgets who the user is.
GoTo(t, page) ==
    IF page = "login" THEN [tab[t] EXCEPT !.page = page, !.user = None, !.admin = FALSE,
                                          !.ticket = None]
    ELSE [tab[t] EXCEPT !.page = page]

-----------------------------------------------------------------------------

\* What a page shows when all its loads are done.
ViewOn(page, u) ==
    IF page = "profile" THEN [ViewOf("profile", u) EXCEPT !.tokens = TokensOf(u)]
    ELSE IF page \in AdminPages /\ u \in admins THEN ViewOf(page, u) ELSE NoView

NewTab(page, u) ==
    [page |-> page, user |-> u, admin |-> u \in admins, loading |-> FALSE,
     view |-> ViewOn(page, u), ticket |-> None, challenge |-> None, calm |-> TRUE]

\* A tab that has signed in with the password.
HalfWay(u, k) ==
    [NewTab("mfa", None) EXCEPT !.ticket = k, !.view.devices = DevicesOf(u, {"totp", "fido"})]

\* A profile that was opened before the user had any of what there is now.
Stale(u) == [NewTab("profile", u) EXCEPT !.view = NoView, !.calm = FALSE]

Unused == [state |-> "unused", user |-> None]

Init ==
    /\ admins \in (SUBSET Users) \ {{}}
    /\ device \in [DeviceIds -> {[state |-> "unused", user |-> None, kind |-> "none"]}
                      \cup [state : {"live"}, user : Users, kind : Kinds]]
    /\ token \in [TokenIds -> {Unused} \cup [state : {"live"}, user : Users]]
    /\ \A d, e \in DeviceIds : device[d].state = "unused" /\ device[e].state = "live" => e < d
    /\ \A j, k \in TokenIds : token[j].state = "unused" /\ token[k].state = "live" => k < j
    /\ \A u \in Users : Cardinality(TokensOf(u)) <= TokenLimit
                        /\ Cardinality(DevicesOf(u, {"totp"})) <= 1
    /\ ticket \in [TicketIds -> {Unused} \cup [state : {"live"}, user : Users]]
    /\ signins = [k \in TicketIds |-> 0]
    /\ currency \in [Codes -> [id : {0}, live : BOOLEAN]]
    /\ DefaultCodes \subseteq ActiveCodes
    /\ party \in [Parties -> {r \in Party : /\ r.codes \subseteq ActiveCodes
                                          /\ IF r.base = None THEN r.codes = {}
                                             ELSE r.base \in r.codes}]
    /\ tab \in [Tabs -> {NewTab("login", None)}
              \cup {NewTab(page, u) : page \in Pages \ {"login", "mfa"}, u \in Users}
              \cup {HalfWay(u, k) : u \in Users, k \in TicketIds}
              \cup {Stale(u) : u \in Users}]
    /\ \A t \in Tabs : tab[t].ticket # None =>
          /\ ticket[tab[t].ticket].state = "live" /\ tab[t].view.devices # {}
          /\ tab[t] = HalfWay(ticket[tab[t].ticket].user, tab[t].ticket)
    /\ req = [s \in Slots |-> Idle]
    /\ used = [moves |-> 0, writes |-> 0, lost |-> 0, by |-> {}]

Within(what, bound) ==
    /\ used[what] < bound
    /\ used.moves + used.writes + used.lost < MaxEvents

Spend(what, bound) ==
    /\ Within(what, bound)
    /\ used' = [used EXCEPT ![what] = @ + 1]

-----------------------------------------------------------------------------
(* What the user does                                                      *)

Masked(t) == \E s \in Slots : req[s].tab = t /\ req[s].pc = "asked"

AtRest(t) == ~tab[t].loading /\ tab[t].page \in {"profile"} \cup AdminPages /\ Loads(tab[t])

\* Links of the header and of the pages; the address of sign-in is always there.
Follow(t) ==
    /\ ~Masked(t)
    /\ \E page \in {"login"} \cup (IF tab[t].user = None THEN {} ELSE Pages \ {"login", "mfa"}) :
          page # tab[t].page /\ Open(req, t, GoTo(t, page))
    /\ Spend("moves", MaxMoves)
    /\ UNCHANGED <<admins, factorVars, token, ticketVars, moneyVars>>

(* What a page offers: an operation, what it is about, and the value of    *)
(* set_as_admin, the opposite of what the row shows.                       *)
Offer(op, arg, kind, flag) == [op |-> op, arg |-> arg, kind |-> kind, flag |-> flag]

MfaOffers(x) == {Offer(device[d].kind, x.ticket, "none", FALSE) : d \in x.view.devices}

FactorOffers(x) ==
    LET bound == \E d \in x.view.devices : device[d].kind = "totp" IN
    {Offer("enrol", None, k, FALSE) : k \in Kinds \ (IF bound THEN {"totp"} ELSE {})}
    \cup (IF x.challenge = None THEN {} ELSE {Offer("finish", x.challenge, "totp", FALSE)})

DeviceOffers(x) == {Offer("drop", d, device[d].kind, FALSE) : d \in x.view.devices}

TokenOffers(x) ==
    {Offer("mint", None, "none", FALSE)}
    \cup {Offer("revoke", k, "none", FALSE) : k \in x.view.tokens}

ProfileOffers(x) == FactorOffers(x) \cup DeviceOffers(x) \cup TokenOffers(x)

UserOffers(x) == {Offer("toggle", u, "none", u \notin x.view.admins) : u \in Users}

CurrencyOffers(x) ==
    {Offer("add", c, "none", FALSE) : c \in Codes}
    \cup {Offer("del", c, "none", FALSE) : c \in x.view.codes}

Offers(t) ==
    LET x == tab[t] IN
    CASE x.page = "mfa" -> MfaOffers(x)
      [] x.page = "profile" /\ AtRest(t) -> ProfileOffers(x)
      [] x.page = "users" /\ AtRest(t) -> UserOffers(x)
      [] x.page = "currencies" /\ AtRest(t) -> CurrencyOffers(x)
      [] OTHER -> {}

Made(t, o, pc) ==
    [Idle EXCEPT !.pc = pc, !.op = o.op, !.tab = t, !.mounted = TRUE, !.user = tab[t].user,
                 !.arg = o.arg, !.kind = o.kind, !.flag = o.flag]

\* Modal.confirm.
Confirmed == {"drop", "revoke", "del"}

Ask(t) ==
    /\ ~Masked(t) /\ Room(req)
    /\ Within("writes", MaxWrites)
    /\ \E o \in Offers(t) : o.op \in Confirmed /\ req' = Put(req, Made(t, o, "asked"))
    /\ UNCHANGED <<admins, factorVars, token, ticketVars, moneyVars, tab, used>>

Cancel(s) ==
    /\ req[s].pc = "asked"
    /\ req' = Drop(s)
    /\ UNCHANGED <<admins, factorVars, token, ticketVars, moneyVars, tab, used>>

\* Somebody sends a request that is no load.
Write(t) ==
    /\ Within("writes", MaxWrites)
    /\ used' = [used EXCEPT !.writes = @ + 1, !.by = @ \cup {t}]
    /\ tab' = [x \in Tabs |-> IF x = t THEN [tab[x] EXCEPT !.calm = @ /\ ~InFlight(req, t)]
                              ELSE tab[x]]

Confirm(s) ==
    /\ req[s].pc = "asked"
    /\ req' = [req EXCEPT ![s].pc = "sent"]
    /\ Write(req[s].tab)
    /\ UNCHANGED <<admins, factorVars, token, ticketVars, moneyVars>>

\* Only the button that creates a token waits for its reply.
Click(t) ==
    /\ ~Masked(t) /\ Room(req)
    /\ \E o \in Offers(t) :
          /\ o.op \notin Confirmed
          /\ o.op = "mint" => \A s \in Slots : ~(req[s].tab = t /\ req[s].op = "mint" /\ req[s].mounted)
          /\ req' = Put(req, Made(t, o, "sent"))
    /\ Write(t)
    /\ UNCHANGED <<admins, factorVars, token, ticketVars, moneyVars>>

\* The form of sign-in.
SubmitLogin(t) ==
    /\ tab[t].page = "login" /\ Room(req)
    /\ \E u \in Users :
          req' = Put(req, [Made(t, Offer("login", None, "none", FALSE), "sent") EXCEPT !.user = u])
    /\ Write(t)
    /\ UNCHANGED <<admins, factorVars, token, ticketVars, moneyVars>>

\* The button for a passkey, of any user.
UsePasskey(t) ==
    /\ tab[t].page = "login" /\ Room(req)
    /\ req' = Put(req, Made(t, Offer("passkey", None, "none", FALSE), "sent"))
    /\ Write(t)
    /\ UNCHANGED <<admins, factorVars, token, ticketVars, moneyVars>>

\* Somebody, it does not matter who, creates or changes a party on a page that
\* is not here.
Elsewhere ==
    /\ Room(req)
    /\ \E p \in Parties, cs \in (SUBSET Codes) \ {{}} :
          req' = Put(req, [Idle EXCEPT !.pc = "sent", !.op = "party",
                                       !.user = CHOOSE u \in Users : TRUE,
                                       !.arg = p, !.codes = cs])
    /\ Write(None)
    /\ UNCHANGED <<admins, factorVars, token, ticketVars, moneyVars>>

CloseChallenge(t) ==
    /\ tab[t].challenge # None
    /\ tab' = [tab EXCEPT ![t].challenge = None]
    /\ UNCHANGED <<serverVars, used>>

Wait == Expire /\ Spend("moves", MaxMoves) /\ UNCHANGED tab

Disturb(s) ==
    tab' = [t \in Tabs |-> IF t = req[s].tab THEN [tab[t] EXCEPT !.calm = FALSE] ELSE tab[t]]

\* The request does not get through, or its reply does not.
Lose(s) ==
    /\ req[s].pc \in {"sent", "answered"} /\ req[s].status # "lost"
    /\ Spend("lost", MaxLost)
    /\ req' = [Answer(s, "lost") EXCEPT ![s].view = NoView]
    /\ Disturb(s)
    /\ UNCHANGED <<admins, factorVars, token, ticketVars, moneyVars>>

\* A statement fails.
Fail(s) ==
    /\ Spend("lost", MaxLost)
    /\ \/ ReadFails(s) /\ Disturb(s)
       \/ WriteFails(s) /\ UNCHANGED tab

-----------------------------------------------------------------------------
(* Replies                                                                 *)

\* The profile goes on with the tokens; a page that gets no list of tokens
\* shows none.  The other errors are not caught: the page stays as it is.
ReceiveLoad(s) ==
    LET c == req[s]
        t == c.tab
    IN
    /\ At(s, Reads, "answered")
    /\ \/ /\ c.op = "profile" /\ c.status = "ok"
          /\ req' = [req EXCEPT ![s] = [LoadOf(t, tab[t]) EXCEPT !.op = "tokens"]]
          /\ tab' = [tab EXCEPT ![t].view.devices = c.view.devices]
       \/ /\ c.op = "tokens"
          /\ req' = Drop(s)
          /\ tab' = [tab EXCEPT ![t].view.tokens = c.view.tokens, ![t].loading = FALSE]
       \/ /\ c.op \in AdminReads /\ c.status = "ok"
          /\ req' = Drop(s)
          /\ tab' = [tab EXCEPT ![t].view = c.view, ![t].loading = FALSE]
       \/ /\ c.op # "tokens" /\ c.status # "ok"
          /\ req' = Drop(s)
          /\ UNCHANGED tab
    /\ UNCHANGED <<admins, factorVars, token, ticketVars, moneyVars, used>>

\* The tab goes to the second factor, or on with the user; the page of sign-in
\* may be gone by then.
ReceiveSignIn(s) ==
    LET c == req[s]
        t == c.tab
    IN
    /\ At(s, SignIns, "answered")
    /\ IF c.status # "ok" THEN req' = Drop(s) /\ UNCHANGED tab
       ELSE /\ req' = Unmount(Drop(s), t)
            /\ tab' = [tab EXCEPT ![t] =
                  IF c.op = "login" /\ c.arg # None
                  THEN [Fresh([@ EXCEPT !.page = "mfa", !.ticket = c.arg])
                            EXCEPT !.view.devices = c.view.devices]
                  ELSE Fresh(SignedIn(t, c.user, c.flag))]
    /\ UNCHANGED <<admins, factorVars, token, ticketVars, moneyVars, used>>

\* The challenge of a TOTP opens a dialog, that of a key asks the browser for
\* one, and the user may decline.
ReceiveChallenge(s) ==
    LET c == req[s]
        t == c.tab
    IN
    /\ At(s, {"enrol"}, "answered")
    /\ IF c.status = "ok" /\ c.kind = "totp"
       THEN /\ req' = Drop(s)
            /\ tab' = IF c.mounted THEN [tab EXCEPT ![t].challenge = c.arg] ELSE tab
       ELSE /\ req' \in {Drop(s)} \cup
                 (IF c.status = "ok"
                  THEN {[req EXCEPT ![s].pc = "sent", ![s].op = "finish", ![s].status = "none"]}
                  ELSE {})
            /\ UNCHANGED tab
    /\ UNCHANGED <<admins, factorVars, token, ticketVars, moneyVars, used>>

\* Mistake: a deleted factor stays on the page.
Reloads_NotDrop(c) ==
    c.op \in {"finish", "mint", "revoke", "toggle", "add", "del"} /\ c.status = "ok"

\* What a handler follows with load().
Reloads(c) ==
    c.op \in {"finish", "drop", "mint", "revoke", "toggle", "add", "del"} /\ c.status = "ok"

\* A refusal is announced.  A Modal.confirm whose handler throws stays open.
ReceiveWrite(s) ==
    LET c == req[s]
        t == c.tab
        x == IF c.op = "finish" /\ c.kind = "totp" THEN [tab[t] EXCEPT !.challenge = None] ELSE tab[t]
    IN
    /\ At(s, {"finish", "drop", "mint", "revoke", "toggle", "add", "del", "party"}, "answered")
    /\ IF Reloads(c) /\ c.mounted THEN Load(Drop(s), t, x)
       ELSE /\ req' = IF c.status = "lost" /\ c.op \in Confirmed
                      THEN [req EXCEPT ![s].pc = "asked", ![s].status = "none"] ELSE Drop(s)
            /\ UNCHANGED tab
    /\ UNCHANGED <<admins, factorVars, token, ticketVars, moneyVars, used>>

-----------------------------------------------------------------------------

Next ==
    \/ \E t \in Tabs : Follow(t) \/ Ask(t) \/ Click(t) \/ CloseChallenge(t)
                       \/ SubmitLogin(t) \/ UsePasskey(t)
    \/ Elsewhere \/ Wait
    \/ \E s \in Slots :
          \/ Cancel(s) \/ Confirm(s) \/ Lose(s) \/ Fail(s)
          \/ Serve(s) /\ UNCHANGED tabVars
          \/ ReceiveLoad(s) \/ ReceiveSignIn(s) \/ ReceiveChallenge(s) \/ ReceiveWrite(s)

Spec == Init /\ [][Next]_vars

-----------------------------------------------------------------------------
(* Properties                                                              *)

(* Every variable has its type; only a page that loads waits for a load.   *)
TypeOK ==
    /\ admins \in SUBSET Users
    /\ device \in [DeviceIds -> Device]
    /\ token \in [TokenIds -> Token]
    /\ ticket \in [TicketIds -> Ticket]
    /\ signins \in [TicketIds -> Nat]
    /\ currency \in [Codes -> Currency]
    /\ party \in [Parties -> Party]
    /\ req \in [Slots -> Request]
    /\ tab \in [Tabs -> Tab]
    /\ \A t \in Tabs : tab[t].loading => Loads(tab[t])
    /\ used \in [moves : Nat, writes : Nat, lost : Nat, by : SUBSET (Tabs \cup {None})]

Minting(u) == {s \in Slots : At(s, {"mint"}, "counted") /\ req[s].user = u}

(* The count and the INSERT of a new API token are two statements, so that *)
(* requests at the limit may pass together; they exceed it by no more than *)
(* the requests that run at a time, less one, whatever is created and      *)
(* revoked before.                                                         *)
TokensWithinLimit ==
    \A u \in Users :
        Cardinality(TokensOf(u)) + Cardinality(Minting(u)) < TokenLimit + Cardinality(Slots)

(* The last administrator is removed only by a request whose sender was    *)
(* removed after AuthRequired had read the row: nobody who still has the   *)
(* right can leave the site without an administrator.                      *)
AdminsRemain ==
    [][admins # {} /\ admins' = {} =>
          \E s \in Slots : At(s, {"toggle"}, "authed") /\ req'[s].pc = "answered"
                           /\ req[s].user \notin admins]_vars

(* A currency that a party uses is deleted only when the party came to use *)
(* it after the deletion had counted the parties, or when a count failed,  *)
(* whose error is not looked at.                                           *)
CurrenciesInUseStay ==
    [][\A c \in Codes : currency[c].live /\ ~currency'[c].live /\ Supporting(c) # {} =>
          \E s \in Slots : At(s, {"del"}, "counted") /\ req'[s].pc = "answered"
                           /\ req[s].arg = c /\ (req[s].late \/ req[s].blind)]_vars

(* A ticket signs in again only for answers that were under way, past      *)
(* tickets.Get, when it signed in first: one that comes later finds it     *)
(* deleted, in whichever tab and with whichever factor.                    *)
TicketsAreSpent ==
    [][\A k \in TicketIds : signins'[k] > signins[k] /\ signins[k] > 0 =>
          \E s \in Slots : At(s, {"totp", "fido"}, "counted") /\ req'[s].pc = "answered"
                           /\ req[s].arg = k /\ req[s].late]_vars

(* What a page at rest shows is what the server has, while no other tab    *)
(* writes: each handler loads again after what it changed.  Exempt are     *)
(* pages whose requests overlapped or were lost, and those with a load     *)
(* that had a statement fail: the profile and the currencies then come     *)
(* as empty lists, like those of a user or a site that has none.           *)
RestingPageIsCurrent ==
    \A t \in Tabs :
        AtRest(t) /\ tab[t].calm /\ ~InFlight(req, t) /\ used.by \subseteq {t} =>
            tab[t].view = ViewOn(tab[t].page, tab[t].user)
=============================================================================
