--------------------------- MODULE AccountServer ----------------------------
(***************************************************************************)
(* The endpoints of accounts and of the administration, one step per       *)
(* statement: sign-in with a second factor, the enrolment of factors, API  *)
(* tokens, the rights of administrators, currencies.  No two statements of *)
(* a handler are in one transaction, except for the rows of a new party.   *)
(*                                                                         *)
(* A typed password or code is right or wrong by choice.  Users exist and  *)
(* are enabled; access tokens and refresh tokens are in Sessions.          *)
(***************************************************************************)
EXTENDS Naturals, FiniteSets

CONSTANTS
    Users, Codes, Parties, Tabs, Slots, None,
    DefaultCodes,  \* the currency rows with is_default
    TokenIds, TicketIds, DeviceIds,  \* bounds: ids, given in order
    TokenLimit     \* MaxAPITokensPerUser

ASSUME ServerAssumption ==
    /\ TokenIds \cup TicketIds \cup DeviceIds \subseteq Nat
    /\ IsFiniteSet(TokenIds) /\ IsFiniteSet(Slots) /\ Slots # {}
    /\ TokenLimit \in Nat \ {0}

VARIABLES
    admins,    \* the users with is_admin
    device,    \* second factors and passkeys; "offered" is a challenge
    token,     \* API tokens
    ticket,    \* MFA tickets, in memory
    signins,   \* history: the sign-ins each ticket gave
    currency,  \* active rows of currencies, by code; id tells a row from its successor
    party,     \* the currencies of each party
    req        \* requests, by slot

factorVars == <<device>>
ticketVars == <<ticket, signins>>
moneyVars == <<currency, party>>
serverVars == <<admins, factorVars, token, ticketVars, moneyVars, req>>

Kinds == {"totp", "fido", "passkey"}

Device == [state : {"unused", "offered", "taken", "live", "gone"},
           user : Users \cup {None}, kind : Kinds \cup {"none"}]
Token == [state : {"unused", "live", "revoked"}, user : Users \cup {None}]
Ticket == [state : {"unused", "live", "gone"}, user : Users \cup {None}]
Currency == [id : Nat, live : BOOLEAN]
Party == [base : Codes \cup {None}, codes : SUBSET Codes]

(* What pages show.                                                        *)
View == [devices : SUBSET DeviceIds, tokens : SUBSET TokenIds,
         admins : SUBSET Users, codes : SUBSET Codes]
NoView == [devices |-> {}, tokens |-> {}, admins |-> {}, codes |-> {}]

AdminReads == {"users", "currencies"}
AdminWrites == {"toggle", "add", "del"}
Reads == {"profile", "tokens"} \cup AdminReads
SignIns == {"login", "totp", "fido", "passkey"}
Enrolments == {"enrol", "finish", "drop"}
Private == Reads \cup AdminWrites \cup Enrolments \cup {"mint", "revoke", "party"}

Args == Users \cup Codes \cup Parties \cup TokenIds \cup TicketIds \cup DeviceIds \cup {None}

(* late is history: what the request has checked was changed by another;   *)
(* blind is history: it went on over a count that failed.                  *)
(* flag is set_as_admin in a request, is_admin in the reply to a sign-in.  *)
Request ==
    [pc : {"idle", "asked", "sent", "authed", "checked", "counted", "answered"},
     op : Private \cup SignIns \cup {"none"}, tab : Tabs \cup {None}, mounted : BOOLEAN,
     user : Users \cup {None}, arg : Args, kind : Kinds \cup {"none"}, flag : BOOLEAN,
     codes : SUBSET Codes, row : Nat, late : BOOLEAN, blind : BOOLEAN,
     status : {"none", "ok", "refused", "lost"}, view : View]

Idle == [pc |-> "idle", op |-> "none", tab |-> None, mounted |-> FALSE, user |-> None,
         arg |-> None, kind |-> "none", flag |-> FALSE, codes |-> {}, row |-> 0,
         late |-> FALSE, blind |-> FALSE, status |-> "none", view |-> NoView]

-----------------------------------------------------------------------------

At(s, ops, pc) == req[s].op \in ops /\ req[s].pc = pc

Step(s, pc) == [req EXCEPT ![s].pc = pc]

Answer(s, status) == [req EXCEPT ![s].pc = "answered", ![s].status = status]

\* The next id of a table.
IsNext(table, k) ==
    /\ table[k].state = "unused"
    /\ \A j \in DOMAIN table : table[j].state = "unused" => k <= j

DevicesOf(u, kinds) ==
    {d \in DeviceIds : device[d].state = "live" /\ device[d].user = u /\ device[d].kind \in kinds}

\* Revoked tokens do not count, expired ones do.
TokensOf(u) == {k \in TokenIds : token[k].state = "live" /\ token[k].user = u}

ActiveCodes == {c \in Codes : currency[c].live}

Supporting(c) == {p \in Parties : c \in party[p].codes}

ViewOf(read, u) ==
    CASE read = "profile"    -> [NoView EXCEPT !.devices = DevicesOf(u, Kinds)]
      [] read = "tokens"     -> [NoView EXCEPT !.tokens = TokensOf(u)]
      [] read = "users"      -> [NoView EXCEPT !.admins = admins]
      [] read = "currencies" -> [NoView EXCEPT !.codes = ActiveCodes]

-----------------------------------------------------------------------------
(* AuthRequired lets everybody here pass.  AdminRequired judges by the     *)
(* user's row as it was read first.                                        *)

Authorize(s) ==
    /\ At(s, AdminReads \cup AdminWrites, "sent")
    /\ req' = IF req[s].user \notin admins THEN Answer(s, "refused") ELSE Step(s, "authed")
    /\ UNCHANGED <<admins, factorVars, token, ticketVars, moneyVars>>

Read(s) ==
    /\ At(s, AdminReads, "authed") \/ At(s, Reads \ AdminReads, "sent")
    /\ req' = [Answer(s, "ok") EXCEPT ![s].view = ViewOf(req[s].op, req[s].user)]
    /\ UNCHANGED <<admins, factorVars, token, ticketVars, moneyVars>>

-----------------------------------------------------------------------------
(* Sign-in                                                                 *)

\* login: the captcha, the user's row, the password.
PasswordChecked(s) ==
    /\ At(s, {"login"}, "sent")
    /\ req' \in {Answer(s, "refused"),
                 [Step(s, "checked") EXCEPT ![s].flag = req[s].user \in admins]}
    /\ UNCHANGED <<admins, factorVars, token, ticketVars, moneyVars>>

\* A passkey is no second factor.  The reply names the methods, or it signs in.
MethodsRead(s) ==
    LET u == req[s].user
        ds == DevicesOf(u, {"totp", "fido"})
    IN
    /\ At(s, {"login"}, "checked")
    /\ IF ds = {} THEN req' = Answer(s, "ok") /\ UNCHANGED ticketVars
       ELSE \E k \in TicketIds :
               /\ IsNext(ticket, k)
               /\ ticket' = [ticket EXCEPT ![k] = [state |-> "live", user |-> u]]
               /\ req' = [Answer(s, "ok") EXCEPT ![s].arg = k, ![s].view.devices = ds]
               /\ UNCHANGED signins
    /\ UNCHANGED <<admins, factorVars, token, moneyVars>>

\* Mistake: a ticket that is no longer in the store is accepted.
TicketRead_NoCheck(s) ==
    /\ At(s, {"totp", "fido"}, "sent")
    /\ req' = [Step(s, "checked") EXCEPT ![s].user = ticket[req[s].arg].user]
    /\ UNCHANGED <<admins, factorVars, token, ticketVars, moneyVars>>

\* tickets.Get does not consume.
TicketRead(s) ==
    LET k == req[s].arg IN
    /\ At(s, {"totp", "fido"}, "sent")
    /\ req' = IF ticket[k].state = "live"
              THEN [Step(s, "checked") EXCEPT ![s].user = ticket[k].user]
              ELSE Answer(s, "refused")
    /\ UNCHANGED <<admins, factorVars, token, ticketVars, moneyVars>>

\* The code or the assertion is verified against the rows.  The session of an
\* assertion is part of the answer: nobody else can take it.
FactorRead(s) ==
    LET c == req[s] IN
    /\ At(s, {"totp", "fido"}, "checked") \/ At(s, {"passkey"}, "sent")
    /\ \/ req' = Answer(s, "refused")
       \/ \E u \in IF c.op = "passkey" THEN Users ELSE {c.user} :
             \E d \in DevicesOf(u, {c.op}) :
                req' = [Step(s, "counted") EXCEPT ![s].row = d, ![s].user = u]
    /\ UNCHANGED <<admins, factorVars, token, ticketVars, moneyVars>>

\* Other answers that have read this ticket come too late from here on.
Overtaken(k) ==
    [r \in Slots |-> IF req[r].op \in {"totp", "fido"} /\ req[r].arg = k
                        /\ req[r].pc \in {"checked", "counted"}
                     THEN [req[r] EXCEPT !.late = TRUE] ELSE req[r]]

\* The user's row, tickets.Delete, tokens.  fidoVerify refuses when the device
\* was deleted meanwhile: persistWebAuthnUse finds no row.
TicketSpent(s) ==
    LET c == req[s] IN
    /\ At(s, {"totp", "fido"}, "counted")
    /\ \/ /\ c.op = "fido" => device[c.row].state = "live"
          /\ ticket' = [ticket EXCEPT ![c.arg].state = "gone"]
          /\ signins' = [signins EXCEPT ![c.arg] = @ + 1]
          /\ req' = [Overtaken(c.arg) EXCEPT ![s] = [c EXCEPT !.pc = "answered", !.status = "ok",
                                                              !.flag = c.user \in admins]]
       \/ /\ c.op = "fido" /\ device[c.row].state # "live"
          /\ req' = Answer(s, "refused")
          /\ UNCHANGED ticketVars
    /\ UNCHANGED <<admins, factorVars, token, moneyVars>>

\* A passkey signs in by itself, if persistWebAuthnUse still finds its row.
PasskeyUsed(s) ==
    LET c == req[s] IN
    /\ At(s, {"passkey"}, "counted")
    /\ req' = IF device[c.row].state = "live"
              THEN [Answer(s, "ok") EXCEPT ![s].flag = c.user \in admins]
              ELSE Answer(s, "refused")
    /\ UNCHANGED <<admins, factorVars, token, ticketVars, moneyVars>>

\* Five minutes pass.
Expire ==
    /\ \/ \E k \in TicketIds : /\ ticket[k].state = "live"
                               /\ ticket' = [ticket EXCEPT ![k].state = "gone"]
                               /\ UNCHANGED device
       \/ \E d \in DeviceIds : /\ device[d].state = "offered"
                               /\ device' = [device EXCEPT ![d].state = "gone"]
                               /\ UNCHANGED ticket
    /\ UNCHANGED <<admins, token, signins, moneyVars, req>>

-----------------------------------------------------------------------------
(* Second factors                                                          *)

\* A challenge for a new factor; one TOTP is the limit when it is asked for.
ChallengeMade(s) ==
    LET c == req[s] IN
    /\ At(s, {"enrol"}, "sent")
    /\ IF c.kind = "totp" /\ DevicesOf(c.user, {"totp"}) # {}
       THEN req' = Answer(s, "refused") /\ UNCHANGED device
       ELSE \E d \in DeviceIds :
               /\ IsNext(device, d)
               /\ device' = [device EXCEPT ![d] =
                                [state |-> "offered", user |-> c.user, kind |-> c.kind]]
               /\ req' = [Answer(s, "ok") EXCEPT ![s].arg = d]
    /\ UNCHANGED <<admins, token, ticketVars, moneyVars>>

\* A TOTP challenge survives a wrong code, a WebAuthn session is taken.
ChallengeAnswered(s) ==
    LET d == req[s].arg
        found == device[d].state = "offered"
    IN
    /\ At(s, {"finish"}, "sent")
    /\ req' \in {Answer(s, "refused")} \cup (IF found THEN {Step(s, "checked")} ELSE {})
    /\ device' = IF found /\ device[d].kind # "totp"
                 THEN [device EXCEPT ![d].state = "taken"] ELSE device
    /\ UNCHANGED <<admins, token, ticketVars, moneyVars>>

\* Several rows for one TOTP secret are one device here.
FactorInserted(s) ==
    /\ At(s, {"finish"}, "checked")
    /\ device' = [device EXCEPT ![req[s].arg].state = "live"]
    /\ req' = Answer(s, "ok")
    /\ UNCHANGED <<admins, token, ticketVars, moneyVars>>

\* totpDelete deletes every TOTP of the user, the others go one by one.
FactorDeleted(s) ==
    LET c  == req[s]
        ds == IF c.kind = "totp" THEN DevicesOf(c.user, {"totp"})
              ELSE DevicesOf(c.user, {c.kind}) \cap {c.arg}
    IN
    /\ At(s, {"drop"}, "sent")
    /\ device' = [d \in DeviceIds |-> IF d \in ds THEN [device[d] EXCEPT !.state = "gone"]
                                      ELSE device[d]]
    /\ req' = Answer(s, IF ds = {} THEN "refused" ELSE "ok")
    /\ UNCHANGED <<admins, token, ticketVars, moneyVars>>

-----------------------------------------------------------------------------
(* API tokens                                                              *)

\* Mistake: the limit is off by one.
TokensCounted_OffByOne(s) ==
    /\ At(s, {"mint"}, "sent")
    /\ req' = IF Cardinality(TokensOf(req[s].user)) > TokenLimit
              THEN Answer(s, "refused") ELSE Step(s, "counted")
    /\ UNCHANGED <<admins, factorVars, token, ticketVars, moneyVars>>

TokensCounted(s) ==
    /\ At(s, {"mint"}, "sent")
    /\ req' = IF Cardinality(TokensOf(req[s].user)) >= TokenLimit
              THEN Answer(s, "refused") ELSE Step(s, "counted")
    /\ UNCHANGED <<admins, factorVars, token, ticketVars, moneyVars>>

TokenInserted(s) ==
    /\ At(s, {"mint"}, "counted")
    /\ \E k \in TokenIds :
          /\ IsNext(token, k)
          /\ token' = [token EXCEPT ![k] = [state |-> "live", user |-> req[s].user]]
    /\ req' = Answer(s, "ok")
    /\ UNCHANGED <<admins, factorVars, ticketVars, moneyVars>>

\* One conditional UPDATE; whether it changed the row is the answer.
TokenRevoked(s) ==
    LET k == req[s].arg
        found == k \in TokensOf(req[s].user)
    IN
    /\ At(s, {"revoke"}, "sent")
    /\ token' = IF found THEN [token EXCEPT ![k].state = "revoked"] ELSE token
    /\ req' = Answer(s, IF found THEN "ok" ELSE "refused")
    /\ UNCHANGED <<admins, factorVars, ticketVars, moneyVars>>

-----------------------------------------------------------------------------
(* Administrators                                                          *)

\* Mistake: administrators may change their own rights.
Toggled_Self(s) ==
    LET c == req[s]
        changes == c.flag # (c.arg \in admins)
    IN
    /\ At(s, {"toggle"}, "authed")
    /\ admins' = IF ~changes THEN admins
                 ELSE IF c.flag THEN admins \cup {c.arg} ELSE admins \ {c.arg}
    /\ req' = Answer(s, IF changes THEN "ok" ELSE "refused")
    /\ UNCHANGED <<factorVars, token, ticketVars, moneyVars>>

\* MySQL counts the rows an UPDATE changes: setting what is set is refused.
Toggled(s) ==
    LET c == req[s]
        changes == c.arg # c.user /\ c.flag # (c.arg \in admins)
    IN
    /\ At(s, {"toggle"}, "authed")
    /\ admins' = IF ~changes THEN admins
                 ELSE IF c.flag THEN admins \cup {c.arg} ELSE admins \ {c.arg}
    /\ req' = Answer(s, IF changes THEN "ok" ELSE "refused")
    /\ UNCHANGED <<factorVars, token, ticketVars, moneyVars>>

-----------------------------------------------------------------------------
(* Currencies, and the parties that use them                               *)

CodeCounted(s) ==
    /\ At(s, {"add"}, "authed")
    /\ req' = IF currency[req[s].arg].live THEN Answer(s, "refused") ELSE Step(s, "checked")
    /\ UNCHANGED <<admins, factorVars, token, ticketVars, moneyVars>>

\* code is a unique key.
CodeInserted(s) ==
    LET c == req[s].arg
        unique == ~currency[c].live
    IN
    /\ At(s, {"add"}, "checked")
    /\ currency' = IF unique THEN [currency EXCEPT ![c] = [id |-> @.id + 1, live |-> TRUE]]
                   ELSE currency
    /\ req' = Answer(s, IF unique THEN "ok" ELSE "refused")
    /\ UNCHANGED <<admins, factorVars, token, ticketVars, party>>

\* The row, whether it is the default, and the parties based on it.
RowRead(s) ==
    LET c == req[s].arg IN
    /\ At(s, {"del"}, "authed")
    /\ req' = IF currency[c].live /\ c \notin DefaultCodes
              THEN [Step(s, "checked") EXCEPT ![s].row = currency[c].id]
              ELSE Answer(s, "refused")
    /\ UNCHANGED <<admins, factorVars, token, ticketVars, moneyVars>>

\* Mistake: only the parties based on the currency are counted.
PartiesCounted_BasesOnly(s) ==
    LET c == req[s].arg IN
    /\ At(s, {"del"}, "checked")
    /\ req' = IF \E p \in Parties : party[p].base = c THEN Answer(s, "refused")
              ELSE Step(s, "counted")
    /\ UNCHANGED <<admins, factorVars, token, ticketVars, moneyVars>>

\* Two counts; a party supports the currency it is based on, so that the
\* second, LIKE on supported_currencies, decides.
PartiesCounted(s) ==
    LET c == req[s].arg IN
    /\ At(s, {"del"}, "checked")
    /\ req' = IF Supporting(c) # {} THEN Answer(s, "refused") ELSE Step(s, "counted")
    /\ UNCHANGED <<admins, factorVars, token, ticketVars, moneyVars>>

\* By id; that the row is gone is no error.
RowDeleted(s) ==
    LET c == req[s].arg IN
    /\ At(s, {"del"}, "counted")
    /\ currency' = IF currency[c].id = req[s].row THEN [currency EXCEPT ![c].live = FALSE]
                   ELSE currency
    /\ req' = Answer(s, "ok")
    /\ UNCHANGED <<admins, factorVars, token, ticketVars, party>>

\* validatePartyInput, of a new party or of a changed one.
CodesChecked(s) ==
    /\ At(s, {"party"}, "sent")
    /\ req' = IF req[s].codes \subseteq ActiveCodes THEN Step(s, "checked")
              ELSE Answer(s, "refused")
    /\ UNCHANGED <<admins, factorVars, token, ticketVars, moneyVars>>

\* Deletions that have counted the parties come too late from here on.
PartyWritten(s) ==
    LET c == req[s] IN
    /\ At(s, {"party"}, "checked")
    /\ \E b \in c.codes : party' = [party EXCEPT ![c.arg] = [base |-> b, codes |-> c.codes]]
    /\ req' = [r \in Slots |->
                 IF r = s THEN [c EXCEPT !.pc = "answered", !.status = "ok"]
                 ELSE IF req[r].op = "del" /\ req[r].pc = "counted" /\ req[r].arg \in c.codes
                 THEN [req[r] EXCEPT !.late = TRUE] ELSE req[r]]
    /\ UNCHANGED <<admins, factorVars, token, ticketVars, currency>>

-----------------------------------------------------------------------------

Serve(s) ==
    \/ Authorize(s) \/ Read(s)
    \/ PasswordChecked(s) \/ MethodsRead(s)
    \/ TicketRead(s) \/ FactorRead(s) \/ TicketSpent(s) \/ PasskeyUsed(s)
    \/ ChallengeMade(s) \/ ChallengeAnswered(s) \/ FactorInserted(s) \/ FactorDeleted(s)
    \/ TokensCounted(s) \/ TokenInserted(s) \/ TokenRevoked(s)
    \/ Toggled(s)
    \/ CodeCounted(s) \/ CodeInserted(s) \/ RowRead(s) \/ PartiesCounted(s) \/ RowDeleted(s)
    \/ CodesChecked(s) \/ PartyWritten(s)
-----------------------------------------------------------------------------
(* Statements that fail.  Most handlers look at the error and refuse; the  *)
(* ones below do not, or refuse when something is done already.            *)

\* Steps with no statement whose error is looked at.
Unseen ==
    {<<"currencies", "authed">>, <<"add", "authed">>, <<"del", "checked">>,
     <<"totp", "sent">>, <<"fido", "sent">>}

FailureSeen(s) ==
    /\ req[s].pc \in {"sent", "authed", "checked", "counted"}
    /\ <<req[s].op, req[s].pc>> \notin Unseen
    /\ req' = Answer(s, "refused")
    /\ UNCHANGED <<admins, factorVars, token, ticketVars, moneyVars>>

\* The profile and the currencies are answered without a row.
NothingRead(s) ==
    /\ At(s, {"profile"}, "sent") \/ At(s, {"currencies"}, "authed")
    /\ req' = Answer(s, "ok")
    /\ UNCHANGED <<admins, factorVars, token, ticketVars, moneyVars>>

\* A user whose factors are not read has none: the password signs in.
NoMethodsRead(s) ==
    /\ At(s, {"login"}, "checked")
    /\ req' = Answer(s, "ok")
    /\ UNCHANGED <<admins, factorVars, token, ticketVars, moneyVars>>

\* The ticket is deleted before the tokens are made.
TicketWasted(s) ==
    LET c == req[s] IN
    /\ At(s, {"totp", "fido"}, "counted")
    /\ c.op = "fido" => device[c.row].state = "live"
    /\ ticket' = [ticket EXCEPT ![c.arg].state = "gone"]
    /\ req' = Answer(s, "refused")
    /\ UNCHANGED <<admins, factorVars, token, signins, moneyVars>>

\* The user may have a TOTP already.
ChallengeUncounted(s) ==
    LET c == req[s] IN
    /\ At(s, {"enrol"}, "sent") /\ c.kind = "totp"
    /\ \E d \in DeviceIds :
          /\ IsNext(device, d)
          /\ device' = [device EXCEPT ![d] = [state |-> "offered", user |-> c.user, kind |-> "totp"]]
          /\ req' = [Answer(s, "ok") EXCEPT ![s].arg = d]
    /\ UNCHANGED <<admins, token, ticketVars, moneyVars>>

\* The currency may be there already, or in use.
CodeUncounted(s) ==
    /\ \/ At(s, {"add"}, "authed") /\ req' = Step(s, "checked")
       \/ At(s, {"del"}, "checked") /\ req' = [Step(s, "counted") EXCEPT ![s].blind = TRUE]
    /\ UNCHANGED <<admins, factorVars, token, ticketVars, moneyVars>>

ReadFails(s) == req[s].op \in Reads /\ (FailureSeen(s) \/ NothingRead(s))

WriteFails(s) ==
    /\ req[s].op \notin Reads
    /\ \/ FailureSeen(s) \/ NoMethodsRead(s) \/ TicketWasted(s)
       \/ ChallengeUncounted(s) \/ CodeUncounted(s)
=============================================================================
