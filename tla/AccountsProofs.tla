--------------------------- MODULE AccountsProofs ---------------------------
(***************************************************************************)
(* Proofs about AccountTabs, and the endpoints below it, for any number of *)
(* users, tabs, requests under way, devices, tickets and tokens.           *)
(*                                                                         *)
(* The types alone are not inductive: the reply to a request sets loading  *)
(* only on a page that loads, because requests that are still mounted were *)
(* sent by such a page (OwnerOK), and what a handler indexes a table with  *)
(* is an id because its operation says so (ArgOK, MfaOK).  TypeInv adds    *)
(* these.  A step is one of the server (Served, ServeOK), where one        *)
(* request goes on, or one of the browser (TabStep, BrowseOK), where none  *)
(* does (Light).  A statement that fails counts as a step of the server    *)
(* for a request that writes (Stumbled), and as one of the browser for a   *)
(* read (Unread), whose page is not calm from there on.                    *)
(*                                                                         *)
(* On top of it, what a request that waits between two statements knows:   *)
(* TicketInv for answers to a second factor, CountInv for deletions of a   *)
(* currency.  TokensWithinLimit is inductive as it stands.  For what pages *)
(* show, CurrentInv says where each request belongs (Known), and of a tab  *)
(* that alone has written, one request at a time, what that request        *)
(* carries (Carries).                                                      *)
(***************************************************************************)
EXTENDS AccountTabs, FiniteSetTheorems, TLAPS

(* What a request is about, by its operation.                              *)
ArgOK(c) ==
    /\ c.op \in {"totp", "fido"} => c.arg \in TicketIds
    /\ c.op = "login" => c.arg \in TicketIds \cup {None}
    /\ c.op = "enrol" => c.arg \in DeviceIds \cup {None}
    /\ c.op = "toggle" => c.arg \in Users
    /\ c.op \in {"add", "del"} => c.arg \in Codes

PageOps == Enrolments \cup AdminWrites \cup {"mint", "revoke"}

(* Where a request comes from: the page that sent it, while it is there,   *)
(* has a load.                                                             *)
OwnerOK(c, tabs) ==
    /\ c.op \in Reads \cup SignIns => c.tab \in Tabs
    /\ c.op \in PageOps /\ c.mounted => c.tab \in Tabs /\ Loads(tabs[c.tab])

ReqsOK(reqs, tabs) == \A s \in Slots : ArgOK(reqs[s]) /\ OwnerOK(reqs[s], tabs)

MfaOK(tabs) == \A t \in Tabs : tabs[t].page = "mfa" => tabs[t].ticket \in TicketIds

TypeInv == TypeOK /\ ReqsOK(req, tab) /\ MfaOK(tab) /\ Users # {}

TablesOK ==
    /\ admins \in SUBSET Users
    /\ device \in [DeviceIds -> Device]
    /\ token \in [TokenIds -> Token]
    /\ ticket \in [TicketIds -> Ticket]
    /\ signins \in [TicketIds -> Nat]
    /\ currency \in [Codes -> Currency]
    /\ party \in [Parties -> Party]

-----------------------------------------------------------------------------
(* Records                                                                 *)

LEMMA RequestFields ==
    ASSUME NEW c \in Request
    PROVE  /\ \A x \in {"idle", "asked", "sent", "authed", "checked", "counted", "answered"} :
                 [c EXCEPT !.pc = x] \in Request
           /\ \A x \in {"none", "ok", "refused", "lost"} : [c EXCEPT !.status = x] \in Request
           /\ \A x \in Args : [c EXCEPT !.arg = x] \in Request
           /\ \A x \in Users \cup {None} : [c EXCEPT !.user = x] \in Request
           /\ \A x \in Nat : [c EXCEPT !.row = x] \in Request
           /\ \A x \in BOOLEAN : [c EXCEPT !.flag = x] \in Request
           /\ \A x \in BOOLEAN : [c EXCEPT !.late = x] \in Request
           /\ \A x \in BOOLEAN : [c EXCEPT !.blind = x] \in Request
           /\ \A x \in BOOLEAN : [c EXCEPT !.mounted = x] \in Request
           /\ \A x \in View : [c EXCEPT !.view = x] \in Request
           /\ \A x \in Private \cup SignIns \cup {"none"} : [c EXCEPT !.op = x] \in Request
           /\ \A x \in Tabs \cup {None} : [c EXCEPT !.tab = x] \in Request
           /\ \A x \in Kinds \cup {"none"} : [c EXCEPT !.kind = x] \in Request
           /\ \A x \in SUBSET Codes : [c EXCEPT !.codes = x] \in Request
<1>1. \A x \in {"idle", "asked", "sent", "authed", "checked", "counted", "answered"} :
         [c EXCEPT !.pc = x] \in Request
  BY DEF Request
<1>2. \A x \in {"none", "ok", "refused", "lost"} : [c EXCEPT !.status = x] \in Request
  BY DEF Request
<1>3. \A x \in Args : [c EXCEPT !.arg = x] \in Request
  BY DEF Request
<1>4. \A x \in Users \cup {None} : [c EXCEPT !.user = x] \in Request
  BY DEF Request
<1>5. \A x \in Nat : [c EXCEPT !.row = x] \in Request
  BY DEF Request
<1>6. \A x \in BOOLEAN : [c EXCEPT !.flag = x] \in Request
  BY DEF Request
<1>7. \A x \in BOOLEAN : [c EXCEPT !.late = x] \in Request
  BY DEF Request
<1>8. \A x \in BOOLEAN : [c EXCEPT !.mounted = x] \in Request
  BY DEF Request
<1>9. \A x \in View : [c EXCEPT !.view = x] \in Request
  BY DEF Request
<1>10. \A x \in Private \cup SignIns \cup {"none"} : [c EXCEPT !.op = x] \in Request
  BY DEF Request
<1>11. \A x \in Tabs \cup {None} : [c EXCEPT !.tab = x] \in Request
  BY DEF Request
<1>12. \A x \in Kinds \cup {"none"} : [c EXCEPT !.kind = x] \in Request
  BY DEF Request
<1>13. \A x \in SUBSET Codes : [c EXCEPT !.codes = x] \in Request
  BY DEF Request
<1>14. \A x \in BOOLEAN : [c EXCEPT !.blind = x] \in Request
  BY DEF Request
<1> QED BY <1>1, <1>2, <1>3, <1>4, <1>5, <1>6, <1>7, <1>8, <1>9, <1>10, <1>11, <1>12, <1>13, <1>14

LEMMA TabFields ==
    ASSUME NEW x \in Tab
    PROVE  /\ \A p \in Pages : [x EXCEPT !.page = p] \in Tab
           /\ \A u \in Users \cup {None} : [x EXCEPT !.user = u] \in Tab
           /\ \A b \in BOOLEAN : [x EXCEPT !.admin = b] \in Tab
           /\ \A b \in BOOLEAN : [x EXCEPT !.loading = b] \in Tab
           /\ \A v \in View : [x EXCEPT !.view = v] \in Tab
           /\ \A k \in TicketIds \cup {None} : [x EXCEPT !.ticket = k] \in Tab
           /\ \A d \in DeviceIds \cup {None} : [x EXCEPT !.challenge = d] \in Tab
           /\ \A b \in BOOLEAN : [x EXCEPT !.calm = b] \in Tab
<1>1. \A p \in Pages : [x EXCEPT !.page = p] \in Tab
  BY DEF Tab
<1>2. \A u \in Users \cup {None} : [x EXCEPT !.user = u] \in Tab
  BY DEF Tab
<1>3. \A b \in BOOLEAN : [x EXCEPT !.admin = b] \in Tab
  BY DEF Tab
<1>4. \A b \in BOOLEAN : [x EXCEPT !.loading = b] \in Tab
  BY DEF Tab
<1>5. \A v \in View : [x EXCEPT !.view = v] \in Tab
  BY DEF Tab
<1>6. \A k \in TicketIds \cup {None} : [x EXCEPT !.ticket = k] \in Tab
  BY DEF Tab
<1>7. \A d \in DeviceIds \cup {None} : [x EXCEPT !.challenge = d] \in Tab
  BY DEF Tab
<1>8. \A b \in BOOLEAN : [x EXCEPT !.calm = b] \in Tab
  BY DEF Tab
<1> QED BY <1>1, <1>2, <1>3, <1>4, <1>5, <1>6, <1>7, <1>8

Answered(c, x) == [[c EXCEPT !.pc = "answered"] EXCEPT !.status = x]

LEMMA AnsweredFields ==
    ASSUME NEW c \in Request, NEW x \in {"ok", "refused", "lost"}
    PROVE  /\ Answered(c, x) \in Request
           /\ Answered(c, x).pc = "answered" /\ Answered(c, x).status = x
           /\ Answered(c, x).op = c.op /\ Answered(c, x).tab = c.tab /\ Answered(c, x).arg = c.arg
           /\ Answered(c, x).mounted = c.mounted /\ Answered(c, x).user = c.user
           /\ Answered(c, x).late = c.late /\ Answered(c, x).view = c.view
<1> DEFINE a == [c EXCEPT !.pc = "answered"]
<1>1. a \in Request
  BY RequestFields
<1>2. Answered(c, x) \in Request
  BY <1>1, RequestFields DEF Answered
<1> QED BY <1>2 DEF Answered, Request

LEMMA AnswerIs ==
    ASSUME req \in [Slots -> Request], NEW s \in Slots, NEW x
    PROVE  Answer(s, x) = [req EXCEPT ![s] = Answered(req[s], x)]
BY DEF Answer, Answered

LEMMA StepIs ==
    ASSUME NEW s \in Slots, NEW x
    PROVE  Step(s, x) = [req EXCEPT ![s] = [req[s] EXCEPT !.pc = x]]
BY DEF Step

LEMMA ViewType ==
    /\ NoView \in View
    /\ \A v \in View : \A ds \in SUBSET DeviceIds : [v EXCEPT !.devices = ds] \in View
    /\ \A v \in View : \A ks \in SUBSET TokenIds : [v EXCEPT !.tokens = ks] \in View
BY DEF NoView, View

LEMMA IdleType == Idle \in Request
BY ViewType DEF Idle, Request, Args

-----------------------------------------------------------------------------
(* A step of the server: the request of one slot goes on.                  *)

(* d is c some statements later.                                           *)
Kept(d, c) ==
    /\ d \in Request
    /\ d.op = c.op /\ d.tab = c.tab /\ d.mounted = c.mounted
    /\ \/ d.arg = c.arg
       \/ c.op = "login" /\ d.arg \in TicketIds
       \/ c.op = "enrol" /\ d.arg \in DeviceIds

(* Only others have moved.                                                 *)
Waited(d, c) ==
    /\ d.pc = c.pc /\ d.op = c.op /\ d.arg = c.arg /\ d.user = c.user
    /\ c.late => d.late
    /\ c.blind => d.blind

Served(s) ==
    /\ req' \in [Slots -> Request]
    /\ \A r \in Slots : Kept(req'[r], req[r])
    /\ \A r \in Slots \ {s} : Waited(req'[r], req[r])

LEMMA ServedBy ==
    ASSUME req \in [Slots -> Request], NEW s \in Slots, NEW d, Kept(d, req[s]),
           req' = [req EXCEPT ![s] = d]
    PROVE  Served(s) /\ req'[s] = d
<1>1. d \in Request
  BY DEF Kept
<1>2. req' \in [Slots -> Request] /\ req'[s] = d /\ \A r \in Slots \ {s} : req'[r] = req[r]
  BY <1>1
<1>3. \A r \in Slots \ {s} : Kept(req'[r], req[r]) /\ Waited(req'[r], req[r])
  BY <1>2 DEF Kept, Waited
<1> QED BY <1>2, <1>3 DEF Served

LEMMA AnswerServed ==
    ASSUME req \in [Slots -> Request], NEW s \in Slots, NEW x \in {"ok", "refused", "lost"},
           req' = Answer(s, x)
    PROVE  Served(s) /\ req'[s] = Answered(req[s], x)
<1>1. req[s] \in Request
  OBVIOUS
<1>2. Kept(Answered(req[s], x), req[s])
  BY <1>1, AnsweredFields DEF Kept
<1> QED BY <1>2, AnswerIs, ServedBy

LEMMA StepServed ==
    ASSUME req \in [Slots -> Request], NEW s \in Slots,
           NEW x \in {"sent", "authed", "checked", "counted"}, req' = Step(s, x)
    PROVE  Served(s) /\ req'[s] = [req[s] EXCEPT !.pc = x]
<1> DEFINE d == [req[s] EXCEPT !.pc = x]
<1>1. req[s] \in Request
  OBVIOUS
<1>2. d \in Request
  BY <1>1, RequestFields
<1>3. Kept(d, req[s])
  BY <1>1, <1>2 DEF Kept, Request
<1> QED BY <1>3, StepIs, ServedBy
-----------------------------------------------------------------------------
(* The server's actions keep the types.                                    *)

LEMMA Unwritten ==
    ASSUME TablesOK, UNCHANGED <<admins, factorVars, token, ticketVars, moneyVars>>
    PROVE  TablesOK'
BY DEF TablesOK, factorVars, ticketVars, moneyVars

LEMMA AuthorizeServed ==
    ASSUME TypeInv, TablesOK, NEW s \in Slots, Authorize(s)
    PROVE  Served(s) /\ TablesOK' /\ req'[s].pc \in {"answered", "authed"}
<1>1. req \in [Slots -> Request] /\ req[s] \in Request
  BY DEF TypeInv, TypeOK
<1>2. TablesOK'
  BY Unwritten DEF Authorize
<1>3. CASE req[s].user \notin admins
  <2>1. req' = Answer(s, "refused")
    BY <1>3 DEF Authorize
  <2> QED BY <1>1, <1>2, <2>1, AnswerServed, AnsweredFields
<1>4. CASE req[s].user \in admins
  <2>1. req' = Step(s, "authed")
    BY <1>4 DEF Authorize
  <2>2. Served(s) /\ req'[s] = [req[s] EXCEPT !.pc = "authed"]
    BY <1>1, <2>1, StepServed
  <2> QED BY <1>1, <1>2, <2>2 DEF Request
<1> QED BY <1>3, <1>4

LEMMA ViewOfType ==
    ASSUME TablesOK, NEW read \in Reads, NEW u
    PROVE  ViewOf(read, u) \in View
<1>1. DevicesOf(u, Kinds) \in SUBSET DeviceIds /\ TokensOf(u) \in SUBSET TokenIds
  BY DEF DevicesOf, TokensOf
<1>2. admins \in SUBSET Users /\ ActiveCodes \in SUBSET Codes
  BY DEF TablesOK, ActiveCodes
<1>3. CASE read = "profile"
  BY <1>1, <1>3, ViewType DEF ViewOf
<1>4. CASE read = "tokens"
  BY <1>1, <1>4, ViewType DEF ViewOf
<1>5. CASE read = "users"
  BY <1>2, <1>5 DEF ViewOf, NoView, View
<1>6. CASE read = "currencies"
  BY <1>2, <1>6 DEF ViewOf, NoView, View
<1> QED BY <1>3, <1>4, <1>5, <1>6 DEF Reads, AdminReads

LEMMA ReadServed ==
    ASSUME TypeInv, TablesOK, NEW s \in Slots, Read(s)
    PROVE  Served(s) /\ TablesOK'
<1>1. req \in [Slots -> Request] /\ req[s] \in Request /\ req[s].op \in Reads
  BY DEF TypeInv, TypeOK, Read, At, Reads
<1>2. TablesOK'
  BY Unwritten DEF Read
<1> DEFINE v == ViewOf(req[s].op, req[s].user)
           a == Answered(req[s], "ok")
           d == [a EXCEPT !.view = v]
<1>3. v \in View
  BY <1>1, ViewOfType
<1>4. a \in Request
  BY <1>1, AnsweredFields
<1>5. d \in Request
  BY <1>3, <1>4, RequestFields
<1>6. Kept(d, req[s])
  BY <1>1, <1>4, <1>5, AnsweredFields DEF Kept, Request
<1>7. req' = [Answer(s, "ok") EXCEPT ![s].view = v]
  BY DEF Read
<1> HIDE DEF v, a
<1>8. Answer(s, "ok") = [req EXCEPT ![s] = a]
  BY <1>1, AnswerIs DEF a
<1>9. req' = [req EXCEPT ![s] = d]
  BY <1>1, <1>7, <1>8
<1> QED BY <1>1, <1>2, <1>6, <1>9, ServedBy

LEMMA PasswordCheckedServed ==
    ASSUME TypeInv, TablesOK, NEW s \in Slots, PasswordChecked(s)
    PROVE  Served(s) /\ TablesOK'
<1>1. req \in [Slots -> Request] /\ req[s] \in Request
  BY DEF TypeInv, TypeOK
<1>2. TablesOK'
  BY Unwritten DEF PasswordChecked
<1>3. CASE req' = Answer(s, "refused")
  BY <1>1, <1>2, <1>3, AnswerServed
<1>4. CASE req' = [Step(s, "checked") EXCEPT ![s].flag = req[s].user \in admins]
  <2> DEFINE a == [req[s] EXCEPT !.pc = "checked"]
             b == req[s].user \in admins
             d == [a EXCEPT !.flag = b]
  <2>1. a \in Request
    BY <1>1, RequestFields
  <2>1a. b \in BOOLEAN
    OBVIOUS
  <2>2. Step(s, "checked") = [req EXCEPT ![s] = a]
    BY StepIs
  <2>3. a.op = req[s].op /\ a.tab = req[s].tab /\ a.mounted = req[s].mounted /\ a.arg = req[s].arg
    BY <1>1 DEF Request
  <2> HIDE DEF a, b
  <2>4. d \in Request
    BY <2>1, <2>1a, RequestFields
  <2>5. req' = [req EXCEPT ![s] = d]
    BY <1>1, <1>4, <2>2 DEF b
  <2>6. Kept(d, req[s])
    BY <2>1, <2>3, <2>4 DEF Kept, Request
  <2> QED BY <1>1, <1>2, <2>5, <2>6, ServedBy
<1> QED BY <1>3, <1>4 DEF PasswordChecked

LEMMA MethodsReadServed ==
    ASSUME TypeInv, TablesOK, NEW s \in Slots, MethodsRead(s)
    PROVE  /\ Served(s) /\ TablesOK'
           /\ signins' = signins
           /\ \A k \in TicketIds : ticket'[k] = ticket[k] \/ ticket[k].state = "unused"
<1> DEFINE u == req[s].user
           ds == DevicesOf(u, {"totp", "fido"})
<1>1. req \in [Slots -> Request] /\ req[s] \in Request /\ u \in Users \cup {None}
  BY DEF TypeInv, TypeOK, Request
<1>2. CASE ds = {}
  <2>1. req' = Answer(s, "ok") /\ UNCHANGED <<admins, factorVars, token, ticketVars, moneyVars>>
    BY <1>2 DEF MethodsRead
  <2> QED BY <1>1, <2>1, AnswerServed, Unwritten DEF ticketVars
<1>3. CASE ds # {}
  <2>1. PICK k \in TicketIds :
           /\ IsNext(ticket, k)
           /\ ticket' = [ticket EXCEPT ![k] = [state |-> "live", user |-> u]]
           /\ req' = [Answer(s, "ok") EXCEPT ![s].arg = k, ![s].view.devices = ds]
           /\ UNCHANGED signins
    BY <1>3 DEF MethodsRead
  <2>2. UNCHANGED <<admins, factorVars, token, moneyVars>>
    BY DEF MethodsRead
  <2>3. [state |-> "live", user |-> u] \in Ticket
    BY <1>1 DEF Ticket
  <2>4. TablesOK'
    BY <2>1, <2>2, <2>3 DEF TablesOK, factorVars, moneyVars
  <2>5. \A j \in TicketIds : ticket'[j] = ticket[j] \/ ticket[j].state = "unused"
    BY <2>1 DEF IsNext, TablesOK
  <2> DEFINE a == Answered(req[s], "ok")
             v == [a.view EXCEPT !.devices = ds]
             b == [a EXCEPT !.arg = k]
             d == [b EXCEPT !.view = v]
  <2>6. a \in Request /\ a.op = req[s].op /\ a.tab = req[s].tab /\ a.mounted = req[s].mounted
    BY <1>1, AnsweredFields
  <2>7. a.view \in View /\ ds \in SUBSET DeviceIds /\ k \in Args
    BY <2>6 DEF Request, DevicesOf, Args
  <2>8. v \in View
    BY <2>7, ViewType
  <2>9. Answer(s, "ok") = [req EXCEPT ![s] = a]
    BY <1>1, AnswerIs
  <2> HIDE DEF a, ds
  <2>10. b \in Request
    BY <2>6, <2>7, RequestFields
  <2>11. b.op = a.op /\ b.tab = a.tab /\ b.mounted = a.mounted /\ b.arg = k /\ b.view = a.view
    BY <2>6 DEF Request
  <2>12. d = [[a EXCEPT !.arg = k] EXCEPT !.view.devices = ds]
    BY <2>6, <2>11 DEF Request
  <2>13. req' = [req EXCEPT ![s] = d]
    BY <1>1, <2>1, <2>9, <2>12
  <2> HIDE DEF b, v
  <2>14. d \in Request
    BY <2>8, <2>10, RequestFields
  <2>15. d.op = a.op /\ d.tab = a.tab /\ d.mounted = a.mounted /\ d.arg = k
    BY <2>10, <2>11 DEF Request
  <2>16. req[s].op = "login"
    BY DEF MethodsRead, At
  <2>17. Kept(d, req[s])
    BY <2>6, <2>14, <2>15, <2>16 DEF Kept
  <2> QED BY <1>1, <2>1, <2>4, <2>5, <2>13, <2>17, ServedBy
<1> QED BY <1>2, <1>3
LEMMA TicketReadServed ==
    ASSUME TypeInv, TablesOK, NEW s \in Slots, TicketRead(s)
    PROVE  /\ Served(s) /\ TablesOK' /\ UNCHANGED ticketVars
           /\ \/ req'[s].pc = "answered"
              \/ ticket[req'[s].arg].state = "live"
<1> DEFINE k == req[s].arg
<1>1. /\ req \in [Slots -> Request] /\ req[s] \in Request /\ req[s].op \in {"totp", "fido"}
      /\ ArgOK(req[s])
  BY DEF TypeInv, TypeOK, TicketRead, At, ReqsOK
<1>2. k \in TicketIds /\ ticket[k].user \in Users \cup {None}
  BY <1>1 DEF ArgOK, TablesOK, Ticket
<1>3. TablesOK' /\ UNCHANGED ticketVars
  BY Unwritten DEF TicketRead
<1>4. CASE ticket[k].state # "live"
  <2>1. req' = Answer(s, "refused")
    BY <1>4 DEF TicketRead
  <2> QED BY <1>1, <1>3, <2>1, AnswerServed, AnsweredFields
<1>5. CASE ticket[k].state = "live"
  <2> DEFINE a == [req[s] EXCEPT !.pc = "checked"]
             u == ticket[k].user
             d == [a EXCEPT !.user = u]
  <2>1. a \in Request
    BY <1>1, RequestFields
  <2>2. Step(s, "checked") = [req EXCEPT ![s] = a]
    BY StepIs
  <2>3. a.op = req[s].op /\ a.tab = req[s].tab /\ a.mounted = req[s].mounted /\ a.arg = req[s].arg
    BY <1>1 DEF Request
  <2>4. req' = [Step(s, "checked") EXCEPT ![s].user = u]
    BY <1>5 DEF TicketRead
  <2> HIDE DEF a
  <2>5. d \in Request
    BY <1>2, <2>1, RequestFields
  <2>6. req' = [req EXCEPT ![s] = d]
    BY <1>1, <2>2, <2>4
  <2>7. Kept(d, req[s]) /\ d.arg = k
    BY <2>1, <2>3, <2>5 DEF Kept, Request
  <2>8. Served(s) /\ req'[s] = d
    BY <1>1, <2>6, <2>7, ServedBy
  <2> QED BY <1>3, <1>5, <2>7, <2>8
<1> QED BY <1>4, <1>5

LEMMA FactorReadServed ==
    ASSUME TypeInv, TablesOK, NEW s \in Slots, FactorRead(s)
    PROVE  /\ Served(s) /\ TablesOK' /\ UNCHANGED ticketVars
           /\ req[s].op \in {"totp", "fido", "passkey"}
           /\ \/ req'[s].pc = "answered"
              \/ req'[s].op = "passkey"
              \/ req[s].pc = "checked" /\ req'[s].arg = req[s].arg /\ req'[s].late = req[s].late
<1> DEFINE c == req[s]
<1>1. req \in [Slots -> Request] /\ c \in Request
  BY DEF TypeInv, TypeOK
<1>2. TablesOK' /\ UNCHANGED ticketVars
  BY Unwritten DEF FactorRead
<1>3. c.op \in {"totp", "fido", "passkey"} /\ (c.op # "passkey" => c.pc = "checked")
  BY DEF FactorRead, At
<1>4. CASE req' = Answer(s, "refused")
  BY <1>1, <1>2, <1>3, <1>4, AnswerServed, AnsweredFields
<1>5. ASSUME NEW u \in IF c.op = "passkey" THEN Users ELSE {c.user}, NEW e \in DevicesOf(u, {c.op}),
             req' = [Step(s, "counted") EXCEPT ![s].row = e, ![s].user = u]
      PROVE  /\ Served(s)
             /\ \/ req'[s].op = "passkey"
                \/ c.pc = "checked" /\ req'[s].arg = c.arg /\ req'[s].late = c.late
  <2> DEFINE a == [c EXCEPT !.pc = "counted"]
             b == [a EXCEPT !.row = e]
             d == [b EXCEPT !.user = u]
  <2>1. e \in Nat /\ u \in Users \cup {None}
    <3>1. e \in DeviceIds
      BY DEF DevicesOf
    <3> QED BY <1>1, <3>1, ServerAssumption DEF Request
  <2>2. a \in Request
    BY <1>1, RequestFields
  <2>3. /\ a.op = c.op /\ a.tab = c.tab /\ a.mounted = c.mounted /\ a.arg = c.arg
        /\ a.late = c.late
    BY <1>1 DEF Request
  <2>4. Step(s, "counted") = [req EXCEPT ![s] = a]
    BY StepIs
  <2> HIDE DEF a
  <2>5. b \in Request
    BY <2>1, <2>2, RequestFields
  <2>6. d \in Request
    BY <2>1, <2>5, RequestFields
  <2>7. d = [a EXCEPT !.row = e, !.user = u]
    OBVIOUS
  <2>8. req' = [req EXCEPT ![s] = d]
    BY <1>1, <1>5, <2>4, <2>7
  <2>9. /\ d.op = c.op /\ d.tab = c.tab /\ d.mounted = c.mounted /\ d.arg = c.arg
        /\ d.late = c.late
    BY <2>2, <2>3, <2>7 DEF Request
  <2> HIDE DEF b, d
  <2>10. Kept(d, c)
    BY <2>6, <2>9 DEF Kept
  <2>11. Served(s) /\ req'[s] = d
    BY <1>1, <2>8, <2>10, ServedBy
  <2> QED BY <1>3, <2>9, <2>11
<1> QED BY <1>2, <1>3, <1>4, <1>5 DEF FactorRead

(* The ticket is deleted, and every other answer that read it is late.     *)
LEMMA TicketSpentServed ==
    ASSUME TypeInv, TablesOK, NEW s \in Slots, TicketSpent(s)
    PROVE  /\ Served(s) /\ TablesOK'
           /\ At(s, {"totp", "fido"}, "counted") /\ req'[s].pc = "answered"
           /\ \/ UNCHANGED ticketVars
              \/ /\ ticket' = [ticket EXCEPT ![req[s].arg].state = "gone"]
                 /\ signins' = [signins EXCEPT ![req[s].arg] = @ + 1]
                 /\ \A r \in Slots \ {s} :
                       req[r].op \in {"totp", "fido"} /\ req[r].arg = req[s].arg
                          /\ req[r].pc \in {"checked", "counted"} => req'[r].late
<1> DEFINE c == req[s]
           k == req[s].arg
<1>1. /\ req \in [Slots -> Request] /\ c \in Request /\ k \in TicketIds
      /\ At(s, {"totp", "fido"}, "counted") /\ UNCHANGED <<admins, factorVars, token, moneyVars>>
  BY DEF TypeInv, TypeOK, TicketSpent, At, ReqsOK, ArgOK
<1>2. CASE req' = Answer(s, "refused") /\ UNCHANGED ticketVars
  BY <1>1, <1>2, AnswerServed, AnsweredFields, Unwritten
<1>3. CASE /\ ticket' = [ticket EXCEPT ![k].state = "gone"]
           /\ signins' = [signins EXCEPT ![k] = @ + 1]
           /\ req' = [Overtaken(k) EXCEPT ![s] = [c EXCEPT !.pc = "answered", !.status = "ok",
                                                           !.flag = c.user \in admins]]
  <2> DEFINE a == Answered(c, "ok")
             f == c.user \in admins
             d == [a EXCEPT !.flag = f]
  <2>1. a \in Request
    BY <1>1, AnsweredFields
  <2>2. f \in BOOLEAN
    OBVIOUS
  <2>3. d = [c EXCEPT !.pc = "answered", !.status = "ok", !.flag = c.user \in admins]
    BY DEF Answered
  <2>4. a.op = c.op /\ a.tab = c.tab /\ a.mounted = c.mounted /\ a.arg = c.arg /\ a.pc = "answered"
    BY <1>1, AnsweredFields
  <2>5. req' = [Overtaken(k) EXCEPT ![s] = d]
    BY <1>3, <2>3
  <2> HIDE DEF a, f
  <2>6. d \in Request
    BY <2>1, <2>2, RequestFields
  <2>7. Kept(d, c) /\ d.pc = "answered"
    BY <2>1, <2>4, <2>6 DEF Kept, Request
  <2> HIDE DEF d
  <2>8. \A r \in Slots : [req[r] EXCEPT !.late = TRUE] \in Request
    BY <1>1, RequestFields
  <2>9. \A r \in Slots : Overtaken(k)[r] = req[r] \/ Overtaken(k)[r] = [req[r] EXCEPT !.late = TRUE]
    BY DEF Overtaken
  <2>10. DOMAIN Overtaken(k) = Slots
    BY DEF Overtaken
  <2>11. req'[s] = d /\ (\A r \in Slots \ {s} : req'[r] = Overtaken(k)[r]) /\ DOMAIN req' = Slots
         /\ req' = [r \in Slots |-> req'[r]]
    BY <2>5, <2>10 DEF Overtaken
  <2>12. ASSUME NEW r \in Slots \ {s} PROVE Kept(req'[r], req[r]) /\ Waited(req'[r], req[r])
    <3> DEFINE x == req[r]
               y == [x EXCEPT !.late = TRUE]
    <3>1. x \in Request /\ y \in Request /\ req'[r] \in {x, y}
      BY <1>1, <2>8, <2>9, <2>11
    <3>2. /\ y.pc = x.pc /\ y.op = x.op /\ y.tab = x.tab /\ y.mounted = x.mounted
          /\ y.arg = x.arg /\ y.user = x.user /\ y.late /\ y.blind = x.blind
      BY <3>1 DEF Request
    <3> HIDE DEF x, y
    <3>3. Kept(x, x) /\ Waited(x, x) /\ Kept(y, x) /\ Waited(y, x)
      BY <3>1, <3>2 DEF Kept, Waited
    <3>4. CASE req'[r] = x
      BY <3>3, <3>4 DEF x
    <3>5. CASE req'[r] = y
      BY <3>3, <3>5 DEF x
    <3> QED BY <3>1, <3>4, <3>5
  <2>13. \A r \in Slots : Kept(req'[r], req[r])
    BY <2>7, <2>11, <2>12
  <2>14. Served(s)
    BY <2>11, <2>12, <2>13 DEF Served, Kept
  <2>15. \A r \in Slots \ {s} :
            req[r].op \in {"totp", "fido"} /\ req[r].arg = k
               /\ req[r].pc \in {"checked", "counted"} => req'[r].late
    BY <1>1, <2>11 DEF Overtaken, Request
  <2>16. TablesOK'
    BY <1>1, <1>3 DEF TablesOK, Ticket, factorVars, moneyVars
  <2> QED BY <1>1, <1>3, <2>7, <2>11, <2>14, <2>15, <2>16
<1> QED BY <1>2, <1>3 DEF TicketSpent

LEMMA PasskeyUsedServed ==
    ASSUME TypeInv, TablesOK, NEW s \in Slots, PasskeyUsed(s)
    PROVE  Served(s) /\ TablesOK'
<1> DEFINE c == req[s]
<1>1. req \in [Slots -> Request] /\ c \in Request
  BY DEF TypeInv, TypeOK
<1>2. TablesOK'
  BY Unwritten DEF PasskeyUsed
<1>3. CASE req' = Answer(s, "refused")
  BY <1>1, <1>2, <1>3, AnswerServed
<1>4. CASE req' = [Answer(s, "ok") EXCEPT ![s].flag = c.user \in admins]
  <2> DEFINE a == Answered(c, "ok")
             f == c.user \in admins
             d == [a EXCEPT !.flag = f]
  <2>1. a \in Request /\ a.op = c.op /\ a.tab = c.tab /\ a.mounted = c.mounted /\ a.arg = c.arg
    BY <1>1, AnsweredFields
  <2>2. f \in BOOLEAN
    OBVIOUS
  <2>3. Answer(s, "ok") = [req EXCEPT ![s] = a]
    BY <1>1, AnswerIs
  <2> HIDE DEF a, f
  <2>4. d \in Request
    BY <2>1, <2>2, RequestFields
  <2>5. req' = [req EXCEPT ![s] = d]
    BY <1>1, <1>4, <2>3 DEF f
  <2>6. Kept(d, c)
    BY <2>1, <2>4 DEF Kept, Request
  <2> QED BY <1>1, <1>2, <2>5, <2>6, ServedBy
<1> QED BY <1>3, <1>4 DEF PasskeyUsed
LEMMA ChallengeMadeServed ==
    ASSUME TypeInv, TablesOK, NEW s \in Slots, ChallengeMade(s)
    PROVE  Served(s) /\ TablesOK'
<1> DEFINE c == req[s]
<1>1. /\ req \in [Slots -> Request] /\ c \in Request /\ c.op = "enrol"
      /\ UNCHANGED <<admins, token, ticketVars, moneyVars>>
  BY DEF TypeInv, TypeOK, ChallengeMade, At
<1>2. CASE c.kind = "totp" /\ DevicesOf(c.user, {"totp"}) # {}
  <2>1. req' = Answer(s, "refused") /\ UNCHANGED device
    BY <1>2 DEF ChallengeMade
  <2> QED BY <1>1, <2>1, AnswerServed, Unwritten DEF factorVars
<1>3. CASE ~(c.kind = "totp" /\ DevicesOf(c.user, {"totp"}) # {})
  <2>1. PICK e \in DeviceIds :
           /\ device' = [device EXCEPT ![e] =
                            [state |-> "offered", user |-> c.user, kind |-> c.kind]]
           /\ req' = [Answer(s, "ok") EXCEPT ![s].arg = e]
    BY <1>3 DEF ChallengeMade
  <2>2. [state |-> "offered", user |-> c.user, kind |-> c.kind] \in Device
    BY <1>1 DEF Device, Request
  <2>3. TablesOK'
    BY <1>1, <2>1, <2>2 DEF TablesOK, ticketVars, moneyVars
  <2> DEFINE a == Answered(c, "ok")
             d == [a EXCEPT !.arg = e]
  <2>4. a \in Request /\ a.op = c.op /\ a.tab = c.tab /\ a.mounted = c.mounted /\ e \in Args
    BY <1>1, AnsweredFields DEF Args
  <2>5. Answer(s, "ok") = [req EXCEPT ![s] = a]
    BY <1>1, AnswerIs
  <2> HIDE DEF a
  <2>6. d \in Request
    BY <2>4, RequestFields
  <2>7. req' = [req EXCEPT ![s] = d]
    BY <1>1, <2>1, <2>5
  <2>8. Kept(d, c)
    BY <1>1, <2>4, <2>6 DEF Kept, Request
  <2> QED BY <1>1, <2>3, <2>7, <2>8, ServedBy
<1> QED BY <1>2, <1>3

LEMMA ChallengeAnsweredServed ==
    ASSUME TypeInv, TablesOK, NEW s \in Slots, ChallengeAnswered(s)
    PROVE  Served(s) /\ TablesOK'
<1>1. req \in [Slots -> Request] /\ UNCHANGED <<admins, token, ticketVars, moneyVars>>
  BY DEF TypeInv, TypeOK, ChallengeAnswered
<1>2. device' \in [DeviceIds -> Device]
  <2>1. device' \in {device, [device EXCEPT ![req[s].arg].state = "taken"]}
    BY DEF ChallengeAnswered
  <2> QED BY <2>1 DEF TablesOK, Device
<1>3. TablesOK'
  BY <1>1, <1>2 DEF TablesOK, ticketVars, moneyVars
<1>4. req' = Answer(s, "refused") \/ req' = Step(s, "checked")
  BY DEF ChallengeAnswered
<1> QED BY <1>1, <1>3, <1>4, AnswerServed, StepServed

LEMMA FactorInsertedServed ==
    ASSUME TypeInv, TablesOK, NEW s \in Slots, FactorInserted(s)
    PROVE  Served(s) /\ TablesOK'
<1>1. /\ req \in [Slots -> Request] /\ req' = Answer(s, "ok")
      /\ UNCHANGED <<admins, token, ticketVars, moneyVars>>
      /\ device' = [device EXCEPT ![req[s].arg].state = "live"]
  BY DEF TypeInv, TypeOK, FactorInserted
<1>2. TablesOK'
  BY <1>1 DEF TablesOK, Device, ticketVars, moneyVars
<1> QED BY <1>1, <1>2, AnswerServed

LEMMA FactorDeletedServed ==
    ASSUME TypeInv, TablesOK, NEW s \in Slots, FactorDeleted(s)
    PROVE  Served(s) /\ TablesOK'
<1>1. req \in [Slots -> Request] /\ UNCHANGED <<admins, token, ticketVars, moneyVars>>
  BY DEF TypeInv, TypeOK, FactorDeleted
<1>2. req' = Answer(s, "ok") \/ req' = Answer(s, "refused")
  BY DEF FactorDeleted
<1>3. \A e \in DeviceIds : [device[e] EXCEPT !.state = "gone"] \in Device
  BY DEF TablesOK, Device
<1>4. device' \in [DeviceIds -> Device]
  BY <1>3 DEF FactorDeleted, TablesOK
<1>5. TablesOK'
  BY <1>1, <1>4 DEF TablesOK, ticketVars, moneyVars
<1> QED BY <1>1, <1>2, <1>5, AnswerServed

LEMMA TokensCountedServed ==
    ASSUME TypeInv, TablesOK, NEW s \in Slots, TokensCounted(s)
    PROVE  /\ Served(s) /\ TablesOK' /\ UNCHANGED token /\ At(s, {"mint"}, "sent")
           /\ \/ req'[s].pc = "answered"
              \/ /\ ~(Cardinality(TokensOf(req[s].user)) >= TokenLimit)
                 /\ req'[s].user = req[s].user
<1> DEFINE full == Cardinality(TokensOf(req[s].user)) >= TokenLimit
<1>1. /\ req \in [Slots -> Request] /\ req[s] \in Request /\ UNCHANGED token
      /\ At(s, {"mint"}, "sent")
      /\ req' = IF full THEN Answer(s, "refused") ELSE Step(s, "counted")
  BY DEF TypeInv, TypeOK, TokensCounted
<1>2. TablesOK'
  BY Unwritten DEF TokensCounted
<1> HIDE DEF full
<1>3. CASE full
  BY <1>1, <1>2, <1>3, AnswerServed, AnsweredFields
<1>4. CASE ~full
  <2>1. Served(s) /\ req'[s] = [req[s] EXCEPT !.pc = "counted"]
    BY <1>1, <1>4, StepServed
  <2>2. req'[s].user = req[s].user
    BY <1>1, <2>1 DEF Request
  <2> QED BY <1>1, <1>2, <1>4, <2>1, <2>2 DEF full
<1> QED BY <1>3, <1>4

LEMMA TokenInsertedServed ==
    ASSUME TypeInv, TablesOK, NEW s \in Slots, TokenInserted(s)
    PROVE  /\ Served(s) /\ TablesOK' /\ At(s, {"mint"}, "counted") /\ req'[s].pc = "answered"
           /\ \E k \in TokenIds :
                token' = [token EXCEPT ![k] = [state |-> "live", user |-> req[s].user]]
<1>1. /\ req \in [Slots -> Request] /\ req[s] \in Request /\ req' = Answer(s, "ok")
      /\ At(s, {"mint"}, "counted")
      /\ UNCHANGED <<admins, factorVars, ticketVars, moneyVars>>
  BY DEF TypeInv, TypeOK, TokenInserted
<1>2. PICK k \in TokenIds :
         token' = [token EXCEPT ![k] = [state |-> "live", user |-> req[s].user]]
  BY DEF TokenInserted
<1>3. [state |-> "live", user |-> req[s].user] \in Token
  BY <1>1 DEF Token, Request
<1>4. TablesOK'
  BY <1>1, <1>2, <1>3 DEF TablesOK, factorVars, ticketVars, moneyVars
<1>5. Served(s) /\ req'[s].pc = "answered"
  BY <1>1, AnswerServed, AnsweredFields
<1> QED BY <1>1, <1>2, <1>4, <1>5

LEMMA TokenRevokedServed ==
    ASSUME TypeInv, TablesOK, NEW s \in Slots, TokenRevoked(s)
    PROVE  /\ Served(s) /\ TablesOK' /\ req[s].op = "revoke"
           /\ \A u : TokensOf(u)' \subseteq TokensOf(u)
<1>1. /\ req \in [Slots -> Request] /\ req[s].op = "revoke"
      /\ req' = Answer(s, "ok") \/ req' = Answer(s, "refused")
      /\ UNCHANGED <<admins, factorVars, ticketVars, moneyVars>>
      /\ token' \in {token, [token EXCEPT ![req[s].arg].state = "revoked"]}
  BY DEF TypeInv, TypeOK, TokenRevoked, At
<1>2. TablesOK'
  BY <1>1 DEF TablesOK, Token, factorVars, ticketVars, moneyVars
<1>3. \A k \in TokenIds : token'[k].state = "live" => token'[k] = token[k]
  BY <1>1 DEF TablesOK, Token
<1>4. \A u : TokensOf(u)' \subseteq TokensOf(u)
  BY <1>3 DEF TokensOf
<1> QED BY <1>1, <1>2, <1>4, AnswerServed

LEMMA ToggledServed ==
    ASSUME TypeInv, TablesOK, NEW s \in Slots, Toggled(s)
    PROVE  /\ Served(s) /\ TablesOK' /\ At(s, {"toggle"}, "authed") /\ req'[s].pc = "answered"
           /\ admins' \in {admins, admins \cup {req[s].arg}, admins \ {req[s].arg}}
           /\ admins' # admins => req[s].arg # req[s].user
<1>1. /\ req \in [Slots -> Request] /\ req[s] \in Request /\ req[s].arg \in Users
      /\ At(s, {"toggle"}, "authed")
      /\ UNCHANGED <<factorVars, token, ticketVars, moneyVars>>
  BY DEF TypeInv, TypeOK, Toggled, At, ReqsOK, ArgOK
<1>2. req' = Answer(s, "ok") \/ req' = Answer(s, "refused")
  BY DEF Toggled
<1>3. /\ admins' \in {admins, admins \cup {req[s].arg}, admins \ {req[s].arg}}
      /\ admins' # admins => req[s].arg # req[s].user
  BY DEF Toggled
<1>4. TablesOK'
  BY <1>1, <1>3 DEF TablesOK, factorVars, ticketVars, moneyVars
<1> QED BY <1>1, <1>2, <1>3, <1>4, AnswerServed, AnsweredFields

LEMMA CodeCountedServed ==
    ASSUME TypeInv, TablesOK, NEW s \in Slots, CodeCounted(s)
    PROVE  Served(s) /\ TablesOK'
<1>1. req \in [Slots -> Request] /\ TablesOK'
  BY Unwritten DEF TypeInv, TypeOK, CodeCounted
<1>2. req' = Answer(s, "refused") \/ req' = Step(s, "checked")
  BY DEF CodeCounted
<1> QED BY <1>1, <1>2, AnswerServed, StepServed

LEMMA CodeInsertedServed ==
    ASSUME TypeInv, TablesOK, NEW s \in Slots, CodeInserted(s)
    PROVE  /\ Served(s) /\ TablesOK' /\ UNCHANGED party
           /\ \A c \in Codes : currency[c].live => currency'[c].live
<1> DEFINE c == req[s].arg
<1>1. /\ req \in [Slots -> Request] /\ c \in Codes
      /\ UNCHANGED <<admins, factorVars, token, ticketVars, party>>
  BY DEF TypeInv, TypeOK, CodeInserted, At, ReqsOK, ArgOK
<1>2. currency' \in {currency, [currency EXCEPT ![c] = [id |-> currency[c].id + 1, live |-> TRUE]]}
  BY DEF CodeInserted
<1>3. [id |-> currency[c].id + 1, live |-> TRUE] \in Currency
  BY <1>1 DEF TablesOK, Currency
<1>4. currency' \in [Codes -> Currency]
  BY <1>1, <1>2, <1>3 DEF TablesOK
<1>5. \A e \in Codes : currency[e].live => currency'[e].live
  BY <1>1, <1>2 DEF TablesOK
<1>6. TablesOK'
  BY <1>1, <1>4 DEF TablesOK, factorVars, ticketVars
<1>7. req' = Answer(s, "ok") \/ req' = Answer(s, "refused")
  BY DEF CodeInserted
<1> QED BY <1>1, <1>5, <1>6, <1>7, AnswerServed

LEMMA RowReadServed ==
    ASSUME TypeInv, TablesOK, NEW s \in Slots, RowRead(s)
    PROVE  Served(s) /\ TablesOK' /\ UNCHANGED moneyVars /\ req'[s].pc \in {"answered", "checked"}
<1> DEFINE c == req[s].arg
           found == currency[c].live /\ c \notin DefaultCodes
<1>1. req \in [Slots -> Request] /\ req[s] \in Request /\ c \in Codes /\ UNCHANGED moneyVars
  BY DEF TypeInv, TypeOK, RowRead, At, ReqsOK, ArgOK
<1>2. TablesOK'
  BY Unwritten DEF RowRead
<1>3. CASE ~found
  <2>1. req' = Answer(s, "refused")
    BY <1>3 DEF RowRead
  <2> QED BY <1>1, <1>2, <2>1, AnswerServed, AnsweredFields
<1>4. CASE found
  <2> DEFINE a == [req[s] EXCEPT !.pc = "checked"]
             n == currency[c].id
             d == [a EXCEPT !.row = n]
  <2>1. a \in Request
    BY <1>1, RequestFields
  <2>2. Step(s, "checked") = [req EXCEPT ![s] = a]
    BY StepIs
  <2>3. /\ a.op = req[s].op /\ a.tab = req[s].tab /\ a.mounted = req[s].mounted
        /\ a.arg = req[s].arg /\ a.pc = "checked"
    BY <1>1 DEF Request
  <2>4. n \in Nat
    BY <1>1 DEF TablesOK, Currency
  <2>5. req' = [Step(s, "checked") EXCEPT ![s].row = n]
    BY <1>4 DEF RowRead
  <2> HIDE DEF a, n
  <2>6. d \in Request
    BY <2>1, <2>4, RequestFields
  <2>7. req' = [req EXCEPT ![s] = d]
    BY <1>1, <2>2, <2>5
  <2>8. Kept(d, req[s]) /\ d.pc = "checked"
    BY <2>1, <2>3, <2>6 DEF Kept, Request
  <2>9. Served(s) /\ req'[s] = d
    BY <1>1, <2>7, <2>8, ServedBy
  <2> QED BY <1>1, <1>2, <2>8, <2>9
<1> QED BY <1>3, <1>4

LEMMA PartiesCountedServed ==
    ASSUME TypeInv, TablesOK, NEW s \in Slots, PartiesCounted(s)
    PROVE  /\ Served(s) /\ TablesOK' /\ UNCHANGED moneyVars /\ req[s].op = "del"
           /\ \/ req'[s].pc = "answered"
              \/ Supporting(req'[s].arg) = {}
<1>1. /\ req \in [Slots -> Request] /\ req[s] \in Request /\ req[s].op = "del"
      /\ UNCHANGED moneyVars
  BY DEF TypeInv, TypeOK, PartiesCounted, At
<1>2. TablesOK'
  BY Unwritten DEF PartiesCounted
<1>3. CASE Supporting(req[s].arg) # {}
  <2>1. req' = Answer(s, "refused")
    BY <1>3 DEF PartiesCounted
  <2> QED BY <1>1, <1>2, <2>1, AnswerServed, AnsweredFields
<1>4. CASE Supporting(req[s].arg) = {}
  <2>1. req' = Step(s, "counted")
    BY <1>4 DEF PartiesCounted
  <2>2. Served(s) /\ req'[s] = [req[s] EXCEPT !.pc = "counted"]
    BY <1>1, <2>1, StepServed
  <2>3. req'[s].arg = req[s].arg
    BY <1>1, <2>2 DEF Request
  <2> QED BY <1>1, <1>2, <1>4, <2>2, <2>3
<1> QED BY <1>3, <1>4

LEMMA RowDeletedServed ==
    ASSUME TypeInv, TablesOK, NEW s \in Slots, RowDeleted(s)
    PROVE  /\ Served(s) /\ TablesOK' /\ UNCHANGED party
           /\ At(s, {"del"}, "counted") /\ req'[s].pc = "answered"
           /\ \A c \in Codes : c # req[s].arg => currency'[c] = currency[c]
<1> DEFINE c == req[s].arg
<1>1. /\ req \in [Slots -> Request] /\ req[s] \in Request /\ At(s, {"del"}, "counted")
      /\ UNCHANGED <<admins, factorVars, token, ticketVars, party>>
      /\ req' = Answer(s, "ok")
  BY DEF TypeInv, TypeOK, RowDeleted
<1>2. currency' \in {currency, [currency EXCEPT ![c].live = FALSE]}
  BY DEF RowDeleted
<1>3. /\ currency' \in [Codes -> Currency]
      /\ \A e \in Codes : e # c => currency'[e] = currency[e]
  BY <1>2 DEF TablesOK, Currency
<1>4. TablesOK'
  BY <1>1, <1>3 DEF TablesOK, factorVars, ticketVars
<1> QED BY <1>1, <1>3, <1>4, AnswerServed, AnsweredFields

LEMMA CodesCheckedServed ==
    ASSUME TypeInv, TablesOK, NEW s \in Slots, CodesChecked(s)
    PROVE  Served(s) /\ TablesOK'
<1>1. req \in [Slots -> Request] /\ TablesOK'
  BY Unwritten DEF TypeInv, TypeOK, CodesChecked
<1>2. req' = Answer(s, "refused") \/ req' = Step(s, "checked")
  BY DEF CodesChecked
<1> QED BY <1>1, <1>2, AnswerServed, StepServed

(* A party that gets a currency makes its counted deletions late.          *)
LEMMA PartyWrittenServed ==
    ASSUME TypeInv, TablesOK, NEW s \in Slots, PartyWritten(s)
    PROVE  /\ Served(s) /\ TablesOK' /\ UNCHANGED currency /\ req[s].op = "party"
           /\ \A r \in Slots \ {s} : At(r, {"del"}, "counted") =>
                 req'[r].late \/ Supporting(req[r].arg)' \subseteq Supporting(req[r].arg)
<1> DEFINE c == req[s]
<1>1. /\ req \in [Slots -> Request] /\ c \in Request /\ c.op = "party"
      /\ UNCHANGED <<admins, factorVars, token, ticketVars, currency>>
  BY DEF TypeInv, TypeOK, PartyWritten, At
<1>2. PICK b \in c.codes : party' = [party EXCEPT ![c.arg] = [base |-> b, codes |-> c.codes]]
  BY DEF PartyWritten
<1>3. [base |-> b, codes |-> c.codes] \in Party
  BY <1>1 DEF Party, Request
<1>4. TablesOK'
  BY <1>1, <1>2, <1>3 DEF TablesOK, factorVars, ticketVars
<1>5. \A e : e \notin c.codes => Supporting(e)' \subseteq Supporting(e)
  BY <1>2 DEF Supporting, TablesOK, Party
<1> DEFINE a == Answered(c, "ok")
<1>6. a = [c EXCEPT !.pc = "answered", !.status = "ok"]
  BY DEF Answered
<1>7. Kept(a, c)
  BY <1>1, AnsweredFields DEF Kept
<1> DEFINE overtaken(r) == req[r].op = "del" /\ req[r].pc = "counted" /\ req[r].arg \in c.codes
<1>8. req' = [r \in Slots |-> IF r = s THEN a
                              ELSE IF overtaken(r) THEN [req[r] EXCEPT !.late = TRUE] ELSE req[r]]
  BY <1>6 DEF PartyWritten
<1> HIDE DEF a
<1>9. ASSUME NEW r \in Slots \ {s} PROVE Kept(req'[r], req[r]) /\ Waited(req'[r], req[r])
  <2> DEFINE x == req[r]
             y == [x EXCEPT !.late = TRUE]
  <2>1. x \in Request /\ y \in Request
    BY <1>1, RequestFields
  <2>2. req'[r] \in {x, y}
    BY <1>8
  <2>3. /\ y.pc = x.pc /\ y.op = x.op /\ y.tab = x.tab /\ y.mounted = x.mounted
        /\ y.arg = x.arg /\ y.user = x.user /\ y.late /\ y.blind = x.blind
    BY <2>1 DEF Request
  <2> HIDE DEF x, y
  <2>4. Kept(x, x) /\ Waited(x, x) /\ Kept(y, x) /\ Waited(y, x)
    BY <2>1, <2>3 DEF Kept, Waited
  <2>5. CASE req'[r] = x
    BY <2>4, <2>5 DEF x
  <2>6. CASE req'[r] = y
    BY <2>4, <2>6 DEF x
  <2> QED BY <2>2, <2>5, <2>6
<1>10. req'[s] = a /\ DOMAIN req' = Slots /\ req' = [r \in Slots |-> req'[r]]
  BY <1>8
<1>11. \A r \in Slots : Kept(req'[r], req[r])
  BY <1>7, <1>9, <1>10
<1>12. Served(s)
  BY <1>9, <1>10, <1>11 DEF Served, Kept
<1>13. ASSUME NEW r \in Slots \ {s}, At(r, {"del"}, "counted")
       PROVE  req'[r].late \/ Supporting(req[r].arg)' \subseteq Supporting(req[r].arg)
  <2>1. CASE req[r].arg \in c.codes
    BY <1>1, <1>8, <1>13, <2>1 DEF At, Request
  <2>2. CASE req[r].arg \notin c.codes
    <3>1. req'[r].arg = req[r].arg
      BY <1>9 DEF Waited
    <3>2. \A e : e \notin c.codes => {p \in Parties : e \in party'[p].codes} \subseteq Supporting(e)
      BY <1>5 DEF Supporting
    <3> QED BY <2>2, <3>1, <3>2 DEF Supporting
  <2> QED BY <2>1, <2>2
<1> QED BY <1>1, <1>4, <1>12, <1>13
-----------------------------------------------------------------------------
(* Statements that fail.                                                   *)

\* A device that is not live becomes one that is not live.
DevicesAlike ==
    \A d \in DeviceIds :
        \/ device'[d] = device[d]
        \/ device[d].state # "live" /\ device'[d].state # "live"

(* What a request that is no read goes on with after a failure.            *)
Stumbled(s) ==
    /\ Served(s) /\ TablesOK'
    /\ UNCHANGED <<admins, token, signins, moneyVars>> /\ DevicesAlike
    /\ \A k \in TicketIds : ticket'[k] = ticket[k] \/ ticket'[k].state = "gone"
    /\ req[s].pc \in {"sent", "authed", "checked", "counted"}
    /\ req'[s].user = req[s].user
    /\ \/ req'[s].pc = "answered" /\ req'[s].status \in {"ok", "refused"}
       \/ req[s].op = "add" /\ req'[s].pc = "checked"
       \/ req[s].op = "del" /\ req'[s].pc = "counted" /\ req'[s].blind

LEMMA PlainStumble ==
    ASSUME TypeInv, TablesOK, NEW s \in Slots, NEW x \in {"ok", "refused"}, req' = Answer(s, x),
           req[s].pc \in {"sent", "authed", "checked", "counted"},
           UNCHANGED <<admins, factorVars, token, ticketVars, moneyVars>>
    PROVE  Stumbled(s)
<1>1. req \in [Slots -> Request] /\ req[s] \in Request
  BY DEF TypeInv, TypeOK
<1>2. Served(s) /\ req'[s] = Answered(req[s], x)
  BY <1>1, AnswerServed
<1>3. req'[s].pc = "answered" /\ req'[s].status = x /\ req'[s].user = req[s].user
  BY <1>1, <1>2, AnsweredFields
<1>4. TablesOK'
  BY Unwritten
<1>5. DevicesAlike
  BY DEF DevicesAlike, factorVars
<1> QED BY <1>2, <1>3, <1>4, <1>5 DEF Stumbled, ticketVars

LEMMA TicketWastedStumbles ==
    ASSUME TypeInv, TablesOK, NEW s \in Slots, TicketWasted(s)
    PROVE  Stumbled(s)
<1> DEFINE k == req[s].arg
<1>1. /\ req \in [Slots -> Request] /\ req[s] \in Request /\ k \in TicketIds
      /\ req[s].pc = "counted" /\ req' = Answer(s, "refused")
      /\ UNCHANGED <<admins, factorVars, token, signins, moneyVars>>
      /\ ticket' = [ticket EXCEPT ![k].state = "gone"]
  BY DEF TypeInv, TypeOK, TicketWasted, At, ReqsOK, ArgOK
<1>2. Served(s) /\ req'[s] = Answered(req[s], "refused")
  BY <1>1, AnswerServed
<1>3. req'[s].pc = "answered" /\ req'[s].status = "refused" /\ req'[s].user = req[s].user
  BY <1>1, <1>2, AnsweredFields
<1>4. /\ ticket' \in [TicketIds -> Ticket]
      /\ \A j \in TicketIds : ticket'[j] = ticket[j] \/ ticket'[j].state = "gone"
  BY <1>1 DEF TablesOK, Ticket
<1>5. TablesOK'
  BY <1>1, <1>4 DEF TablesOK, factorVars, moneyVars
<1>6. DevicesAlike
  BY <1>1 DEF DevicesAlike, factorVars
<1> QED BY <1>1, <1>2, <1>3, <1>4, <1>5, <1>6 DEF Stumbled

LEMMA ChallengeUncountedStumbles ==
    ASSUME TypeInv, TablesOK, NEW s \in Slots, ChallengeUncounted(s)
    PROVE  Stumbled(s)
<1> DEFINE c == req[s]
<1>1. /\ req \in [Slots -> Request] /\ c \in Request /\ c.op = "enrol" /\ c.pc = "sent"
      /\ UNCHANGED <<admins, token, ticketVars, moneyVars>>
  BY DEF TypeInv, TypeOK, ChallengeUncounted, At
<1>2. PICK e \in DeviceIds :
         /\ IsNext(device, e)
         /\ device' = [device EXCEPT ![e] = [state |-> "offered", user |-> c.user, kind |-> "totp"]]
         /\ req' = [Answer(s, "ok") EXCEPT ![s].arg = e]
  BY DEF ChallengeUncounted
<1>3. [state |-> "offered", user |-> c.user, kind |-> "totp"] \in Device
  BY <1>1 DEF Device, Request, Kinds
<1>4. TablesOK'
  BY <1>1, <1>2, <1>3 DEF TablesOK, ticketVars, moneyVars
<1>5. DevicesAlike
  BY <1>2 DEF DevicesAlike, IsNext, TablesOK
<1> DEFINE a == Answered(c, "ok")
           d == [a EXCEPT !.arg = e]
<1>6. /\ a \in Request /\ a.op = c.op /\ a.tab = c.tab /\ a.mounted = c.mounted /\ e \in Args
      /\ a.pc = "answered" /\ a.status = "ok" /\ a.user = c.user
  BY <1>1, AnsweredFields DEF Args
<1>7. Answer(s, "ok") = [req EXCEPT ![s] = a]
  BY <1>1, AnswerIs
<1> HIDE DEF a
<1>8. d \in Request
  BY <1>6, RequestFields
<1>9. req' = [req EXCEPT ![s] = d]
  BY <1>1, <1>2, <1>7
<1>10. Kept(d, c) /\ d.pc = "answered" /\ d.status = "ok" /\ d.user = c.user
  BY <1>1, <1>6, <1>8 DEF Kept, Request
<1> HIDE DEF d
<1>11. Served(s) /\ req'[s] = d
  BY <1>1, <1>9, <1>10, ServedBy
<1> QED BY <1>1, <1>4, <1>5, <1>10, <1>11 DEF Stumbled, ticketVars

LEMMA CodeUncountedStumbles ==
    ASSUME TypeInv, TablesOK, NEW s \in Slots, CodeUncounted(s)
    PROVE  Stumbled(s)
<1> DEFINE c == req[s]
<1>1. /\ req \in [Slots -> Request] /\ c \in Request
      /\ UNCHANGED <<admins, factorVars, token, ticketVars, moneyVars>>
  BY DEF TypeInv, TypeOK, CodeUncounted
<1>2. TablesOK' /\ DevicesAlike
  BY <1>1, Unwritten DEF DevicesAlike, factorVars
<1>3. CASE At(s, {"add"}, "authed") /\ req' = Step(s, "checked")
  <2>1. Served(s) /\ req'[s] = [c EXCEPT !.pc = "checked"]
    BY <1>1, <1>3, StepServed
  <2>2. req'[s].pc = "checked" /\ req'[s].user = c.user
    BY <1>1, <2>1 DEF Request
  <2> QED BY <1>1, <1>2, <1>3, <2>1, <2>2 DEF Stumbled, ticketVars, At
<1>4. CASE At(s, {"del"}, "checked") /\ req' = [Step(s, "counted") EXCEPT ![s].blind = TRUE]
  <2> DEFINE a == [c EXCEPT !.pc = "counted"]
             d == [a EXCEPT !.blind = TRUE]
  <2>1. a \in Request
    BY <1>1, RequestFields
  <2>2. /\ a.pc = "counted" /\ a.op = c.op /\ a.tab = c.tab /\ a.mounted = c.mounted
        /\ a.arg = c.arg /\ a.user = c.user
    BY <1>1 DEF Request
  <2>3. Step(s, "counted") = [req EXCEPT ![s] = a]
    BY StepIs
  <2> HIDE DEF a
  <2>4. d \in Request
    BY <2>1, RequestFields
  <2>5. req' = [req EXCEPT ![s] = d]
    BY <1>1, <1>4, <2>3
  <2>6. Kept(d, c) /\ d.pc = "counted" /\ d.blind /\ d.user = c.user
    BY <2>1, <2>2, <2>4 DEF Kept, Request
  <2> HIDE DEF d
  <2>7. Served(s) /\ req'[s] = d
    BY <1>1, <2>5, <2>6, ServedBy
  <2> QED BY <1>1, <1>2, <1>4, <2>6, <2>7 DEF Stumbled, ticketVars, At
<1> QED BY <1>3, <1>4 DEF CodeUncounted

LEMMA WriteFailsStumbles ==
    ASSUME TypeInv, NEW s \in Slots, WriteFails(s)
    PROVE  Stumbled(s) /\ req[s].op \notin Reads
<1>1. TablesOK
  BY DEF TypeInv, TypeOK, TablesOK
<1>2. ASSUME FailureSeen(s) \/ NoMethodsRead(s) PROVE Stumbled(s)
  <2>1. /\ req[s].pc \in {"sent", "authed", "checked", "counted"}
        /\ UNCHANGED <<admins, factorVars, token, ticketVars, moneyVars>>
        /\ req' = Answer(s, "refused") \/ req' = Answer(s, "ok")
    BY <1>2 DEF FailureSeen, NoMethodsRead, At
  <2>2. \A x \in {"ok", "refused"} : req' = Answer(s, x) => Stumbled(s)
    BY <1>1, <2>1, PlainStumble
  <2> QED BY <2>1, <2>2
<1> QED BY <1>1, <1>2, TicketWastedStumbles, ChallengeUncountedStumbles,
           CodeUncountedStumbles DEF WriteFails

-----------------------------------------------------------------------------
(* A step of a tab: requests are made and dropped, none goes on at the     *)
(* server.                                                                 *)

Light(d, c) ==
    \/ d.pc \in {"idle", "asked", "sent", "answered"}
    \/ /\ d.pc = c.pc /\ d.op = c.op /\ d.arg = c.arg /\ d.user = c.user
       /\ d.late = c.late /\ d.blind = c.blind

CallsOK(calls, tabs) ==
    /\ calls \in [Slots -> Request]
    /\ ReqsOK(calls, tabs)
    /\ \A r \in Slots : Light(calls[r], req[r])

TabsOK(tabs) ==
    /\ tabs \in [Tabs -> Tab]
    /\ \A t \in Tabs : tabs[t].loading => Loads(tabs[t])
    /\ MfaOK(tabs)

TabStep == CallsOK(req', tab') /\ TabsOK(tab')

LEMMA TypeInvParts ==
    ASSUME TypeInv
    PROVE  TablesOK /\ CallsOK(req, tab) /\ TabsOK(tab)
BY DEF TypeInv, TypeOK, TablesOK, CallsOK, TabsOK, Light

LEMMA IdleOK ==
    ASSUME NEW tabs
    PROVE  Idle.op = "none" /\ Idle.pc = "idle" /\ ArgOK(Idle) /\ OwnerOK(Idle, tabs)
BY DEF Idle, ArgOK, OwnerOK, Reads, AdminReads, SignIns, PageOps, Enrolments, AdminWrites

LEMMA PutOK ==
    ASSUME NEW calls, NEW tabs, CallsOK(calls, tabs), Room(calls), NEW c \in Request,
           ArgOK(c), OwnerOK(c, tabs), c.pc \in {"asked", "sent"}
    PROVE  CallsOK(Put(calls, c), tabs)
<1> DEFINE s == CHOOSE s \in Slots : calls[s].pc = "idle"
<1>1. s \in Slots
  BY DEF Room
<1>2. Put(calls, c) = [calls EXCEPT ![s] = c]
  BY DEF Put
<1> HIDE DEF s
<1>3. /\ Put(calls, c) \in [Slots -> Request] /\ Put(calls, c)[s] = c
      /\ \A r \in Slots \ {s} : Put(calls, c)[r] = calls[r]
  BY <1>1, <1>2 DEF CallsOK
<1>4. Light(c, req[s])
  BY DEF Light
<1> QED BY <1>1, <1>3, <1>4 DEF CallsOK, ReqsOK

LEMMA SetOK ==
    ASSUME TypeInv, NEW s \in Slots, NEW c \in Request, ArgOK(c), OwnerOK(c, tab),
           c.pc \in {"idle", "asked", "sent", "answered"}
    PROVE  CallsOK([req EXCEPT ![s] = c], tab)
<1> DEFINE calls == [req EXCEPT ![s] = c]
<1>1. CallsOK(req, tab)
  BY TypeInvParts
<1>2. /\ calls \in [Slots -> Request] /\ calls[s] = c
      /\ \A r \in Slots \ {s} : calls[r] = req[r]
  BY <1>1 DEF CallsOK
<1>3. Light(c, req[s])
  BY DEF Light
<1> HIDE DEF calls
<1>4. CallsOK(calls, tab)
  BY <1>1, <1>2, <1>3 DEF CallsOK, ReqsOK
<1> QED BY <1>4 DEF calls

LEMMA DropOK ==
    ASSUME TypeInv, NEW s \in Slots
    PROVE  CallsOK(Drop(s), tab)
BY SetOK, IdleOK, IdleType DEF Drop

LEMMA UnmountOK ==
    ASSUME NEW calls, NEW tabs, CallsOK(calls, tabs), TabsOK(tabs), NEW t \in Tabs, NEW x \in Tab
    PROVE  CallsOK(Unmount(calls, t), [tabs EXCEPT ![t] = x])
<1> DEFINE u == Unmount(calls, t)
           tabs2 == [tabs EXCEPT ![t] = x]
<1>1. \A e \in Tabs : e # t => tabs2[e] = tabs[e]
  BY DEF TabsOK
<1>2. ASSUME NEW s \in Slots
      PROVE  /\ u[s] \in Request /\ ArgOK(u[s]) /\ OwnerOK(u[s], tabs2) /\ Light(u[s], req[s])
  <2> DEFINE c == calls[s]
             d == [c EXCEPT !.mounted = FALSE]
  <2>1. c \in Request /\ ArgOK(c) /\ OwnerOK(c, tabs) /\ Light(c, req[s])
    BY DEF CallsOK, ReqsOK
  <2>2. d \in Request
    BY <2>1, RequestFields
  <2>3. /\ d.op = c.op /\ d.arg = c.arg /\ d.tab = c.tab /\ ~d.mounted
        /\ d.pc = c.pc /\ d.user = c.user /\ d.late = c.late /\ d.blind = c.blind
    BY <2>1 DEF Request
  <2>4. \/ c.tab # t /\ u[s] = c
        \/ u[s] = Idle
        \/ u[s] = d
    BY DEF Unmount
  <2> HIDE DEF c, d, u, tabs2
  <2>5. CASE c.tab # t /\ u[s] = c
    BY <1>1, <2>1, <2>5 DEF OwnerOK
  <2>6. CASE u[s] = Idle
    BY <2>6, IdleOK, IdleType DEF Light
  <2>7. CASE u[s] = d
    <3>1. ArgOK(d)
      BY <2>1, <2>3 DEF ArgOK
    <3>2. OwnerOK(d, tabs2)
      BY <2>1, <2>3 DEF OwnerOK
    <3>3. Light(d, req[s])
      BY <2>1, <2>3 DEF Light
    <3> QED BY <2>2, <2>7, <3>1, <3>2, <3>3
  <2> QED BY <2>4, <2>5, <2>6, <2>7
<1>3. u = [s \in Slots |-> u[s]]
  BY DEF Unmount
<1> QED BY <1>2, <1>3 DEF CallsOK, ReqsOK

LEMMA LoadOfOK ==
    ASSUME NEW t \in Tabs, NEW x \in Tab, Loads(x), NEW tabs
    PROVE  /\ LoadOf(t, x) \in Request /\ ArgOK(LoadOf(t, x)) /\ OwnerOK(LoadOf(t, x), tabs)
           /\ LoadOf(t, x).pc = "sent" /\ LoadOf(t, x).op \in Reads /\ LoadOf(t, x).tab = t
           /\ LoadOf(t, x).view = NoView
<1>1. x.page \in Reads /\ x.user \in Users \cup {None}
  BY DEF Loads, Reads, AdminReads, AdminPages, Tab
<1> DEFINE l == LoadOf(t, x)
           l1 == [Idle EXCEPT !.pc = "sent"]
           l2 == [l1 EXCEPT !.op = x.page]
           l3 == [l2 EXCEPT !.tab = t]
           l4 == [l3 EXCEPT !.user = x.user]
           l5 == [l4 EXCEPT !.mounted = TRUE]
<1>2. /\ l = l5
      /\ Idle.op = "none" /\ Idle.view = NoView /\ Idle \in Request
  BY IdleType DEF LoadOf, Idle
<1>3. /\ l \in Request /\ l.pc = "sent" /\ l.op = x.page /\ l.tab = t /\ l.view = NoView
  <2>1. x.page \in Private \cup SignIns \cup {"none"}
    BY <1>1 DEF Private
  <2>2. l1 \in Request /\ l1.pc = "sent" /\ l1.view = NoView
    <3>1. l1 \in Request
      BY <1>2, RequestFields
    <3> QED BY <1>2, <3>1 DEF Request
  <2> HIDE DEF l1
  <2>3. l2 \in Request /\ l2.op = x.page /\ l2.pc = "sent" /\ l2.view = NoView
    <3>1. l2 \in Request
      BY <2>1, <2>2, RequestFields
    <3> QED BY <2>1, <2>2, <3>1 DEF Request
  <2> HIDE DEF l2
  <2>4. l3 \in Request /\ l3.tab = t /\ l3.op = x.page /\ l3.pc = "sent" /\ l3.view = NoView
    <3>1. l3 \in Request
      BY <2>3, RequestFields
    <3> QED BY <2>3, <3>1 DEF Request
  <2> HIDE DEF l3
  <2>5. l4 \in Request /\ l4.tab = t /\ l4.op = x.page /\ l4.pc = "sent" /\ l4.view = NoView
    <3>1. l4 \in Request
      BY <1>1, <2>4, RequestFields
    <3> QED BY <1>1, <2>4, <3>1 DEF Request
  <2> HIDE DEF l4
  <2>6. l5 \in Request /\ l5.tab = t /\ l5.op = x.page /\ l5.pc = "sent" /\ l5.view = NoView
    <3>1. l5 \in Request
      BY <2>5, RequestFields
    <3> QED BY <2>5, <3>1 DEF Request
  <2> HIDE DEF l5
  <2> QED BY <1>2, <2>6
<1> HIDE DEF l, l1, l2, l3, l4, l5
<1>4. ArgOK(l) /\ OwnerOK(l, tabs)
  BY <1>1, <1>3 DEF ArgOK, OwnerOK, PageOps, Reads, AdminReads, Enrolments, AdminWrites
<1> QED BY <1>1, <1>3, <1>4 DEF l

\* Whether a tab loads is a matter of its page and its is_admin.
LEMMA SamePage ==
    ASSUME NEW calls, NEW tabs, NEW t \in Tabs, NEW x \in Tab, NEW y \in Tab,
           tabs \in [Tabs -> Tab],
           Loads(x) => Loads(y), CallsOK(calls, [tabs EXCEPT ![t] = x])
    PROVE  CallsOK(calls, [tabs EXCEPT ![t] = y])
<1> DEFINE a == [tabs EXCEPT ![t] = x]
           b == [tabs EXCEPT ![t] = y]
<1>1. \A e \in Tabs : Loads(a[e]) => Loads(b[e])
  OBVIOUS
<1>2. CallsOK(calls, a)
  OBVIOUS
<1> HIDE DEF a, b
<1>3. CallsOK(calls, b)
  BY <1>1, <1>2 DEF CallsOK, ReqsOK, OwnerOK
<1> QED BY <1>3 DEF b

LEMMA LoadOK ==
    ASSUME NEW calls, NEW t \in Tabs, NEW x \in Tab, Loads(x), TabsOK(tab),
           CallsOK(calls, [tab EXCEPT ![t] = x]), Load(calls, t, x)
    PROVE  TabStep
<1> DEFINE l == x.loading \/ x.page = "profile"
           m == x.calm /\ ~InFlight(calls, t)
           y == [[x EXCEPT !.loading = l] EXCEPT !.calm = m]
<1>1. tab' = [tab EXCEPT ![t] = y] /\ req' = Put(calls, LoadOf(t, x)) /\ Room(calls)
  BY DEF Load
<1>2. l \in BOOLEAN /\ m \in BOOLEAN
  BY DEF Tab
<1> HIDE DEF l, m
<1>3. y \in Tab /\ y.page = x.page /\ y.admin = x.admin /\ y.ticket = x.ticket
  BY <1>2 DEF Tab
<1> HIDE DEF y
<1>4. Loads(y) /\ y.page # "mfa"
  BY <1>3 DEF Loads, AdminPages
<1>5. CallsOK(calls, tab')
  BY <1>1, <1>3, <1>4, SamePage DEF TabsOK
<1>6. CallsOK(req', tab')
  BY <1>1, <1>5, LoadOfOK, PutOK
<1>7. TabsOK(tab')
  BY <1>1, <1>3, <1>4 DEF TabsOK, MfaOK
<1> QED BY <1>6, <1>7 DEF TabStep

LEMMA FreshOK ==
    ASSUME NEW x \in Tab
    PROVE  /\ Fresh(x) \in Tab /\ Fresh(x).page = x.page /\ Fresh(x).ticket = x.ticket
           /\ Loads(Fresh(x)) <=> Loads(x)
           /\ Fresh(x).loading <=> Loads(x)
           /\ Fresh(x).user = x.user
<1> DEFINE b == Loads(x)
           y1 == [x EXCEPT !.loading = b]
           y2 == [y1 EXCEPT !.view = NoView]
           y3 == [y2 EXCEPT !.challenge = None]
           y4 == [y3 EXCEPT !.calm = TRUE]
           same(y) == y \in Tab /\ y.page = x.page /\ y.ticket = x.ticket /\ y.user = x.user
                      /\ y.admin = x.admin /\ y.loading = b
<1>1. b \in BOOLEAN
  BY DEF Loads, AdminPages, Tab
<1>2. Fresh(x) = y4
  BY DEF Fresh
<1> HIDE DEF b
<1>3. same(y1)
  BY <1>1, TabFields DEF Tab
<1> HIDE DEF y1
<1>4. same(y2)
  BY <1>3, TabFields, ViewType DEF Tab
<1> HIDE DEF y2
<1>5. same(y3)
  BY <1>4, TabFields DEF Tab
<1> HIDE DEF y3
<1>6. same(y4)
  <2>1. y4 \in Tab
    BY <1>5, TabFields
  <2> QED BY <1>5, <2>1 DEF Tab
<1> HIDE DEF y4
<1>7. Loads(y4) <=> Loads(x)
  BY <1>6 DEF Loads
<1> QED BY <1>2, <1>6, <1>7 DEF b

LEMMA OpenOK ==
    ASSUME NEW calls, CallsOK(calls, tab), TabsOK(tab), NEW t \in Tabs, NEW x \in Tab,
           x.page = "mfa" => x.ticket \in TicketIds, Open(calls, t, x)
    PROVE  TabStep
<1> DEFINE y == Fresh(x)
           u == Unmount(calls, t)
<1>1. y \in Tab /\ (Loads(y) <=> Loads(x)) /\ (y.loading <=> Loads(x))
      /\ y.page = x.page /\ y.ticket = x.ticket
  BY FreshOK
<1>2. CallsOK(u, [tab EXCEPT ![t] = y])
  BY <1>1, UnmountOK
<1>3. CASE Loads(x)
  <2>1. Load(u, t, y)
    BY <1>3 DEF Open
  <2> HIDE DEF u, y
  <2> QED BY <1>1, <1>2, <1>3, <2>1, LoadOK
<1>4. CASE ~Loads(x)
  <2>1. req' = u /\ tab' = [tab EXCEPT ![t] = y]
    BY <1>4 DEF Open
  <2> HIDE DEF u, y
  <2>2. TabsOK(tab')
    BY <1>1, <1>4, <2>1 DEF TabsOK, MfaOK
  <2> QED BY <1>2, <2>1, <2>2 DEF TabStep
<1> QED BY <1>3, <1>4
-----------------------------------------------------------------------------
(* What the pages offer.                                                   *)

OfferOK(o, x) ==
    /\ o.op \in Private \cup SignIns \cup {"none"} /\ o.op \notin Reads
    /\ o.arg \in Args /\ o.kind \in Kinds \cup {"none"} /\ o.flag \in BOOLEAN
    /\ ArgOK(o)
    /\ o.op \in PageOps => Loads(x)

LEMMA ArgsParts ==
    /\ None \in Args /\ Users \subseteq Args /\ Codes \subseteq Args /\ Parties \subseteq Args
    /\ TokenIds \subseteq Args /\ TicketIds \subseteq Args /\ DeviceIds \subseteq Args
BY DEF Args

LEMMA OffersOK ==
    ASSUME TypeInv, NEW t \in Tabs, NEW o \in Offers(t)
    PROVE  OfferOK(o, tab[t])
<1> DEFINE x == tab[t]
<1>1. TablesOK /\ TabsOK(tab) /\ x \in Tab
  BY TypeInvParts DEF TabsOK
<1>2. x.view \in View
  BY <1>1 DEF Tab
<1>3. /\ x.view.devices \in SUBSET DeviceIds /\ x.view.tokens \in SUBSET TokenIds
      /\ x.view.codes \in SUBSET Codes
  BY <1>2 DEF View
<1>4. \A d \in DeviceIds : device[d].kind \in Kinds \cup {"none"}
  BY <1>1 DEF TablesOK, Device
<1>5. CASE x.page = "mfa"
  <2>1. o \in MfaOffers(x)
    BY <1>5 DEF Offers
  <2>2. PICK d \in x.view.devices : o = Offer(device[d].kind, x.ticket, "none", FALSE)
    BY <2>1 DEF MfaOffers
  <2>3. x.ticket \in TicketIds
    BY <1>1, <1>5 DEF TabsOK, MfaOK
  <2>4. /\ o.op \in {"totp", "fido", "passkey", "none"} /\ o.arg = x.ticket
        /\ o.kind = "none" /\ o.flag = FALSE
    BY <1>3, <1>4, <2>2 DEF Kinds, Offer
  <2>5. o.op \in SignIns \cup {"none"} /\ o.op \notin Reads /\ o.op \notin PageOps
    BY <2>4 DEF SignIns, Reads, AdminReads, PageOps, Enrolments, AdminWrites
  <2>6. ArgOK(o)
    BY <2>3, <2>4 DEF ArgOK
  <2> QED BY <2>3, <2>4, <2>5, <2>6, ArgsParts DEF OfferOK
<1>6. CASE x.page = "profile" /\ AtRest(t)
  <2> DEFINE ops == {"enrol", "finish", "drop", "mint", "revoke"}
  <2>1. o \in FactorOffers(x) \cup DeviceOffers(x) \cup TokenOffers(x)
    BY <1>6 DEF Offers, ProfileOffers
  <2>2. o.op \in ops /\ o.arg \in Args /\ o.kind \in Kinds \cup {"none"} /\ o.flag = FALSE
        /\ (o.op = "enrol" => o.arg = None)
    <3>1. CASE o \in FactorOffers(x)
      <4>1. \/ \E k \in Kinds : o = Offer("enrol", None, k, FALSE)
            \/ x.challenge # None /\ o = Offer("finish", x.challenge, "totp", FALSE)
        BY <3>1 DEF FactorOffers
      <4>2. x.challenge \in Args
        BY <1>1, ArgsParts DEF Tab
      <4> QED BY <4>1, <4>2, ArgsParts DEF Kinds, Offer
    <3>2. CASE o \in DeviceOffers(x)
      <4>1. \E d \in x.view.devices : o = Offer("drop", d, device[d].kind, FALSE)
        BY <3>2 DEF DeviceOffers
      <4> QED BY <1>3, <1>4, <4>1, ArgsParts DEF Offer
    <3>3. CASE o \in TokenOffers(x)
      <4>1. \/ o = Offer("mint", None, "none", FALSE)
            \/ \E k \in x.view.tokens : o = Offer("revoke", k, "none", FALSE)
        BY <3>3 DEF TokenOffers
      <4> QED BY <1>3, <4>1, ArgsParts DEF Offer
    <3> QED BY <2>1, <3>1, <3>2, <3>3
  <2>3. o.op \in Private /\ o.op \notin Reads
    BY <2>2 DEF Private, Reads, AdminReads, Enrolments
  <2>4. ArgOK(o)
    BY <2>2 DEF ArgOK
  <2>5. Loads(x)
    BY <1>6 DEF AtRest
  <2> QED BY <2>2, <2>3, <2>4, <2>5 DEF OfferOK
<1>7. CASE x.page = "users" /\ AtRest(t)
  <2>1. o \in UserOffers(x)
    BY <1>7 DEF Offers
  <2>2. PICK u \in Users : o = Offer("toggle", u, "none", u \notin x.view.admins)
    BY <2>1 DEF UserOffers
  <2>3. o.op = "toggle" /\ o.arg = u /\ o.kind = "none" /\ o.flag = (u \notin x.view.admins)
    BY <2>2 DEF Offer
  <2>4. o.op \in Private /\ o.op \notin Reads
    BY <2>3 DEF Private, AdminWrites, Reads, AdminReads
  <2>5. ArgOK(o) /\ o.flag \in BOOLEAN
    BY <2>3 DEF ArgOK
  <2>6. Loads(x)
    BY <1>7 DEF AtRest
  <2> QED BY <2>3, <2>4, <2>5, <2>6, ArgsParts DEF OfferOK
<1>8. CASE x.page = "currencies" /\ AtRest(t)
  <2>1. o \in CurrencyOffers(x)
    BY <1>8 DEF Offers
  <2>2. \/ \E c \in Codes : o = Offer("add", c, "none", FALSE)
        \/ \E c \in x.view.codes : o = Offer("del", c, "none", FALSE)
    BY <2>1 DEF CurrencyOffers
  <2>3. o.op \in {"add", "del"} /\ o.arg \in Codes /\ o.kind = "none" /\ o.flag = FALSE
    BY <1>3, <2>2 DEF Offer
  <2>4. o.op \in Private /\ o.op \notin Reads
    BY <2>3 DEF Private, AdminWrites, Reads, AdminReads
  <2>5. ArgOK(o)
    BY <2>3 DEF ArgOK
  <2>6. Loads(x)
    BY <1>8 DEF AtRest
  <2> QED BY <2>3, <2>4, <2>5, <2>6, ArgsParts DEF OfferOK
<1> QED BY <1>5, <1>6, <1>7, <1>8 DEF Offers

LEMMA MadeOK ==
    ASSUME TypeInv, NEW t \in Tabs, NEW o, OfferOK(o, tab[t]), NEW pc \in {"asked", "sent"}
    PROVE  /\ Made(t, o, pc) \in Request /\ Made(t, o, pc).pc = pc
           /\ Made(t, o, pc).op = o.op /\ Made(t, o, pc).arg = o.arg /\ Made(t, o, pc).tab = t
           /\ ArgOK(Made(t, o, pc)) /\ OwnerOK(Made(t, o, pc), tab)
<1> DEFINE m1 == [Idle EXCEPT !.pc = pc]
           m2 == [m1 EXCEPT !.op = o.op]
           m3 == [m2 EXCEPT !.tab = t]
           m4 == [m3 EXCEPT !.mounted = TRUE]
           m5 == [m4 EXCEPT !.user = tab[t].user]
           m6 == [m5 EXCEPT !.arg = o.arg]
           m7 == [m6 EXCEPT !.kind = o.kind]
           m8 == [m7 EXCEPT !.flag = o.flag]
           kept(m) == m.pc = pc /\ m.op = o.op /\ m.tab = t
<1>1. /\ o.op \in Private \cup SignIns \cup {"none"} /\ o.op \notin Reads
      /\ o.arg \in Args /\ o.kind \in Kinds \cup {"none"} /\ o.flag \in BOOLEAN
      /\ ArgOK(o) /\ (o.op \in PageOps => Loads(tab[t]))
  BY DEF OfferOK
<1>2. tab[t].user \in Users \cup {None}
  BY TypeInvParts DEF TabsOK, Tab
<1>3. Made(t, o, pc) = m8
  BY DEF Made
<1>4. m1 \in Request
  BY IdleType, RequestFields
<1>5. m1.pc = pc
  BY IdleType DEF Request
<1> HIDE DEF m1
<1>6. m2 \in Request
  BY <1>1, <1>4, RequestFields
<1>7. m2.pc = pc /\ m2.op = o.op
  BY <1>4, <1>5 DEF Request
<1> HIDE DEF m2
<1>8. m3 \in Request
  BY <1>6, RequestFields
<1>9. kept(m3)
  BY <1>6, <1>7 DEF Request
<1> HIDE DEF m3
<1>10. m4 \in Request
  BY <1>8, RequestFields
<1>11. kept(m4)
  BY <1>8, <1>9 DEF Request
<1> HIDE DEF m4
<1>12. m5 \in Request
  BY <1>2, <1>10, RequestFields
<1>13. kept(m5)
  BY <1>10, <1>11 DEF Request
<1> HIDE DEF m5
<1>14. m6 \in Request
  BY <1>1, <1>12, RequestFields
<1>15. kept(m6) /\ m6.arg = o.arg
  BY <1>12, <1>13 DEF Request
<1> HIDE DEF m6
<1>16. m7 \in Request
  BY <1>1, <1>14, RequestFields
<1>17. kept(m7) /\ m7.arg = o.arg
  BY <1>14, <1>15 DEF Request
<1> HIDE DEF m7
<1>18. m8 \in Request
  BY <1>1, <1>16, RequestFields
<1>19. kept(m8) /\ m8.arg = o.arg
  BY <1>16, <1>17 DEF Request
<1> HIDE DEF m8
<1>20. ArgOK(m8) /\ OwnerOK(m8, tab)
  BY <1>1, <1>19 DEF ArgOK, OwnerOK
<1> QED BY <1>3, <1>18, <1>19, <1>20

-----------------------------------------------------------------------------
(* The actions of the tabs keep the types.                                 *)

UsedOK == used \in [moves : Nat, writes : Nat, lost : Nat, by : SUBSET (Tabs \cup {None})]

LEMMA SpendOK ==
    ASSUME UsedOK, NEW what \in {"moves", "writes", "lost"}, NEW bound, Spend(what, bound)
    PROVE  UsedOK'
<1>1. CASE what = "moves"
  BY <1>1 DEF Spend, UsedOK
<1>2. CASE what = "writes"
  BY <1>2 DEF Spend, UsedOK
<1>3. CASE what = "lost"
  BY <1>3 DEF Spend, UsedOK
<1> QED BY <1>1, <1>2, <1>3

LEMMA SameLoads ==
    ASSUME NEW calls, NEW a, NEW b, CallsOK(calls, a),
           \A e \in Tabs : Loads(a[e]) => Loads(b[e])
    PROVE  CallsOK(calls, b)
BY DEF CallsOK, ReqsOK, OwnerOK

\* Only calm changes.
LEMMA CalmOK ==
    ASSUME TabsOK(tab), CallsOK(req', tab), NEW b, 
           \A e \in Tabs : b[e] \in BOOLEAN,
           tab' = [e \in Tabs |-> [tab[e] EXCEPT !.calm = b[e]]]
    PROVE  TabStep
<1>1. ASSUME NEW e \in Tabs
      PROVE  /\ tab'[e] \in Tab /\ tab'[e].page = tab[e].page /\ tab'[e].admin = tab[e].admin
             /\ tab'[e].ticket = tab[e].ticket /\ tab'[e].loading = tab[e].loading
  <2>1. tab[e] \in Tab /\ tab'[e] = [tab[e] EXCEPT !.calm = b[e]]
    BY DEF TabsOK
  <2>2. tab'[e] \in Tab
    BY <2>1, TabFields
  <2> QED BY <2>1, <2>2 DEF Tab
<1>2. \A e \in Tabs : Loads(tab'[e]) <=> Loads(tab[e])
  BY <1>1 DEF Loads
<1>3. CallsOK(req', tab')
  BY <1>2, SameLoads
<1>4. TabsOK(tab')
  BY <1>1, <1>2 DEF TabsOK, MfaOK
<1> QED BY <1>3, <1>4 DEF TabStep

LEMMA WriteOK ==
    ASSUME TypeInv, UsedOK, CallsOK(req', tab), NEW t \in Tabs \cup {None}, Write(t)
    PROVE  TabStep /\ UsedOK'
<1>1. UsedOK'
  <2> DEFINE u == [used EXCEPT !.writes = used.writes + 1]
             bs == used.by \cup {t}
  <2>1. /\ u \in [moves : Nat, writes : Nat, lost : Nat, by : SUBSET (Tabs \cup {None})]
        /\ bs \in SUBSET (Tabs \cup {None})
    BY DEF UsedOK
  <2>2. used' = [u EXCEPT !.by = bs]
    BY DEF Write, UsedOK
  <2> HIDE DEF u, bs
  <2> QED BY <2>1, <2>2 DEF UsedOK
<1> DEFINE b == [e \in Tabs |-> IF e = t THEN tab[e].calm /\ ~InFlight(req, t) ELSE tab[e].calm]
<1>2. TabsOK(tab)
  BY TypeInvParts
<1>3. \A e \in Tabs : tab[e] \in Tab /\ tab[e].calm \in BOOLEAN
  BY <1>2 DEF TabsOK, Tab
<1>4. \A e \in Tabs : b[e] \in BOOLEAN
  BY <1>3 DEF InFlight
<1>5. \A e \in Tabs : tab[e] = [tab[e] EXCEPT !.calm = tab[e].calm]
  BY <1>3 DEF Tab
<1>6. tab' = [e \in Tabs |-> [tab[e] EXCEPT !.calm = b[e]]]
  BY <1>5 DEF Write
<1> HIDE DEF b
<1> QED BY <1>1, <1>2, <1>4, <1>6, CalmOK
LEMMA GoToOK ==
    ASSUME TypeInv, NEW t \in Tabs, NEW page \in Pages \ {"mfa"}
    PROVE  GoTo(t, page) \in Tab /\ GoTo(t, page).page = page
<1> DEFINE x == tab[t]
           y1 == [x EXCEPT !.page = page]
           y2 == [y1 EXCEPT !.user = None]
           y3 == [y2 EXCEPT !.admin = FALSE]
           y4 == [y3 EXCEPT !.ticket = None]
<1>1. x \in Tab
  BY TypeInvParts DEF TabsOK
<1>2. GoTo(t, page) = y1 \/ GoTo(t, page) = y4
  BY DEF GoTo
<1>3. y1 \in Tab
  BY <1>1, TabFields
<1>4. y1.page = page
  BY <1>1 DEF Tab
<1> HIDE DEF y1
<1>5. y2 \in Tab
  BY <1>3, TabFields
<1>6. y2.page = page
  BY <1>3, <1>4 DEF Tab
<1> HIDE DEF y2
<1>7. y3 \in Tab
  BY <1>5, TabFields
<1>8. y3.page = page
  BY <1>5, <1>6 DEF Tab
<1> HIDE DEF y3
<1>9. y4 \in Tab
  BY <1>7, TabFields
<1>10. y4.page = page
  BY <1>7, <1>8 DEF Tab
<1> HIDE DEF y4
<1> QED BY <1>2, <1>3, <1>4, <1>9, <1>10

LEMMA FollowOK ==
    ASSUME TypeInv, UsedOK, NEW t \in Tabs, Follow(t)
    PROVE  TabStep /\ UsedOK' /\ TablesOK'
<1>1. TablesOK /\ CallsOK(req, tab) /\ TabsOK(tab)
  BY TypeInvParts
<1>2. TablesOK'
  BY <1>1, Unwritten DEF Follow
<1>3. UsedOK'
  BY SpendOK DEF Follow
<1>4. PICK page \in Pages \ {"mfa"} : Open(req, t, GoTo(t, page))
  BY DEF Follow, Pages
<1>5. GoTo(t, page) \in Tab /\ GoTo(t, page).page # "mfa"
  BY GoToOK
<1>6. TabStep
  BY <1>1, <1>4, <1>5, OpenOK
<1> QED BY <1>2, <1>3, <1>6

LEMMA AskOK ==
    ASSUME TypeInv, UsedOK, NEW t \in Tabs, Ask(t)
    PROVE  TabStep /\ UsedOK' /\ TablesOK'
<1>1. TablesOK /\ CallsOK(req, tab) /\ TabsOK(tab)
  BY TypeInvParts
<1>2. TablesOK' /\ UsedOK' /\ tab' = tab
  BY <1>1, Unwritten DEF Ask, UsedOK
<1>3. PICK o \in Offers(t) : req' = Put(req, Made(t, o, "asked"))
  BY DEF Ask
<1>4. OfferOK(o, tab[t])
  BY OffersOK
<1>5. /\ Made(t, o, "asked") \in Request /\ Made(t, o, "asked").pc = "asked"
      /\ ArgOK(Made(t, o, "asked")) /\ OwnerOK(Made(t, o, "asked"), tab)
  BY <1>4, MadeOK
<1>6. CallsOK(req', tab)
  BY <1>1, <1>3, <1>5, PutOK DEF Ask
<1> QED BY <1>1, <1>2, <1>6 DEF TabStep

LEMMA CancelOK ==
    ASSUME TypeInv, UsedOK, NEW s \in Slots, Cancel(s)
    PROVE  TabStep /\ UsedOK' /\ TablesOK'
<1>1. TablesOK /\ CallsOK(req, tab) /\ TabsOK(tab)
  BY TypeInvParts
<1>2. TablesOK' /\ UsedOK' /\ tab' = tab
  BY <1>1, Unwritten DEF Cancel, UsedOK
<1>3. CallsOK(req', tab)
  BY DropOK DEF Cancel
<1> QED BY <1>1, <1>2, <1>3 DEF TabStep

LEMMA ConfirmOK ==
    ASSUME TypeInv, UsedOK, NEW s \in Slots, Confirm(s)
    PROVE  TabStep /\ UsedOK' /\ TablesOK'
<1> DEFINE c == req[s]
           d == [c EXCEPT !.pc = "sent"]
<1>1. TablesOK /\ CallsOK(req, tab) /\ TabsOK(tab)
  BY TypeInvParts
<1>2. TablesOK'
  BY <1>1, Unwritten DEF Confirm
<1>3. c \in Request /\ ArgOK(c) /\ OwnerOK(c, tab)
  BY <1>1 DEF CallsOK, ReqsOK
<1>4. c.tab \in Tabs \cup {None}
  BY <1>3 DEF Request
<1>5. d \in Request
  BY <1>3, RequestFields
<1>6. d.pc = "sent" /\ d.op = c.op /\ d.arg = c.arg /\ d.tab = c.tab /\ d.mounted = c.mounted
  BY <1>3 DEF Request
<1>7. req' = [req EXCEPT ![s] = d]
  BY DEF Confirm
<1>8. Write(c.tab)
  BY DEF Confirm
<1> HIDE DEF c, d
<1>9. ArgOK(d) /\ OwnerOK(d, tab)
  BY <1>3, <1>6 DEF ArgOK, OwnerOK
<1>10. CallsOK(req', tab)
  BY <1>5, <1>6, <1>7, <1>9, SetOK
<1> QED BY <1>2, <1>4, <1>8, <1>10, WriteOK

LEMMA ClickOK ==
    ASSUME TypeInv, UsedOK, NEW t \in Tabs, Click(t)
    PROVE  TabStep /\ UsedOK' /\ TablesOK'
<1>1. TablesOK /\ CallsOK(req, tab) /\ TabsOK(tab)
  BY TypeInvParts
<1>2. TablesOK' /\ Write(t)
  BY <1>1, Unwritten DEF Click
<1>3. PICK o \in Offers(t) : req' = Put(req, Made(t, o, "sent"))
  BY DEF Click
<1>4. OfferOK(o, tab[t])
  BY OffersOK
<1>5. /\ Made(t, o, "sent") \in Request /\ Made(t, o, "sent").pc = "sent"
      /\ ArgOK(Made(t, o, "sent")) /\ OwnerOK(Made(t, o, "sent"), tab)
  BY <1>4, MadeOK
<1>6. CallsOK(req', tab)
  BY <1>1, <1>3, <1>5, PutOK DEF Click
<1> QED BY <1>2, <1>6, WriteOK

LEMMA SignInOffer ==
    ASSUME NEW op \in {"login", "passkey"}, NEW x
    PROVE  OfferOK(Offer(op, None, "none", FALSE), x)
<1> DEFINE o == Offer(op, None, "none", FALSE)
<1>1. o.op = op /\ o.arg = None /\ o.kind = "none" /\ o.flag = FALSE
  BY DEF Offer
<1> HIDE DEF o
<1>2. o.op \in SignIns /\ o.op \notin Reads /\ o.op \notin PageOps
  BY <1>1 DEF SignIns, Reads, AdminReads, PageOps, Enrolments, AdminWrites
<1>3. ArgOK(o)
  BY <1>1 DEF ArgOK
<1>4. OfferOK(o, x)
  BY <1>1, <1>2, <1>3, ArgsParts DEF OfferOK
<1> QED BY <1>4 DEF o

LEMMA SubmitLoginOK ==
    ASSUME TypeInv, UsedOK, NEW t \in Tabs, SubmitLogin(t)
    PROVE  TabStep /\ UsedOK' /\ TablesOK'
<1> DEFINE m == Made(t, Offer("login", None, "none", FALSE), "sent")
<1>1. TablesOK /\ CallsOK(req, tab) /\ TabsOK(tab)
  BY TypeInvParts
<1>2. TablesOK' /\ Write(t)
  BY <1>1, Unwritten DEF SubmitLogin
<1>3. PICK u \in Users : req' = Put(req, [m EXCEPT !.user = u])
  BY DEF SubmitLogin
<1>4. /\ m \in Request /\ m.pc = "sent" /\ ArgOK(m) /\ OwnerOK(m, tab)
  BY SignInOffer, MadeOK
<1> HIDE DEF m
<1> DEFINE d == [m EXCEPT !.user = u]
<1>5. d \in Request
  BY <1>4, RequestFields
<1>6. d.pc = "sent" /\ d.op = m.op /\ d.arg = m.arg /\ d.tab = m.tab /\ d.mounted = m.mounted
  BY <1>4 DEF Request
<1> HIDE DEF d
<1>7. ArgOK(d) /\ OwnerOK(d, tab)
  BY <1>4, <1>6 DEF ArgOK, OwnerOK
<1>8. CallsOK(req', tab)
  BY <1>1, <1>3, <1>5, <1>6, <1>7, PutOK DEF SubmitLogin, d
<1> QED BY <1>2, <1>8, WriteOK

LEMMA UsePasskeyOK ==
    ASSUME TypeInv, UsedOK, NEW t \in Tabs, UsePasskey(t)
    PROVE  TabStep /\ UsedOK' /\ TablesOK'
<1> DEFINE m == Made(t, Offer("passkey", None, "none", FALSE), "sent")
<1>1. TablesOK /\ CallsOK(req, tab) /\ TabsOK(tab)
  BY TypeInvParts
<1>2. TablesOK' /\ Write(t) /\ req' = Put(req, m) /\ Room(req)
  BY <1>1, Unwritten DEF UsePasskey
<1>3. m \in Request /\ m.pc = "sent" /\ ArgOK(m) /\ OwnerOK(m, tab)
  BY SignInOffer, MadeOK
<1> HIDE DEF m
<1>4. CallsOK(req', tab)
  BY <1>1, <1>2, <1>3, PutOK
<1> QED BY <1>2, <1>4, WriteOK

LEMMA ElsewhereOK ==
    ASSUME TypeInv, UsedOK, Elsewhere
    PROVE  TabStep /\ UsedOK' /\ TablesOK'
<1> DEFINE u == CHOOSE u \in Users : TRUE
<1>1. TablesOK /\ CallsOK(req, tab) /\ TabsOK(tab)
  BY TypeInvParts
<1>2. TablesOK' /\ Write(None) /\ Room(req)
  BY <1>1, Unwritten DEF Elsewhere
<1>3. PICK p \in Parties, cs \in SUBSET Codes :
         req' = Put(req, [Idle EXCEPT !.pc = "sent", !.op = "party", !.user = u,
                                      !.arg = p, !.codes = cs])
  BY DEF Elsewhere
<1>4. u \in Users
  BY DEF TypeInv
<1> HIDE DEF u
<1> DEFINE m1 == [Idle EXCEPT !.pc = "sent"]
           m2 == [m1 EXCEPT !.op = "party"]
           m3 == [m2 EXCEPT !.user = u]
           m4 == [m3 EXCEPT !.arg = p]
           m5 == [m4 EXCEPT !.codes = cs]
           kept(m) == m.pc = "sent" /\ m.op = "party"
<1>5. req' = Put(req, m5)
  BY <1>3
<1>6. m1 \in Request
  BY IdleType, RequestFields
<1>7. m1.pc = "sent"
  BY IdleType DEF Request
<1> HIDE DEF m1
<1>8. m2 \in Request
  BY <1>6, RequestFields DEF Private
<1>9. kept(m2)
  BY <1>6, <1>7 DEF Request
<1> HIDE DEF m2
<1>10. m3 \in Request
  BY <1>4, <1>8, RequestFields
<1>11. kept(m3)
  BY <1>8, <1>9 DEF Request
<1> HIDE DEF m3
<1>12. m4 \in Request
  BY <1>10, RequestFields, ArgsParts
<1>13. kept(m4)
  BY <1>10, <1>11 DEF Request
<1> HIDE DEF m4
<1>14. m5 \in Request
  BY <1>12, RequestFields
<1>15. kept(m5)
  BY <1>12, <1>13 DEF Request
<1> HIDE DEF m5
<1>16. ArgOK(m5) /\ OwnerOK(m5, tab)
  BY <1>15 DEF ArgOK, OwnerOK, Reads, AdminReads, SignIns, PageOps, Enrolments, AdminWrites
<1>17. CallsOK(req', tab)
  BY <1>1, <1>2, <1>5, <1>14, <1>15, <1>16, PutOK
<1> QED BY <1>2, <1>17, WriteOK
\* One tab changes, and not its page, rights or ticket.
LEMMA TabChangeOK ==
    ASSUME TabsOK(tab), CallsOK(req', tab), NEW t, NEW x,
           t \in Tabs => /\ x \in Tab /\ x.page = tab[t].page /\ x.admin = tab[t].admin
                         /\ x.ticket = tab[t].ticket /\ (x.loading => tab[t].loading),
           tab' = [tab EXCEPT ![t] = x]
    PROVE  TabStep
<1>1. tab' \in [Tabs -> Tab]
  BY DEF TabsOK
<1>2. \A e \in Tabs : /\ tab'[e].page = tab[e].page /\ tab'[e].admin = tab[e].admin
                      /\ tab'[e].ticket = tab[e].ticket
                      /\ (tab'[e].loading => tab[e].loading)
  BY DEF TabsOK
<1>3. \A e \in Tabs : Loads(tab'[e]) <=> Loads(tab[e])
  BY <1>2 DEF Loads
<1>4. CallsOK(req', tab')
  BY <1>3, SameLoads
<1>5. TabsOK(tab')
  BY <1>1, <1>2, <1>3 DEF TabsOK, MfaOK
<1> QED BY <1>4, <1>5 DEF TabStep

LEMMA CloseChallengeOK ==
    ASSUME TypeInv, UsedOK, NEW t \in Tabs, CloseChallenge(t)
    PROVE  TabStep /\ UsedOK' /\ TablesOK'
<1> DEFINE x == [tab[t] EXCEPT !.challenge = None]
<1>1. TablesOK /\ CallsOK(req, tab) /\ TabsOK(tab)
  BY TypeInvParts
<1>2. /\ UNCHANGED <<admins, factorVars, token, ticketVars, moneyVars>>
      /\ req' = req /\ used' = used
  BY DEF CloseChallenge, serverVars
<1>3. TablesOK' /\ UsedOK' /\ CallsOK(req', tab)
  BY <1>1, <1>2, Unwritten DEF UsedOK
<1>4. tab[t] \in Tab
  BY <1>1 DEF TabsOK
<1>5. x \in Tab
  BY <1>4, TabFields
<1>6. /\ x.page = tab[t].page /\ x.admin = tab[t].admin
      /\ x.ticket = tab[t].ticket /\ x.loading = tab[t].loading
  BY <1>4 DEF Tab
<1>7. tab' = [tab EXCEPT ![t] = x]
  BY DEF CloseChallenge
<1> HIDE DEF x
<1> QED BY <1>1, <1>3, <1>5, <1>6, <1>7, TabChangeOK

LEMMA WaitOK ==
    ASSUME TypeInv, UsedOK, Wait
    PROVE  /\ TabStep /\ UsedOK' /\ TablesOK'
           /\ UNCHANGED <<admins, token, signins, moneyVars, req>>
           /\ \A k \in TicketIds : ticket'[k] = ticket[k] \/ ticket'[k].state = "gone"
<1>1. TablesOK /\ CallsOK(req, tab) /\ TabsOK(tab)
  BY TypeInvParts
<1>2. UNCHANGED <<admins, token, signins, moneyVars, req>> /\ tab' = tab
  BY DEF Wait, Expire
<1>3. UsedOK'
  BY SpendOK DEF Wait
<1>4. /\ ticket' = ticket \/ \E k \in TicketIds : ticket' = [ticket EXCEPT ![k].state = "gone"]
      /\ device' = device \/ \E d \in DeviceIds : device' = [device EXCEPT ![d].state = "gone"]
  BY DEF Wait, Expire
<1>5. ticket' \in [TicketIds -> Ticket] /\ device' \in [DeviceIds -> Device]
  BY <1>1, <1>4 DEF TablesOK, Ticket, Device
<1>6. TablesOK'
  BY <1>1, <1>2, <1>5 DEF TablesOK, moneyVars
<1>7. \A k \in TicketIds : ticket'[k] = ticket[k] \/ ticket'[k].state = "gone"
  BY <1>1, <1>4 DEF TablesOK, Ticket
<1> QED BY <1>1, <1>2, <1>3, <1>6, <1>7 DEF TabStep

\* The request of a tab ends, and the tab is no longer calm.
LEMMA DisturbOK ==
    ASSUME TypeInv, NEW s \in Slots, NEW d \in Request, d.pc = "answered", d.op = req[s].op,
           d.tab = req[s].tab, d.arg = req[s].arg, d.mounted = req[s].mounted,
           req' = [req EXCEPT ![s] = d], Disturb(s)
    PROVE  TabStep
<1> DEFINE c == req[s]
<1>1. CallsOK(req, tab) /\ TabsOK(tab)
  BY TypeInvParts
<1>2. ArgOK(d) /\ OwnerOK(d, tab)
  BY <1>1 DEF CallsOK, ReqsOK, ArgOK, OwnerOK
<1>3. CallsOK(req', tab)
  BY <1>2, SetOK
<1> DEFINE b == [e \in Tabs |-> IF e = c.tab THEN FALSE ELSE tab[e].calm]
<1>4. \A e \in Tabs : tab[e] \in Tab /\ tab[e].calm \in BOOLEAN
  BY <1>1 DEF TabsOK, Tab
<1>5. \A e \in Tabs : tab[e] = [tab[e] EXCEPT !.calm = tab[e].calm]
  BY <1>4 DEF Tab
<1>6. tab' = [e \in Tabs |-> [tab[e] EXCEPT !.calm = b[e]]]
  BY <1>5 DEF Disturb
<1>7. \A e \in Tabs : b[e] \in BOOLEAN
  BY <1>4
<1> HIDE DEF b
<1> QED BY <1>1, <1>3, <1>6, <1>7, CalmOK

LEMMA LoseOK ==
    ASSUME TypeInv, UsedOK, NEW s \in Slots, Lose(s)
    PROVE  TabStep /\ UsedOK' /\ TablesOK'
<1> DEFINE c == req[s]
           a == Answered(c, "lost")
           d == [a EXCEPT !.view = NoView]
<1>1. TablesOK /\ c \in Request /\ req \in [Slots -> Request]
  BY TypeInvParts DEF CallsOK
<1>2. TablesOK'
  BY <1>1, Unwritten DEF Lose
<1>3. UsedOK'
  BY SpendOK DEF Lose
<1>4. /\ a \in Request /\ a.pc = "answered" /\ a.op = c.op /\ a.tab = c.tab /\ a.arg = c.arg
      /\ a.mounted = c.mounted
  BY <1>1, AnsweredFields
<1>5. Answer(s, "lost") = [req EXCEPT ![s] = a]
  BY <1>1, AnswerIs
<1> HIDE DEF a
<1>6. d \in Request
  BY <1>4, RequestFields, ViewType
<1>7. d.pc = "answered" /\ d.op = c.op /\ d.tab = c.tab /\ d.arg = c.arg /\ d.mounted = c.mounted
  BY <1>4 DEF Request
<1>8. req' = [req EXCEPT ![s] = d] /\ Disturb(s)
  BY <1>1, <1>5 DEF Lose
<1> HIDE DEF d
<1> QED BY <1>2, <1>3, <1>6, <1>7, <1>8, DisturbOK

(* A read fails.                                                           *)
Unread(s) == Spend("lost", MaxLost) /\ ReadFails(s) /\ Disturb(s)

LEMMA UnreadOK ==
    ASSUME TypeInv, UsedOK, NEW s \in Slots, Unread(s)
    PROVE  TabStep /\ UsedOK' /\ TablesOK'
<1> DEFINE c == req[s]
<1>1. TablesOK /\ c \in Request /\ req \in [Slots -> Request]
  BY TypeInvParts DEF CallsOK
<1>2. PICK x \in {"ok", "refused"} : req' = Answer(s, x)
  BY DEF Unread, ReadFails, FailureSeen, NothingRead
<1>3. TablesOK'
  BY <1>1, Unwritten DEF Unread, ReadFails, FailureSeen, NothingRead
<1>4. UsedOK'
  BY SpendOK DEF Unread
<1>5. /\ Answered(c, x) \in Request /\ Answered(c, x).pc = "answered"
      /\ Answered(c, x).op = c.op /\ Answered(c, x).tab = c.tab
      /\ Answered(c, x).arg = c.arg /\ Answered(c, x).mounted = c.mounted
  BY <1>1, AnsweredFields
<1>6. req' = [req EXCEPT ![s] = Answered(c, x)] /\ Disturb(s)
  BY <1>1, <1>2, AnswerIs DEF Unread
<1> QED BY <1>3, <1>4, <1>5, <1>6, DisturbOK

LEMMA ReceiveLoadOK ==
    ASSUME TypeInv, UsedOK, NEW s \in Slots, ReceiveLoad(s)
    PROVE  TabStep /\ UsedOK' /\ TablesOK'
<1> DEFINE c == req[s]
           t == req[s].tab
           x == tab[t]
<1>1. TablesOK /\ CallsOK(req, tab) /\ TabsOK(tab)
  BY TypeInvParts
<1>2. TablesOK' /\ UsedOK'
  BY <1>1, Unwritten DEF ReceiveLoad, UsedOK
<1>3. c \in Request /\ OwnerOK(c, tab) /\ c.op \in Reads
  BY <1>1 DEF CallsOK, ReqsOK, ReceiveLoad, At
<1>4. t \in Tabs /\ c.view \in View
  BY <1>3 DEF OwnerOK, Request
<1>5. x \in Tab /\ x.view \in View /\ x.user \in Users \cup {None}
  BY <1>1, <1>4 DEF TabsOK, Tab
<1>6. c.view.devices \in SUBSET DeviceIds /\ c.view.tokens \in SUBSET TokenIds
  BY <1>4 DEF View
<1> DEFINE v1 == [x.view EXCEPT !.devices = c.view.devices]
           v2 == [x.view EXCEPT !.tokens = c.view.tokens]
           x1 == [x EXCEPT !.view = v1]
           x2 == [x EXCEPT !.view = v2]
           x3 == [x2 EXCEPT !.loading = FALSE]
           x4 == [x EXCEPT !.view = c.view]
           x5 == [x4 EXCEPT !.loading = FALSE]
           same(y) == /\ y \in Tab /\ y.page = x.page /\ y.admin = x.admin
                      /\ y.ticket = x.ticket /\ (y.loading => x.loading)
<1>7. v1 \in View /\ v2 \in View
  BY <1>5, <1>6, ViewType
<1>8. x1 \in Tab /\ x2 \in Tab /\ x4 \in Tab
  BY <1>4, <1>5, <1>7, TabFields
<1>9. same(x1) /\ same(x2) /\ same(x4)
  BY <1>5, <1>8 DEF Tab
<1>10. same(x3)
  <2> HIDE DEF x2
  <2>1. x3 \in Tab
    BY <1>8, TabFields
  <2> QED BY <1>8, <1>9, <2>1 DEF Tab
<1>11. same(x5)
  <2> HIDE DEF x4
  <2>1. x5 \in Tab
    BY <1>8, TabFields
  <2> QED BY <1>8, <1>9, <2>1 DEF Tab
<1>12. CASE /\ req' = [req EXCEPT ![s] = [LoadOf(t, x) EXCEPT !.op = "tokens"]]
            /\ tab' = [tab EXCEPT ![t].view.devices = c.view.devices]
  <2>1. tab' = [tab EXCEPT ![t] = x1]
    BY <1>1, <1>4, <1>12 DEF TabsOK
  <2> DEFINE l1 == [Idle EXCEPT !.pc = "sent"]
             l2 == [l1 EXCEPT !.tab = t]
             l3 == [l2 EXCEPT !.user = x.user]
             l4 == [l3 EXCEPT !.mounted = TRUE]
             l5 == [l4 EXCEPT !.op = "tokens"]
  <2>2. [LoadOf(t, x) EXCEPT !.op = "tokens"] = l5
    BY DEF LoadOf, Idle
  <2>3. l1 \in Request
    BY IdleType, RequestFields
  <2>4. l1.pc = "sent"
    BY IdleType DEF Request
  <2> HIDE DEF l1
  <2>5. l2 \in Request
    BY <1>4, <2>3, RequestFields
  <2>6. l2.pc = "sent" /\ l2.tab = t
    BY <2>3, <2>4 DEF Request
  <2> HIDE DEF l2
  <2>7. l3 \in Request
    BY <1>5, <2>5, RequestFields
  <2>8. l3.pc = "sent" /\ l3.tab = t
    BY <2>5, <2>6 DEF Request
  <2> HIDE DEF l3
  <2>9. l4 \in Request
    BY <2>7, RequestFields
  <2>10. l4.pc = "sent" /\ l4.tab = t
    BY <2>7, <2>8 DEF Request
  <2> HIDE DEF l4
  <2>11. l5 \in Request
    BY <2>9, RequestFields DEF Private, Reads
  <2>12. l5.pc = "sent" /\ l5.tab = t /\ l5.op = "tokens"
    BY <2>9, <2>10 DEF Request
  <2> HIDE DEF l5
  <2>13. ArgOK(l5) /\ OwnerOK(l5, tab)
    BY <1>4, <2>12 DEF ArgOK, OwnerOK, PageOps, Enrolments, AdminWrites
  <2>14. CallsOK(req', tab)
    BY <1>12, <2>2, <2>11, <2>12, <2>13, SetOK
  <2> HIDE DEF x1, x, t
  <2> QED BY <1>1, <1>2, <1>9, <2>1, <2>14, TabChangeOK DEF x
<1>13. CASE /\ req' = Drop(s)
            /\ tab' = [tab EXCEPT ![t].view.tokens = c.view.tokens, ![t].loading = FALSE]
  <2>1. tab' = [tab EXCEPT ![t] = x3]
    BY <1>1, <1>4, <1>13 DEF TabsOK
  <2>2. CallsOK(req', tab)
    BY <1>13, DropOK
  <2> HIDE DEF x3, x, t
  <2> QED BY <1>1, <1>2, <1>10, <2>1, <2>2, TabChangeOK DEF x
<1>14. CASE req' = Drop(s) /\ tab' = [tab EXCEPT ![t].view = c.view, ![t].loading = FALSE]
  <2>1. tab' = [tab EXCEPT ![t] = x5]
    BY <1>1, <1>4, <1>14 DEF TabsOK
  <2>2. CallsOK(req', tab)
    BY <1>14, DropOK
  <2> HIDE DEF x5, x, t
  <2> QED BY <1>1, <1>2, <1>11, <2>1, <2>2, TabChangeOK DEF x
<1>15. CASE req' = Drop(s) /\ tab' = tab
  BY <1>1, <1>2, <1>15, DropOK DEF TabStep
<1> QED BY <1>12, <1>13, <1>14, <1>15 DEF ReceiveLoad
LEMMA ReceiveSignInOK ==
    ASSUME TypeInv, UsedOK, NEW s \in Slots, ReceiveSignIn(s)
    PROVE  TabStep /\ UsedOK' /\ TablesOK'
<1> DEFINE c == req[s]
           t == req[s].tab
           x == tab[t]
<1>1. TablesOK /\ CallsOK(req, tab) /\ TabsOK(tab)
  BY TypeInvParts
<1>2. TablesOK' /\ UsedOK'
  BY <1>1, Unwritten DEF ReceiveSignIn, UsedOK
<1>3. c \in Request /\ ArgOK(c) /\ OwnerOK(c, tab) /\ c.op \in SignIns
  BY <1>1 DEF CallsOK, ReqsOK, ReceiveSignIn, At
<1>4. /\ t \in Tabs /\ c.view \in View /\ c.user \in Users \cup {None} /\ c.flag \in BOOLEAN
  BY <1>3 DEF OwnerOK, Request
<1>5. x \in Tab /\ c.view.devices \in SUBSET DeviceIds
  BY <1>1, <1>4 DEF TabsOK, View
<1>6. CallsOK(Drop(s), tab)
  BY DropOK
<1>7. CASE c.status # "ok"
  <2>1. req' = Drop(s) /\ tab' = tab
    BY <1>7 DEF ReceiveSignIn
  <2> QED BY <1>1, <1>2, <1>6, <2>1 DEF TabStep
<1>8. ASSUME NEW y \in Tab, y.loading => Loads(y), y.page = "mfa" => y.ticket \in TicketIds,
             req' = Unmount(Drop(s), t), tab' = [tab EXCEPT ![t] = y]
      PROVE  TabStep
  <2>1. CallsOK(req', tab')
    BY <1>1, <1>4, <1>6, <1>8, UnmountOK
  <2>2. TabsOK(tab')
    BY <1>1, <1>8 DEF TabsOK, MfaOK
  <2> QED BY <2>1, <2>2 DEF TabStep
<1>9. CASE c.status = "ok" /\ c.op = "login" /\ c.arg # None
  <2> DEFINE y1 == [x EXCEPT !.page = "mfa"]
             y2 == [y1 EXCEPT !.ticket = c.arg]
             y3 == Fresh(y2)
             v == [y3.view EXCEPT !.devices = c.view.devices]
             y4 == [y3 EXCEPT !.view = v]
  <2>1. c.arg \in TicketIds
    BY <1>3, <1>9 DEF ArgOK
  <2>2. req' = Unmount(Drop(s), t)
    BY <1>9 DEF ReceiveSignIn
  <2>3. tab' = [tab EXCEPT ![t] = [Fresh([x EXCEPT !.page = "mfa", !.ticket = c.arg])
                                      EXCEPT !.view.devices = c.view.devices]]
    BY <1>9 DEF ReceiveSignIn
  <2>4. [x EXCEPT !.page = "mfa", !.ticket = c.arg] = y2
    OBVIOUS
  <2>5. y1 \in Tab
    BY <1>5, TabFields DEF Pages
  <2>6. y1.page = "mfa"
    BY <1>5 DEF Tab
  <2> HIDE DEF y1
  <2>7. y2 \in Tab
    BY <2>1, <2>5, TabFields
  <2>8. y2.page = "mfa" /\ y2.ticket = c.arg
    BY <2>5, <2>6 DEF Tab
  <2> HIDE DEF y2
  <2>9. y3 \in Tab /\ y3.page = "mfa" /\ y3.ticket = c.arg /\ (y3.loading <=> Loads(y2))
    BY <2>7, <2>8, FreshOK
  <2>10. ~Loads(y2)
    BY <2>8 DEF Loads, AdminPages
  <2> HIDE DEF y3
  <2>11. v \in View
    BY <1>5, <2>9, ViewType DEF Tab
  <2>12. [y3 EXCEPT !.view.devices = c.view.devices] = y4
    BY <2>9 DEF Tab
  <2> HIDE DEF v
  <2>13. y4 \in Tab
    BY <2>9, <2>11, TabFields
  <2>14. y4.page = "mfa" /\ y4.ticket = c.arg /\ ~y4.loading
    BY <2>9, <2>10 DEF Tab
  <2>15. tab' = [tab EXCEPT ![t] = y4]
    BY <2>3, <2>4, <2>12 DEF y3
  <2> HIDE DEF y4
  <2> QED BY <1>2, <1>8, <2>1, <2>2, <2>13, <2>14, <2>15
<1>10. CASE c.status = "ok" /\ ~(c.op = "login" /\ c.arg # None)
  <2> DEFINE y1 == [x EXCEPT !.page = "home"]
             y2 == [y1 EXCEPT !.user = c.user]
             y3 == [y2 EXCEPT !.admin = c.flag]
             y4 == [y3 EXCEPT !.ticket = None]
             y5 == Fresh(y4)
  <2>1. req' = Unmount(Drop(s), t)
    BY <1>10 DEF ReceiveSignIn
  <2>2. tab' = [tab EXCEPT ![t] = Fresh(SignedIn(t, c.user, c.flag))]
    BY <1>10 DEF ReceiveSignIn
  <2>3. SignedIn(t, c.user, c.flag) = y4
    BY DEF SignedIn
  <2>4. y1 \in Tab
    BY <1>5, TabFields DEF Pages
  <2>5. y1.page = "home"
    BY <1>5 DEF Tab
  <2> HIDE DEF y1
  <2>6. y2 \in Tab
    BY <1>4, <2>4, TabFields
  <2>7. y2.page = "home"
    BY <2>4, <2>5 DEF Tab
  <2> HIDE DEF y2
  <2>8. y3 \in Tab
    BY <1>4, <2>6, TabFields
  <2>9. y3.page = "home"
    BY <2>6, <2>7 DEF Tab
  <2> HIDE DEF y3
  <2>10. y4 \in Tab
    BY <2>8, TabFields
  <2>11. y4.page = "home"
    BY <2>8, <2>9 DEF Tab
  <2> HIDE DEF y4
  <2>12. y5 \in Tab /\ y5.page = "home" /\ (y5.loading <=> Loads(y5))
    BY <2>10, <2>11, FreshOK
  <2> HIDE DEF y5
  <2> QED BY <1>2, <1>8, <2>1, <2>2, <2>3, <2>12 DEF y5
<1> QED BY <1>7, <1>9, <1>10

LEMMA ReceiveChallengeOK ==
    ASSUME TypeInv, UsedOK, NEW s \in Slots, ReceiveChallenge(s)
    PROVE  TabStep /\ UsedOK' /\ TablesOK'
<1> DEFINE c == req[s]
           t == req[s].tab
           x == [tab[t] EXCEPT !.challenge = c.arg]
           d1 == [c EXCEPT !.pc = "sent"]
           d2 == [d1 EXCEPT !.op = "finish"]
           d3 == [d2 EXCEPT !.status = "none"]
<1>1. TablesOK /\ CallsOK(req, tab) /\ TabsOK(tab)
  BY TypeInvParts
<1>2. TablesOK' /\ UsedOK'
  BY <1>1, Unwritten DEF ReceiveChallenge, UsedOK
<1>3. c \in Request /\ ArgOK(c) /\ OwnerOK(c, tab) /\ c.op = "enrol"
  BY <1>1 DEF CallsOK, ReqsOK, ReceiveChallenge, At
<1>4. c.arg \in DeviceIds \cup {None}
  BY <1>3 DEF ArgOK
<1>5. CallsOK(Drop(s), tab)
  BY DropOK
<1>6. CASE req' = Drop(s) /\ tab' = tab
  BY <1>1, <1>2, <1>5, <1>6 DEF TabStep
<1>7. CASE req' = Drop(s) /\ tab' = [tab EXCEPT ![t].challenge = c.arg]
  <2>1. tab' = [tab EXCEPT ![t] = x]
    BY <1>7
  <2>2. ASSUME t \in Tabs
        PROVE  /\ x \in Tab /\ x.page = tab[t].page /\ x.admin = tab[t].admin
               /\ x.ticket = tab[t].ticket /\ x.loading = tab[t].loading
    <3>1. tab[t] \in Tab
      BY <1>1, <2>2 DEF TabsOK
    <3>2. x \in Tab
      BY <1>4, <3>1, TabFields
    <3> QED BY <3>1, <3>2 DEF Tab
  <2> HIDE DEF x, t
  <2> QED BY <1>1, <1>2, <1>5, <1>7, <2>1, <2>2, TabChangeOK
<1>8. CASE /\ req' = [req EXCEPT ![s].pc = "sent", ![s].op = "finish", ![s].status = "none"]
           /\ tab' = tab
  <2>1. req' = [req EXCEPT ![s] = d3]
    BY <1>8
  <2>2. d1 \in Request
    BY <1>3, RequestFields
  <2>3. d1.pc = "sent" /\ d1.arg = c.arg /\ d1.tab = c.tab /\ d1.mounted = c.mounted
    BY <1>3 DEF Request
  <2> HIDE DEF d1
  <2>4. d2 \in Request
    BY <2>2, RequestFields DEF Private, Enrolments
  <2>5. /\ d2.pc = "sent" /\ d2.op = "finish" /\ d2.arg = c.arg /\ d2.tab = c.tab
        /\ d2.mounted = c.mounted
    BY <2>2, <2>3 DEF Request
  <2> HIDE DEF d2
  <2>6. d3 \in Request
    BY <2>4, RequestFields
  <2>7. /\ d3.pc = "sent" /\ d3.op = "finish" /\ d3.arg = c.arg /\ d3.tab = c.tab
        /\ d3.mounted = c.mounted
    BY <2>4, <2>5 DEF Request
  <2> HIDE DEF d3
  <2>8. ArgOK(d3) /\ OwnerOK(d3, tab)
    BY <1>3, <2>7 DEF ArgOK, OwnerOK, PageOps, Enrolments, Reads, AdminReads, SignIns
  <2>9. CallsOK(req', tab)
    BY <2>1, <2>6, <2>7, <2>8, SetOK
  <2> QED BY <1>1, <1>2, <1>8, <2>9 DEF TabStep
<1> QED BY <1>6, <1>7, <1>8 DEF ReceiveChallenge

LEMMA ReceiveWriteOK ==
    ASSUME TypeInv, UsedOK, NEW s \in Slots, ReceiveWrite(s)
    PROVE  TabStep /\ UsedOK' /\ TablesOK'
<1> DEFINE c == req[s]
           t == req[s].tab
           x == IF c.op = "finish" /\ c.kind = "totp" THEN [tab[t] EXCEPT !.challenge = None]
                ELSE tab[t]
           d1 == [c EXCEPT !.pc = "asked"]
           d2 == [d1 EXCEPT !.status = "none"]
<1>1. TablesOK /\ CallsOK(req, tab) /\ TabsOK(tab)
  BY TypeInvParts
<1>2. TablesOK' /\ UsedOK'
  BY <1>1, Unwritten DEF ReceiveWrite, UsedOK
<1>3. c \in Request /\ ArgOK(c) /\ OwnerOK(c, tab)
  BY <1>1 DEF CallsOK, ReqsOK
<1>4. CallsOK(Drop(s), tab)
  BY DropOK
<1>5. CASE Reloads(c) /\ c.mounted
  <2>1. Load(Drop(s), t, x)
    BY <1>5 DEF ReceiveWrite
  <2>2. c.op \in PageOps
    BY <1>5 DEF Reloads, PageOps, Enrolments, AdminWrites
  <2>3. t \in Tabs /\ Loads(tab[t])
    BY <1>3, <1>5, <2>2 DEF OwnerOK
  <2>4. tab[t] \in Tab
    BY <1>1, <2>3 DEF TabsOK
  <2>5. x \in Tab
    BY <2>4, TabFields
  <2>6. x.page = tab[t].page /\ x.admin = tab[t].admin
    BY <2>4 DEF Tab
  <2> HIDE DEF x
  <2>7. Loads(x)
    BY <2>3, <2>6 DEF Loads
  <2>8. \A e \in Tabs : Loads(tab[e]) => Loads([tab EXCEPT ![t] = x][e])
    BY <1>1, <2>7 DEF TabsOK
  <2>9. CallsOK(Drop(s), [tab EXCEPT ![t] = x])
    BY <1>4, <2>8, SameLoads
  <2> HIDE DEF t
  <2> QED BY <1>1, <1>2, <2>1, <2>3, <2>5, <2>7, <2>9, LoadOK
<1>6. CASE ~(Reloads(c) /\ c.mounted)
  <2>1. tab' = tab
    BY <1>6 DEF ReceiveWrite
  <2>2. CASE req' = Drop(s)
    BY <1>1, <1>2, <1>4, <2>1, <2>2 DEF TabStep
  <2>3. CASE req' = [req EXCEPT ![s].pc = "asked", ![s].status = "none"]
    <3>1. req' = [req EXCEPT ![s] = d2]
      BY <2>3
    <3>2. d1 \in Request
      BY <1>3, RequestFields
    <3>3. /\ d1.pc = "asked" /\ d1.op = c.op /\ d1.arg = c.arg /\ d1.tab = c.tab
          /\ d1.mounted = c.mounted
      BY <1>3 DEF Request
    <3> HIDE DEF d1
    <3>4. d2 \in Request
      BY <3>2, RequestFields
    <3>5. /\ d2.pc = "asked" /\ d2.op = c.op /\ d2.arg = c.arg /\ d2.tab = c.tab
          /\ d2.mounted = c.mounted
      BY <3>2, <3>3 DEF Request
    <3> HIDE DEF d2
    <3>6. ArgOK(d2) /\ OwnerOK(d2, tab)
      BY <1>3, <3>5 DEF ArgOK, OwnerOK
    <3>7. CallsOK(req', tab)
      BY <3>1, <3>4, <3>5, <3>6, SetOK
    <3> QED BY <1>1, <1>2, <2>1, <3>7 DEF TabStep
  <2>4. req' = Drop(s) \/ req' = [req EXCEPT ![s].pc = "asked", ![s].status = "none"]
    BY <1>6 DEF ReceiveWrite
  <2> QED BY <2>2, <2>3, <2>4
<1> QED BY <1>5, <1>6
-----------------------------------------------------------------------------
(* Types                                                                   *)

(* A handler goes on, or a statement of it fails.                          *)
Serves(s) == Serve(s) \/ WriteFails(s)

LEMMA ServeOK ==
    ASSUME TypeInv, NEW s \in Slots, Serves(s)
    PROVE  Served(s) /\ TablesOK'
<1>1. TablesOK
  BY TypeInvParts
<1>2. CASE Authorize(s)
  BY <1>1, <1>2, AuthorizeServed
<1>3. CASE Read(s)
  BY <1>1, <1>3, ReadServed
<1>4. CASE PasswordChecked(s)
  BY <1>1, <1>4, PasswordCheckedServed
<1>5. CASE MethodsRead(s)
  BY <1>1, <1>5, MethodsReadServed
<1>6. CASE TicketRead(s)
  BY <1>1, <1>6, TicketReadServed
<1>7. CASE FactorRead(s)
  BY <1>1, <1>7, FactorReadServed
<1>8. CASE TicketSpent(s)
  BY <1>1, <1>8, TicketSpentServed
<1>9. CASE PasskeyUsed(s)
  BY <1>1, <1>9, PasskeyUsedServed
<1>10. CASE ChallengeMade(s)
  BY <1>1, <1>10, ChallengeMadeServed
<1>11. CASE ChallengeAnswered(s)
  BY <1>1, <1>11, ChallengeAnsweredServed
<1>12. CASE FactorInserted(s)
  BY <1>1, <1>12, FactorInsertedServed
<1>13. CASE FactorDeleted(s)
  BY <1>1, <1>13, FactorDeletedServed
<1>14. CASE TokensCounted(s)
  BY <1>1, <1>14, TokensCountedServed
<1>15. CASE TokenInserted(s)
  BY <1>1, <1>15, TokenInsertedServed
<1>16. CASE TokenRevoked(s)
  BY <1>1, <1>16, TokenRevokedServed
<1>17. CASE Toggled(s)
  BY <1>1, <1>17, ToggledServed
<1>18. CASE CodeCounted(s)
  BY <1>1, <1>18, CodeCountedServed
<1>19. CASE CodeInserted(s)
  BY <1>1, <1>19, CodeInsertedServed
<1>20. CASE RowRead(s)
  BY <1>1, <1>20, RowReadServed
<1>21. CASE PartiesCounted(s)
  BY <1>1, <1>21, PartiesCountedServed
<1>22. CASE RowDeleted(s)
  BY <1>1, <1>22, RowDeletedServed
<1>23. CASE CodesChecked(s)
  BY <1>1, <1>23, CodesCheckedServed
<1>24. CASE PartyWritten(s)
  BY <1>1, <1>24, PartyWrittenServed
<1>25. CASE WriteFails(s)
  BY <1>25, WriteFailsStumbles DEF Stumbled
<1> QED BY <1>2, <1>3, <1>4, <1>5, <1>6, <1>7, <1>8, <1>9, <1>10, <1>11, <1>12, <1>13, <1>14,
           <1>15, <1>16, <1>17, <1>18, <1>19, <1>20, <1>21, <1>22, <1>23, <1>24, <1>25 DEF Serve,
           Serves

(* What happens in the browser, with the clock and the network.            *)
Browse ==
    \/ \E t \in Tabs : Follow(t) \/ Ask(t) \/ Click(t) \/ CloseChallenge(t)
                       \/ SubmitLogin(t) \/ UsePasskey(t)
    \/ Elsewhere \/ Wait
    \/ \E s \in Slots : \/ Cancel(s) \/ Confirm(s) \/ Lose(s) \/ Unread(s)
                        \/ ReceiveLoad(s) \/ ReceiveSignIn(s)
                        \/ ReceiveChallenge(s) \/ ReceiveWrite(s)

(* What happens on the server.                                             *)
Turn(s) ==
    \/ Serve(s) /\ UNCHANGED tabVars
    \/ Spend("lost", MaxLost) /\ WriteFails(s) /\ UNCHANGED tab

LEMMA NextIs ==
    Next <=> Browse \/ \E s \in Slots : Turn(s)
<1>1. \A s : Fail(s) <=> \/ Unread(s)
                         \/ Spend("lost", MaxLost) /\ WriteFails(s) /\ UNCHANGED tab
  BY DEF Fail, Unread
<1> QED BY <1>1 DEF Next, Browse, Turn

LEMMA TurnServes ==
    ASSUME TypeInv, NEW s, Turn(s)
    PROVE  Serves(s) /\ tab' = tab /\ UsedOK'
<1>1. UsedOK
  BY DEF TypeInv, TypeOK, UsedOK
<1>2. CASE UNCHANGED tabVars
  BY <1>1, <1>2 DEF Turn, Serves, tabVars, UsedOK
<1>3. CASE Spend("lost", MaxLost) /\ WriteFails(s) /\ UNCHANGED tab
  BY <1>1, <1>3, SpendOK DEF Serves
<1> QED BY <1>2, <1>3 DEF Turn

LEMMA BrowseOK ==
    ASSUME TypeInv, UsedOK, Browse
    PROVE  TabStep /\ UsedOK' /\ TablesOK'
<1>1. CASE Elsewhere
  BY <1>1, ElsewhereOK
<1>2. CASE Wait
  BY <1>2, WaitOK
<1>3. ASSUME NEW t \in Tabs, Follow(t) \/ Ask(t) \/ Click(t) \/ CloseChallenge(t)
                             \/ SubmitLogin(t) \/ UsePasskey(t)
      PROVE  TabStep /\ UsedOK' /\ TablesOK'
  BY <1>3, FollowOK, AskOK, ClickOK, CloseChallengeOK, SubmitLoginOK, UsePasskeyOK
<1>4. ASSUME NEW s \in Slots, \/ Cancel(s) \/ Confirm(s) \/ Lose(s) \/ Unread(s)
                              \/ ReceiveLoad(s) \/ ReceiveSignIn(s)
                              \/ ReceiveChallenge(s) \/ ReceiveWrite(s)
      PROVE  TabStep /\ UsedOK' /\ TablesOK'
  BY <1>4, CancelOK, ConfirmOK, LoseOK, UnreadOK, ReceiveLoadOK, ReceiveSignInOK,
     ReceiveChallengeOK, ReceiveWriteOK
<1> QED BY <1>1, <1>2, <1>3, <1>4 DEF Browse

LEMMA BrowseTables ==
    ASSUME Browse
    PROVE  /\ UNCHANGED <<admins, token, signins, moneyVars>>
           /\ Wait \/ UNCHANGED ticketVars
BY DEF Browse, Follow, Ask, Click, CloseChallenge, SubmitLogin, UsePasskey, Elsewhere, Wait,
       Expire, Cancel, Confirm, Lose, Unread, ReadFails, FailureSeen, NothingRead, ReceiveLoad,
       ReceiveSignIn, ReceiveChallenge, ReceiveWrite, serverVars, ticketVars

LEMMA ServedTypes ==
    ASSUME TypeInv, NEW s \in Slots, Served(s), TablesOK', tab' = tab, UsedOK'
    PROVE  TypeInv'
<1>1. \A r \in Slots : ArgOK(req'[r])
  BY DEF Served, Kept, ArgOK, TypeInv, ReqsOK
<1>2. \A r \in Slots : OwnerOK(req'[r], tab)
  BY DEF Served, Kept, OwnerOK, TypeInv, ReqsOK
<1>3. ReqsOK(req', tab')
  BY <1>1, <1>2 DEF ReqsOK
<1>4. TypeOK'
  BY DEF TypeInv, TypeOK, TablesOK, Served, Loads, UsedOK
<1>5. MfaOK(tab')
  BY DEF TypeInv
<1> QED BY <1>3, <1>4, <1>5 DEF TypeInv

LEMMA StepTypes ==
    ASSUME TypeInv, [Next]_vars
    PROVE  TypeInv'
<1>1. CASE Browse
  <2>1. UsedOK
    BY DEF TypeInv, TypeOK, UsedOK
  <2>2. TabStep /\ UsedOK' /\ TablesOK'
    BY <1>1, <2>1, BrowseOK
  <2>3. TypeOK'
    BY <2>2 DEF TypeOK, TabStep, CallsOK, TabsOK, UsedOK, TablesOK
  <2> QED BY <2>2, <2>3 DEF TypeInv, TabStep, CallsOK, TabsOK
<1>2. ASSUME NEW s \in Slots, Turn(s) PROVE TypeInv'
  BY <1>2, TurnServes, ServeOK, ServedTypes
<1>3. CASE UNCHANGED vars
  BY <1>3 DEF TypeInv, TypeOK, ReqsOK, ArgOK, OwnerOK, MfaOK, Loads, vars, tabVars, serverVars,
              factorVars, ticketVars, moneyVars
<1> QED BY <1>1, <1>2, <1>3, NextIs
LEMMA NewTabType ==
    ASSUME TablesOK, NEW page \in Pages, NEW u \in Users \cup {None}
    PROVE  /\ NewTab(page, u) \in Tab /\ NewTab(page, u).page = page
           /\ NewTab(page, u).loading = FALSE
<1>1. ViewOn(page, u) \in View
  <2>1. TokensOf(u) \in SUBSET TokenIds
    BY DEF TokensOf
  <2>2. CASE page = "profile"
    <3>1. ViewOf("profile", u) \in View
      BY ViewOfType DEF Reads
    <3> QED BY <2>1, <2>2, <3>1, ViewType DEF ViewOn
  <2>3. CASE page \in AdminPages /\ u \in admins
    <3>1. ViewOf(page, u) \in View
      BY <2>3, ViewOfType DEF Reads, AdminReads, AdminPages
    <3> QED BY <2>3, <3>1 DEF ViewOn, AdminPages
  <2>4. CASE page # "profile" /\ ~(page \in AdminPages /\ u \in admins)
    BY <2>4, ViewType DEF ViewOn
  <2> QED BY <2>2, <2>3, <2>4 DEF AdminPages
<1> DEFINE b == u \in admins
           v == ViewOn(page, u)
<1>2. b \in BOOLEAN
  OBVIOUS
<1>3. NewTab(page, u) = [page |-> page, user |-> u, admin |-> b, loading |-> FALSE, view |-> v,
                         ticket |-> None, challenge |-> None, calm |-> TRUE]
  BY DEF NewTab
<1> HIDE DEF b, v
<1> QED BY <1>1, <1>2, <1>3 DEF Tab, v

LEMMA InitTypes ==
    ASSUME Init
    PROVE  TypeInv
<1>1. TablesOK
  <2>1. admins \in SUBSET Users /\ signins \in [TicketIds -> Nat]
    BY DEF Init
  <2>2. device \in [DeviceIds -> Device]
    <3>1. [state |-> "unused", user |-> None, kind |-> "none"] \in Device
      BY DEF Device
    <3>2. [state : {"live"}, user : Users, kind : Kinds] \subseteq Device
      BY DEF Device
    <3> QED BY <3>1, <3>2 DEF Init
  <2>3. token \in [TokenIds -> Token]
    <3>1. Unused \in Token /\ [state : {"live"}, user : Users] \subseteq Token
      BY DEF Token, Unused
    <3> QED BY <3>1 DEF Init
  <2>4. ticket \in [TicketIds -> Ticket]
    <3>1. Unused \in Ticket /\ [state : {"live"}, user : Users] \subseteq Ticket
      BY DEF Ticket, Unused
    <3> QED BY <3>1 DEF Init
  <2>5. currency \in [Codes -> Currency]
    <3>1. [id : {0}, live : BOOLEAN] \subseteq Currency
      BY DEF Currency
    <3> QED BY <3>1 DEF Init
  <2>6. party \in [Parties -> Party]
    BY DEF Init
  <2> QED BY <2>1, <2>2, <2>3, <2>4, <2>5, <2>6 DEF TablesOK
<1>2. req \in [Slots -> Request] /\ \A s \in Slots : req[s] = Idle
  BY IdleType DEF Init
<1>3. ReqsOK(req, tab)
  BY <1>2, IdleOK DEF ReqsOK
<1>4. Users # {}
  <2>1. admins \subseteq Users /\ admins # {}
    BY DEF Init
  <2> QED BY <2>1
<1>5. used \in [moves : Nat, writes : Nat, lost : Nat, by : SUBSET (Tabs \cup {None})]
  BY DEF Init
<1> DEFINE Good(x) == /\ x \in Tab /\ x.loading = FALSE
                      /\ x.page = "mfa" => x.ticket \in TicketIds
<1>6. ASSUME NEW page \in Pages \ {"mfa"}, NEW u \in Users \cup {None}
      PROVE  Good(NewTab(page, u))
  BY <1>1, NewTabType
<1>7. ASSUME NEW u \in Users, NEW k \in TicketIds PROVE Good(HalfWay(u, k))
  <2> DEFINE n == NewTab("mfa", None)
             ds == DevicesOf(u, {"totp", "fido"})
             y1 == [n EXCEPT !.ticket = k]
             v == [y1.view EXCEPT !.devices = ds]
             y2 == [y1 EXCEPT !.view = v]
  <2>1. n \in Tab /\ n.page = "mfa" /\ n.loading = FALSE
    BY <1>1, NewTabType DEF Pages
  <2>2. HalfWay(u, k) = [[n EXCEPT !.ticket = k] EXCEPT !.view.devices = ds]
    BY DEF HalfWay
  <2>3. ds \in SUBSET DeviceIds
    BY DEF DevicesOf
  <2> HIDE DEF n, ds
  <2>4. y1 \in Tab
    BY <2>1, TabFields
  <2>5. y1.page = "mfa" /\ y1.loading = FALSE /\ y1.ticket = k
    BY <2>1 DEF Tab
  <2>6. HalfWay(u, k) = [y1 EXCEPT !.view.devices = ds]
    BY <2>2
  <2> HIDE DEF y1
  <2>7. HalfWay(u, k) = y2
    BY <2>4, <2>6 DEF Tab
  <2>8. v \in View
    BY <2>3, <2>4, ViewType DEF Tab
  <2> HIDE DEF v
  <2>9. y2 \in Tab
    BY <2>4, <2>8, TabFields
  <2>10. y2.page = "mfa" /\ y2.loading = FALSE /\ y2.ticket = k
    BY <2>4, <2>5 DEF Tab
  <2> QED BY <2>7, <2>9, <2>10
<1>8. ASSUME NEW u \in Users PROVE Good(Stale(u))
  <2> DEFINE n == NewTab("profile", u)
             y1 == [n EXCEPT !.view = NoView]
             y2 == [y1 EXCEPT !.calm = FALSE]
  <2>1. n \in Tab /\ n.page = "profile" /\ n.loading = FALSE
    BY <1>1, NewTabType DEF Pages
  <2>2. Stale(u) = y2
    BY DEF Stale
  <2> HIDE DEF n
  <2>3. y1 \in Tab
    BY <2>1, TabFields, ViewType
  <2>4. y1.page = "profile" /\ y1.loading = FALSE
    BY <2>1 DEF Tab
  <2> HIDE DEF y1
  <2>5. y2 \in Tab
    BY <2>3, TabFields
  <2>6. y2.page = "profile" /\ y2.loading = FALSE
    BY <2>3, <2>4 DEF Tab
  <2> QED BY <2>2, <2>5, <2>6
<1>9. ASSUME NEW t \in Tabs PROVE Good(tab[t])
  <2>1. \/ tab[t] = NewTab("login", None)
        \/ \E page \in Pages \ {"login", "mfa"}, u \in Users : tab[t] = NewTab(page, u)
        \/ \E u \in Users, k \in TicketIds : tab[t] = HalfWay(u, k)
        \/ \E u \in Users : tab[t] = Stale(u)
    BY DEF Init
  <2> HIDE DEF Good
  <2> QED BY <1>6, <1>7, <1>8, <2>1 DEF Pages
<1>10. tab = [t \in Tabs |-> tab[t]]
  BY DEF Init
<1>11. tab \in [Tabs -> Tab] /\ MfaOK(tab) /\ \A t \in Tabs : tab[t].loading => Loads(tab[t])
  BY <1>9, <1>10 DEF MfaOK
<1> QED BY <1>1, <1>2, <1>3, <1>4, <1>5, <1>11 DEF TypeInv, TypeOK, TablesOK

LEMMA TypesHold == Spec => []TypeInv
<1>1. Init => TypeInv
  BY InitTypes
<1>2. TypeInv /\ [Next]_vars => TypeInv'
  BY StepTypes
<1> QED BY <1>1, <1>2, PTL DEF Spec

(* Every variable keeps its type, and only a page that loads waits for a   *)
(* load: whatever the numbers of users, tabs, requests, devices and tokens.*)
THEOREM TypeCorrect == Spec => []TypeOK
<1>1. TypeInv => TypeOK
  BY DEF TypeInv
<1> QED BY <1>1, TypesHold, PTL
-----------------------------------------------------------------------------
(* Who writes a table, and who serves an operation                         *)

LEMMA Writers ==
    ASSUME TypeInv, NEW s \in Slots, Serves(s)
    PROVE  /\ admins' = admins \/ Toggled(s)
           /\ token' = token \/ TokenInserted(s) \/ TokenRevoked(s)
           /\ UNCHANGED ticketVars \/ MethodsRead(s) \/ TicketSpent(s) \/ Stumbled(s)
           /\ currency' = currency \/ CodeInserted(s) \/ RowDeleted(s)
           /\ party' = party \/ PartyWritten(s)
<1>1. CASE WriteFails(s)
  BY <1>1, WriteFailsStumbles DEF Stumbled, moneyVars
<1>2. CASE Serve(s)
  BY <1>2 DEF Serve, Authorize, Read, PasswordChecked, MethodsRead, TicketRead, FactorRead,
         TicketSpent, PasskeyUsed, ChallengeMade, ChallengeAnswered, FactorInserted,
         FactorDeleted, TokensCounted, TokenInserted, TokenRevoked, Toggled, CodeCounted,
         CodeInserted, RowRead, PartiesCounted, RowDeleted, CodesChecked,
         PartyWritten, ticketVars, moneyVars
<1> QED BY <1>1, <1>2 DEF Serves

LEMMA Servers ==
    ASSUME TypeInv, NEW s \in Slots, Serves(s)
    PROVE  /\ req[s].op \in {"totp", "fido"} =>
                 TicketRead(s) \/ FactorRead(s) \/ TicketSpent(s) \/ req'[s].pc = "answered"
           /\ req[s].op = "mint" =>
                 TokensCounted(s) \/ TokenInserted(s) \/ req'[s].pc = "answered"
           /\ req[s].op = "del" =>
                 \/ Authorize(s) \/ RowRead(s) \/ PartiesCounted(s) \/ RowDeleted(s)
                 \/ req'[s].pc = "answered" \/ req'[s].blind
<1>1. CASE WriteFails(s)
  BY <1>1, WriteFailsStumbles DEF Stumbled
<1>2. CASE Serve(s)
  BY <1>2 DEF Serve, At, Authorize, Read, PasswordChecked, MethodsRead, TicketRead, FactorRead,
         TicketSpent, PasskeyUsed, ChallengeMade, ChallengeAnswered, FactorInserted,
         FactorDeleted, TokensCounted, TokenInserted, TokenRevoked, Toggled, CodeCounted,
         CodeInserted, RowRead, PartiesCounted, RowDeleted, CodesChecked, PartyWritten,
         AdminReads, AdminWrites, Reads
<1> QED BY <1>1, <1>2 DEF Serves

LEMMA BrowseLight ==
    ASSUME TypeInv, Browse
    PROVE  \A r \in Slots : Light(req'[r], req[r])
<1>1. UsedOK
  BY DEF TypeInv, TypeOK, UsedOK
<1> QED BY <1>1, BrowseOK DEF TabStep, CallsOK

-----------------------------------------------------------------------------
(* Administrators                                                          *)

LEMMA AdminsStep ==
    ASSUME TypeInv, [Next]_vars, admins # {}, admins' = {}
    PROVE  \E s \in Slots : At(s, {"toggle"}, "authed") /\ req'[s].pc = "answered"
                            /\ req[s].user \notin admins
<1>1. CASE Browse
  BY <1>1, BrowseTables
<1>2. CASE UNCHANGED vars
  BY <1>2 DEF vars, serverVars
<1>3. ASSUME NEW s \in Slots, Turn(s)
      PROVE  At(s, {"toggle"}, "authed") /\ req'[s].pc = "answered" /\ req[s].user \notin admins
  <2>1. Toggled(s)
    BY <1>3, TurnServes, Writers
  <2>2. /\ At(s, {"toggle"}, "authed") /\ req'[s].pc = "answered"
        /\ admins' \in {admins, admins \cup {req[s].arg}, admins \ {req[s].arg}}
        /\ admins' # admins => req[s].arg # req[s].user
    BY <2>1, ToggledServed, TypeInvParts
  <2>3. admins \subseteq {req[s].arg} /\ req[s].arg # req[s].user
    BY <2>2
  <2> QED BY <2>2, <2>3
<1> QED BY <1>1, <1>2, <1>3, NextIs

(* The last administrator goes only by a request of somebody who had the   *)
(* right when it was asked for and has it no longer: however many          *)
(* administrators take each other's rights at the same time.               *)
THEOREM AdminsRemainCorrect == Spec => AdminsRemain
<1>1. TypeInv /\ [Next]_vars =>
        [admins # {} /\ admins' = {} =>
            \E s \in Slots : At(s, {"toggle"}, "authed") /\ req'[s].pc = "answered"
                             /\ req[s].user \notin admins]_vars
  BY AdminsStep
<1> QED BY <1>1, TypesHold, PTL DEF Spec, AdminsRemain

-----------------------------------------------------------------------------
(* Tickets                                                                 *)

(* What tickets.Delete leaves behind: the ticket is gone, and answers that *)
(* had read it are late.                                                   *)
SpentFor(k) ==
    /\ ticket[k].state = "gone"
    /\ \A s \in Slots :
          req[s].op \in {"totp", "fido"} /\ req[s].arg = k /\ req[s].pc \in {"checked", "counted"}
             => req[s].late

TicketInv == \A k \in TicketIds : signins[k] > 0 => SpentFor(k)

\* A request that moves on by itself does not get hold of a spent ticket.
LEMMA SpentStays ==
    ASSUME TypeInv, NEW s \in Slots, Serves(s), NEW k \in TicketIds, SpentFor(k),
           ticket'[k].state = "gone"
    PROVE  SpentFor(k)'
<1>1. TablesOK
  BY TypeInvParts
<1>2. Served(s)
  BY ServeOK
<1>3. ASSUME NEW r \in Slots, r # s, req'[r].op \in {"totp", "fido"}, req'[r].arg = k,
             req'[r].pc \in {"checked", "counted"}
      PROVE  req'[r].late
  BY <1>2, <1>3 DEF Served, Waited, SpentFor
<1>4. ASSUME req'[s].op \in {"totp", "fido"}, req'[s].arg = k,
             req'[s].pc \in {"checked", "counted"}
      PROVE  req'[s].late
  <2>1. req[s].op \in {"totp", "fido"} /\ req[s].arg = k
    BY <1>2, <1>4 DEF Served, Kept
  <2>2. CASE TicketRead(s)
    BY <1>1, <1>4, <2>2, TicketReadServed DEF SpentFor
  <2>3. CASE FactorRead(s)
    BY <1>1, <1>4, <2>1, <2>3, FactorReadServed DEF SpentFor
  <2>4. CASE TicketSpent(s)
    BY <1>1, <1>4, <2>4, TicketSpentServed
  <2> QED BY <1>4, <2>1, <2>2, <2>3, <2>4, Servers
<1> QED BY <1>3, <1>4 DEF SpentFor

LEMMA TicketSpends ==
    ASSUME TypeInv, TicketInv, NEW s \in Slots, TicketSpent(s)
    PROVE  TicketInv'
<1>1. TablesOK
  BY TypeInvParts
<1>2. /\ Served(s) /\ TablesOK'
      /\ At(s, {"totp", "fido"}, "counted") /\ req'[s].pc = "answered"
      /\ \/ UNCHANGED ticketVars
         \/ /\ ticket' = [ticket EXCEPT ![req[s].arg].state = "gone"]
            /\ signins' = [signins EXCEPT ![req[s].arg] = @ + 1]
            /\ \A r \in Slots \ {s} :
                  req[r].op \in {"totp", "fido"} /\ req[r].arg = req[s].arg
                     /\ req[r].pc \in {"checked", "counted"} => req'[r].late
  BY <1>1, TicketSpentServed
<1>3. req[s].arg \in TicketIds
  BY <1>2 DEF At, TypeInv, ReqsOK, ArgOK
<1>4. Serves(s)
  BY DEF Serve, Serves
<1>5. ASSUME NEW k \in TicketIds, signins'[k] > 0, k # req[s].arg \/ UNCHANGED ticketVars
      PROVE  SpentFor(k)'
  <2>1. ticket'[k] = ticket[k] /\ signins'[k] = signins[k]
    BY <1>1, <1>2, <1>5 DEF TablesOK, ticketVars
  <2>2. SpentFor(k) /\ ticket'[k].state = "gone"
    BY <1>5, <2>1 DEF TicketInv, SpentFor
  <2> QED BY <1>4, <2>2, SpentStays
<1>6. ASSUME NEW k \in TicketIds, k = req[s].arg, ~UNCHANGED ticketVars PROVE SpentFor(k)'
  <2>1. ticket'[k].state = "gone"
    BY <1>1, <1>2, <1>3, <1>6 DEF TablesOK, Ticket
  <2>2. ASSUME NEW r \in Slots, r # s, req'[r].op \in {"totp", "fido"}, req'[r].arg = k,
               req'[r].pc \in {"checked", "counted"}
        PROVE  req'[r].late
    BY <1>2, <1>6, <2>2 DEF Served, Waited
  <2>3. ASSUME NEW r \in Slots, req'[r].op \in {"totp", "fido"}, req'[r].arg = k,
               req'[r].pc \in {"checked", "counted"}
        PROVE  req'[r].late
    BY <1>2, <2>2, <2>3
  <2> QED BY <2>1, <2>3 DEF SpentFor
<1> QED BY <1>5, <1>6 DEF TicketInv
LEMMA TicketStep ==
    ASSUME TypeInv, TicketInv, [Next]_vars
    PROVE  TicketInv'
<1>1. TablesOK
  BY TypeInvParts
<1>2. CASE Browse
  <2>1. UsedOK
    BY DEF TypeInv, TypeOK, UsedOK
  <2>2. signins' = signins
    BY <1>2, BrowseTables
  <2>3. \A k \in TicketIds : ticket'[k] = ticket[k] \/ ticket'[k].state = "gone"
    BY <1>2, <2>1, BrowseTables, WaitOK DEF ticketVars
  <2>4. ASSUME NEW k \in TicketIds, SpentFor(k) PROVE SpentFor(k)'
    BY <1>2, <2>3, <2>4, BrowseLight DEF Light, SpentFor
  <2> QED BY <2>2, <2>4 DEF TicketInv
<1>3. ASSUME NEW s \in Slots, Serves(s) PROVE TicketInv'
  <2>1. CASE TicketSpent(s)
    BY <2>1, TicketSpends
  <2>2. CASE ~TicketSpent(s)
    <3>1. /\ signins' = signins
          /\ \A k \in TicketIds :
                ticket'[k] = ticket[k] \/ ticket[k].state = "unused" \/ ticket'[k].state = "gone"
      BY <1>1, <1>3, <2>2, Writers, MethodsReadServed DEF ticketVars, Stumbled
    <3>2. ASSUME NEW k \in TicketIds, SpentFor(k) PROVE SpentFor(k)'
      <4>1. ticket'[k].state = "gone"
        BY <3>1, <3>2 DEF SpentFor
      <4> QED BY <1>3, <3>2, <4>1, SpentStays
    <3> QED BY <3>1, <3>2 DEF TicketInv
  <2> QED BY <2>1, <2>2
<1>4. CASE UNCHANGED vars
  BY <1>4 DEF TicketInv, SpentFor, vars, serverVars, ticketVars
<1> QED BY <1>2, <1>3, <1>4, NextIs, TurnServes

LEMMA SignInStep ==
    ASSUME TypeInv, TicketInv, [Next]_vars, NEW k \in TicketIds, signins'[k] > signins[k],
           signins[k] > 0
    PROVE  \E s \in Slots : At(s, {"totp", "fido"}, "counted") /\ req'[s].pc = "answered"
                            /\ req[s].arg = k /\ req[s].late
<1>1. TablesOK
  BY TypeInvParts
<1>2. signins[k] \in Nat
  BY <1>1 DEF TablesOK
<1>3. signins' # signins
  BY <1>2
<1>4. PICK s \in Slots : Serves(s)
  BY <1>3, NextIs, TurnServes, BrowseTables DEF vars, serverVars, ticketVars
<1>5. TicketSpent(s)
  BY <1>1, <1>3, <1>4, Writers, MethodsReadServed DEF ticketVars, Stumbled
<1>6. /\ At(s, {"totp", "fido"}, "counted") /\ req'[s].pc = "answered"
      /\ signins' = [signins EXCEPT ![req[s].arg] = @ + 1]
  BY <1>1, <1>3, <1>5, TicketSpentServed DEF ticketVars
<1>7. req[s].arg = k
  BY <1>1, <1>2, <1>6 DEF TablesOK
<1>8. SpentFor(k)
  BY DEF TicketInv
<1> QED BY <1>6, <1>7, <1>8 DEF SpentFor, At

(* A ticket that has signed in is gone, and signs in again only for an     *)
(* answer that was past tickets.Get by then: whatever the numbers of tabs, *)
(* of factors and of answers under way.                                    *)
THEOREM TicketsAreSpentCorrect == Spec => TicketsAreSpent
<1>1. Init => TicketInv
  BY DEF Init, TicketInv
<1>2. TypeInv /\ TicketInv /\ [Next]_vars => TicketInv'
  BY TicketStep
<1>3. TypeInv /\ TicketInv /\ [Next]_vars =>
        [\A k \in TicketIds : signins'[k] > signins[k] /\ signins[k] > 0 =>
            \E s \in Slots : At(s, {"totp", "fido"}, "counted") /\ req'[s].pc = "answered"
                             /\ req[s].arg = k /\ req[s].late]_vars
  BY SignInStep
<1> QED BY <1>1, <1>2, <1>3, TypesHold, PTL DEF Spec, TicketsAreSpent

-----------------------------------------------------------------------------
(* Currencies                                                              *)

(* What a deletion has counted holds until a party makes it late, unless   *)
(* it has not counted.                                                     *)
CountInv ==
    \A s \in Slots :
        At(s, {"del"}, "counted") => req[s].late \/ req[s].blind \/ Supporting(req[s].arg) = {}

LEMMA CountStep ==
    ASSUME TypeInv, CountInv, [Next]_vars
    PROVE  CountInv'
<1>1. TablesOK
  BY TypeInvParts
<1>2. CASE Browse
  <2>1. party' = party
    BY <1>2, BrowseTables DEF moneyVars
  <2>2. ASSUME NEW r \in Slots, req'[r].op = "del", req'[r].pc = "counted"
        PROVE  /\ At(r, {"del"}, "counted") /\ req'[r].arg = req[r].arg
               /\ req'[r].late = req[r].late /\ req'[r].blind = req[r].blind
    BY <1>2, <2>2, BrowseLight DEF Light, At
  <2> QED BY <2>1, <2>2 DEF CountInv, At, Supporting
<1>3. ASSUME NEW s \in Slots, Serves(s) PROVE CountInv'
  <2>1. Served(s)
    BY <1>3, ServeOK
  <2>2. ASSUME NEW r \in Slots, r # s, req'[r].op = "del", req'[r].pc = "counted"
        PROVE  req'[r].late \/ req'[r].blind \/ Supporting(req[r].arg)' = {}
    <3>1. /\ At(r, {"del"}, "counted") /\ req'[r].arg = req[r].arg
          /\ (req[r].late => req'[r].late) /\ (req[r].blind => req'[r].blind)
      BY <2>1, <2>2 DEF Served, Waited, At
    <3>2. CASE PartyWritten(s)
      BY <1>1, <2>2, <3>1, <3>2, PartyWrittenServed DEF CountInv, Supporting
    <3>3. CASE party' = party
      BY <3>1, <3>3 DEF CountInv, Supporting
    <3> QED BY <1>3, <3>2, <3>3, Writers
  <2>3. ASSUME req'[s].op = "del", req'[s].pc = "counted"
        PROVE  req'[s].blind \/ Supporting(req[s].arg)' = {}
    <3>1. req[s].op = "del"
      BY <2>1, <2>3 DEF Served, Kept
    <3>2. PartiesCounted(s) \/ req'[s].blind
      BY <1>1, <1>3, <2>3, <3>1, Servers, AuthorizeServed, RowReadServed, RowDeletedServed
    <3>3. PartiesCounted(s) => party' = party /\ Supporting(req'[s].arg) = {}
      BY <1>1, <2>3, PartiesCountedServed DEF moneyVars
    <3> QED BY <3>2, <3>3 DEF Supporting
  <2> QED BY <2>2, <2>3 DEF CountInv, At
<1>4. CASE UNCHANGED vars
  BY <1>4 DEF CountInv, At, Supporting, vars, serverVars, moneyVars
<1> QED BY <1>2, <1>3, <1>4, NextIs, TurnServes

LEMMA DeleteStep ==
    ASSUME TypeInv, CountInv, [Next]_vars, NEW c \in Codes, currency[c].live,
           ~currency'[c].live, Supporting(c) # {}
    PROVE  \E s \in Slots : At(s, {"del"}, "counted") /\ req'[s].pc = "answered"
                            /\ req[s].arg = c /\ (req[s].late \/ req[s].blind)
<1>1. TablesOK
  BY TypeInvParts
<1>2. currency' # currency
  OBVIOUS
<1>3. PICK s \in Slots : Serves(s)
  BY <1>2, NextIs, TurnServes, BrowseTables DEF vars, serverVars, moneyVars
<1>4. RowDeleted(s)
  BY <1>1, <1>2, <1>3, Writers, CodeInsertedServed
<1>5. At(s, {"del"}, "counted") /\ req'[s].pc = "answered" /\ req[s].arg = c
  BY <1>1, <1>4, RowDeletedServed
<1> QED BY <1>5 DEF CountInv

(* A currency in use is deleted only when the party came to use it after   *)
(* the deletion had counted, or when its count failed: whatever the        *)
(* numbers of parties, of codes and of requests.                           *)
THEOREM CurrenciesInUseStayCorrect == Spec => CurrenciesInUseStay
<1>1. Init => CountInv
  <2>1. Idle.op = "none"
    BY DEF Idle
  <2> QED BY <2>1 DEF Init, CountInv, At
<1>2. TypeInv /\ CountInv /\ [Next]_vars => CountInv'
  BY CountStep
<1>3. TypeInv /\ CountInv /\ [Next]_vars =>
        [\A c \in Codes : currency[c].live /\ ~currency'[c].live /\ Supporting(c) # {} =>
            \E s \in Slots : At(s, {"del"}, "counted") /\ req'[s].pc = "answered"
                             /\ req[s].arg = c /\ (req[s].late \/ req[s].blind)]_vars
  BY DeleteStep
<1> QED BY <1>1, <1>2, <1>3, TypesHold, PTL DEF Spec, CurrenciesInUseStay
-----------------------------------------------------------------------------
(* API tokens                                                              *)

LEMMA Counts ==
    ASSUME NEW u
    PROVE  /\ IsFiniteSet(TokensOf(u)) /\ Cardinality(TokensOf(u)) \in Nat
           /\ IsFiniteSet(Minting(u)) /\ Cardinality(Minting(u)) \in Nat
           /\ Cardinality(Minting(u)) <= Cardinality(Slots)
           /\ Cardinality(Slots) \in Nat \ {0} /\ TokenLimit \in Nat
<1>1. TokensOf(u) \in SUBSET TokenIds /\ Minting(u) \in SUBSET Slots
  BY DEF TokensOf, Minting
<1>2. IsFiniteSet(TokenIds) /\ IsFiniteSet(Slots) /\ Slots # {} /\ TokenLimit \in Nat
  BY ServerAssumption
<1>3. IsFiniteSet(TokensOf(u)) /\ IsFiniteSet(Minting(u))
      /\ Cardinality(Minting(u)) <= Cardinality(Slots)
  BY <1>1, <1>2, FS_Subset
<1>4. Cardinality(Slots) # 0
  BY <1>2, FS_EmptySet
<1> QED BY <1>2, <1>3, <1>4, FS_CardinalityType

\* Another INSERT can start only with the count of it.
LEMMA MintingStep ==
    ASSUME TypeInv, NEW s \in Slots, Serves(s), ~TokensCounted(s), NEW u
    PROVE  Minting(u)' \subseteq Minting(u)
<1>1. Served(s) /\ TablesOK
  BY ServeOK, TypeInvParts
<1>2. ASSUME NEW r \in Slots, r # s, req'[r].op = "mint", req'[r].pc = "counted"
      PROVE  At(r, {"mint"}, "counted") /\ req'[r].user = req[r].user
  BY <1>1, <1>2 DEF Served, Waited, At
<1>3. ~(req'[s].op = "mint" /\ req'[s].pc = "counted")
  BY <1>1, Servers, TokenInsertedServed DEF Served, Kept
<1> QED BY <1>2, <1>3 DEF Minting, At

LEMMA CountedWithin ==
    ASSUME TypeInv, TokensWithinLimit, NEW s \in Slots, TokensCounted(s)
    PROVE  TokensWithinLimit'
<1>1. /\ Served(s) /\ token' = token /\ At(s, {"mint"}, "sent")
      /\ \/ req'[s].pc = "answered"
         \/ /\ ~(Cardinality(TokensOf(req[s].user)) >= TokenLimit)
            /\ req'[s].user = req[s].user
  BY TokensCountedServed, TypeInvParts
<1>2. ASSUME NEW u \in Users
      PROVE  Cardinality(TokensOf(u))' + Cardinality(Minting(u))' < TokenLimit + Cardinality(Slots)
  <2>1. TokensOf(u)' = TokensOf(u)
    BY <1>1 DEF TokensOf
  <2>2. Minting(u)' \in SUBSET Slots
    BY DEF Minting
  <2>3. ASSUME NEW r \in Slots, r # s, req'[r].op = "mint", req'[r].pc = "counted"
        PROVE  At(r, {"mint"}, "counted") /\ req'[r].user = req[r].user
    BY <1>1, <2>3 DEF Served, Waited, At
  <2>4. CASE req'[s].pc = "answered" \/ req[s].user # u
    <3>1. Minting(u)' \subseteq Minting(u)
      BY <1>1, <2>3, <2>4 DEF Minting, At
    <3>2. Cardinality(Minting(u)') <= Cardinality(Minting(u)) /\ Cardinality(Minting(u)') \in Nat
      BY <3>1, Counts, FS_Subset, FS_CardinalityType
    <3> QED BY <2>1, <3>2, Counts DEF TokensWithinLimit
  <2>5. CASE ~(req'[s].pc = "answered") /\ req[s].user = u
    <3>1. Cardinality(TokensOf(u)) < TokenLimit
      BY <1>1, <2>5, Counts
    <3>2. Cardinality(Minting(u)') <= Cardinality(Slots) /\ Cardinality(Minting(u)') \in Nat
      BY <2>2, ServerAssumption, FS_Subset, FS_CardinalityType
    <3> QED BY <2>1, <3>1, <3>2, Counts
  <2> QED BY <2>4, <2>5
<1> QED BY <1>2 DEF TokensWithinLimit

LEMMA InsertedWithin ==
    ASSUME TypeInv, TokensWithinLimit, NEW s \in Slots, TokenInserted(s)
    PROVE  TokensWithinLimit'
<1>1. /\ Served(s) /\ At(s, {"mint"}, "counted") /\ req'[s].pc = "answered"
      /\ \E k \in TokenIds :
            token' = [token EXCEPT ![k] = [state |-> "live", user |-> req[s].user]]
  BY TokenInsertedServed, TypeInvParts
<1>2. PICK k \in TokenIds : token' = [token EXCEPT ![k] = [state |-> "live", user |-> req[s].user]]
  BY <1>1
<1>3. token \in [TokenIds -> Token]
  BY DEF TypeInv, TypeOK
<1>4. ASSUME NEW u \in Users
      PROVE  Cardinality(TokensOf(u))' + Cardinality(Minting(u))' < TokenLimit + Cardinality(Slots)
  <2>1. ASSUME NEW r \in Slots, r # s, req'[r].op = "mint", req'[r].pc = "counted"
        PROVE  At(r, {"mint"}, "counted") /\ req'[r].user = req[r].user
    BY <1>1, <2>1 DEF Served, Waited, At
  <2>2. Minting(u)' \subseteq Minting(u) \ {s}
    BY <1>1, <2>1 DEF Minting, At
  <2>3. CASE req[s].user # u
    <3>1. TokensOf(u)' \subseteq TokensOf(u)
      BY <1>2, <1>3, <2>3 DEF TokensOf
    <3>2. /\ Cardinality(Minting(u)') <= Cardinality(Minting(u)) /\ Cardinality(Minting(u)') \in Nat
          /\ Cardinality(TokensOf(u)') <= Cardinality(TokensOf(u))
          /\ Cardinality(TokensOf(u)') \in Nat
      BY <2>2, <3>1, Counts, FS_Subset, FS_CardinalityType
    <3> QED BY <3>2, Counts DEF TokensWithinLimit
  <2>4. CASE req[s].user = u
    <3>1. TokensOf(u)' \in SUBSET (TokensOf(u) \cup {k})
      BY <1>2, <1>3 DEF TokensOf
    <3>2. IsFiniteSet(TokensOf(u) \cup {k})
          /\ Cardinality(TokensOf(u) \cup {k}) <= Cardinality(TokensOf(u)) + 1
      <4>1. IsFiniteSet(TokensOf(u)) /\ Cardinality(TokensOf(u)) \in Nat
        BY Counts
      <4>2. /\ IsFiniteSet(TokensOf(u) \cup {k})
            /\ Cardinality(TokensOf(u) \cup {k}) = IF k \in TokensOf(u) THEN Cardinality(TokensOf(u))
                                                   ELSE Cardinality(TokensOf(u)) + 1
        BY <4>1, FS_AddElement
      <4>3. CASE k \in TokensOf(u)
        BY <4>1, <4>2, <4>3
      <4>4. CASE k \notin TokensOf(u)
        BY <4>1, <4>2, <4>4
      <4> QED BY <4>2, <4>3, <4>4
    <3>3. Cardinality(TokensOf(u)') <= Cardinality(TokensOf(u)) + 1
          /\ Cardinality(TokensOf(u)') \in Nat
      BY <3>1, <3>2, Counts, FS_Subset, FS_CardinalityType
    <3>4. s \in Minting(u)
      BY <1>1, <2>4 DEF Minting
    <3>5. IsFiniteSet(Minting(u) \ {s})
          /\ Cardinality(Minting(u) \ {s}) = Cardinality(Minting(u)) - 1
      BY <3>4, Counts, FS_RemoveElement
    <3>6. Cardinality(Minting(u)') <= Cardinality(Minting(u)) - 1
          /\ Cardinality(Minting(u)') \in Nat
      BY <2>2, <3>5, FS_Subset, FS_CardinalityType
    <3> QED BY <3>3, <3>6, Counts DEF TokensWithinLimit
  <2> QED BY <2>3, <2>4
<1> QED BY <1>4 DEF TokensWithinLimit

LEMMA FewerWithin ==
    ASSUME TokensWithinLimit, \A u \in Users : TokensOf(u)' \subseteq TokensOf(u),
           \A u \in Users : Minting(u)' \subseteq Minting(u)
    PROVE  TokensWithinLimit'
<1>1. ASSUME NEW u \in Users
      PROVE  Cardinality(TokensOf(u))' + Cardinality(Minting(u))' < TokenLimit + Cardinality(Slots)
  <2>1. /\ Cardinality(Minting(u)') <= Cardinality(Minting(u)) /\ Cardinality(Minting(u)') \in Nat
        /\ Cardinality(TokensOf(u)') <= Cardinality(TokensOf(u))
        /\ Cardinality(TokensOf(u)') \in Nat
    BY Counts, FS_Subset, FS_CardinalityType
  <2> QED BY <2>1, Counts DEF TokensWithinLimit
<1> QED BY <1>1 DEF TokensWithinLimit

LEMMA LimitStep ==
    ASSUME TypeInv, TokensWithinLimit, [Next]_vars
    PROVE  TokensWithinLimit'
<1>1. CASE Browse
  <2>1. \A u \in Users : TokensOf(u)' \subseteq TokensOf(u)
    BY <1>1, BrowseTables DEF TokensOf
  <2>2. ASSUME NEW r \in Slots, req'[r].op = "mint", req'[r].pc = "counted"
        PROVE  At(r, {"mint"}, "counted") /\ req'[r].user = req[r].user
    BY <1>1, <2>2, BrowseLight DEF Light, At
  <2>3. \A u \in Users : Minting(u)' \subseteq Minting(u)
    BY <2>2 DEF Minting, At
  <2> QED BY <2>1, <2>3, FewerWithin
<1>2. ASSUME NEW s \in Slots, Serves(s) PROVE TokensWithinLimit'
  <2>1. CASE TokensCounted(s)
    BY <2>1, CountedWithin
  <2>2. CASE TokenInserted(s)
    BY <2>2, InsertedWithin
  <2>3. CASE ~TokensCounted(s) /\ ~TokenInserted(s)
    <3>1. \A u \in Users : TokensOf(u)' \subseteq TokensOf(u)
      BY <1>2, <2>3, Writers, TokenRevokedServed, TypeInvParts DEF TokensOf
    <3>2. \A u \in Users : Minting(u)' \subseteq Minting(u)
      BY <1>2, <2>3, MintingStep
    <3> QED BY <3>1, <3>2, FewerWithin
  <2> QED BY <2>1, <2>2, <2>3
<1>3. CASE UNCHANGED vars
  BY <1>3 DEF TokensWithinLimit, TokensOf, Minting, At, vars, serverVars
<1> QED BY <1>1, <1>2, <1>3, NextIs, TurnServes

(* The API tokens of a user exceed their limit by fewer than the requests  *)
(* that run at a time, for every limit and every number of requests.       *)
THEOREM TokensWithinLimitCorrect == Spec => []TokensWithinLimit
<1>1. Init => TokensWithinLimit
  <2>1. ASSUME Init, NEW u \in Users
        PROVE  Cardinality(TokensOf(u)) <= TokenLimit /\ Minting(u) = {}
    <3>1. Idle.op = "none"
      BY DEF Idle
    <3> QED BY <2>1, <3>1 DEF Init, Minting, At
  <2>2. Cardinality({}) = 0
    BY FS_EmptySet
  <2>3. ASSUME Init, NEW u \in Users
        PROVE  Cardinality(TokensOf(u)) + Cardinality(Minting(u)) < TokenLimit + Cardinality(Slots)
    <3>1. Cardinality(TokensOf(u)) <= TokenLimit /\ Cardinality(Minting(u)) = 0
      BY <2>1, <2>2, <2>3
    <3> QED BY <3>1, Counts
  <2> QED BY <2>3 DEF TokensWithinLimit
<1>2. TypeInv /\ TokensWithinLimit /\ [Next]_vars => TokensWithinLimit'
  BY LimitStep
<1> QED BY <1>1, <1>2, TypesHold, PTL DEF Spec
-----------------------------------------------------------------------------
(* Pages at rest.  The server has a request that is neither idle nor a     *)
(* question to the user.                                                   *)

Flying(c) == c.pc \notin {"idle", "asked"}

FlightsOf(calls, t) == {s \in Slots : calls[s].tab = t /\ Flying(calls[s])}

OpsOf(page) ==
    CASE page = "profile"    -> {"profile", "tokens", "mint", "revoke"} \cup Enrolments
      [] page = "users"      -> {"users", "toggle"}
      [] page = "currencies" -> {"currencies", "add", "del"}
      [] OTHER               -> {}

Orderly(x) == Loads(x) /\ x.calm

\* Nobody but t has written, either.
Quiet(x, t, by) == Orderly(x) /\ by \subseteq {t}

(* What is mounted belongs to the page that is open and to its user, and   *)
(* a question that is left over from another page is asked on a page that  *)
(* is not quiet.  Whoever has sent a write is in used.by.                  *)
Known(c, tabs, by) ==
    /\ c.op \in Reads => c.mounted
    /\ c.mounted /\ c.op \in Reads \cup PageOps =>
          c.tab \in Tabs /\ c.op \in OpsOf(tabs[c.tab].page) /\ c.user = tabs[c.tab].user
    /\ c.op \in PageOps => c.tab \in Tabs
    /\ c.pc = "asked" => c.op \in Confirmed /\ (c.mounted \/ ~Quiet(tabs[c.tab], c.tab, by))
    /\ Flying(c) /\ c.op \notin Reads => c.tab \in by

Shown(x) == x.view = ViewOn(x.page, x.user)

(* The administration shows its pages to administrators, and the profile   *)
(* shows nothing of theirs.                                                *)
Settled(x) ==
    /\ x.page \in AdminPages /\ ~x.loading => x.user \in admins
    /\ x.page = "profile" => x.view.admins = {} /\ x.view.codes = {}

(* What the request of a calm page may carry: a read what the server would *)
(* still answer; and before a write is done, the page is current.          *)
Carries(c, x) ==
    /\ c.mounted /\ c.op \in OpsOf(x.page) /\ c.user = x.user
    /\ c.pc = "answered" => c.status \in {"ok", "refused"}
    /\ c.op = "profile" /\ c.pc = "answered" =>
          c.status = "ok" /\ c.view.devices = DevicesOf(x.user, Kinds)
    /\ c.op = "tokens" =>
          /\ x.view.devices = DevicesOf(x.user, Kinds)
          /\ c.pc = "answered" => c.view.tokens = TokensOf(x.user)
    /\ c.op \in AdminReads =>
          /\ c.pc = "authed" => x.user \in admins
          /\ c.pc = "answered" =>
                IF c.status = "ok" THEN x.user \in admins /\ c.view = ViewOf(c.op, x.user)
                ELSE x.user \notin admins
    /\ c.op \notin Reads /\ ~(c.pc = "answered" /\ Reloads(c)) => x.loading \/ Shown(x)

QuietOK(calls, x, t) ==
    /\ \A s, r \in FlightsOf(calls, t) : s = r
    /\ \A s \in FlightsOf(calls, t) : Carries(calls[s], x)
    /\ FlightsOf(calls, t) = {} => x.loading \/ Shown(x)
    /\ Settled(x)

CallsKnown(calls, tabs, by) == \A s \in Slots : Known(calls[s], tabs, by)

QuietInv ==
    \A t \in Tabs : \A x \in {tab[t]}, calls \in {req} :
        Quiet(x, t, used.by) => QuietOK(calls, x, t)

CurrentInv == CallsKnown(req, tab, used.by) /\ QuietInv

(* The same page with the same view.                                       *)
Alike(y, x) ==
    /\ y.page = x.page /\ y.user = x.user /\ y.admin = x.admin /\ y.loading = x.loading
    /\ y.view = x.view /\ (y.calm => x.calm)

(* Of t, the server has the same requests in both.                         *)
Agree(calls, reqs, t) ==
    \A s \in Slots :
        \/ calls[s].tab = t /\ Flying(calls[s])
        \/ reqs[s].tab = t /\ Flying(reqs[s])
        => calls[s] = reqs[s]

(* Nobody would see a difference.                                          *)
SameSights ==
    /\ \A u : DevicesOf(u, Kinds)' = DevicesOf(u, Kinds)
    /\ \A u : TokensOf(u)' = TokensOf(u)
    /\ admins' = admins /\ ActiveCodes' = ActiveCodes

LEMMA OpSets ==
    /\ Reads = {"profile", "tokens", "users", "currencies"}
    /\ AdminReads = {"users", "currencies"}
    /\ PageOps = {"enrol", "finish", "drop", "toggle", "add", "del", "mint", "revoke"}
    /\ SignIns = {"login", "totp", "fido", "passkey"}
    /\ Confirmed = {"drop", "revoke", "del"}
    /\ AdminPages = {"users", "currencies"}
BY DEF Reads, AdminReads, PageOps, Enrolments, AdminWrites, SignIns, Confirmed, AdminPages

LEMMA OpsOfIs ==
    /\ OpsOf("profile") = {"profile", "tokens", "mint", "revoke", "enrol", "finish", "drop"}
    /\ OpsOf("users") = {"users", "toggle"}
    /\ OpsOf("currencies") = {"currencies", "add", "del"}
    /\ \A page \in Pages : OpsOf(page) \subseteq Reads \cup PageOps
<1>1. OpsOf("profile") = {"profile", "tokens", "mint", "revoke", "enrol", "finish", "drop"}
  BY DEF OpsOf, Enrolments
<1>2. OpsOf("users") = {"users", "toggle"}
  BY DEF OpsOf
<1>3. OpsOf("currencies") = {"currencies", "add", "del"}
  BY DEF OpsOf
<1>4. ASSUME NEW page, page \notin {"profile", "users", "currencies"} PROVE OpsOf(page) = {}
  BY <1>4 DEF OpsOf
<1>5. \A page : OpsOf(page) \subseteq Reads \cup PageOps
  BY <1>1, <1>2, <1>3, <1>4, OpSets
<1> QED BY <1>1, <1>2, <1>3, <1>5

LEMMA LoadingPages ==
    ASSUME NEW x, Loads(x)
    PROVE  /\ x.page \in {"profile", "users", "currencies"} /\ x.page \in OpsOf(x.page)
           /\ x.page \in Reads
<1>1. x.page \in {"profile", "users", "currencies"}
  BY DEF Loads, AdminPages
<1> QED BY <1>1, OpsOfIs, OpSets

-----------------------------------------------------------------------------
(* Steps that a page does not notice                                       *)

LEMMA ViewOfStays ==
    ASSUME SameSights
    PROVE  \A read \in Reads : \A u : ViewOf(read, u)' = ViewOf(read, u)
<1> SUFFICES ASSUME NEW read \in Reads, NEW u PROVE ViewOf(read, u)' = ViewOf(read, u)
  OBVIOUS
<1>1. DevicesOf(u, Kinds)' = DevicesOf(u, Kinds) /\ TokensOf(u)' = TokensOf(u)
      /\ admins' = admins /\ ActiveCodes' = ActiveCodes
  BY DEF SameSights
<1>2. CASE read = "profile"
  BY <1>1, <1>2 DEF ViewOf
<1>3. CASE read = "tokens"
  BY <1>1, <1>3 DEF ViewOf
<1>4. CASE read = "users"
  BY <1>1, <1>4 DEF ViewOf
<1>5. CASE read = "currencies"
  BY <1>1, <1>5 DEF ViewOf
<1> QED BY <1>2, <1>3, <1>4, <1>5, OpSets

LEMMA ShownStays ==
    ASSUME SameSights, NEW x
    PROVE  (Shown(x)' <=> Shown(x)) /\ (Settled(x)' <=> Settled(x))
<1>1. \A read \in Reads : \A u : ViewOf(read, u)' = ViewOf(read, u)
  BY ViewOfStays
<1>2. TokensOf(x.user)' = TokensOf(x.user) /\ admins' = admins
  BY DEF SameSights
<1>3. ViewOn(x.page, x.user)' = ViewOn(x.page, x.user)
  <2>1. CASE x.page = "profile"
    <3>1. ViewOf("profile", x.user)' = ViewOf("profile", x.user)
      BY <1>1, OpSets
    <3> QED BY <1>2, <2>1, <3>1 DEF ViewOn
  <2>2. CASE x.page \in AdminPages
    <3>1. ViewOf(x.page, x.user)' = ViewOf(x.page, x.user)
      BY <1>1, <2>2, OpSets
    <3> QED BY <1>2, <2>2, <3>1, OpSets DEF ViewOn
  <2>3. CASE x.page # "profile" /\ x.page \notin AdminPages
    BY <2>3 DEF ViewOn
  <2> QED BY <2>1, <2>2, <2>3
<1> QED BY <1>2, <1>3 DEF Shown, Settled

LEMMA CarriesStays ==
    ASSUME SameSights, NEW c, NEW x, NEW y, Carries(c, x), Alike(y, x)
    PROVE  Carries(c, y)'
<1>1. y.page = x.page /\ y.user = x.user /\ y.loading = x.loading /\ y.view = x.view
  BY DEF Alike
<1>2. DevicesOf(x.user, Kinds)' = DevicesOf(x.user, Kinds) /\ TokensOf(x.user)' = TokensOf(x.user)
      /\ admins' = admins
  BY DEF SameSights
<1>3. c.op \in AdminReads => ViewOf(c.op, x.user)' = ViewOf(c.op, x.user)
  BY ViewOfStays, OpSets
<1>4. Shown(y) <=> Shown(x)
  BY <1>1 DEF Shown
<1>5. Shown(y)' <=> Shown(x)
  BY <1>4, ShownStays
<1> QED BY <1>1, <1>2, <1>3, <1>5 DEF Carries

LEMMA QuietStays ==
    ASSUME SameSights, NEW t, NEW reqs, NEW calls, NEW x, NEW y,
           QuietOK(reqs, x, t), Alike(y, x), Agree(calls, reqs, t)
    PROVE  QuietOK(calls, y, t)'
<1>1. FlightsOf(calls, t) = FlightsOf(reqs, t)
  BY DEF FlightsOf, Agree
<1>2. \A s \in FlightsOf(calls, t) : calls[s] = reqs[s]
  BY DEF FlightsOf, Agree
<1>3. \A s, r \in FlightsOf(calls, t) : s = r
  BY <1>1 DEF QuietOK
<1>4. ASSUME NEW s \in FlightsOf(calls, t) PROVE Carries(calls[s], y)'
  <2>1. Carries(calls[s], x)
    BY <1>1, <1>2 DEF QuietOK
  <2> QED BY <2>1, CarriesStays
<1>5. FlightsOf(calls, t) = {} => y.loading \/ Shown(y)'
  <2>1. Shown(y) <=> Shown(x)
    BY DEF Shown, Alike
  <2> QED BY <1>1, <2>1, ShownStays DEF QuietOK, Alike
<1>6. Settled(y)'
  <2>1. Settled(y) <=> Settled(x)
    BY DEF Settled, Alike
  <2> QED BY <2>1, ShownStays DEF QuietOK
<1> QED BY <1>3, <1>4, <1>5, <1>6 DEF QuietOK

LEMMA AgreeTrans ==
    ASSUME NEW t, NEW a, NEW b, NEW c, Agree(a, b, t), Agree(b, c, t)
    PROVE  Agree(a, c, t)
BY DEF Agree

LEMMA SetAgrees ==
    ASSUME NEW t, NEW calls \in [Slots -> Request], NEW s \in Slots, NEW c,
           calls[s].tab # t \/ ~Flying(calls[s]), c.tab # t \/ ~Flying(c)
    PROVE  Agree([calls EXCEPT ![s] = c], calls, t)
<1> DEFINE d == [calls EXCEPT ![s] = c]
<1>1. d[s] = c /\ \A r \in Slots \ {s} : d[r] = calls[r]
  OBVIOUS
<1> HIDE DEF d
<1>2. Agree(d, calls, t)
  BY <1>1 DEF Agree
<1> QED BY <1>2 DEF d

LEMMA PutIs ==
    ASSUME NEW calls \in [Slots -> Request], Room(calls), NEW c
    PROVE  \E s \in Slots : calls[s].pc = "idle" /\ Put(calls, c) = [calls EXCEPT ![s] = c]
<1> DEFINE s == CHOOSE s \in Slots : calls[s].pc = "idle"
<1>1. s \in Slots /\ calls[s].pc = "idle"
  BY DEF Room
<1>2. Put(calls, c) = [calls EXCEPT ![s] = c]
  BY DEF Put
<1> QED BY <1>1, <1>2

LEMMA PutAgrees ==
    ASSUME NEW t, NEW calls \in [Slots -> Request], Room(calls), NEW c, c.tab # t \/ ~Flying(c)
    PROVE  Agree(Put(calls, c), calls, t)
<1>1. PICK s \in Slots : calls[s].pc = "idle" /\ Put(calls, c) = [calls EXCEPT ![s] = c]
  BY PutIs
<1>2. ~Flying(calls[s])
  BY <1>1 DEF Flying
<1>3. Agree([calls EXCEPT ![s] = c], calls, t)
  BY <1>2, SetAgrees
<1> QED BY <1>1, <1>3

\* Of another page, and of the calls that fly, nothing but mounted changes.
LEMMA UnmountIs ==
    ASSUME NEW calls \in [Slots -> Request], NEW t, NEW s \in Slots
    PROVE  LET c == calls[s]
               d == Unmount(calls, t)[s]
           IN  /\ c.tab # t => d = c
               /\ c.tab = t /\ c.op \in Reads => d = Idle
               /\ c.tab = t /\ c.op \notin Reads =>
                     /\ d.op = c.op /\ d.tab = c.tab /\ d.pc = c.pc /\ d.user = c.user
                     /\ d.status = c.status /\ ~d.mounted
<1> DEFINE c == calls[s]
           d == Unmount(calls, t)[s]
<1>1. c \in Request
  OBVIOUS
<1>2. d = IF c.tab # t THEN c
          ELSE IF c.op \in Reads THEN Idle ELSE [c EXCEPT !.mounted = FALSE]
  BY DEF Unmount
<1> HIDE DEF c, d
<1>3. c.tab = t /\ c.op \notin Reads =>
         /\ d.op = c.op /\ d.tab = c.tab /\ d.pc = c.pc /\ d.user = c.user
         /\ d.status = c.status /\ ~d.mounted
  BY <1>1, <1>2 DEF Request
<1> QED BY <1>2, <1>3 DEF c, d

LEMMA UnmountType ==
    ASSUME NEW calls \in [Slots -> Request], NEW t
    PROVE  Unmount(calls, t) \in [Slots -> Request]
<1>1. \A s \in Slots : [calls[s] EXCEPT !.mounted = FALSE] \in Request
  BY RequestFields
<1> QED BY <1>1, IdleType DEF Unmount

LEMMA UnmountAgrees ==
    ASSUME NEW calls \in [Slots -> Request], NEW t, NEW e, e # t
    PROVE  Agree(Unmount(calls, t), calls, e)
<1> SUFFICES ASSUME NEW s \in Slots,
                    \/ Unmount(calls, t)[s].tab = e /\ Flying(Unmount(calls, t)[s])
                    \/ calls[s].tab = e /\ Flying(calls[s])
             PROVE  Unmount(calls, t)[s] = calls[s]
  BY DEF Agree
<1> DEFINE c == calls[s]
           d == Unmount(calls, t)[s]
<1>1. /\ c.tab # t => d = c
      /\ c.tab = t /\ c.op \in Reads => d = Idle
      /\ c.tab = t /\ c.op \notin Reads => d.tab = c.tab
  BY UnmountIs
<1>2. ~Flying(Idle)
  BY DEF Idle, Flying
<1> HIDE DEF c, d
<1>3. c.tab # t
  BY <1>1, <1>2 DEF c, d
<1> QED BY <1>1, <1>3 DEF c, d

-----------------------------------------------------------------------------
(* What is known of every request                                          *)

LEMMA IdleKnown ==
    ASSUME NEW tabs, NEW by
    PROVE  Known(Idle, tabs, by) /\ ~Flying(Idle) /\ Idle.tab = None
BY OpSets DEF Known, Flying, Idle

LEMMA KnownStays ==
    ASSUME NEW calls, NEW a, NEW b, NEW by, NEW by2, CallsKnown(calls, a, by), by \subseteq by2,
           \A t \in Tabs : /\ b[t].page = a[t].page /\ b[t].user = a[t].user
                           /\ Orderly(b[t]) => Orderly(a[t])
    PROVE  CallsKnown(calls, b, by2)
<1>1. ASSUME NEW c, Known(c, a, by) PROVE Known(c, b, by2)
  BY <1>1, OpSets DEF Known, Quiet
<1> QED BY <1>1 DEF CallsKnown

LEMMA AlikeKnown ==
    ASSUME NEW calls, NEW a, NEW b, NEW by, NEW by2, CallsKnown(calls, a, by), by \subseteq by2,
           \A t \in Tabs : Alike(b[t], a[t])
    PROVE  CallsKnown(calls, b, by2)
<1>1. \A t \in Tabs : /\ b[t].page = a[t].page /\ b[t].user = a[t].user
                      /\ Orderly(b[t]) => Orderly(a[t])
  BY DEF Alike, Orderly, Loads
<1> QED BY <1>1, KnownStays

LEMMA SetKnown ==
    ASSUME NEW calls \in [Slots -> Request], NEW tabs, NEW by, CallsKnown(calls, tabs, by),
           NEW s \in Slots, NEW c, Known(c, tabs, by)
    PROVE  CallsKnown([calls EXCEPT ![s] = c], tabs, by)
<1> DEFINE d == [calls EXCEPT ![s] = c]
<1>1. d[s] = c /\ \A r \in Slots \ {s} : d[r] = calls[r]
  OBVIOUS
<1> HIDE DEF d
<1>2. CallsKnown(d, tabs, by)
  BY <1>1 DEF CallsKnown
<1> QED BY <1>2 DEF d

LEMMA PutKnown ==
    ASSUME NEW calls \in [Slots -> Request], NEW tabs, NEW by, CallsKnown(calls, tabs, by),
           Room(calls), NEW c, Known(c, tabs, by)
    PROVE  CallsKnown(Put(calls, c), tabs, by)
<1>1. PICK s \in Slots : calls[s].pc = "idle" /\ Put(calls, c) = [calls EXCEPT ![s] = c]
  BY PutIs
<1>2. CallsKnown([calls EXCEPT ![s] = c], tabs, by)
  BY SetKnown
<1> QED BY <1>1, <1>2

\* When a page is replaced, nothing is asked, or the page that comes has no
\* load.
LEMMA UnmountKnown ==
    ASSUME NEW calls \in [Slots -> Request], NEW tabs \in [Tabs -> Tab], NEW by,
           CallsKnown(calls, tabs, by), NEW t \in Tabs, NEW x,
           \/ ~Loads(x)
           \/ \A s \in Slots : ~(calls[s].tab = t /\ calls[s].pc = "asked")
    PROVE  CallsKnown(Unmount(calls, t), [tabs EXCEPT ![t] = x], by)
<1> DEFINE b == [tabs EXCEPT ![t] = x]
<1>1. b[t] = x /\ \A e \in Tabs : e # t => b[e] = tabs[e]
  OBVIOUS
<1> HIDE DEF b
<1>2. ASSUME NEW s \in Slots PROVE Known(Unmount(calls, t)[s], b, by)
  <2> DEFINE c == calls[s]
             d == Unmount(calls, t)[s]
  <2>1. /\ c.tab # t => d = c
        /\ c.tab = t /\ c.op \in Reads => d = Idle
        /\ c.tab = t /\ c.op \notin Reads =>
              d.op = c.op /\ d.tab = c.tab /\ d.pc = c.pc /\ ~d.mounted
    BY UnmountIs
  <2>2. Known(c, tabs, by)
    BY DEF CallsKnown
  <2>3. ~Loads(x) \/ ~(c.tab = t /\ c.pc = "asked")
    OBVIOUS
  <2> HIDE DEF c, d
  <2>4. c.tab # t => Known(d, b, by)
    BY <1>1, <2>1, <2>2, OpSets DEF Known
  <2>5. c.tab = t /\ c.op \in Reads => Known(d, b, by)
    BY <2>1, IdleKnown
  <2>6. c.tab = t /\ c.op \notin Reads => Known(d, b, by)
    BY <1>1, <2>1, <2>2, <2>3 DEF Known, Quiet, Orderly, Flying
  <2>7. Known(d, b, by)
    BY <2>4, <2>5, <2>6
  <2> QED BY <2>7 DEF d
<1> QED BY <1>2 DEF CallsKnown, b

-----------------------------------------------------------------------------
(* What the server does to the request it goes on with                     *)

LEMMA AnswerEffect ==
    ASSUME req \in [Slots -> Request], NEW s \in Slots, NEW x, req' = Answer(s, x)
    PROVE  /\ req'[s].pc = "answered" /\ req'[s].status = x
           /\ req'[s].user = req[s].user /\ req'[s].op = req[s].op /\ req'[s].view = req[s].view
           /\ \A r \in Slots \ {s} : req'[r] = req[r]
BY DEF Answer, Request

LEMMA StepEffect ==
    ASSUME req \in [Slots -> Request], NEW s \in Slots, NEW x, req' = Step(s, x)
    PROVE  /\ req'[s].pc = x /\ req'[s].user = req[s].user /\ req'[s].op = req[s].op
           /\ \A r \in Slots \ {s} : req'[r] = req[r]
BY DEF Step, Request

\* Another field changes, too.
LEMMA AnotherField ==
    ASSUME NEW calls \in [Slots -> Request], NEW s \in Slots, NEW v
    PROVE  /\ [calls EXCEPT ![s].flag = v][s].pc = calls[s].pc
           /\ [calls EXCEPT ![s].user = v][s].pc = calls[s].pc
           /\ [calls EXCEPT ![s].user = v][s].status = calls[s].status
BY DEF Request

LEMMA SteppedType ==
    ASSUME req \in [Slots -> Request], NEW s \in Slots,
           NEW x \in {"sent", "authed", "checked", "counted"}
    PROVE  Step(s, x) \in [Slots -> Request] /\ Step(s, x)[s].pc = x
<1>1. [req[s] EXCEPT !.pc = x] \in Request
  BY RequestFields
<1> QED BY <1>1, StepIs DEF Request

LEMMA SignInFlies ==
    ASSUME TypeInv, NEW s \in Slots,
           \/ PasswordChecked(s) \/ MethodsRead(s) \/ TicketRead(s) \/ FactorRead(s)
           \/ TicketSpent(s) \/ PasskeyUsed(s)
    PROVE  Flying(req'[s])
<1>1. req \in [Slots -> Request] /\ req[s] \in Request
  BY DEF TypeInv, TypeOK
<1>2. CASE PasswordChecked(s)
  <2>1. CASE req' = Answer(s, "refused")
    BY <1>1, <2>1, AnswerEffect DEF Flying
  <2>2. CASE req' = [Step(s, "checked") EXCEPT ![s].flag = req[s].user \in admins]
    <3> DEFINE b == req[s].user \in admins
               calls == Step(s, "checked")
    <3>1. calls \in [Slots -> Request] /\ calls[s].pc = "checked"
      BY <1>1, SteppedType
    <3>2. req' = [calls EXCEPT ![s].flag = b]
      BY <2>2
    <3> HIDE DEF b, calls
    <3>3. req'[s].pc = "checked"
      BY <3>1, <3>2, AnotherField
    <3> QED BY <3>3 DEF Flying
  <2> QED BY <1>2, <2>1, <2>2 DEF PasswordChecked
<1>3. CASE MethodsRead(s)
  <2>1. \/ req' = Answer(s, "ok")
        \/ \E k, ds : req' = [Answer(s, "ok") EXCEPT ![s].arg = k, ![s].view.devices = ds]
    BY <1>3 DEF MethodsRead
  <2>2. CASE req' = Answer(s, "ok")
    BY <1>1, <2>2, AnswerEffect DEF Flying
  <2>3. ASSUME NEW k, NEW ds, req' = [Answer(s, "ok") EXCEPT ![s].arg = k, ![s].view.devices = ds]
        PROVE  Flying(req'[s])
    <3>1. req'[s].pc = "answered"
      BY <1>1, <2>3 DEF Answer, Request
    <3> QED BY <3>1 DEF Flying
  <2> QED BY <2>1, <2>2, <2>3
<1>4. CASE TicketRead(s)
  <2> DEFINE u == ticket[req[s].arg].user
             calls == Step(s, "checked")
  <2>1. calls \in [Slots -> Request] /\ calls[s].pc = "checked"
    BY <1>1, SteppedType
  <2>2. req' = [calls EXCEPT ![s].user = u] \/ req' = Answer(s, "refused")
    BY <1>4 DEF TicketRead
  <2> HIDE DEF u, calls
  <2>3. CASE req' = [calls EXCEPT ![s].user = u]
    <3>1. req'[s].pc = "checked"
      BY <2>1, <2>3, AnotherField
    <3> QED BY <3>1 DEF Flying
  <2>4. CASE req' = Answer(s, "refused")
    BY <1>1, <2>4, AnswerEffect DEF Flying
  <2> QED BY <2>2, <2>3, <2>4
<1>5. CASE FactorRead(s)
  <2> DEFINE calls == Step(s, "counted")
  <2>1. calls \in [Slots -> Request] /\ calls[s].pc = "counted"
    BY <1>1, SteppedType
  <2>2. req' = Answer(s, "refused") \/ \E u, d : req' = [calls EXCEPT ![s].row = d, ![s].user = u]
    BY <1>5 DEF FactorRead
  <2> HIDE DEF calls
  <2>3. CASE req' = Answer(s, "refused")
    BY <1>1, <2>3, AnswerEffect DEF Flying
  <2>4. ASSUME NEW u, NEW d, req' = [calls EXCEPT ![s].row = d, ![s].user = u]
        PROVE  Flying(req'[s])
    <3>1. req'[s] = [[calls[s] EXCEPT !.row = d] EXCEPT !.user = u]
      BY <2>1, <2>4
    <3>2. req'[s].pc = calls[s].pc
      BY <2>1, <3>1 DEF Request
    <3> QED BY <2>1, <3>2 DEF Flying
  <2> QED BY <2>2, <2>3, <2>4
<1>6. CASE TicketSpent(s)
  <2>1. req'[s].pc = "answered"
    BY <1>6, TypeInvParts, TicketSpentServed
  <2> QED BY <2>1 DEF Flying
<1>7. CASE PasskeyUsed(s)
  BY <1>1, <1>7 DEF PasskeyUsed, Answer, Flying, Request
<1> QED BY <1>2, <1>3, <1>4, <1>5, <1>6, <1>7

LEMMA PartyFlies ==
    ASSUME TypeInv, NEW s \in Slots, CodesChecked(s) \/ PartyWritten(s)
    PROVE  Flying(req'[s])
<1>1. req \in [Slots -> Request] /\ req[s] \in Request
  BY DEF TypeInv, TypeOK
<1>2. CASE CodesChecked(s)
  BY <1>1, <1>2 DEF CodesChecked, Answer, Step, Flying
<1>3. CASE PartyWritten(s)
  BY <1>1, <1>3 DEF PartyWritten, Flying, Request
<1> QED BY <1>2, <1>3

\* The session of a request goes through; a read has no other effect.
ReadEffect(s) ==
    /\ UNCHANGED <<admins, device, token, currency>>
    /\ \A r \in Slots \ {s} : req'[r] = req[r]
    /\ req'[s].user = req[s].user
    /\ \/ /\ req[s].op \in AdminReads /\ req[s].pc = "sent"
          /\ IF req[s].user \in admins THEN req'[s].pc = "authed"
             ELSE req'[s].pc = "answered" /\ req'[s].status = "refused"
       \/ /\ IF req[s].op \in AdminReads THEN req[s].pc = "authed" ELSE req[s].pc = "sent"
          /\ req'[s].pc = "answered" /\ req'[s].status = "ok"
          /\ req'[s].view = ViewOf(req[s].op, req[s].user)

LEMMA ReadHasEffect ==
    ASSUME TypeInv, NEW s \in Slots, Serves(s), req[s].op \in Reads
    PROVE  ReadEffect(s) /\ Flying(req'[s]) /\ Flying(req[s])
<1>1. req \in [Slots -> Request] /\ req[s] \in Request
  BY DEF TypeInv, TypeOK
<1>2. Authorize(s) \/ Read(s)
  BY OpSets, WriteFailsStumbles DEF Serves, Serve, At, Authorize, Read, PasswordChecked, MethodsRead, TicketRead,
         FactorRead, TicketSpent, PasskeyUsed, ChallengeMade, ChallengeAnswered, FactorInserted,
         FactorDeleted, TokensCounted, TokenInserted, TokenRevoked, Toggled, CodeCounted,
         CodeInserted, RowRead, PartiesCounted, RowDeleted, CodesChecked, PartyWritten
<1>3. CASE Authorize(s)
  <2>1. /\ UNCHANGED <<admins, device, token, currency>> /\ req[s].pc = "sent"
        /\ req' = IF req[s].user \notin admins THEN Answer(s, "refused") ELSE Step(s, "authed")
    BY <1>3 DEF Authorize, At, factorVars, moneyVars
  <2>2. req[s].op \in AdminReads
    BY <1>3, OpSets DEF Authorize, At, AdminWrites
  <2>3. CASE req[s].user \in admins
    <3>1. /\ req'[s].pc = "authed" /\ req'[s].user = req[s].user
          /\ \A r \in Slots \ {s} : req'[r] = req[r]
      BY <1>1, <2>1, <2>3, StepEffect
    <3> QED BY <2>1, <2>2, <2>3, <3>1 DEF ReadEffect, Flying
  <2>4. CASE req[s].user \notin admins
    <3>1. /\ req'[s].pc = "answered" /\ req'[s].user = req[s].user /\ req'[s].status = "refused"
          /\ \A r \in Slots \ {s} : req'[r] = req[r]
      BY <1>1, <2>1, <2>4, AnswerEffect
    <3> QED BY <2>1, <2>2, <2>4, <3>1 DEF ReadEffect, Flying
  <2> QED BY <2>3, <2>4
<1>4. CASE Read(s)
  <2> DEFINE v == ViewOf(req[s].op, req[s].user)
  <2>1. /\ UNCHANGED <<admins, device, token, currency>>
        /\ IF req[s].op \in AdminReads THEN req[s].pc = "authed" ELSE req[s].pc = "sent"
    BY <1>4 DEF Read, At, factorVars, moneyVars
  <2>2. req' = [Answer(s, "ok") EXCEPT ![s].view = v]
    BY <1>4 DEF Read
  <2> HIDE DEF v
  <2>3. /\ req'[s].pc = "answered" /\ req'[s].user = req[s].user /\ req'[s].status = "ok"
        /\ req'[s].view = v /\ \A r \in Slots \ {s} : req'[r] = req[r]
    BY <1>1, <2>2 DEF Answer, Request
  <2> QED BY <2>1, <2>3 DEF ReadEffect, Flying, v
<1> QED BY <1>2, <1>3, <1>4

LEMMA SightsUnchanged ==
    ASSUME UNCHANGED <<admins, device, token, currency>>
    PROVE  SameSights
BY DEF SameSights, DevicesOf, TokensOf, ActiveCodes

LEMMA SightsOfDevices ==
    ASSUME UNCHANGED <<admins, token, currency>>, DevicesAlike
    PROVE  SameSights
<1>1. \A u : DevicesOf(u, Kinds)' = DevicesOf(u, Kinds)
  BY DEF DevicesOf, DevicesAlike
<1> QED BY <1>1 DEF SameSights, TokensOf, ActiveCodes

(* A write that the page is to see ends there, with ok; the page's user    *)
(* does not take the right from himself.                                   *)
WriteEffect(s) ==
    /\ req'[s].user = req[s].user /\ req[s].pc # "answered"
    /\ req'[s].pc \in {"authed", "checked", "counted", "answered"}
    /\ req'[s].pc = "answered" => req'[s].status \in {"ok", "refused"}
    /\ \/ SameSights
       \/ req'[s].pc = "answered" /\ req'[s].status = "ok" /\ req[s].op # "enrol"
    /\ req[s].user \in admins => req[s].user \in admins'

LEMMA AnswerWrites ==
    ASSUME req \in [Slots -> Request], NEW s \in Slots, NEW x \in {"ok", "refused"},
           req' = Answer(s, x), req[s].pc # "answered",
           SameSights \/ (x = "ok" /\ req[s].op # "enrol"),
           req[s].user \in admins => req[s].user \in admins'
    PROVE  WriteEffect(s)
BY AnswerEffect DEF WriteEffect

LEMMA StepWrites ==
    ASSUME req \in [Slots -> Request], NEW s \in Slots, NEW x \in {"authed", "checked", "counted"},
           req' = Step(s, x), req[s].pc # "answered", SameSights
    PROVE  WriteEffect(s)
BY StepEffect DEF WriteEffect, SameSights

LEMMA FactorWrites ==
    ASSUME TypeInv, NEW s \in Slots,
           ChallengeMade(s) \/ ChallengeAnswered(s) \/ FactorInserted(s) \/ FactorDeleted(s)
    PROVE  WriteEffect(s)
<1>1. /\ req \in [Slots -> Request] /\ req[s] \in Request
      /\ device \in [DeviceIds -> Device]
  BY DEF TypeInv, TypeOK
<1>2. CASE ChallengeMade(s)
  <2>1. req[s].pc = "sent" /\ UNCHANGED <<admins, token, currency>>
    BY <1>2 DEF ChallengeMade, At, moneyVars
  <2>2. CASE req' = Answer(s, "refused") /\ UNCHANGED device
    BY <1>1, <2>1, <2>2, AnswerWrites, SightsUnchanged
  <2>3. ASSUME NEW d \in DeviceIds, IsNext(device, d),
               device' = [device EXCEPT ![d] =
                             [state |-> "offered", user |-> req[s].user, kind |-> req[s].kind]],
               req' = [Answer(s, "ok") EXCEPT ![s].arg = d]
        PROVE  WriteEffect(s)
    <3>1. device[d].state = "unused" /\ device'[d].state = "offered"
          /\ \A e \in DeviceIds \ {d} : device'[e] = device[e]
      BY <1>1, <2>3 DEF IsNext
    <3>2. DevicesAlike
      BY <3>1 DEF DevicesAlike
    <3>2a. SameSights
      BY <2>1, <3>2, SightsOfDevices
    <3>3. req'[s].pc = "answered" /\ req'[s].status = "ok" /\ req'[s].user = req[s].user
      BY <1>1, <2>3 DEF Answer, Request
    <3> QED BY <2>1, <3>2a, <3>3 DEF WriteEffect
  <2> QED BY <1>2, <2>2, <2>3 DEF ChallengeMade
<1>3. CASE ChallengeAnswered(s)
  <2> DEFINE d == req[s].arg
  <2>1. req[s].pc = "sent" /\ UNCHANGED <<admins, token, currency>>
    BY <1>3 DEF ChallengeAnswered, At, moneyVars
  <2>2. \/ device' = device
        \/ device[d].state = "offered" /\ device' = [device EXCEPT ![d].state = "taken"]
    BY <1>3 DEF ChallengeAnswered
  <2>3. DevicesAlike
    <3> HIDE DEF d
    <3> QED BY <1>1, <2>2 DEF Device, DevicesAlike
  <2>4. SameSights
    BY <2>1, <2>3, SightsOfDevices
  <2>5. req' = Answer(s, "refused") \/ req' = Step(s, "checked")
    BY <1>3 DEF ChallengeAnswered
  <2> QED BY <1>1, <2>1, <2>4, <2>5, AnswerWrites, StepWrites
<1>4. CASE FactorInserted(s)
  <2>1. req[s].pc = "checked" /\ req[s].op # "enrol" /\ req' = Answer(s, "ok") /\ admins' = admins
    BY <1>4 DEF FactorInserted, At
  <2> QED BY <1>1, <2>1, AnswerWrites
<1>5. CASE FactorDeleted(s)
  <2>1. /\ req[s].pc = "sent" /\ req[s].op # "enrol" /\ UNCHANGED <<admins, token, currency>>
    BY <1>5 DEF FactorDeleted, At, moneyVars
  <2>2. PICK ds : /\ req' = Answer(s, IF ds = {} THEN "refused" ELSE "ok")
                  /\ device' = [d \in DeviceIds |-> IF d \in ds THEN [device[d] EXCEPT !.state = "gone"]
                                                    ELSE device[d]]
    BY <1>5 DEF FactorDeleted
  <2>3. CASE ds = {}
    <3>1. DevicesAlike
      BY <2>2, <2>3 DEF DevicesAlike
    <3>2. SameSights
      BY <2>1, <3>1, SightsOfDevices
    <3> QED BY <1>1, <2>1, <2>2, <2>3, <3>2, AnswerWrites
  <2>4. CASE ds # {}
    BY <1>1, <2>1, <2>2, <2>4, AnswerWrites
  <2> QED BY <2>3, <2>4
<1> QED BY <1>2, <1>3, <1>4, <1>5

LEMMA TokenWrites ==
    ASSUME TypeInv, NEW s \in Slots, TokensCounted(s) \/ TokenInserted(s) \/ TokenRevoked(s)
    PROVE  WriteEffect(s)
<1>1. req \in [Slots -> Request]
  BY DEF TypeInv, TypeOK
<1>2. CASE TokensCounted(s)
  <2>1. /\ req[s].pc = "sent" /\ UNCHANGED <<admins, device, token, currency>>
        /\ (req' = Answer(s, "refused") \/ req' = Step(s, "counted"))
    BY <1>2 DEF TokensCounted, At, factorVars, moneyVars
  <2> QED BY <1>1, <2>1, SightsUnchanged, AnswerWrites, StepWrites
<1>3. CASE TokenInserted(s)
  <2>1. req[s].pc = "counted" /\ req[s].op # "enrol" /\ req' = Answer(s, "ok") /\ admins' = admins
    BY <1>3 DEF TokenInserted, At
  <2> QED BY <1>1, <2>1, AnswerWrites
<1>4. CASE TokenRevoked(s)
  <2>1. /\ req[s].pc = "sent" /\ req[s].op # "enrol" /\ UNCHANGED <<admins, device, currency>>
        /\ req' = Answer(s, "ok") \/ (req' = Answer(s, "refused") /\ token' = token)
    BY <1>4 DEF TokenRevoked, At, factorVars, moneyVars
  <2> QED BY <1>1, <2>1, SightsUnchanged, AnswerWrites
<1> QED BY <1>2, <1>3, <1>4

LEMMA AdministrationWrites ==
    ASSUME TypeInv, NEW s \in Slots,
           \/ Toggled(s) \/ CodeCounted(s) \/ CodeInserted(s)
           \/ RowRead(s) \/ PartiesCounted(s) \/ RowDeleted(s)
    PROVE  WriteEffect(s)
<1>1. req \in [Slots -> Request]
  BY DEF TypeInv, TypeOK
<1>2. CASE Toggled(s)
  <2>1. /\ req[s].pc = "authed" /\ req[s].op # "enrol" /\ UNCHANGED <<device, token, currency>>
        /\ \/ req' = Answer(s, "ok") /\ req[s].arg # req[s].user
              /\ admins' \in {admins, admins \cup {req[s].arg}, admins \ {req[s].arg}}
           \/ req' = Answer(s, "refused") /\ admins' = admins
    BY <1>2 DEF Toggled, At, factorVars, moneyVars
  <2>2. req[s].user \in admins => req[s].user \in admins'
    BY <2>1
  <2> QED BY <1>1, <2>1, <2>2, SightsUnchanged, AnswerWrites
<1>3. CASE CodeCounted(s)
  <2>1. /\ req[s].pc = "authed" /\ UNCHANGED <<admins, device, token, currency>>
        /\ (req' = Answer(s, "refused") \/ req' = Step(s, "checked"))
    BY <1>3 DEF CodeCounted, At, factorVars, moneyVars
  <2> QED BY <1>1, <2>1, SightsUnchanged, AnswerWrites, StepWrites
<1>4. CASE CodeInserted(s)
  <2>1. /\ req[s].pc = "checked" /\ req[s].op # "enrol" /\ UNCHANGED <<admins, device, token>>
        /\ req' = Answer(s, "ok") \/ (req' = Answer(s, "refused") /\ currency' = currency)
    BY <1>4 DEF CodeInserted, At, factorVars
  <2> QED BY <1>1, <2>1, SightsUnchanged, AnswerWrites
<1>5. CASE RowRead(s)
  <2> DEFINE n == currency[req[s].arg].id
             calls == Step(s, "checked")
  <2>1. /\ req[s].pc = "authed" /\ UNCHANGED <<admins, device, token, currency>>
        /\ (req' = Answer(s, "refused") \/ req' = [calls EXCEPT ![s].row = n])
    BY <1>5 DEF RowRead, At, factorVars, moneyVars
  <2>2. CASE req' = Answer(s, "refused")
    BY <1>1, <2>1, <2>2, SightsUnchanged, AnswerWrites
  <2>3. CASE req' = [calls EXCEPT ![s].row = n]
    <3> HIDE DEF n
    <3>1. req'[s].pc = "checked" /\ req'[s].user = req[s].user
      BY <1>1, <2>3 DEF Step, Request
    <3> QED BY <2>1, <3>1, SightsUnchanged DEF WriteEffect
  <2> QED BY <2>1, <2>2, <2>3
<1>6. CASE PartiesCounted(s)
  <2>1. /\ req[s].pc = "checked" /\ UNCHANGED <<admins, device, token, currency>>
        /\ (req' = Answer(s, "refused") \/ req' = Step(s, "counted"))
    BY <1>6 DEF PartiesCounted, At, factorVars, moneyVars
  <2> QED BY <1>1, <2>1, SightsUnchanged, AnswerWrites, StepWrites
<1>7. CASE RowDeleted(s)
  <2>1. req[s].pc = "counted" /\ req[s].op # "enrol" /\ req' = Answer(s, "ok") /\ admins' = admins
    BY <1>7 DEF RowDeleted, At
  <2> QED BY <1>1, <2>1, AnswerWrites
<1> QED BY <1>2, <1>3, <1>4, <1>5, <1>6, <1>7

LEMMA StumbleWrites ==
    ASSUME TypeInv, NEW s \in Slots, WriteFails(s)
    PROVE  WriteEffect(s)
<1>1. Stumbled(s)
  BY WriteFailsStumbles
<1>2. SameSights
  BY <1>1, SightsOfDevices DEF Stumbled, moneyVars
<1> QED BY <1>1, <1>2 DEF Stumbled, WriteEffect

LEMMA WriteHasEffect ==
    ASSUME TypeInv, NEW s \in Slots, Serves(s), req[s].op \in PageOps
    PROVE  WriteEffect(s)
<1>1. \/ Authorize(s) \/ WriteFails(s)
      \/ ChallengeMade(s) \/ ChallengeAnswered(s) \/ FactorInserted(s) \/ FactorDeleted(s)
      \/ TokensCounted(s) \/ TokenInserted(s) \/ TokenRevoked(s)
      \/ Toggled(s) \/ CodeCounted(s) \/ CodeInserted(s)
      \/ RowRead(s) \/ PartiesCounted(s) \/ RowDeleted(s)
  BY OpSets DEF Serves, Serve, At, Read, PasswordChecked, MethodsRead, TicketRead,
         FactorRead, TicketSpent, PasskeyUsed, CodesChecked, PartyWritten
<1>2. CASE Authorize(s)
  <2>1. req \in [Slots -> Request]
    BY DEF TypeInv, TypeOK
  <2>2. /\ req[s].pc = "sent" /\ UNCHANGED <<admins, device, token, currency>>
        /\ (req' = Answer(s, "refused") \/ req' = Step(s, "authed"))
    BY <1>2 DEF Authorize, At, factorVars, moneyVars
  <2> QED BY <2>1, <2>2, SightsUnchanged, AnswerWrites, StepWrites
<1> QED BY <1>1, <1>2, StumbleWrites, FactorWrites, TokenWrites, AdministrationWrites

\* The server serves what flies, and leaves it flying.
LEMMA ServeFlies ==
    ASSUME TypeInv, NEW s \in Slots, Serves(s)
    PROVE  Flying(req[s]) /\ Flying(req'[s])
<1>1. Flying(req[s])
  BY WriteFailsStumbles DEF Serves, Stumbled, Serve, At, Authorize, Read, PasswordChecked, MethodsRead, TicketRead,
         FactorRead, TicketSpent, PasskeyUsed, ChallengeMade, ChallengeAnswered, FactorInserted,
         FactorDeleted, TokensCounted, TokenInserted, TokenRevoked, Toggled, CodeCounted,
         CodeInserted, RowRead, PartiesCounted, RowDeleted, CodesChecked, PartyWritten, Flying
<1>2. CASE req[s].op \in Reads
  BY <1>1, <1>2, ReadHasEffect
<1>3. CASE req[s].op \in PageOps
  BY <1>1, <1>3, WriteHasEffect DEF WriteEffect, Flying
<1>4. CASE req[s].op \notin Reads \cup PageOps
  <2>1. \/ PasswordChecked(s) \/ MethodsRead(s) \/ TicketRead(s) \/ FactorRead(s)
        \/ TicketSpent(s) \/ PasskeyUsed(s) \/ CodesChecked(s) \/ PartyWritten(s)
        \/ WriteFails(s)
    BY <1>4, OpSets DEF Serves, Serve, At, Authorize, Read, ChallengeMade, ChallengeAnswered,
         FactorInserted, FactorDeleted, TokensCounted, TokenInserted, TokenRevoked, Toggled,
         CodeCounted, CodeInserted, RowRead, PartiesCounted, RowDeleted, AdminWrites
  <2> QED BY <1>1, <2>1, SignInFlies, PartyFlies, StumbleWrites DEF WriteEffect, Flying
<1> QED BY <1>2, <1>3, <1>4

-----------------------------------------------------------------------------
(* The server's steps                                                      *)

LEMMA SpendKeepsBy ==
    ASSUME UsedOK, NEW what \in {"moves", "writes", "lost"}, NEW bound, Spend(what, bound)
    PROVE  used'.by = used.by
<1>1. CASE what = "moves"
  BY <1>1 DEF Spend, UsedOK
<1>2. CASE what = "writes"
  BY <1>2 DEF Spend, UsedOK
<1>3. CASE what = "lost"
  BY <1>3 DEF Spend, UsedOK
<1> QED BY <1>1, <1>2, <1>3

LEMMA TurnKeepsBy ==
    ASSUME TypeInv, NEW s \in Slots, Turn(s)
    PROVE  used'.by = used.by
<1>1. UsedOK
  BY DEF TypeInv, TypeOK, UsedOK
<1> QED BY <1>1, SpendKeepsBy DEF Turn, tabVars

LEMMA ServeKnown ==
    ASSUME TypeInv, CallsKnown(req, tab, used.by), NEW s \in Slots, Turn(s)
    PROVE  CallsKnown(req', tab', used'.by)
<1>1. Serves(s) /\ tab' = tab /\ used'.by = used.by
  BY TurnServes, TurnKeepsBy
<1>2. \A r \in Slots : Kept(req'[r], req[r])
  BY <1>1, ServeOK DEF Served
<1>3. \A r \in Slots \ {s} : Waited(req'[r], req[r])
  BY <1>1, ServeOK DEF Served
<1>4. Flying(req[s]) /\ Flying(req'[s])
  BY <1>1, ServeFlies
<1>5. req[s].op \in Reads \cup PageOps => req'[s].user = req[s].user
  BY <1>1, ReadHasEffect, WriteHasEffect DEF ReadEffect, WriteEffect
<1>6. ASSUME NEW r \in Slots PROVE Known(req'[r], tab, used.by)
  <2> DEFINE c == req[r]
             d == req'[r]
  <2>1. d.op = c.op /\ d.tab = c.tab /\ d.mounted = c.mounted
    BY <1>2 DEF Kept
  <2>2. d.pc = c.pc \/ (Flying(c) /\ Flying(d))
    BY <1>3, <1>4 DEF Waited
  <2>3. c.op \in Reads \cup PageOps => d.user = c.user
    BY <1>3, <1>5 DEF Waited
  <2>4. Known(c, tab, used.by)
    BY DEF CallsKnown
  <2> HIDE DEF c, d
  <2>5. (Flying(d) <=> Flying(c)) /\ (d.pc = "asked" => c.pc = "asked")
    BY <2>2 DEF Flying
  <2>6. Known(d, tab, used.by)
    BY <2>1, <2>3, <2>4, <2>5 DEF Known
  <2> QED BY <2>6 DEF d
<1> QED BY <1>1, <1>6 DEF CallsKnown

LEMMA ReadCarries ==
    ASSUME TypeInv, NEW s \in Slots, ReadEffect(s), req[s].op \in Reads, SameSights,
           NEW c, NEW d, NEW x, c = req[s], d = req'[s], Carries(c, x),
           d.op = c.op /\ d.mounted = c.mounted
    PROVE  Carries(d, x)'
<1>1. /\ c.mounted /\ c.op \in OpsOf(x.page) /\ c.user = x.user
      /\ c.op = "tokens" => x.view.devices = DevicesOf(x.user, Kinds)
      /\ c.op \in AdminReads => (c.pc = "authed" => x.user \in admins)
  BY DEF Carries
<1>2. /\ d.user = c.user
      /\ \/ /\ c.op \in AdminReads /\ c.pc = "sent"
            /\ IF c.user \in admins THEN d.pc = "authed"
               ELSE d.pc = "answered" /\ d.status = "refused"
         \/ /\ IF c.op \in AdminReads THEN c.pc = "authed" ELSE c.pc = "sent"
            /\ d.pc = "answered" /\ d.status = "ok" /\ d.view = ViewOf(c.op, c.user)
  BY DEF ReadEffect
<1>3. /\ DevicesOf(x.user, Kinds)' = DevicesOf(x.user, Kinds) /\ admins' = admins
      /\ TokensOf(x.user)' = TokensOf(x.user)
  BY DEF SameSights
<1>4. ViewOf(c.op, x.user)' = ViewOf(c.op, x.user)
  BY ViewOfStays
<1>5. CASE c.op \in AdminReads
  <2>1. c.op \notin {"profile", "tokens"} /\ c.op \in Reads
    BY <1>5, OpSets
  <2>2. d.pc = "authed" => x.user \in admins
    BY <1>1, <1>2
  <2>3. d.pc = "answered" => IF d.status = "ok" THEN x.user \in admins /\ d.view = ViewOf(d.op, x.user)
                             ELSE x.user \notin admins
    BY <1>1, <1>2, <1>5
  <2>4. d.pc = "answered" => d.status \in {"ok", "refused"}
    BY <1>2
  <2> QED BY <1>1, <1>2, <1>3, <1>4, <2>1, <2>2, <2>3, <2>4 DEF Carries
<1>6. CASE c.op \notin AdminReads
  <2>1. d.pc = "answered" /\ d.status = "ok" /\ d.view = ViewOf(c.op, x.user)
    BY <1>1, <1>2, <1>6
  <2>2. c.op = "profile" => d.view.devices = DevicesOf(x.user, Kinds)
    BY <2>1 DEF ViewOf, NoView
  <2>3. c.op = "tokens" => d.view.tokens = TokensOf(x.user)
    BY <2>1 DEF ViewOf, NoView
  <2> QED BY <1>1, <1>2, <1>3, <1>6, <2>1, <2>2, <2>3 DEF Carries
<1> QED BY <1>5, <1>6

LEMMA WriteCarries ==
    ASSUME NEW s \in Slots, WriteEffect(s), req[s].op \notin Reads,
           NEW c, NEW d, NEW x, c = req[s], d = req'[s], Carries(c, x), c.op \in PageOps,
           d.op = c.op /\ d.mounted = c.mounted
    PROVE  Carries(d, x)'
<1>1. /\ c.mounted /\ c.op \in OpsOf(x.page) /\ c.user = x.user
      /\ c.pc # "answered" => x.loading \/ Shown(x)
  BY DEF Carries
<1>2. /\ d.user = c.user /\ c.pc # "answered"
      /\ d.pc = "answered" => d.status \in {"ok", "refused"}
      /\ SameSights \/ (d.pc = "answered" /\ d.status = "ok" /\ c.op # "enrol")
  BY DEF WriteEffect
<1>3. d.op \notin AdminReads /\ d.op \notin {"profile", "tokens"}
  BY OpSets
<1>4. (d.pc = "answered" /\ d.status = "ok" /\ c.op # "enrol") => Reloads(d)
  BY OpSets DEF Reloads
<1>5. ~(d.pc = "answered" /\ Reloads(d)) => x.loading \/ Shown(x)'
  BY <1>1, <1>2, <1>4, ShownStays
<1> QED BY <1>1, <1>2, <1>3, <1>5 DEF Carries

LEMMA ServeQuiet ==
    ASSUME TypeInv, CurrentInv, NEW s \in Slots, Turn(s)
    PROVE  QuietInv'
<1>1. Serves(s) /\ tab' = tab /\ used'.by = used.by
  BY TurnServes, TurnKeepsBy
<1>2. Flying(req[s]) /\ Flying(req'[s]) /\ Known(req[s], tab, used.by)
  BY <1>1, ServeFlies DEF CurrentInv, CallsKnown
<1>3. /\ \A r \in Slots : Kept(req'[r], req[r])
      /\ \A r \in Slots \ {s} : Waited(req'[r], req[r])
  BY <1>1, ServeOK DEF Served
<1> SUFFICES ASSUME NEW t \in Tabs, NEW x, NEW calls, NEW reqs, x = tab[t], calls = req',
                    reqs = req, Quiet(x, t, used.by)
             PROVE  QuietOK(calls, x, t)'
  BY <1>1 DEF QuietInv
<1>4. QuietOK(reqs, x, t)
  BY DEF CurrentInv, QuietInv
<1>5. FlightsOf(calls, t) = FlightsOf(reqs, t)
  <2>1. \A r \in Slots : calls[r].tab = reqs[r].tab /\ (Flying(calls[r]) <=> Flying(reqs[r]))
    BY <1>2, <1>3 DEF Kept, Waited, Flying
  <2> QED BY <2>1 DEF FlightsOf
<1>6. ASSUME reqs[s].tab = t, Carries(calls[s], x)', Settled(x)'
      PROVE  QuietOK(calls, x, t)'
  <2>1. s \in FlightsOf(reqs, t)
    BY <1>2, <1>6 DEF FlightsOf
  <2>2. FlightsOf(calls, t) = {s}
    BY <1>4, <1>5, <2>1 DEF QuietOK
  <2> QED BY <1>6, <2>2 DEF QuietOK
<1>7. reqs[s].tab = t => Carries(reqs[s], x)
  BY <1>2, <1>4 DEF FlightsOf, QuietOK
<1>8. calls[s].op = reqs[s].op /\ calls[s].mounted = reqs[s].mounted
  BY <1>3 DEF Kept
<1>9. CASE req[s].op \in Reads
  <2>1. ReadEffect(s)
    BY <1>1, <1>9, ReadHasEffect
  <2>2. SameSights
    BY <2>1, SightsUnchanged DEF ReadEffect
  <2>3. CASE reqs[s].tab = t
    <3>1. Carries(calls[s], x)'
      BY <1>7, <1>8, <1>9, <2>1, <2>2, <2>3, ReadCarries
    <3>2. Settled(x)'
      BY <1>4, <2>2, ShownStays DEF QuietOK
    <3> QED BY <1>6, <2>3, <3>1, <3>2
  <2>4. CASE reqs[s].tab # t
    <3>1. calls[s].tab # t
      BY <1>3, <2>4 DEF Kept
    <3>2. Agree(calls, reqs, t)
      BY <2>1, <2>4, <3>1 DEF Agree, ReadEffect
    <3>3. Alike(x, x)
      BY DEF Alike
    <3> QED BY <1>4, <2>2, <3>2, <3>3, QuietStays
  <2> QED BY <2>3, <2>4
<1>10. CASE req[s].op \notin Reads
  <2>1. reqs[s].tab = t
    BY <1>2, <1>10 DEF Known, Quiet
  <2>2. Carries(reqs[s], x)
    BY <1>7, <2>1
  <2>3. reqs[s].op \in PageOps
    <3>1. x \in Tab
      BY DEF TypeInv, TypeOK
    <3>2. x.page \in Pages
      BY <3>1 DEF Tab
    <3> QED BY <1>10, <2>2, <3>2, OpsOfIs DEF Carries
  <2>4. WriteEffect(s)
    BY <1>1, <2>3, WriteHasEffect
  <2>5. Carries(calls[s], x)'
    BY <1>8, <1>10, <2>2, <2>3, <2>4, WriteCarries
  <2>6. Settled(x)'
    <3>1. Settled(x) /\ x.user = req[s].user
      BY <1>4, <2>2 DEF QuietOK, Carries
    <3>2. x.user \in admins => x.user \in admins'
      BY <2>4, <3>1 DEF WriteEffect
    <3> QED BY <3>1, <3>2 DEF Settled
  <2> QED BY <1>6, <2>1, <2>5, <2>6
<1> QED BY <1>9, <1>10

LEMMA ServeCurrent ==
    ASSUME TypeInv, CurrentInv, NEW s \in Slots, Turn(s)
    PROVE  CurrentInv'
BY ServeKnown, ServeQuiet DEF CurrentInv

-----------------------------------------------------------------------------
(* Steps of the browser                                                    *)

LEMMA BrowseSights ==
    ASSUME Browse
    PROVE  SameSights
<1>1. CASE Wait
  <2>1. UNCHANGED <<admins, token, currency>>
    BY <1>1 DEF Wait, Expire, moneyVars
  <2>2. DevicesAlike
    <3>1. \/ device' = device
          \/ \E d \in DeviceIds : /\ device[d].state = "offered"
                                  /\ device' = [device EXCEPT ![d].state = "gone"]
      BY <1>1 DEF Wait, Expire
    <3>2. ASSUME NEW d \in DeviceIds, device[d].state = "offered",
                 device' = [device EXCEPT ![d].state = "gone"], NEW e \in DeviceIds
          PROVE  \/ device'[e] = device[e]
                 \/ device[e].state # "live" /\ device'[e].state # "live"
      <4>1. CASE e # d
        BY <3>2, <4>1
      <4>2. CASE e = d
        <5>1. device'[d] = [device[d] EXCEPT !.state = "gone"] \/ device'[d] = device[d]
          BY <3>2
        <5> QED BY <3>2, <4>2, <5>1
      <4> QED BY <4>1, <4>2
    <3> QED BY <3>1, <3>2 DEF DevicesAlike
  <2> QED BY <2>1, <2>2, SightsOfDevices
<1>2. CASE ~Wait
  <2>1. UNCHANGED <<admins, device, token, currency>>
    BY <1>2 DEF Browse, Follow, Ask, Click, CloseChallenge, SubmitLogin, UsePasskey, Elsewhere,
           Cancel, Confirm, Lose, Unread, ReadFails, FailureSeen, NothingRead, ReceiveLoad,
           ReceiveSignIn, ReceiveChallenge, ReceiveWrite, serverVars, factorVars, moneyVars
  <2> QED BY <2>1, SightsUnchanged
<1> QED BY <1>1, <1>2

\* All tabs but one notice nothing.
LEMMA QuietSplit ==
    ASSUME QuietInv, SameSights, used.by \subseteq used'.by, NEW t0,
           \A t \in Tabs \ {t0} : Alike(tab'[t], tab[t]) /\ Agree(req', req, t),
           ASSUME NEW x, NEW calls, t0 \in Tabs, x = tab'[t0], calls = req',
                  Quiet(x, t0, used'.by)
           PROVE  QuietOK(calls, x, t0)'
    PROVE  QuietInv'
<1> SUFFICES ASSUME NEW t \in Tabs, NEW y, NEW calls, y = tab'[t], calls = req',
                    Quiet(y, t, used'.by)
             PROVE  QuietOK(calls, y, t)'
  BY DEF QuietInv
<1>1. CASE t = t0
  BY <1>1
<1>2. CASE t # t0
  <2>1. PICK x, reqs : x = tab[t] /\ reqs = req
    OBVIOUS
  <2>2. Alike(y, x) /\ Agree(calls, reqs, t)
    BY <1>2, <2>1
  <2>3. Quiet(x, t, used.by)
    BY <2>2 DEF Quiet, Orderly, Alike, Loads
  <2>4. QuietOK(reqs, x, t)
    BY <2>1, <2>3 DEF QuietInv
  <2> QED BY <2>2, <2>4, QuietStays
<1> QED BY <1>1, <1>2

LEMMA AllStill ==
    ASSUME QuietInv, SameSights, used.by \subseteq used'.by,
           \A t \in Tabs : Alike(tab'[t], tab[t]) /\ Agree(req', req, t)
    PROVE  QuietInv'
<1> SUFFICES ASSUME NEW t \in Tabs, NEW y, NEW calls, y = tab'[t], calls = req',
                    Quiet(y, t, used'.by)
             PROVE  QuietOK(calls, y, t)'
  BY DEF QuietInv
<1>1. PICK x, reqs : x = tab[t] /\ reqs = req
  OBVIOUS
<1>2. Alike(y, x) /\ Agree(calls, reqs, t)
  BY <1>1
<1>3. Quiet(x, t, used.by)
  BY <1>2 DEF Quiet, Orderly, Alike, Loads
<1>4. QuietOK(reqs, x, t)
  BY <1>1, <1>3 DEF QuietInv
<1> QED BY <1>2, <1>4, QuietStays

LEMMA NoFlights ==
    ASSUME NEW calls, NEW t
    PROVE  InFlight(calls, t) <=> FlightsOf(calls, t) # {}
BY DEF InFlight, FlightsOf, Flying

LEMMA LoadOfFields ==
    ASSUME NEW t, NEW x
    PROVE  LET l == LoadOf(t, x)
           IN  /\ l.op = x.page /\ l.tab = t /\ l.user = x.user /\ l.mounted /\ l.pc = "sent"
               /\ l.status = "none"
BY DEF LoadOf, Idle

LEMMA LoadCarries ==
    ASSUME NEW t, NEW x, Loads(x), NEW y, y.page = x.page, y.user = x.user
    PROVE  Carries(LoadOf(t, x), y)' /\ Flying(LoadOf(t, x)) /\ LoadOf(t, x).tab = t
<1> DEFINE l == LoadOf(t, x)
<1>1. /\ l.op = x.page /\ l.tab = t /\ l.user = x.user /\ l.mounted /\ l.pc = "sent"
      /\ l.status = "none"
  BY LoadOfFields
<1>2. x.page \in Reads /\ x.page # "tokens" /\ x.page \in OpsOf(x.page)
  BY LoadingPages
<1> HIDE DEF l
<1>3. Carries(l, y)'
  BY <1>1, <1>2 DEF Carries
<1> QED BY <1>1, <1>3 DEF Flying, l

LEMMA LoadKnown ==
    ASSUME NEW t \in Tabs, NEW x, Loads(x), NEW tabs, NEW by,
           tabs[t].page = x.page, tabs[t].user = x.user
    PROVE  Known(LoadOf(t, x), tabs, by)
<1> DEFINE l == LoadOf(t, x)
<1>1. l.op = x.page /\ l.tab = t /\ l.user = x.user /\ l.mounted /\ l.pc = "sent"
  BY LoadOfFields
<1>2. x.page \in Reads /\ x.page \in OpsOf(x.page)
  BY LoadingPages
<1> HIDE DEF l
<1>3. Known(l, tabs, by)
  BY <1>1, <1>2 DEF Known
<1> QED BY <1>3 DEF l

\* Of one page, what flies is what was flying and what is put there.
LEMMA PutFlights ==
    ASSUME NEW calls \in [Slots -> Request], Room(calls), NEW c, NEW t, c.tab = t, Flying(c)
    PROVE  \E s \in Slots : /\ Put(calls, c)[s] = c
                            /\ FlightsOf(Put(calls, c), t) = FlightsOf(calls, t) \cup {s}
<1>1. PICK s \in Slots : calls[s].pc = "idle" /\ Put(calls, c) = [calls EXCEPT ![s] = c]
  BY PutIs
<1>2. Put(calls, c)[s] = c /\ \A r \in Slots \ {s} : Put(calls, c)[r] = calls[r]
  BY <1>1
<1>3. FlightsOf(Put(calls, c), t) = FlightsOf(calls, t) \cup {s}
  BY <1>1, <1>2 DEF FlightsOf, Flying
<1> QED BY <1>2, <1>3

LEMMA LoadCurrent ==
    ASSUME QuietInv, SameSights, used.by \subseteq used'.by, TabsOK(tab),
           NEW calls \in [Slots -> Request], NEW t \in Tabs, NEW x \in Tab, Loads(x),
           CallsKnown(calls, [tab EXCEPT ![t] = x], used'.by),
           \A e \in Tabs \ {t} : Agree(calls, req, e),
           x.calm /\ used'.by \subseteq {t} => Settled(x)',
           Load(calls, t, x)
    PROVE  CurrentInv'
<1> DEFINE l == x.loading \/ x.page = "profile"
           m == x.calm /\ ~InFlight(calls, t)
           y == [[x EXCEPT !.loading = l] EXCEPT !.calm = m]
           c == LoadOf(t, x)
           a == [tab EXCEPT ![t] = x]
<1>1. tab' = [tab EXCEPT ![t] = y] /\ req' = Put(calls, c) /\ Room(calls)
  BY DEF Load
<1>2. l \in BOOLEAN /\ m \in BOOLEAN
  BY DEF Tab
<1>3. /\ y.page = x.page /\ y.user = x.user /\ y.admin = x.admin /\ y.view = x.view
      /\ y.loading = l /\ y.calm = m
  <2> HIDE DEF l, m
  <2> QED BY <1>2 DEF Tab
<1>4. m => x.calm /\ FlightsOf(calls, t) = {}
  BY NoFlights
<1>5. Flying(c) /\ c.tab = t
  BY LoadCarries
<1>6. a[t] = x /\ \A e \in Tabs : e # t => a[e] = tab[e] /\ tab'[e] = tab[e]
  BY <1>1 DEF TabsOK
<1>7. tab'[t] = y
  BY <1>1 DEF TabsOK
<1> HIDE DEF y, m, a
<1>8. CallsKnown(req', tab', used'.by)
  <2>1. \A e \in Tabs : /\ tab'[e].page = a[e].page /\ tab'[e].user = a[e].user
                        /\ Orderly(tab'[e]) => Orderly(a[e])
    <3>1. Orderly(y) => Orderly(x)
      BY <1>3, <1>4 DEF Orderly, Loads
    <3> QED BY <1>3, <1>6, <1>7, <3>1
  <2>2. CallsKnown(calls, tab', used'.by)
    BY <2>1, KnownStays DEF a
  <2>3. Known(c, tab', used'.by)
    BY <1>3, <1>7, LoadKnown
  <2> HIDE DEF c
  <2> QED BY <1>1, <2>2, <2>3, PutKnown
<1>9. ASSUME NEW e \in Tabs \ {t} PROVE Alike(tab'[e], tab[e]) /\ Agree(req', req, e)
  <2>1. Agree(req', calls, e)
    <3> HIDE DEF c
    <3> QED BY <1>1, <1>5, PutAgrees
  <2>2. Agree(req', req, e)
    BY <2>1, AgreeTrans
  <2> QED BY <1>6, <2>2 DEF Alike
<1>10. ASSUME NEW z, NEW news, z = tab'[t], news = req', Quiet(z, t, used'.by)
       PROVE  QuietOK(news, z, t)'
  <2>1. z = y
    BY <1>7, <1>10
  <2>2. FlightsOf(calls, t) = {} /\ x.calm /\ used'.by \subseteq {t}
    BY <1>3, <1>4, <1>10, <2>1 DEF Quiet, Orderly
  <2>3. \E s \in Slots : news[s] = c /\ FlightsOf(news, t) = FlightsOf(calls, t) \cup {s}
    <3> HIDE DEF c
    <3> QED BY <1>1, <1>5, <1>10, PutFlights
  <2>4. PICK s \in Slots : news[s] = c /\ FlightsOf(news, t) = {s}
    BY <2>2, <2>3
  <2>5. Carries(c, z)'
    BY <1>3, <2>1, LoadCarries
  <2>6. Settled(z)'
    <3>1. Settled(x)'
      BY <2>2
    <3> QED BY <1>3, <2>1, <3>1 DEF Settled
  <2> HIDE DEF c
  <2> QED BY <2>4, <2>5, <2>6 DEF QuietOK
<1>11. QuietInv'
  BY <1>9, <1>10, QuietSplit
<1> QED BY <1>8, <1>11 DEF CurrentInv

LEMMA FreshView ==
    ASSUME NEW x \in Tab
    PROVE  Fresh(x).view = NoView
<1> DEFINE b == Loads(x)
<1>1. Fresh(x) = [x EXCEPT !.loading = b, !.view = NoView, !.challenge = None, !.calm = TRUE]
  BY DEF Fresh
<1> HIDE DEF b
<1> QED BY <1>1 DEF Tab

LEMMA UnmountStep ==
    ASSUME NEW calls \in [Slots -> Request], NEW t, NEW e, e # t, Agree(calls, req, e)
    PROVE  Agree(Unmount(calls, t), req, e)
<1>1. Agree(Unmount(calls, t), calls, e)
  BY UnmountAgrees
<1> QED BY <1>1, AgreeTrans

\* A page that has no load is replaced by one, or comes.
LEMMA PlainPage ==
    ASSUME QuietInv, SameSights, used.by \subseteq used'.by, TabsOK(tab),
           NEW calls \in [Slots -> Request], NEW t \in Tabs, NEW y, ~Loads(y),
           CallsKnown(calls, tab, used.by), \A e \in Tabs \ {t} : Agree(calls, req, e),
           req' = Unmount(calls, t), tab' = [tab EXCEPT ![t] = y]
    PROVE  CurrentInv'
<1> DEFINE a == [tab EXCEPT ![t] = y]
<1>1. a[t] = y /\ \A e \in Tabs : e # t => a[e] = tab[e]
  BY DEF TabsOK
<1>2. CallsKnown(req', a, used.by)
  BY UnmountKnown DEF TabsOK
<1> HIDE DEF a
<1>3. CallsKnown(req', tab', used'.by)
  <2>1. tab' = a
    BY DEF a
  <2> QED BY <1>2, <2>1, KnownStays
<1>4. ASSUME NEW e \in Tabs \ {t} PROVE Alike(tab'[e], tab[e]) /\ Agree(req', req, e)
  <2>1. tab'[e] = tab[e]
    BY <1>1 DEF a
  <2>2. Agree(calls, req, e)
    OBVIOUS
  <2>3. Agree(req', req, e)
    BY <2>2, UnmountStep
  <2> QED BY <2>1, <2>3 DEF Alike
<1>5. ~Quiet(tab'[t], t, used'.by)
  BY <1>1 DEF a, Quiet, Orderly
<1>6. QuietInv'
  BY <1>4, <1>5, QuietSplit
<1> QED BY <1>3, <1>6 DEF CurrentInv

LEMMA OpenCurrent ==
    ASSUME QuietInv, SameSights, used.by \subseteq used'.by, TabsOK(tab),
           NEW calls \in [Slots -> Request], NEW t \in Tabs, NEW x \in Tab,
           CallsKnown(calls, tab, used.by), \A e \in Tabs \ {t} : Agree(calls, req, e),
           \/ ~Loads(x)
           \/ \A s \in Slots : ~(calls[s].tab = t /\ calls[s].pc = "asked"),
           Open(calls, t, x)
    PROVE  CurrentInv'
<1> DEFINE y == Fresh(x)
           u == Unmount(calls, t)
<1>1. y \in Tab /\ (Loads(y) <=> Loads(x)) /\ (y.loading <=> Loads(x)) /\ y.view = NoView
  BY FreshOK, FreshView
<1>2. u \in [Slots -> Request]
  BY UnmountType
<1>3. CASE ~Loads(x)
  <2>1. req' = u /\ tab' = [tab EXCEPT ![t] = y]
    BY <1>3 DEF Open
  <2>2. ~Loads(y)
    BY <1>1, <1>3
  <2> HIDE DEF y
  <2> QED BY <2>1, <2>2, PlainPage
<1>4. CASE Loads(x)
  <2>1. Load(u, t, y)
    BY <1>4 DEF Open
  <2>2. CallsKnown(u, [tab EXCEPT ![t] = y], used.by)
    <3> HIDE DEF y
    <3> QED BY <1>4, UnmountKnown DEF TabsOK
  <2>3. CallsKnown(u, [tab EXCEPT ![t] = y], used'.by)
    <3> HIDE DEF u, y
    <3> QED BY <2>2, KnownStays
  <2>4. \A e \in Tabs \ {t} : Agree(u, req, e)
    BY UnmountStep
  <2>5. Settled(y)'
    <3> HIDE DEF y
    <3> QED BY <1>1, <1>4 DEF Settled, NoView
  <2>6. Loads(y)
    BY <1>1, <1>4
  <2> HIDE DEF u, y
  <2> QED BY <1>1, <1>2, <2>1, <2>3, <2>4, <2>5, <2>6, LoadCurrent
<1> QED BY <1>3, <1>4

-----------------------------------------------------------------------------
(* What the user does                                                      *)

LEMMA CurrentParts ==
    ASSUME TypeInv, CurrentInv
    PROVE  /\ req \in [Slots -> Request] /\ tab \in [Tabs -> Tab] /\ TabsOK(tab) /\ UsedOK
           /\ CallsKnown(req, tab, used.by) /\ QuietInv
           /\ \A x : Alike(x, x)
BY TypeInvParts DEF TypeInv, TypeOK, UsedOK, CurrentInv, Alike

LEMMA AgreeItself == \A calls, t : Agree(calls, calls, t)
BY DEF Agree

LEMMA FollowCurrent ==
    ASSUME TypeInv, CurrentInv, NEW t \in Tabs, Follow(t)
    PROVE  CurrentInv'
<1>1. SameSights
  BY BrowseSights DEF Browse
<1>2. used'.by = used.by
  BY CurrentParts, SpendKeepsBy DEF Follow
<1>3. \A s \in Slots : ~(req[s].tab = t /\ req[s].pc = "asked")
  BY DEF Follow, Masked
<1>4. PICK page \in Pages \ {"mfa"} : Open(req, t, GoTo(t, page))
  BY DEF Follow, Pages
<1>5. GoTo(t, page) \in Tab
  BY GoToOK, CurrentParts
<1> QED BY <1>1, <1>2, <1>3, <1>4, <1>5, CurrentParts, AgreeItself, OpenCurrent

\* A slot that no flight has left or gets.
LEMMA StillCalls ==
    ASSUME TypeInv, CurrentInv, SameSights, used'.by = used.by, tab' = tab,
           CallsKnown(req', tab, used.by), \A t \in Tabs : Agree(req', req, t)
    PROVE  CurrentInv'
<1>1. QuietInv'
  BY CurrentParts, AllStill
<1> QED BY <1>1 DEF CurrentInv

LEMMA MadeFields ==
    ASSUME NEW t, NEW o, NEW pc
    PROVE  LET m == Made(t, o, pc)
           IN  /\ m.user = tab[t].user /\ m.mounted /\ m.pc = pc /\ m.op = o.op /\ m.tab = t
               /\ m.status = "none"
BY DEF Made, Idle

LEMMA OffersFit ==
    ASSUME TypeInv, NEW t \in Tabs, NEW o \in Offers(t)
    PROVE  o.op \notin Reads /\ (o.op \in PageOps => o.op \in OpsOf(tab[t].page))
<1> DEFINE x == tab[t]
<1>1. o.op \notin Reads /\ x.view.devices \in SUBSET DeviceIds
  BY OffersOK, TypeInvParts DEF OfferOK, TabsOK, Tab, View
<1>2. CASE x.page = "mfa"
  <2>1. PICK d \in x.view.devices : o = Offer(device[d].kind, x.ticket, "none", FALSE)
    BY <1>2 DEF Offers, MfaOffers
  <2>2. device[d].kind \in {"totp", "fido", "passkey", "none"}
    BY <1>1 DEF TypeInv, TypeOK, Device, Kinds
  <2> QED BY <1>1, <2>1, <2>2, OpSets DEF Offer
<1>3. CASE x.page = "profile" /\ AtRest(t)
  <2>1. o \in FactorOffers(x) \cup DeviceOffers(x) \cup TokenOffers(x)
    BY <1>3 DEF Offers, ProfileOffers
  <2>2. o.op \in {"enrol", "finish", "drop", "mint", "revoke"}
    BY <2>1 DEF FactorOffers, DeviceOffers, TokenOffers, Offer
  <2> QED BY <1>1, <1>3, <2>2, OpsOfIs
<1>4. CASE x.page = "users" /\ AtRest(t)
  BY <1>1, <1>4, OpsOfIs DEF Offers, UserOffers, Offer
<1>5. CASE x.page = "currencies" /\ AtRest(t)
  BY <1>1, <1>5, OpsOfIs DEF Offers, CurrencyOffers, Offer
<1> QED BY <1>2, <1>3, <1>4, <1>5 DEF Offers

LEMMA MadeKnown ==
    ASSUME NEW t \in Tabs, NEW o, NEW pc \in {"asked", "sent"}, NEW by,
           o.op \notin Reads, o.op \in PageOps => o.op \in OpsOf(tab[t].page),
           pc = "asked" => o.op \in Confirmed, pc = "sent" => t \in by
    PROVE  Known(Made(t, o, pc), tab, by)
<1> DEFINE m == Made(t, o, pc)
<1>1. m.user = tab[t].user /\ m.mounted /\ m.pc = pc /\ m.op = o.op /\ m.tab = t
  BY MadeFields
<1> HIDE DEF m
<1>2. Known(m, tab, by)
  BY <1>1 DEF Known, Flying
<1> QED BY <1>2 DEF m

LEMMA AskCurrent ==
    ASSUME TypeInv, CurrentInv, NEW t \in Tabs, Ask(t)
    PROVE  CurrentInv'
<1>1. SameSights /\ Room(req) /\ tab' = tab /\ used' = used
  BY BrowseSights DEF Browse, Ask
<1>2. PICK o \in Offers(t) : o.op \in Confirmed /\ req' = Put(req, Made(t, o, "asked"))
  BY DEF Ask
<1> DEFINE c == Made(t, o, "asked")
<1>3. Known(c, tab, used.by)
  BY <1>2, OffersFit, MadeKnown
<1>4. ~Flying(c)
  BY MadeFields DEF Flying
<1>5. req' = Put(req, c) /\ req \in [Slots -> Request]
  BY <1>2, CurrentParts
<1> HIDE DEF c
<1>6. CallsKnown(req', tab, used.by)
  BY <1>1, <1>3, <1>5, CurrentParts, PutKnown
<1>7. \A e \in Tabs : Agree(req', req, e)
  BY <1>1, <1>4, <1>5, PutAgrees
<1> QED BY <1>1, <1>6, <1>7, StillCalls

LEMMA CancelCurrent ==
    ASSUME TypeInv, CurrentInv, NEW s \in Slots, Cancel(s)
    PROVE  CurrentInv'
<1>1. SameSights /\ tab' = tab /\ used' = used /\ req[s].pc = "asked" /\ req' = Drop(s)
  BY BrowseSights DEF Browse, Cancel
<1>2. req' = [req EXCEPT ![s] = Idle] /\ req \in [Slots -> Request]
  BY <1>1, CurrentParts DEF Drop
<1>3. CallsKnown(req', tab, used.by)
  BY <1>2, CurrentParts, IdleKnown, SetKnown
<1>4. \A e \in Tabs : Agree(req', req, e)
  <2>1. ~Flying(req[s])
    BY <1>1 DEF Flying
  <2> QED BY <1>2, <2>1, IdleKnown, SetAgrees
<1> QED BY <1>1, <1>3, <1>4, StillCalls

LEMMA WriteEffectOnTabs ==
    ASSUME UsedOK, TabsOK(tab), NEW t, Write(t)
    PROVE  /\ used'.by = used.by \cup {t}
           /\ \A e \in Tabs : Alike(tab'[e], tab[e])
           /\ t \in Tabs /\ tab'[t].calm => FlightsOf(req, t) = {}
<1>1. used'.by = used.by \cup {t}
  BY DEF Write, UsedOK
<1> DEFINE b == tab[t].calm /\ ~InFlight(req, t)
<1>2. tab' = [e \in Tabs |-> IF e = t THEN [tab[e] EXCEPT !.calm = b] ELSE tab[e]]
  BY DEF Write
<1>3. t \in Tabs => tab[t] \in Tab
  BY DEF TabsOK
<1>4. b => tab[t].calm /\ FlightsOf(req, t) = {}
  BY NoFlights
<1> HIDE DEF b
<1>5. t \in Tabs => /\ tab'[t].page = tab[t].page /\ tab'[t].user = tab[t].user
                    /\ tab'[t].admin = tab[t].admin /\ tab'[t].loading = tab[t].loading
                    /\ tab'[t].view = tab[t].view /\ tab'[t].calm = b
  BY <1>2, <1>3 DEF Tab
<1>6. \A e \in Tabs : Alike(tab'[e], tab[e])
  BY <1>2, <1>4, <1>5 DEF Alike
<1> QED BY <1>1, <1>4, <1>5, <1>6

\* A write is sent from t, the only request of t if t stays calm.
LEMMA SendCurrent ==
    ASSUME TypeInv, CurrentInv, SameSights, NEW t \in Tabs, Write(t), NEW c, NEW s \in Slots,
           req' = [req EXCEPT ![s] = c], ~Flying(req[s]), c.tab = t, c.pc = "sent",
           c.op \notin Reads, Known(c, tab, used.by \cup {t}),
           Quiet(tab[t], t, used.by) => c.mounted /\ c.op \in PageOps
    PROVE  CurrentInv'
<1>1. /\ used'.by = used.by \cup {t} /\ \A e \in Tabs : Alike(tab'[e], tab[e])
      /\ tab'[t].calm => FlightsOf(req, t) = {}
  BY CurrentParts, WriteEffectOnTabs
<1>2. req'[s] = c /\ (\A r \in Slots \ {s} : req'[r] = req[r]) /\ req \in [Slots -> Request]
  BY CurrentParts
<1>3. CallsKnown(req', tab', used'.by)
  <2>1. CallsKnown(req, tab, used'.by)
    <3>1. \A e \in Tabs : Alike(tab[e], tab[e])
      BY CurrentParts
    <3> QED BY <1>1, <3>1, CurrentParts, AlikeKnown
  <2>2. CallsKnown(req', tab, used'.by)
    BY <1>1, <1>2, <2>1, SetKnown
  <2> QED BY <1>1, <2>2, AlikeKnown
<1>4. ASSUME NEW e \in Tabs \ {t} PROVE Alike(tab'[e], tab[e]) /\ Agree(req', req, e)
  BY <1>1, <1>2, SetAgrees
<1>5. ASSUME NEW y, NEW calls, y = tab'[t], calls = req', Quiet(y, t, used'.by)
      PROVE  QuietOK(calls, y, t)'
  <2>1. PICK x : x = tab[t]
    OBVIOUS
  <2>2. Alike(y, x) /\ FlightsOf(req, t) = {}
    BY <1>1, <1>5, <2>1 DEF Quiet, Orderly
  <2>3. Quiet(x, t, used.by) /\ Orderly(x)
    BY <1>1, <1>5, <2>2 DEF Quiet, Orderly, Alike, Loads
  <2>4. QuietOK(req, x, t)
    BY <2>1, <2>3, CurrentParts DEF QuietInv
  <2>5. (x.loading \/ Shown(x)) /\ Settled(x)
    BY <2>2, <2>4 DEF QuietOK
  <2>6. FlightsOf(calls, t) = {s}
    BY <1>2, <1>5, <2>2 DEF FlightsOf, Flying
  <2>7. c.mounted /\ c.op \in OpsOf(x.page) /\ c.user = x.user /\ c.op \in PageOps
    BY <2>1, <2>3 DEF Known
  <2>8. Carries(c, x)
    BY <2>5, <2>7, OpSets DEF Carries
  <2>9. Carries(c, y)'
    BY <2>2, <2>8, CarriesStays
  <2>10. Settled(y)'
    <3>1. Settled(x)'
      BY <2>5, ShownStays
    <3> QED BY <2>2, <3>1 DEF Settled, Alike
  <2> QED BY <1>2, <1>5, <2>6, <2>9, <2>10 DEF QuietOK
<1>6. QuietInv'
  BY <1>1, <1>4, <1>5, CurrentParts, QuietSplit
<1> QED BY <1>3, <1>6 DEF CurrentInv

LEMMA LoadingOffers ==
    ASSUME TypeInv, NEW t \in Tabs, NEW o \in Offers(t), Loads(tab[t])
    PROVE  o.op \in PageOps
<1> DEFINE x == tab[t]
<1>1. x.page \in {"profile", "users", "currencies"}
  BY LoadingPages
<1>2. CASE x.page = "profile"
  <2>1. o \in FactorOffers(x) \cup DeviceOffers(x) \cup TokenOffers(x)
    BY <1>2 DEF Offers, ProfileOffers
  <2> QED BY <2>1, OpSets DEF FactorOffers, DeviceOffers, TokenOffers, Offer
<1>3. CASE x.page = "users"
  BY <1>3, OpSets DEF Offers, UserOffers, Offer
<1>4. CASE x.page = "currencies"
  BY <1>4, OpSets DEF Offers, CurrencyOffers, Offer
<1> QED BY <1>1, <1>2, <1>3, <1>4

\* A write is sent from a form or a button.
LEMMA PutCurrent ==
    ASSUME TypeInv, CurrentInv, SameSights, NEW t \in Tabs, Write(t), NEW c,
           Room(req), req' = Put(req, c), c.tab = t, c.pc = "sent", c.op \notin Reads,
           Known(c, tab, used.by \cup {t}), Orderly(tab[t]) => c.mounted /\ c.op \in PageOps
    PROVE  CurrentInv'
<1>1. PICK s \in Slots : req[s].pc = "idle" /\ Put(req, c) = [req EXCEPT ![s] = c]
  BY PutIs, CurrentParts
<1>2. ~Flying(req[s]) /\ req' = [req EXCEPT ![s] = c]
  BY <1>1 DEF Flying
<1>3. Quiet(tab[t], t, used.by) => c.mounted /\ c.op \in PageOps
  BY DEF Quiet
<1> QED BY <1>2, <1>3, SendCurrent

LEMMA ConfirmCurrent ==
    ASSUME TypeInv, CurrentInv, NEW s \in Slots, Confirm(s)
    PROVE  CurrentInv'
<1> DEFINE c == req[s]
           t == req[s].tab
           d == [c EXCEPT !.pc = "sent"]
<1>1. c \in Request /\ Known(c, tab, used.by)
  BY CurrentParts DEF CallsKnown
<1>2. c.pc = "asked" /\ Write(t) /\ req' = [req EXCEPT ![s] = d] /\ SameSights
  BY BrowseSights DEF Browse, Confirm
<1>3. /\ d.pc = "sent" /\ d.op = c.op /\ d.tab = t /\ d.mounted = c.mounted /\ d.user = c.user
      /\ c.tab = t
  BY <1>1 DEF Request
<1>4. ~Flying(c)
  BY <1>2 DEF Flying
<1>5. t \in Tabs /\ c.op \notin Reads /\ c.op \in PageOps
      /\ (c.mounted \/ ~Quiet(tab[t], t, used.by))
  BY <1>1, <1>2, OpSets DEF Known
<1> HIDE DEF c, d, t
<1>6. Known(d, tab, used.by \cup {t})
  BY <1>1, <1>3, <1>5 DEF Known
<1> QED BY <1>2, <1>3, <1>4, <1>5, <1>6, SendCurrent DEF c

LEMMA ClickCurrent ==
    ASSUME TypeInv, CurrentInv, NEW t \in Tabs, Click(t)
    PROVE  CurrentInv'
<1>1. SameSights /\ Room(req) /\ Write(t)
  BY BrowseSights DEF Browse, Click
<1>2. PICK o \in Offers(t) : req' = Put(req, Made(t, o, "sent"))
  BY DEF Click
<1> DEFINE c == Made(t, o, "sent")
<1>3. o.op \notin Reads /\ (o.op \in PageOps => o.op \in OpsOf(tab[t].page))
  BY OffersFit
<1>4. Loads(tab[t]) => o.op \in PageOps
  BY LoadingOffers
<1>5. Known(c, tab, used.by \cup {t})
  BY <1>3, MadeKnown
<1>6. c.tab = t /\ c.pc = "sent" /\ c.op = o.op /\ c.mounted
  BY MadeFields
<1> HIDE DEF c
<1> QED BY <1>1, <1>2, <1>3, <1>4, <1>5, <1>6, PutCurrent DEF c, Orderly

\* The page of sign-in has no load.
LEMMA SignInKnown ==
    ASSUME NEW t \in Tabs, NEW op \in {"login", "passkey"}, NEW by, t \in by, NEW c,
           c.op = op, c.tab = t, c.pc = "sent"
    PROVE  Known(c, tab, by) /\ c.op \notin Reads
BY OpSets DEF Known

LEMMA SubmitLoginCurrent ==
    ASSUME TypeInv, CurrentInv, NEW t \in Tabs, SubmitLogin(t)
    PROVE  CurrentInv'
<1> DEFINE m == Made(t, Offer("login", None, "none", FALSE), "sent")
<1>1. SameSights /\ Room(req) /\ Write(t) /\ ~Loads(tab[t])
  BY BrowseSights DEF Browse, SubmitLogin, Loads, AdminPages
<1>2. PICK u \in Users : req' = Put(req, [m EXCEPT !.user = u])
  BY DEF SubmitLogin
<1>3. m \in Request
  BY SignInOffer, MadeOK
<1>4. m.pc = "sent" /\ m.op = "login" /\ m.tab = t
  BY MadeFields DEF Offer
<1> HIDE DEF m
<1> DEFINE d == [m EXCEPT !.user = u]
<1>5. d.pc = "sent" /\ d.op = "login" /\ d.tab = t
  BY <1>3, <1>4 DEF Request
<1>6. req' = Put(req, d)
  BY <1>2
<1> HIDE DEF d
<1>7. Known(d, tab, used.by \cup {t}) /\ d.op \notin Reads
  BY <1>5, SignInKnown
<1> QED BY <1>1, <1>5, <1>6, <1>7, PutCurrent DEF Orderly

LEMMA UsePasskeyCurrent ==
    ASSUME TypeInv, CurrentInv, NEW t \in Tabs, UsePasskey(t)
    PROVE  CurrentInv'
<1> DEFINE m == Made(t, Offer("passkey", None, "none", FALSE), "sent")
<1>1. SameSights /\ Room(req) /\ Write(t) /\ ~Loads(tab[t]) /\ req' = Put(req, m)
  BY BrowseSights DEF Browse, UsePasskey, Loads, AdminPages
<1>2. m.pc = "sent" /\ m.op = "passkey" /\ m.tab = t
  BY MadeFields DEF Offer
<1> HIDE DEF m
<1>3. Known(m, tab, used.by \cup {t}) /\ m.op \notin Reads
  BY <1>2, SignInKnown
<1> QED BY <1>1, <1>2, <1>3, PutCurrent DEF Orderly

\* A party is written on a page that is no tab's.
LEMMA ElsewhereCurrent ==
    ASSUME TypeInv, CurrentInv, Elsewhere
    PROVE  CurrentInv'
<1>1. SameSights /\ Room(req) /\ Write(None)
  BY BrowseSights DEF Browse, Elsewhere
<1>2. PICK p, cs, u :
         req' = Put(req, [Idle EXCEPT !.pc = "sent", !.op = "party", !.user = u,
                                      !.arg = p, !.codes = cs])
  BY DEF Elsewhere
<1> DEFINE c == [Idle EXCEPT !.pc = "sent", !.op = "party", !.user = u, !.arg = p, !.codes = cs]
<1>3. c.op = "party" /\ c.tab = None /\ ~c.mounted /\ c.pc = "sent"
  BY DEF Idle
<1>4. req' = Put(req, c)
  BY <1>2
<1> HIDE DEF c
<1>5. used'.by = used.by \cup {None} /\ \A e \in Tabs : Alike(tab'[e], tab[e])
  BY <1>1, CurrentParts, WriteEffectOnTabs
<1>6. Known(c, tab', used'.by)
  BY <1>3, <1>5, OpSets DEF Known
<1>7. CallsKnown(req, tab', used'.by)
  BY <1>5, CurrentParts, AlikeKnown
<1>8. CallsKnown(req', tab', used'.by)
  BY <1>1, <1>4, <1>6, <1>7, CurrentParts, PutKnown
<1>9. \A e \in Tabs : Agree(req', req, e)
  BY <1>1, <1>3, <1>4, CurrentParts, PutAgrees, TabsAssumption
<1>10. QuietInv'
  BY <1>1, <1>5, <1>9, CurrentParts, AllStill
<1> QED BY <1>8, <1>10 DEF CurrentInv

LEMMA CloseChallengeCurrent ==
    ASSUME TypeInv, CurrentInv, NEW t \in Tabs, CloseChallenge(t)
    PROVE  CurrentInv'
<1> DEFINE y == [tab[t] EXCEPT !.challenge = None]
<1>1. SameSights /\ req' = req /\ used' = used /\ tab' = [tab EXCEPT ![t] = y]
  BY BrowseSights DEF Browse, CloseChallenge, serverVars
<1>2. Alike(y, tab[t])
  BY CurrentParts DEF Alike, Tab
<1> HIDE DEF y
<1>3. \A e \in Tabs : Alike(tab'[e], tab[e])
  BY <1>1, <1>2, CurrentParts
<1>4. CallsKnown(req', tab', used'.by)
  BY <1>1, <1>3, CurrentParts, AlikeKnown
<1>5. QuietInv'
  BY <1>1, <1>3, CurrentParts, AgreeItself, AllStill
<1> QED BY <1>4, <1>5 DEF CurrentInv

LEMMA WaitCurrent ==
    ASSUME TypeInv, CurrentInv, Wait
    PROVE  CurrentInv'
<1>1. SameSights /\ tab' = tab /\ req' = req
  BY BrowseSights DEF Browse, Wait, Expire
<1>2. used'.by = used.by
  BY CurrentParts, SpendKeepsBy DEF Wait
<1> QED BY <1>1, <1>2, CurrentParts, AgreeItself, StillCalls

LEMMA DisturbCurrent ==
    ASSUME TypeInv, CurrentInv, NEW s \in Slots, NEW d \in Request, Flying(req[s]),
           d.pc = "answered", d.op = req[s].op, d.tab = req[s].tab,
           d.mounted = req[s].mounted, d.user = req[s].user,
           req' = [req EXCEPT ![s] = d], Disturb(s), Spend("lost", MaxLost), SameSights
    PROVE  CurrentInv'
<1> DEFINE c == req[s]
           t == req[s].tab
           y == [tab[t] EXCEPT !.calm = FALSE]
<1>1. used'.by = used.by
  BY CurrentParts, SpendKeepsBy
<1>2. Known(c, tab, used.by) /\ req \in [Slots -> Request]
  BY CurrentParts DEF CallsKnown
<1>3. tab' = [e \in Tabs |-> IF e = t THEN y ELSE tab[e]]
  BY DEF Disturb
<1>4. t \in Tabs => y.page = tab[t].page /\ y.user = tab[t].user /\ y.calm = FALSE
  BY CurrentParts DEF Tab
<1>5. Known(d, tab, used.by)
  BY <1>2 DEF Known, Flying
<1> HIDE DEF c, t, y
<1>6. CallsKnown(req', tab, used.by)
  BY <1>2, <1>5, CurrentParts, SetKnown
<1>7. \A e \in Tabs : /\ tab'[e].page = tab[e].page /\ tab'[e].user = tab[e].user
                      /\ Orderly(tab'[e]) => Orderly(tab[e])
  BY <1>3, <1>4 DEF Orderly
<1>8. CallsKnown(req', tab', used'.by)
  BY <1>1, <1>6, <1>7, KnownStays
<1>9. ASSUME NEW e \in Tabs \ {t} PROVE Alike(tab'[e], tab[e]) /\ Agree(req', req, e)
  <2>1. tab'[e] = tab[e]
    BY <1>3
  <2>2. Agree([req EXCEPT ![s] = d], req, e)
    BY <1>2, SetAgrees DEF t
  <2> QED BY <2>1, <2>2 DEF Alike
<1>10. t \in Tabs => ~Quiet(tab'[t], t, used'.by)
  BY <1>3, <1>4 DEF Quiet, Orderly
<1>11. QuietInv'
  BY <1>1, <1>9, <1>10, CurrentParts, QuietSplit
<1> QED BY <1>8, <1>11 DEF CurrentInv

LEMMA LoseCurrent ==
    ASSUME TypeInv, CurrentInv, NEW s \in Slots, Lose(s)
    PROVE  CurrentInv'
<1> DEFINE c == req[s]
           a == Answered(c, "lost")
           d == [a EXCEPT !.view = NoView]
<1>1. /\ SameSights /\ Flying(c) /\ Disturb(s) /\ Spend("lost", MaxLost)
      /\ c \in Request /\ req \in [Slots -> Request]
  BY BrowseSights, CurrentParts DEF Browse, Lose, Flying
<1>2. /\ a \in Request /\ a.pc = "answered" /\ a.op = c.op /\ a.tab = c.tab
      /\ a.mounted = c.mounted /\ a.user = c.user
  BY <1>1, AnsweredFields
<1>3. Answer(s, "lost") = [req EXCEPT ![s] = a]
  BY <1>1, AnswerIs
<1> HIDE DEF a
<1>4. d \in Request
  BY <1>2, RequestFields, ViewType
<1>5. d.pc = "answered" /\ d.op = c.op /\ d.tab = c.tab /\ d.mounted = c.mounted /\ d.user = c.user
  BY <1>2 DEF Request
<1>6. req' = [req EXCEPT ![s] = d]
  BY <1>1, <1>3 DEF Lose
<1> HIDE DEF d
<1> QED BY <1>1, <1>4, <1>5, <1>6, DisturbCurrent

LEMMA UnreadCurrent ==
    ASSUME TypeInv, CurrentInv, NEW s \in Slots, Unread(s)
    PROVE  CurrentInv'
<1> DEFINE c == req[s]
<1>1. /\ SameSights /\ Disturb(s) /\ Spend("lost", MaxLost)
      /\ c \in Request /\ req \in [Slots -> Request]
  BY BrowseSights, CurrentParts DEF Browse, Unread
<1>2. PICK x \in {"ok", "refused"} : req' = Answer(s, x)
  BY DEF Unread, ReadFails, FailureSeen, NothingRead
<1>3. Flying(c)
  BY DEF Unread, ReadFails, FailureSeen, NothingRead, At, Flying
<1>4. /\ Answered(c, x) \in Request /\ Answered(c, x).pc = "answered"
      /\ Answered(c, x).op = c.op /\ Answered(c, x).tab = c.tab
      /\ Answered(c, x).mounted = c.mounted /\ Answered(c, x).user = c.user
  BY <1>1, AnsweredFields
<1>5. req' = [req EXCEPT ![s] = Answered(c, x)]
  BY <1>1, <1>2, AnswerIs
<1> QED BY <1>1, <1>3, <1>4, <1>5, DisturbCurrent

-----------------------------------------------------------------------------
(* Replies                                                                 *)

LEMMA PageOfOp ==
    ASSUME NEW op, NEW page, op \in OpsOf(page)
    PROVE  /\ op \in {"profile", "tokens", "enrol"} => page = "profile"
           /\ op \in AdminReads => op = page
           /\ op \in Reads \cup PageOps
<1>1. CASE page = "profile"
  BY <1>1, OpsOfIs, OpSets
<1>2. CASE page = "users"
  BY <1>2, OpsOfIs, OpSets
<1>3. CASE page = "currencies"
  BY <1>3, OpsOfIs, OpSets
<1>4. CASE page \notin {"profile", "users", "currencies"}
  BY <1>4 DEF OpsOf
<1> QED BY <1>1, <1>2, <1>3, <1>4

\* What has to hold of a page and of what its request has become.
Follows(d, y) ==
    /\ Settled(y)
    /\ IF Flying(d) THEN Carries(d, y) ELSE y.loading \/ Shown(y)

SameTab(y, x) == y.page = x.page /\ y.user = x.user /\ y.admin = x.admin /\ y.calm = x.calm

(* Request s becomes d, and its page y.                                    *)
Reply(s, d, y) ==
    /\ req' = [req EXCEPT ![s] = d] /\ used' = used
    /\ \A e \in Tabs : tab'[e] = IF e = req[s].tab THEN y ELSE tab[e]
    /\ Flying(req[s]) /\ (Flying(d) => d.tab = req[s].tab)
    /\ Known(d, tab, used.by)

Justified(c, d, y) ==
    LET x == tab[c.tab] IN
    c.tab \in Tabs => SameTab(y, x) /\ (Carries(c, x) /\ Settled(x) => Follows(d, y))

\* One request gets its reply, which changes what its page shows.
LEMMA ReplyCurrent ==
    ASSUME TypeInv, CurrentInv, SameSights, NEW s \in Slots, NEW d, NEW y,
           Reply(s, d, y), Justified(req[s], d, y)
    PROVE  CurrentInv'
<1>1. PICK c, t : c = req[s] /\ t = c.tab
  OBVIOUS
<1>2. /\ req' = [req EXCEPT ![s] = d] /\ used' = used
      /\ \A e \in Tabs : tab'[e] = IF e = t THEN y ELSE tab[e]
      /\ Flying(c) /\ (Flying(d) => d.tab = t) /\ Known(d, tab, used.by)
  BY <1>1 DEF Reply
<1>3. t \in Tabs => SameTab(y, tab[t]) /\ (Carries(c, tab[t]) /\ Settled(tab[t]) => Follows(d, y))
  BY <1>1 DEF Justified
<1>4. req'[s] = d /\ (\A r \in Slots \ {s} : req'[r] = req[r]) /\ req \in [Slots -> Request]
  BY <1>2, CurrentParts
<1>5. \A e \in Tabs : /\ tab'[e].page = tab[e].page /\ tab'[e].user = tab[e].user
                      /\ Orderly(tab'[e]) <=> Orderly(tab[e])
  BY <1>2, <1>3 DEF Orderly, Loads, SameTab
<1>6. CallsKnown(req', tab', used'.by)
  <2>1. CallsKnown(req', tab, used.by)
    BY <1>2, <1>4, CurrentParts, SetKnown
  <2> QED BY <1>2, <1>5, <2>1, KnownStays
<1>7. ASSUME NEW e \in Tabs \ {t} PROVE Alike(tab'[e], tab[e]) /\ Agree(req', req, e)
  <2>1. Agree([req EXCEPT ![s] = d], req, e)
    BY <1>1, <1>2, <1>4, SetAgrees
  <2> QED BY <1>2, <2>1 DEF Alike
<1>8. ASSUME NEW z, NEW calls, t \in Tabs, z = tab'[t], calls = req', Quiet(z, t, used'.by)
      PROVE  QuietOK(calls, z, t)'
  <2>1. PICK x, reqs : x = tab[t] /\ reqs = req
    OBVIOUS
  <2>2. Quiet(x, t, used.by)
    BY <1>2, <1>5, <1>8, <2>1 DEF Quiet
  <2>3. QuietOK(reqs, x, t)
    BY <1>8, <2>1, <2>2, CurrentParts DEF QuietInv
  <2>4. s \in FlightsOf(reqs, t)
    BY <1>1, <1>2, <2>1 DEF FlightsOf
  <2>5. FlightsOf(reqs, t) = {s} /\ Carries(c, x) /\ Settled(x)
    BY <1>1, <2>1, <2>3, <2>4 DEF QuietOK
  <2>6. FlightsOf(calls, t) = IF Flying(d) THEN {s} ELSE {}
    BY <1>2, <1>4, <1>8, <2>1, <2>5 DEF FlightsOf
  <2>7. z = y /\ Follows(d, z) /\ calls[s] = d
    BY <1>2, <1>3, <1>4, <1>8, <2>1, <2>5
  <2>8. Settled(z)' /\ (Shown(z)' <=> Shown(z))
    BY <2>7, ShownStays DEF Follows
  <2>9. CASE Flying(d)
    <3>1. Alike(z, z)
      BY DEF Alike
    <3>2. Carries(d, z)'
      BY <2>7, <2>9, <3>1, CarriesStays DEF Follows
    <3> QED BY <2>6, <2>7, <2>8, <2>9, <3>2 DEF QuietOK
  <2>10. CASE ~Flying(d)
    <3>1. z.loading \/ Shown(z)'
      BY <2>7, <2>8, <2>10 DEF Follows
    <3> QED BY <2>6, <2>8, <2>10, <3>1 DEF QuietOK
  <2> QED BY <2>9, <2>10
<1>9. used.by \subseteq used'.by
  BY <1>2
<1>10. QuietInv'
  BY <1>7, <1>8, <1>9, CurrentParts, QuietSplit
<1> QED BY <1>6, <1>10 DEF CurrentInv

\* The reply changes nothing.
LEMMA DroppedCurrent ==
    ASSUME TypeInv, CurrentInv, SameSights, used' = used, tab' = tab, NEW s \in Slots,
           Flying(req[s]), req' = Drop(s), NEW c, c = req[s],
           c.tab \in Tabs /\ Carries(c, tab[c.tab]) /\ Settled(tab[c.tab]) =>
               tab[c.tab].loading \/ Shown(tab[c.tab])
    PROVE  CurrentInv'
<1>1. req' = [req EXCEPT ![s] = Idle]
  BY DEF Drop
<1>2. Known(Idle, tab, used.by) /\ ~Flying(Idle)
  BY IdleKnown
<1>3. Reply(s, Idle, tab[c.tab])
  BY <1>1, <1>2 DEF Reply
<1>4. Justified(c, Idle, tab[c.tab])
  BY <1>2 DEF Justified, Follows, SameTab
<1> QED BY <1>3, <1>4, ReplyCurrent

LEMMA ReceiveLoadCurrent ==
    ASSUME TypeInv, CurrentInv, NEW s \in Slots, ReceiveLoad(s)
    PROVE  CurrentInv'
<1> DEFINE t == req[s].tab
           x == tab[t]
<1>1. SameSights /\ used' = used /\ Flying(req[s])
  BY BrowseSights DEF Browse, ReceiveLoad, At, Flying
<1>2. PICK c : c = req[s]
  OBVIOUS
<1>3. c \in Request /\ Known(c, tab, used.by) /\ c.op \in Reads /\ c.pc = "answered"
  BY <1>2, CurrentParts DEF CallsKnown, ReceiveLoad, At
<1>4. t \in Tabs /\ c.tab = t /\ c.op \in OpsOf(x.page) /\ c.user = x.user
  BY <1>2, <1>3 DEF Known
<1>5. x \in Tab /\ x.view \in View /\ c.view \in View
  BY <1>3, <1>4, CurrentParts DEF Tab, Request
<1> DEFINE v1 == [x.view EXCEPT !.devices = c.view.devices]
           v2 == [x.view EXCEPT !.tokens = c.view.tokens]
           x1 == [x EXCEPT !.view = v1]
           x2 == [[x EXCEPT !.view = v2] EXCEPT !.loading = FALSE]
           x3 == [[x EXCEPT !.view = c.view] EXCEPT !.loading = FALSE]
<1>6. /\ v1.devices = c.view.devices /\ v1.admins = x.view.admins /\ v1.codes = x.view.codes
      /\ v2.tokens = c.view.tokens /\ v2.devices = x.view.devices
      /\ v2.admins = x.view.admins /\ v2.codes = x.view.codes
      /\ DOMAIN v2 = {"devices", "tokens", "admins", "codes"}
  BY <1>5 DEF View
<1>7. CASE /\ c.op = "profile" /\ c.status = "ok"
           /\ req' = [req EXCEPT ![s] = [LoadOf(t, x) EXCEPT !.op = "tokens"]]
           /\ tab' = [tab EXCEPT ![t].view.devices = c.view.devices]
  <2> DEFINE d == [LoadOf(t, x) EXCEPT !.op = "tokens"]
  <2>1. d.op = "tokens" /\ d.tab = t /\ d.mounted /\ d.pc = "sent" /\ d.user = x.user
    BY DEF LoadOf, Idle
  <2>2. x.page = "profile" /\ "tokens" \in OpsOf(x.page) /\ "tokens" \notin AdminReads
    BY <1>4, <1>7, PageOfOp, OpsOfIs, OpSets
  <2>3. SameTab(x1, x) /\ x1.view = v1 /\ x1.loading = x.loading
    <3> HIDE DEF v1
    <3> QED BY <1>5 DEF Tab, SameTab
  <2>4. \A e \in Tabs : tab'[e] = IF e = t THEN x1 ELSE tab[e]
    BY <1>4, <1>7, CurrentParts
  <2>5. req' = [req EXCEPT ![s] = d]
    BY <1>7
  <2> HIDE DEF d, t, x, x1, v1
  <2>6. Known(d, tab, used.by)
    BY <1>4, <2>1, <2>2, OpSets DEF Known, x
  <2>7. Carries(c, x) /\ Settled(x) => Follows(d, x1)
    <3>1. ASSUME Carries(c, x) PROVE Carries(d, x1)
      <4>1. c.view.devices = DevicesOf(x.user, Kinds)
        BY <1>3, <1>7, <3>1 DEF Carries
      <4> QED BY <1>6, <2>1, <2>2, <2>3, <4>1, OpSets DEF Carries, SameTab
    <3>2. ASSUME Settled(x) PROVE Settled(x1)
      BY <1>6, <2>2, <2>3, <3>2, OpSets DEF Settled, SameTab
    <3>3. Flying(d)
      BY <2>1 DEF Flying
    <3> QED BY <3>1, <3>2, <3>3 DEF Follows
  <2>8. Reply(s, d, x1)
    BY <1>1, <2>1, <2>4, <2>5, <2>6 DEF Reply, t
  <2>9. Justified(c, d, x1)
    BY <1>4, <2>3, <2>7 DEF Justified, x
  <2> QED BY <1>1, <1>2, <2>8, <2>9, ReplyCurrent
<1>8. CASE /\ c.op = "tokens" /\ req' = Drop(s)
           /\ tab' = [tab EXCEPT ![t].view.tokens = c.view.tokens, ![t].loading = FALSE]
  <2>1. SameTab(x2, x) /\ x2.view = v2 /\ x2.loading = FALSE
    <3> HIDE DEF v2
    <3> QED BY <1>5 DEF Tab, SameTab
  <2>2. \A e \in Tabs : tab'[e] = IF e = t THEN x2 ELSE tab[e]
    BY <1>4, <1>8, CurrentParts
  <2>3. x.page = "profile"
    BY <1>4, <1>8, PageOfOp
  <2>4. req' = [req EXCEPT ![s] = Idle]
    BY <1>8 DEF Drop
  <2> HIDE DEF t, x, x2, v2
  <2>5. Carries(c, x) /\ Settled(x) => Follows(Idle, x2)
    <3> SUFFICES ASSUME Carries(c, x), Settled(x) PROVE Settled(x2) /\ Shown(x2)
      BY IdleKnown DEF Follows
    <3>1. /\ v2.devices = DevicesOf(x.user, Kinds) /\ v2.tokens = TokensOf(x.user)
          /\ v2.admins = {} /\ v2.codes = {}
      BY <1>3, <1>6, <1>8, <2>3 DEF Carries, Settled
    <3>2. ViewOn("profile", x.user) = [NoView EXCEPT !.devices = DevicesOf(x.user, Kinds),
                                                     !.tokens = TokensOf(x.user)]
      BY DEF ViewOn, ViewOf
    <3>3. v2 = [devices |-> DevicesOf(x.user, Kinds), tokens |-> TokensOf(x.user),
                admins |-> {}, codes |-> {}]
      BY <1>5, <3>1 DEF v2, View
    <3>4. v2 = ViewOn(x2.page, x2.user)
      BY <2>1, <2>3, <3>2, <3>3 DEF NoView, SameTab
    <3> QED BY <2>1, <2>3, <3>1, <3>4, OpSets DEF Settled, Shown, SameTab
  <2>6. Reply(s, Idle, x2)
    BY <1>1, <2>2, <2>4, IdleKnown DEF Reply, t
  <2>7. Justified(c, Idle, x2)
    BY <1>4, <2>1, <2>5 DEF Justified, x
  <2> QED BY <1>1, <1>2, <2>6, <2>7, ReplyCurrent
<1>9. CASE /\ c.op \in AdminReads /\ c.status = "ok" /\ req' = Drop(s)
           /\ tab' = [tab EXCEPT ![t].view = c.view, ![t].loading = FALSE]
  <2>1. SameTab(x3, x) /\ x3.view = c.view /\ x3.loading = FALSE
    BY <1>5 DEF Tab, SameTab
  <2>2. \A e \in Tabs : tab'[e] = IF e = t THEN x3 ELSE tab[e]
    BY <1>4, <1>9, CurrentParts
  <2>3. x.page = c.op
    BY <1>4, <1>9, PageOfOp
  <2>4. req' = [req EXCEPT ![s] = Idle]
    BY <1>9 DEF Drop
  <2> HIDE DEF t, x, x3
  <2>5. Carries(c, x) /\ Settled(x) => Follows(Idle, x3)
    <3> SUFFICES ASSUME Carries(c, x), Settled(x) PROVE Settled(x3) /\ Shown(x3)
      BY IdleKnown DEF Follows
    <3>1. x.user \in admins /\ c.view = ViewOf(c.op, x.user)
      BY <1>3, <1>9 DEF Carries
    <3>2. c.op # "profile" /\ c.op \in AdminPages
      BY <1>9, OpSets
    <3>3. c.view = ViewOn(x3.page, x3.user)
      BY <2>1, <2>3, <3>1, <3>2 DEF ViewOn, SameTab
    <3> QED BY <2>1, <2>3, <3>1, <3>2, <3>3 DEF Settled, Shown, SameTab
  <2>6. Reply(s, Idle, x3)
    BY <1>1, <2>2, <2>4, IdleKnown DEF Reply, t
  <2>7. Justified(c, Idle, x3)
    BY <1>4, <2>1, <2>5 DEF Justified, x
  <2> QED BY <1>1, <1>2, <2>6, <2>7, ReplyCurrent
<1>10. CASE c.op # "tokens" /\ c.status # "ok" /\ req' = Drop(s) /\ tab' = tab
  <2> HIDE DEF t, x
  <2>1. ASSUME Carries(c, x), Settled(x) PROVE x.loading
    <3>1. c.op \in AdminReads
      BY <1>3, <1>10, <2>1, OpSets DEF Carries
    <3>2. x.user \notin admins
      BY <1>3, <1>10, <2>1, <3>1 DEF Carries
    <3>3. x.page \in AdminPages
      BY <1>4, <3>1, PageOfOp, OpSets
    <3> QED BY <2>1, <3>2, <3>3 DEF Settled
  <2>2. c.tab \in Tabs /\ Carries(c, tab[c.tab]) /\ Settled(tab[c.tab]) => tab[c.tab].loading
    BY <1>4, <2>1 DEF x
  <2> QED BY <1>1, <1>2, <1>10, <2>2, DroppedCurrent
<1> QED BY <1>2, <1>7, <1>8, <1>9, <1>10 DEF ReceiveLoad

LEMMA DropKnown ==
    ASSUME TypeInv, CurrentInv, NEW s \in Slots
    PROVE  /\ CallsKnown(Drop(s), tab, used.by) /\ Drop(s) \in [Slots -> Request]
           /\ \A e \in Tabs : e # req[s].tab => Agree(Drop(s), req, e)
<1>1. Drop(s) = [req EXCEPT ![s] = Idle] /\ req \in [Slots -> Request]
  BY CurrentParts DEF Drop
<1>2. CallsKnown(Drop(s), tab, used.by)
  <2>1. Known(Idle, tab, used.by) /\ CallsKnown(req, tab, used.by)
    BY CurrentParts, IdleKnown
  <2>2. CallsKnown([req EXCEPT ![s] = Idle], tab, used.by)
    BY <1>1, <2>1, SetKnown
  <2> QED BY <1>1, <2>2
<1>3. Drop(s) \in [Slots -> Request]
  BY <1>1, IdleType
<1>4. ASSUME NEW e \in Tabs, e # req[s].tab PROVE Agree(Drop(s), req, e)
  <2>1. Agree([req EXCEPT ![s] = Idle], req, e)
    BY <1>1, <1>4, IdleKnown, SetAgrees
  <2> QED BY <1>1, <2>1
<1> QED BY <1>2, <1>3, <1>4

LEMMA ReceiveSignInCurrent ==
    ASSUME TypeInv, CurrentInv, NEW s \in Slots, ReceiveSignIn(s)
    PROVE  CurrentInv'
<1>1. PICK c, t : c = req[s] /\ t = c.tab
  OBVIOUS
<1>2. SameSights /\ used' = used /\ Flying(c) /\ c.op \in SignIns
  BY <1>1, BrowseSights DEF Browse, ReceiveSignIn, At, Flying
<1>3. t \in Tabs /\ c \in Request
  BY <1>1, <1>2, TypeInvParts DEF CallsOK, ReqsOK, OwnerOK
<1>4. CASE c.status # "ok"
  <2>1. req' = Drop(s) /\ tab' = tab
    BY <1>1, <1>4 DEF ReceiveSignIn
  <2>2. ~Carries(c, tab[c.tab])
    <3>1. c.op \notin Reads \cup PageOps
      BY <1>2, OpSets
    <3> QED BY <3>1, PageOfOp DEF Carries
  <2> QED BY <1>1, <1>2, <2>1, <2>2, DroppedCurrent
<1>5. ASSUME NEW y, ~Loads(y), req' = Unmount(Drop(s), t), tab' = [tab EXCEPT ![t] = y]
      PROVE  CurrentInv'
  <2> DEFINE calls == Drop(s)
  <2>1. /\ CallsKnown(calls, tab, used.by) /\ calls \in [Slots -> Request]
        /\ \A e \in Tabs \ {t} : Agree(calls, req, e)
    BY <1>1, DropKnown
  <2>2. req' = Unmount(calls, t) /\ used.by \subseteq used'.by
    BY <1>2, <1>5
  <2> HIDE DEF calls
  <2> QED BY <1>2, <1>3, <1>5, <2>1, <2>2, CurrentParts, PlainPage
<1>6. CASE c.status = "ok"
  <2>1. req' = Unmount(Drop(s), t)
    BY <1>1, <1>6 DEF ReceiveSignIn
  <2>2. tab' = [tab EXCEPT ![t] =
                  IF c.op = "login" /\ c.arg # None
                  THEN [Fresh([tab[t] EXCEPT !.page = "mfa", !.ticket = c.arg])
                            EXCEPT !.view.devices = c.view.devices]
                  ELSE Fresh(SignedIn(t, c.user, c.flag))]
    BY <1>1, <1>6 DEF ReceiveSignIn
  <2>3. tab[t] \in Tab
    BY <1>3, CurrentParts
  <2>4. CASE c.op = "login" /\ c.arg # None
    <3> DEFINE x == [tab[t] EXCEPT !.page = "mfa", !.ticket = c.arg]
               y == [Fresh(x) EXCEPT !.view.devices = c.view.devices]
    <3>1. x.page = "mfa"
      BY <2>3 DEF Tab
    <3>2. y.page = "mfa"
      <4>1. Fresh(x).page = x.page
        BY <2>3 DEF Fresh, Tab
      <4> QED BY <2>3, <3>1, <4>1 DEF Fresh, Tab
    <3>3. tab' = [tab EXCEPT ![t] = y]
      BY <2>2, <2>4
    <3> HIDE DEF y
    <3>4. ~Loads(y)
      BY <3>2, OpSets DEF Loads
    <3> QED BY <1>5, <2>1, <3>3, <3>4
  <2>5. CASE ~(c.op = "login" /\ c.arg # None)
    <3> DEFINE x == SignedIn(t, c.user, c.flag)
               y == Fresh(x)
    <3>1. y.page = "home"
      <4>1. x.page = "home"
        BY <2>3 DEF SignedIn, Tab
      <4> QED BY <2>3, <4>1 DEF Fresh, SignedIn, Tab
    <3>2. tab' = [tab EXCEPT ![t] = y]
      BY <2>2, <2>5
    <3> HIDE DEF y
    <3>3. ~Loads(y)
      BY <3>1, OpSets DEF Loads
    <3> QED BY <1>5, <2>1, <3>2, <3>3
  <2> QED BY <2>4, <2>5
<1> QED BY <1>4, <1>6

LEMMA ReceiveChallengeCurrent ==
    ASSUME TypeInv, CurrentInv, NEW s \in Slots, ReceiveChallenge(s)
    PROVE  CurrentInv'
<1>1. PICK c, t : c = req[s] /\ t = c.tab
  OBVIOUS
<1>2. SameSights /\ used' = used /\ Flying(c) /\ c.op = "enrol"
  BY <1>1, BrowseSights DEF Browse, ReceiveChallenge, At, Flying
<1>3. c \in Request /\ Known(c, tab, used.by)
  BY <1>1, CurrentParts DEF CallsKnown
<1>4. ASSUME NEW x, Carries(c, x) PROVE x.loading \/ Shown(x)
  <2>1. c.op \notin Reads /\ ~Reloads(c)
    BY <1>2, OpSets DEF Reloads
  <2> QED BY <1>4, <2>1 DEF Carries
<1>5. CASE req' = Drop(s) /\ tab' = tab
  <2>1. Carries(c, tab[c.tab]) => tab[c.tab].loading \/ Shown(tab[c.tab])
    BY <1>4
  <2> QED BY <1>1, <1>2, <1>5, <2>1, DroppedCurrent
<1>6. CASE c.mounted /\ req' = Drop(s) /\ tab' = [tab EXCEPT ![t].challenge = c.arg]
  <2> DEFINE x == tab[t]
             y == [x EXCEPT !.challenge = c.arg]
  <2>1. t \in Tabs
    BY <1>1, <1>2, <1>3, <1>6, OpSets DEF Known
  <2>2. SameTab(y, x) /\ y.view = x.view /\ y.loading = x.loading
    BY <2>1, CurrentParts DEF Tab, SameTab
  <2>3. \A e \in Tabs : tab'[e] = IF e = t THEN y ELSE tab[e]
    BY <1>6, <2>1, CurrentParts
  <2>4. req' = [req EXCEPT ![s] = Idle]
    BY <1>6 DEF Drop
  <2> HIDE DEF x, y
  <2>5. Reply(s, Idle, y)
    BY <1>1, <1>2, <2>3, <2>4, IdleKnown DEF Reply
  <2>6. Carries(c, x) /\ Settled(x) => Follows(Idle, y)
    <3> SUFFICES ASSUME Carries(c, x), Settled(x) PROVE Settled(y) /\ (y.loading \/ Shown(y))
      BY IdleKnown DEF Follows
    <3>1. x.loading \/ Shown(x)
      BY <1>4
    <3> QED BY <2>2, <3>1 DEF Settled, Shown, SameTab
  <2>7. Justified(c, Idle, y)
    BY <1>1, <2>2, <2>6 DEF Justified, x
  <2> QED BY <1>1, <1>2, <2>5, <2>7, ReplyCurrent
<1>7. CASE /\ req' = [req EXCEPT ![s].pc = "sent", ![s].op = "finish", ![s].status = "none"]
           /\ tab' = tab
  <2> DEFINE d1 == [c EXCEPT !.pc = "sent"]
             d2 == [d1 EXCEPT !.op = "finish"]
             d == [d2 EXCEPT !.status = "none"]
  <2>1. req' = [req EXCEPT ![s] = d]
    BY <1>1, <1>7
  <2>2. d.pc = "sent" /\ d.op = "finish" /\ d.tab = t /\ d.mounted = c.mounted /\ d.user = c.user
    BY <1>1, <1>3 DEF Request
  <2> HIDE DEF d
  <2>3. \A page : "enrol" \in OpsOf(page) => "finish" \in OpsOf(page)
    BY PageOfOp, OpsOfIs
  <2>4. Known(d, tab, used.by)
    BY <1>1, <1>2, <1>3, <2>2, <2>3, OpSets DEF Known, Flying
  <2>5. Flying(d)
    BY <2>2 DEF Flying
  <2>6. Reply(s, d, tab[t])
    BY <1>1, <1>2, <1>7, <2>1, <2>2, <2>4 DEF Reply
  <2>7. ASSUME NEW x, Carries(c, x), Settled(x) PROVE Follows(d, x)
    <3>1. x.loading \/ Shown(x)
      BY <1>4, <2>7
    <3>2. d.mounted /\ d.op \in OpsOf(x.page) /\ d.user = x.user
      BY <1>2, <2>2, <2>3, <2>7 DEF Carries
    <3>3. Carries(d, x)
      BY <2>2, <3>1, <3>2, OpSets DEF Carries
    <3> QED BY <2>5, <2>7, <3>3 DEF Follows
  <2>8. Justified(c, d, tab[t])
    BY <1>1, <2>7 DEF Justified, SameTab
  <2> QED BY <1>1, <1>2, <2>6, <2>8, ReplyCurrent
<1> QED BY <1>1, <1>5, <1>6, <1>7 DEF ReceiveChallenge

LEMMA ReceiveWriteCurrent ==
    ASSUME TypeInv, CurrentInv, NEW s \in Slots, ReceiveWrite(s)
    PROVE  CurrentInv'
<1>1. PICK c, t : c = req[s] /\ t = c.tab
  OBVIOUS
<1>2. SameSights /\ used' = used /\ Flying(c) /\ c.pc = "answered" /\ c.op \notin Reads
  BY <1>1, BrowseSights, OpSets DEF Browse, ReceiveWrite, At, Flying
<1>3. c \in Request /\ Known(c, tab, used.by)
  BY <1>1, CurrentParts DEF CallsKnown
<1>4. CASE Reloads(c) /\ c.mounted
  <2>1. PICK calls, x :
          /\ calls = Drop(s)
          /\ x = IF c.op = "finish" /\ c.kind = "totp" THEN [tab[t] EXCEPT !.challenge = None]
                 ELSE tab[t]
          /\ Load(calls, t, x)
    BY <1>1, <1>4 DEF ReceiveWrite
  <2>2. c.op \in PageOps
    BY <1>4, OpSets DEF Reloads
  <2>3. t \in Tabs /\ Loads(tab[t])
    BY <1>1, <1>4, <2>2, TypeInvParts DEF CallsOK, ReqsOK, OwnerOK
  <2>4. tab[t] \in Tab
    BY <2>3, CurrentParts
  <2>5. x \in Tab
    BY <2>1, <2>4, TabFields
  <2>6. SameTab(x, tab[t]) /\ x.view = tab[t].view /\ x.loading = tab[t].loading
    BY <2>1, <2>4 DEF Tab, SameTab
  <2>7. /\ CallsKnown(calls, tab, used.by) /\ calls \in [Slots -> Request]
        /\ \A e \in Tabs \ {t} : Agree(calls, req, e)
    BY <1>1, <2>1, DropKnown
  <2>8. CallsKnown(calls, [tab EXCEPT ![t] = x], used'.by)
    <3> DEFINE b == [tab EXCEPT ![t] = x]
    <3>1. \A e \in Tabs : b[e] = IF e = t THEN x ELSE tab[e]
      BY CurrentParts
    <3> HIDE DEF b
    <3>2. \A e \in Tabs : /\ b[e].page = tab[e].page /\ b[e].user = tab[e].user
                          /\ Orderly(b[e]) => Orderly(tab[e])
      BY <2>6, <3>1 DEF Orderly, Loads, SameTab
    <3>3. CallsKnown(calls, b, used'.by)
      BY <1>2, <2>7, <3>2, KnownStays
    <3> QED BY <3>3 DEF b
  <2>9. Loads(x)
    BY <2>3, <2>6 DEF Loads, SameTab
  <2>10. ASSUME x.calm, used'.by \subseteq {t} PROVE Settled(x)'
    <3>1. Quiet(tab[t], t, used.by)
      BY <1>2, <2>3, <2>6, <2>10 DEF Quiet, Orderly, SameTab
    <3>2. Settled(tab[t])
      BY <2>3, <3>1, CurrentParts DEF QuietInv, QuietOK
    <3>3. Settled(x)
      BY <2>6, <3>2 DEF Settled, SameTab
    <3> QED BY <1>2, <3>3, ShownStays
  <2>11. used.by \subseteq used'.by
    BY <1>2
  <2> QED BY <1>2, <2>1, <2>3, <2>5, <2>7, <2>8, <2>9, <2>10, <2>11, CurrentParts, LoadCurrent
<1>5. CASE ~(Reloads(c) /\ c.mounted)
  <2>1. tab' = tab
    BY <1>1, <1>5 DEF ReceiveWrite
  <2>2. ASSUME NEW x, Carries(c, x) PROVE x.loading \/ Shown(x)
    BY <1>2, <1>5, <2>2 DEF Carries
  <2>3. CASE req' = Drop(s)
    <3>1. Carries(c, tab[c.tab]) => tab[c.tab].loading \/ Shown(tab[c.tab])
      BY <2>2
    <3> QED BY <1>1, <1>2, <2>1, <2>3, <3>1, DroppedCurrent
  <2>4. CASE /\ c.status = "lost" /\ c.op \in Confirmed
             /\ req' = [req EXCEPT ![s].pc = "asked", ![s].status = "none"]
    <3> DEFINE d1 == [c EXCEPT !.pc = "asked"]
               d == [d1 EXCEPT !.status = "none"]
    <3>1. req' = [req EXCEPT ![s] = d]
      BY <1>1, <2>4
    <3>2. d.pc = "asked" /\ d.op = c.op /\ d.tab = t /\ d.mounted = c.mounted /\ d.user = c.user
      BY <1>1, <1>3 DEF Request
    <3> HIDE DEF d
    <3>3. ~Flying(d)
      BY <3>2 DEF Flying
    <3>4. t \in Tabs
      BY <1>1, <1>3, <2>4, OpSets DEF Known
    <3>5. ~Quiet(tab[t], t, used.by)
      <4>1. PICK x : x = tab[t]
        OBVIOUS
      <4>2. ~Carries(c, x)
        BY <1>2, <2>4 DEF Carries
      <4>3. s \in FlightsOf(req, t)
        BY <1>1, <1>2 DEF FlightsOf
      <4> QED BY <1>1, <3>4, <4>1, <4>2, <4>3, CurrentParts DEF QuietInv, QuietOK
    <3>6. Known(d, tab, used.by)
      BY <1>1, <1>2, <1>3, <2>4, <3>2, <3>3, <3>4, <3>5 DEF Known
    <3>7. Reply(s, d, tab[t])
      BY <1>1, <1>2, <2>1, <3>1, <3>3, <3>6 DEF Reply
    <3>8. Justified(c, d, tab[t])
      BY <1>1, <2>2, <3>3 DEF Justified, SameTab, Follows
    <3> QED BY <1>1, <1>2, <3>7, <3>8, ReplyCurrent
  <2> QED BY <1>1, <1>5, <2>3, <2>4 DEF ReceiveWrite
<1> QED BY <1>4, <1>5

LEMMA BrowseCurrent ==
    ASSUME TypeInv, CurrentInv, Browse
    PROVE  CurrentInv'
<1>1. CASE Elsewhere
  BY <1>1, ElsewhereCurrent
<1>2. CASE Wait
  BY <1>2, WaitCurrent
<1>3. ASSUME NEW t \in Tabs, Follow(t) \/ Ask(t) \/ Click(t) \/ CloseChallenge(t)
                             \/ SubmitLogin(t) \/ UsePasskey(t)
      PROVE  CurrentInv'
  BY <1>3, FollowCurrent, AskCurrent, ClickCurrent, CloseChallengeCurrent, SubmitLoginCurrent,
     UsePasskeyCurrent
<1>4. ASSUME NEW s \in Slots, Cancel(s) \/ Confirm(s) \/ Lose(s) \/ Unread(s)
      PROVE  CurrentInv'
  BY <1>4, CancelCurrent, ConfirmCurrent, LoseCurrent, UnreadCurrent
<1>5. ASSUME NEW s \in Slots, \/ ReceiveLoad(s) \/ ReceiveSignIn(s)
                              \/ ReceiveChallenge(s) \/ ReceiveWrite(s)
      PROVE  CurrentInv'
  BY <1>5, ReceiveLoadCurrent, ReceiveSignInCurrent, ReceiveChallengeCurrent, ReceiveWriteCurrent
<1> QED BY <1>1, <1>2, <1>3, <1>4, <1>5 DEF Browse

LEMMA StepCurrent ==
    ASSUME TypeInv, CurrentInv, [Next]_vars
    PROVE  CurrentInv'
<1>1. CASE Browse
  BY <1>1, BrowseCurrent
<1>2. ASSUME NEW s \in Slots, Turn(s) PROVE CurrentInv'
  BY <1>2, ServeCurrent
<1>3. CASE UNCHANGED vars
  <2>1. UNCHANGED <<admins, device, token, currency>> /\ req' = req /\ tab' = tab /\ used' = used
    BY <1>3 DEF vars, tabVars, serverVars, factorVars, moneyVars
  <2>2. SameSights
    BY <2>1, SightsUnchanged
  <2> QED BY <2>1, <2>2, CurrentParts, AgreeItself, StillCalls
<1> QED BY <1>1, <1>2, <1>3, NextIs

LEMMA InitCurrent ==
    ASSUME Init
    PROVE  CurrentInv
<1>1. TypeInv
  BY InitTypes
<1>2. \A s \in Slots : req[s] = Idle
  BY DEF Init
<1>3. CallsKnown(req, tab, used.by)
  BY <1>2, IdleKnown DEF CallsKnown
<1>4. ASSUME NEW t \in Tabs, Quiet(tab[t], t, used.by)
      PROVE  \E page \in Pages \ {"login", "mfa"}, u \in Users : tab[t] = NewTab(page, u)
  <2>1. Loads(tab[t]) /\ tab[t].calm
    BY <1>4 DEF Quiet, Orderly
  <2>2. \/ tab[t] = NewTab("login", None)
        \/ \E page \in Pages \ {"login", "mfa"}, u \in Users : tab[t] = NewTab(page, u)
        \/ \E u \in Users, k \in TicketIds : tab[t] = HalfWay(u, k)
        \/ \E u \in Users : tab[t] = Stale(u)
    BY DEF Init
  <2>3. NewTab("login", None).page = "login"
    BY DEF NewTab
  <2>4. \A u, k : HalfWay(u, k).page = "mfa"
    BY DEF HalfWay, NewTab
  <2>5. \A u : ~Stale(u).calm
    BY DEF Stale, NewTab
  <2>6. tab[t].page \notin {"login", "mfa"}
    BY <2>1, OpSets DEF Loads
  <2> QED BY <2>1, <2>2, <2>3, <2>4, <2>5, <2>6
<1>5. ASSUME NEW t \in Tabs, NEW x, x = tab[t], Quiet(x, t, used.by)
      PROVE  QuietOK(req, x, t)
  <2>1. PICK page, u : x = NewTab(page, u)
    BY <1>4, <1>5
  <2>2. x.page = page /\ x.user = u /\ x.view = ViewOn(page, u) /\ (x.admin <=> u \in admins)
    BY <2>1 DEF NewTab
  <2>3. FlightsOf(req, t) = {}
    BY <1>2, IdleKnown DEF FlightsOf
  <2>4. x.page \in AdminPages => x.user \in admins
    BY <1>5, <2>2, OpSets DEF Quiet, Orderly, Loads
  <2>5. x.page = "profile" => x.view.admins = {} /\ x.view.codes = {}
    BY <2>2 DEF ViewOn, ViewOf, NoView
  <2> QED BY <2>2, <2>3, <2>4, <2>5 DEF QuietOK, Shown, Settled
<1>6. QuietInv
  BY <1>5 DEF QuietInv
<1> QED BY <1>3, <1>6 DEF CurrentInv

LEMMA CurrentHolds == Spec => []CurrentInv
<1>1. Init => CurrentInv
  BY InitCurrent
<1>2. TypeInv /\ CurrentInv /\ [Next]_vars => CurrentInv'
  BY StepCurrent
<1> QED BY <1>1, <1>2, TypesHold, PTL DEF Spec

(* A page at rest shows what the server has, whatever was done on it, as   *)
(* long as its requests did not overlap, none was lost, no statement of    *)
(* its loads failed, and no other tab has written: for every number of     *)
(* users, tabs and requests.                                               *)
THEOREM RestingPagesAreCurrent == Spec => []RestingPageIsCurrent
<1>1. ASSUME CurrentInv, NEW t \in Tabs, AtRest(t), tab[t].calm, ~InFlight(req, t),
             used.by \subseteq {t}
      PROVE  tab[t].view = ViewOn(tab[t].page, tab[t].user)
  <2>1. Quiet(tab[t], t, used.by) /\ ~tab[t].loading
    BY <1>1 DEF AtRest, Quiet, Orderly
  <2>2. QuietOK(req, tab[t], t)
    BY <1>1, <2>1 DEF CurrentInv, QuietInv
  <2>3. FlightsOf(req, t) = {}
    BY <1>1, NoFlights
  <2> QED BY <2>1, <2>2, <2>3 DEF QuietOK, Shown
<1>2. CurrentInv => RestingPageIsCurrent
  BY <1>1 DEF RestingPageIsCurrent
<1> QED BY <1>2, CurrentHolds, PTL
=============================================================================
