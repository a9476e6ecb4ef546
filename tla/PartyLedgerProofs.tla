------------------------ MODULE PartyLedgerProofs ------------------------
(***************************************************************************)
(* Proofs about PartyLedger for every set of users, parties, items and     *)
(* request slots: type correctness, and the properties that hold however   *)
(* requests interleave.                                                    *)
(*                                                                         *)
(* IInv is inductive.  Its heart is ReqInv: what a request established by  *)
(* its reads is still true when it writes, because rows that exist keep    *)
(* their owner, party, payer and initiator (PartyStable, ItemStable).      *)
(***************************************************************************)
EXTENDS PartyLedger, LedgerStoreProofs

(* What a request knows.  The steps a right was read for, by endpoint. *)

Leaving  == {"leaveMember", "leaveCount", "leaveDelete"}
Removing == {"removeMember", "removeRelated", "removeDelete"}
OfOwner  == Removing \cup {"deleteCount", "deleteTx", "updateWrite", "archiveMembers",
                           "archiveUnpaid", "archiveItems", "archiveWrite", "archiveTx",
                           "clearMember", "clearUpdate", "itemDelete"}
OfInitiator == {"statusMember", "statusParty", "statusUpdate"}
OfItem      == OfInitiator \cup {"itemParty", "itemDelete"}

\* What the reads of request q established, over the party and item tables.
ReqInv(q, pty, itm) ==
    /\ q.pc # "idle" => q.party \in Parties /\ pty[q.party].state # "unused"
    /\ q.pc \notin {"idle", "forceInsert"} => q.user \in Users
    /\ q.pc \in Removing \cup {"forceInsert"} => q.who \in Users
    /\ q.pc \in Leaving => q.user # pty[q.party].owner
    /\ q.pc \in Removing => q.who # pty[q.party].owner
    /\ q.pc \in OfOwner => q.user = pty[q.party].owner
    /\ q.pc \in OfItem =>
          /\ q.item \in ItemIds
          /\ itm[q.item].state # "unused"
          /\ itm[q.item].state = "live" => itm[q.item].party = q.party
    /\ q.pc \in OfInitiator /\ itm[q.item].state = "live" => itm[q.item].initiator = q.user

IInv ==
    /\ TypeOK
    /\ ItemsFormed
    /\ \A r \in Reqs : ReqInv(req[r], party, item)

\* A request that is not at work knows as much after the step as before.
LEMMA ReqKept ==
    ASSUME StoreInv, PartyStable, ItemStable, NEW q \in Request, ReqInv(q, party, item)
    PROVE  ReqInv(q, party', item')
BY DEF ReqInv, PartyStable, ItemStable, StoreInv, ItemsFormed, Leaving, Removing, OfOwner, OfItem,
       OfInitiator

\* Request r moves on with what it has to know, and no other request moves.
ReqStep(r) ==
    /\ req' \in [Reqs -> Request]
    /\ \A s \in Reqs \ {r} : req'[s] = req[s]
    /\ ReqInv(req'[r], party', item')

LEMMA IdleReq == Idle \in Request /\ ReqInv(Idle, party, item) /\ ReqInv(Idle, party', item')
BY DEF Idle, Request, PCs, ReqInv, Leaving, Removing, OfOwner, OfItem, OfInitiator

LEMMA FinishStep ==
    ASSUME IInv, NEW r \in Reqs, Finish(r)
    PROVE  ReqStep(r)
BY IdleReq DEF IInv, TypeOK, Finish, ReqStep

\* A request slot that takes the value q.
LEMMA BecomeStep ==
    ASSUME IInv, NEW r \in Reqs, NEW q \in Request, req' = [req EXCEPT ![r] = q],
           ReqInv(q, party', item')
    PROVE  ReqStep(r)
BY DEF IInv, TypeOK, ReqStep

LEMMA IInvParts ==
    ASSUME IInv
    PROVE  /\ StoreInv
           /\ req \in [Reqs -> Request]
           /\ \A r \in Reqs : req[r] \in Request /\ ReqInv(req[r], party, item)
BY DEF IInv, StoreInv, TypeOK

\* A begun request: its record, and what its first read established.
LEMMA BeginStep ==
    ASSUME IInv, NEW r \in Reqs, NEW op, NEW q \in Request, Begin(r, op, q),
           ReqInv(q, party, item)
    PROVE  UNCHANGED storeVars /\ ReqStep(r)
<1>1. UNCHANGED storeVars /\ req' = [req EXCEPT ![r] = q]
  BY DEF Begin
<1>2. ReqInv(q, party', item')
  BY <1>1 DEF storeVars
<1> QED BY <1>1, <1>2, BecomeStep

LEMMA StartStep ==
    ASSUME IInv, NEW r \in Reqs, Start(r)
    PROVE  UNCHANGED storeVars /\ ReqStep(r)
<1>1. ASSUME NEW u \in Users, NEW p \in Parties, JoinStart(r, u, p)
      PROVE  UNCHANGED storeVars /\ ReqStep(r)
  <2> DEFINE q == [Idle EXCEPT !.pc = "joinMember", !.user = u, !.party = p]
  <2>1. party[p].state # "unused"
    BY <1>1 DEF JoinStart, Open, Live
  <2>2. q \in Request /\ q.pc = "joinMember" /\ q.party = p /\ q.user = u
    BY DEF Idle, Request, PCs
  <2>3. Begin(r, "join", q)
    BY <1>1 DEF JoinStart
  <2> HIDE DEF q
  <2>4. ReqInv(q, party, item)
    BY <2>1, <2>2 DEF ReqInv, Leaving, Removing, OfOwner, OfItem, OfInitiator
  <2> QED BY <2>2, <2>3, <2>4, BeginStep
<1>2. ASSUME NEW u \in Users, NEW p \in Parties, ForceStart(r, u, p)
      PROVE  UNCHANGED storeVars /\ ReqStep(r)
  <2> DEFINE q == [Idle EXCEPT !.pc = "forceInsert", !.who = u, !.party = p]
  <2>1. party[p].state # "unused"
    BY <1>2 DEF ForceStart, Open, Live
  <2>2. q \in Request /\ q.pc = "forceInsert" /\ q.party = p /\ q.who = u
    BY DEF Idle, Request, PCs
  <2>3. Begin(r, "forceJoin", q)
    BY <1>2 DEF ForceStart
  <2> HIDE DEF q
  <2>4. ReqInv(q, party, item)
    BY <2>1, <2>2 DEF ReqInv, Leaving, Removing, OfOwner, OfItem, OfInitiator
  <2> QED BY <2>2, <2>3, <2>4, BeginStep
<1>3. ASSUME NEW u \in Users, NEW p \in Parties, LeaveStart(r, u, p)
      PROVE  UNCHANGED storeVars /\ ReqStep(r)
  <2> DEFINE q == [Idle EXCEPT !.pc = "leaveMember", !.user = u, !.party = p]
  <2>1. party[p].state # "unused" /\ party[p].owner # u
    BY <1>3 DEF LeaveStart, Open, Live
  <2>2. q \in Request /\ q.pc = "leaveMember" /\ q.party = p /\ q.user = u
    BY DEF Idle, Request, PCs
  <2>3. Begin(r, "leave", q)
    BY <1>3 DEF LeaveStart
  <2> HIDE DEF q
  <2>4. ReqInv(q, party, item)
    BY <2>1, <2>2 DEF ReqInv, Leaving, Removing, OfOwner, OfItem, OfInitiator
  <2> QED BY <2>2, <2>3, <2>4, BeginStep
<1>4. ASSUME NEW u \in Users, NEW p \in Parties, NEW w \in Users,
             RemoveStart(r, u, p, w)
      PROVE  UNCHANGED storeVars /\ ReqStep(r)
  <2> DEFINE q == [Idle EXCEPT !.pc = "removeMember", !.user = u, !.party = p, !.who = w]
  <2>1. party[p].state # "unused" /\ party[p].owner = u /\ w # u
    BY <1>4 DEF RemoveStart, Open, Live
  <2>2. q \in Request /\ q.pc = "removeMember" /\ q.party = p /\ q.user = u /\ q.who = w
    BY DEF Idle, Request, PCs
  <2>3. Begin(r, "remove", q)
    BY <1>4 DEF RemoveStart
  <2> HIDE DEF q
  <2>4. ReqInv(q, party, item)
    BY <2>1, <2>2 DEF ReqInv, Leaving, Removing, OfOwner, OfItem, OfInitiator
  <2> QED BY <2>2, <2>3, <2>4, BeginStep
<1>5. ASSUME NEW u \in Users, NEW p \in Parties, DeleteStart(r, u, p)
      PROVE  UNCHANGED storeVars /\ ReqStep(r)
  <2> DEFINE q == [Idle EXCEPT !.pc = "deleteCount", !.user = u, !.party = p]
  <2>1. party[p].state # "unused" /\ party[p].owner = u
    BY <1>5 DEF DeleteStart, Open, Live
  <2>2. q \in Request /\ q.pc = "deleteCount" /\ q.party = p /\ q.user = u
    BY DEF Idle, Request, PCs
  <2>3. Begin(r, "delete", q)
    BY <1>5 DEF DeleteStart
  <2> HIDE DEF q
  <2>4. ReqInv(q, party, item)
    BY <2>1, <2>2 DEF ReqInv, Leaving, Removing, OfOwner, OfItem, OfInitiator
  <2> QED BY <2>2, <2>3, <2>4, BeginStep
<1>6. ASSUME NEW u \in Users, NEW p \in Parties, NEW c \in Currencies,
             UpdateStart(r, u, p, c)
      PROVE  UNCHANGED storeVars /\ ReqStep(r)
  <2> DEFINE q == [Idle EXCEPT !.pc = "updateWrite", !.user = u, !.party = p,
                           !.currency = c]
  <2>1. party[p].state # "unused" /\ party[p].owner = u
    BY <1>6 DEF UpdateStart, Open, Live
  <2>2. q \in Request /\ q.pc = "updateWrite" /\ q.party = p /\ q.user = u
    BY DEF Idle, Request, PCs
  <2>3. Begin(r, "update", q)
    BY <1>6 DEF UpdateStart
  <2> HIDE DEF q
  <2>4. ReqInv(q, party, item)
    BY <2>1, <2>2 DEF ReqInv, Leaving, Removing, OfOwner, OfItem, OfInitiator
  <2> QED BY <2>2, <2>3, <2>4, BeginStep
<1>7. ASSUME NEW u \in Users, NEW p \in Parties, ArchiveStart(r, u, p)
      PROVE  UNCHANGED storeVars /\ ReqStep(r)
  <2> DEFINE q == [Idle EXCEPT !.pc = "archiveMembers", !.user = u, !.party = p]
  <2>1. party[p].state # "unused" /\ party[p].owner = u
    BY <1>7 DEF ArchiveStart, Open, Live
  <2>2. q \in Request /\ q.pc = "archiveMembers" /\ q.party = p /\ q.user = u
    BY DEF Idle, Request, PCs
  <2>3. Begin(r, "archive", q)
    BY <1>7 DEF ArchiveStart
  <2> HIDE DEF q
  <2>4. ReqInv(q, party, item)
    BY <2>1, <2>2 DEF ReqInv, Leaving, Removing, OfOwner, OfItem, OfInitiator
  <2> QED BY <2>2, <2>3, <2>4, BeginStep
<1>8. ASSUME NEW u \in Users, NEW p \in Parties, NEW payers \in SUBSET Users,
             AddStart(r, u, p, payers)
      PROVE  UNCHANGED storeVars /\ ReqStep(r)
  <2> DEFINE q == [Idle EXCEPT !.pc = "addMember", !.user = u, !.party = p,
                           !.payers = payers, !.currency = party[p].base]
  <2>1. party[p].state # "unused" /\ party[p].base \in Currencies \cup {None}
    BY <1>8, IInvParts DEF AddStart, Open, Live, StoreInv, StoreTypeOK, PartyRow
  <2>2. q \in Request /\ q.pc = "addMember" /\ q.party = p /\ q.user = u
    BY <2>1 DEF Idle, Request, PCs
  <2>3. Begin(r, "add", q)
    BY <1>8 DEF AddStart
  <2> HIDE DEF q
  <2>4. ReqInv(q, party, item)
    BY <2>1, <2>2 DEF ReqInv, Leaving, Removing, OfOwner, OfItem, OfInitiator
  <2> QED BY <2>2, <2>3, <2>4, BeginStep
<1>9. ASSUME NEW u \in Users, NEW p \in Parties, ClearStart(r, u, p)
      PROVE  UNCHANGED storeVars /\ ReqStep(r)
  <2> DEFINE q == [Idle EXCEPT !.pc = "clearMember", !.user = u, !.party = p]
  <2>1. party[p].state # "unused" /\ party[p].owner = u
    BY <1>9 DEF ClearStart, Open, Live
  <2>2. q \in Request /\ q.pc = "clearMember" /\ q.party = p /\ q.user = u
    BY DEF Idle, Request, PCs
  <2>3. Begin(r, "clear", q)
    BY <1>9 DEF ClearStart
  <2> HIDE DEF q
  <2>4. ReqInv(q, party, item)
    BY <2>1, <2>2 DEF ReqInv, Leaving, Removing, OfOwner, OfItem, OfInitiator
  <2> QED BY <2>2, <2>3, <2>4, BeginStep
<1>10. ASSUME NEW u \in Users, NEW i \in ItemIds, NEW b \in BOOLEAN, StatusStart(r, u, i, b)
      PROVE  UNCHANGED storeVars /\ ReqStep(r)
  <2> DEFINE q == [Idle EXCEPT !.pc = "statusMember", !.user = u, !.item = i,
                           !.party = item[i].party, !.paid = b]
  <2>1. /\ item[i].party \in Parties
        /\ party[item[i].party].state # "unused"
        /\ item[i].state = "live" /\ item[i].initiator = u
    BY <1>10, IInvParts DEF StatusStart, StoreInv, ItemsFormed
  <2>2. /\ q \in Request
        /\ q.pc = "statusMember" /\ q.user = u /\ q.item = i /\ q.party = item[i].party
    BY <2>1 DEF Idle, Request, PCs
  <2> HIDE DEF q
  <2>3. ReqInv(q, party, item)
    BY <2>1, <2>2 DEF ReqInv, Leaving, Removing, OfOwner, OfItem, OfInitiator
  <2>4. Begin(r, "status", q)
    BY <1>10 DEF StatusStart, q
  <2> QED BY <2>2, <2>3, <2>4, BeginStep
<1>11. ASSUME NEW u \in Users, NEW i \in ItemIds, ItemStart(r, u, i)
      PROVE  UNCHANGED storeVars /\ ReqStep(r)
  <2> DEFINE q == [Idle EXCEPT !.pc = "itemParty", !.user = u, !.item = i,
                           !.party = item[i].party]
  <2>1. /\ item[i].party \in Parties
        /\ party[item[i].party].state # "unused"
        /\ item[i].state = "live"
    BY <1>11, IInvParts DEF ItemStart, StoreInv, ItemsFormed
  <2>2. /\ q \in Request
        /\ q.pc = "itemParty" /\ q.user = u /\ q.item = i /\ q.party = item[i].party
    BY <2>1 DEF Idle, Request, PCs
  <2>3. Begin(r, "deleteItem", q)
    BY <1>11 DEF ItemStart
  <2> HIDE DEF q
  <2>4. ReqInv(q, party, item)
    BY <2>1, <2>2 DEF ReqInv, Leaving, Removing, OfOwner, OfItem, OfInitiator
  <2> QED BY <2>2, <2>3, <2>4, BeginStep
<1> QED BY <1>1, <1>2, <1>3, <1>4, <1>5, <1>6, <1>7, <1>8, <1>9, <1>10, <1>11 DEF Start

-----------------------------------------------------------------------------
(* Steps that read: the request moves on, or finishes, on what it read. *)

\* The steps of a request that only read, and the step that follows each.
Onward == {<<"joinMember", "joinInsert">>,
           <<"leaveMember", "leaveCount">>, <<"leaveCount", "leaveDelete">>,
           <<"removeMember", "removeRelated">>, <<"removeRelated", "removeDelete">>,
           <<"deleteCount", "deleteTx">>,
           <<"archiveMembers", "archiveUnpaid">>, <<"archiveUnpaid", "archiveItems">>,
           <<"archiveItems", "archiveWrite">>, <<"archiveWrite", "archiveTx">>,
           <<"addMember", "addPayers">>, <<"addPayers", "addTx">>,
           <<"statusMember", "statusParty">>, <<"statusParty", "statusUpdate">>,
           <<"clearMember", "clearUpdate">>}

\* Request q with its locals kept and pc as its next step.
Follows(n, q, pc) ==
    /\ n \in Request
    /\ n.pc = pc /\ n.party = q.party /\ n.user = q.user /\ n.who = q.who /\ n.item = q.item

LEMMA OnwardKnows ==
    ASSUME NEW q \in Request, NEW pc, <<q.pc, pc>> \in Onward, NEW n, Follows(n, q, pc),
           ReqInv(q, party, item)
    PROVE  ReqInv(n, party, item)
BY DEF Follows, Onward, ReqInv, Leaving, Removing, OfOwner, OfItem, OfInitiator

LEMMA GotoFollows ==
    ASSUME NEW q \in Request, NEW pc \in PCs
    PROVE  Follows([q EXCEPT !.pc = pc], q, pc)
BY DEF Follows, Request

\* The same where the step also keeps what it read in a local of the request.
LEMMA ReadFollows ==
    ASSUME NEW q \in Request, NEW pc \in PCs, NEW ms \in SUBSET Users, NEW is \in SUBSET ItemIds
    PROVE  /\ Follows([q EXCEPT !.pc = pc, !.seen = ms], q, pc)
           /\ Follows([q EXCEPT !.pc = pc, !.plan = is], q, pc)
           /\ Follows([q EXCEPT !.pc = pc, !.listed = is], q, pc)
           /\ Follows([q EXCEPT !.pc = pc, !.unread = TRUE], q, pc)
<1>1. Follows([q EXCEPT !.pc = pc, !.seen = ms], q, pc)
  BY DEF Follows, Request
<1>2. Follows([q EXCEPT !.pc = pc, !.plan = is], q, pc)
  BY DEF Follows, Request
<1>3. Follows([q EXCEPT !.pc = pc, !.listed = is], q, pc)
  BY DEF Follows, Request
<1>4. Follows([q EXCEPT !.pc = pc, !.unread = TRUE], q, pc)
  BY DEF Follows, Request
<1> QED BY <1>1, <1>2, <1>3, <1>4

LEMMA OnwardPCs ==
    ASSUME NEW a, NEW b, <<a, b>> \in Onward
    PROVE  b \in PCs
BY DEF Onward, PCs

LEMMA MoveStep ==
    ASSUME IInv, NEW r \in Reqs, NEW pc, <<req[r].pc, pc>> \in Onward,
           UNCHANGED storeVars, Goto(r, pc) \/ Finish(r)
    PROVE  StoreStep /\ ReqStep(r)
<1>1. StoreStep
  BY IInvParts, UnchangedStore
<1>2. CASE Finish(r)
  BY <1>1, <1>2, FinishStep
<1>3. CASE Goto(r, pc)
  <2> DEFINE n == [req[r] EXCEPT !.pc = pc]
  <2>1. req' = [req EXCEPT ![r] = n]
    BY <1>3, IInvParts DEF Goto
  <2>2. req[r] \in Request /\ ReqInv(req[r], party, item)
    BY IInvParts
  <2>3. n \in Request /\ ReqInv(n, party, item)
    <3>1. Follows(n, req[r], pc)
      BY <2>2, GotoFollows, OnwardPCs
    <3> HIDE DEF n
    <3> QED BY <2>2, <3>1, OnwardKnows DEF Follows
  <2> HIDE DEF n
  <2>4. ReqInv(n, party', item')
    BY <2>3 DEF storeVars
  <2> QED BY <1>1, <2>1, <2>3, <2>4, BecomeStep
<1> QED BY <1>2, <1>3

-----------------------------------------------------------------------------
(* Every step keeps the rows in order and its own request informed. *)

LEMMA MembershipStepInv ==
    ASSUME IInv, NEW r \in Reqs, MembershipStep(r)
    PROVE  StoreStep /\ ReqStep(r)
<1>1. CASE JoinMember(r)
  <2>1. At(r, "joinMember") /\ UNCHANGED storeVars /\ (Goto(r, "joinInsert") \/ Finish(r))
    BY <1>1 DEF JoinMember, Require
  <2>2. <<req[r].pc, "joinInsert">> \in Onward
    BY <2>1 DEF At, Onward
  <2> QED BY <2>1, <2>2, MoveStep
<1>2. CASE JoinInsert(r)
  <2>1. req[r].party \in Parties /\ req[r].user \in Users
    BY <1>2, IInvParts DEF JoinInsert, At, ReqInv, Request, Removing, OfItem, OfInitiator
  <2>2. StoreStep
    BY <1>2, <2>1, IInvParts, MemberStep DEF JoinInsert
  <2> QED BY <1>2, <2>2, FinishStep DEF JoinInsert
<1>3. CASE ForceInsert(r)
  <2>1. req[r].party \in Parties /\ req[r].who \in Users
    BY <1>3, IInvParts DEF ForceInsert, At, ReqInv, Request, Removing, OfItem, OfInitiator
  <2>2. StoreStep
    BY <1>3, <2>1, IInvParts, MemberStep DEF ForceInsert
  <2> QED BY <1>3, <2>2, FinishStep DEF ForceInsert
<1>4. CASE LeaveMember(r)
  <2>1. At(r, "leaveMember") /\ UNCHANGED storeVars /\ (Goto(r, "leaveCount") \/ Finish(r))
    BY <1>4 DEF LeaveMember, Require
  <2>2. <<req[r].pc, "leaveCount">> \in Onward
    BY <2>1 DEF At, Onward
  <2> QED BY <2>1, <2>2, MoveStep
<1>5. CASE LeaveCount(r)
  <2>1. At(r, "leaveCount") /\ UNCHANGED storeVars /\ (Goto(r, "leaveDelete") \/ Finish(r))
    BY <1>5 DEF LeaveCount, Require
  <2>2. <<req[r].pc, "leaveDelete">> \in Onward
    BY <2>1 DEF At, Onward
  <2> QED BY <2>1, <2>2, MoveStep
<1>6. CASE LeaveDelete(r)
  <2>1. req[r].party \in Parties /\ req[r].user \in Users
    BY <1>6, IInvParts DEF LeaveDelete, At, ReqInv, Request, Removing, OfItem, OfInitiator
  <2>2. StoreStep
    BY <1>6, <2>1, IInvParts, MemberStep DEF LeaveDelete
  <2> QED BY <1>6, <2>2, FinishStep DEF LeaveDelete
<1>7. CASE RemoveMember(r)
  <2>1. At(r, "removeMember") /\ UNCHANGED storeVars /\ (Goto(r, "removeRelated") \/ Finish(r))
    BY <1>7 DEF RemoveMember, Require
  <2>2. <<req[r].pc, "removeRelated">> \in Onward
    BY <2>1 DEF At, Onward
  <2> QED BY <2>1, <2>2, MoveStep
<1>8. CASE RemoveRelated(r)
  <2>1. At(r, "removeRelated") /\ UNCHANGED storeVars /\ (Goto(r, "removeDelete") \/ Finish(r))
    BY <1>8 DEF RemoveRelated, Require
  <2>2. <<req[r].pc, "removeDelete">> \in Onward
    BY <2>1 DEF At, Onward
  <2> QED BY <2>1, <2>2, MoveStep
<1>9. CASE RemoveDelete(r)
  <2>1. req[r].party \in Parties /\ req[r].who \in Users
    BY <1>9, IInvParts DEF RemoveDelete, At, ReqInv, Request, Removing, OfItem, OfInitiator
  <2>2. StoreStep
    BY <1>9, <2>1, IInvParts, MemberStep DEF RemoveDelete
  <2> QED BY <1>9, <2>2, FinishStep DEF RemoveDelete
<1> QED BY <1>1, <1>2, <1>3, <1>4, <1>5, <1>6, <1>7, <1>8, <1>9 DEF MembershipStep

LEMMA PartyStepInv ==
    ASSUME IInv, NEW r \in Reqs, PartyStep(r)
    PROVE  StoreStep /\ ReqStep(r)
<1>1. CASE DeleteCount(r)
  <2>1. At(r, "deleteCount") /\ UNCHANGED storeVars /\ (Goto(r, "deleteTx") \/ Finish(r))
    BY <1>1 DEF DeleteCount, Require
  <2>2. <<req[r].pc, "deleteTx">> \in Onward
    BY <2>1 DEF At, Onward
  <2> QED BY <2>1, <2>2, MoveStep
<1>2. CASE DeleteTx(r)
  <2>1. req[r].party \in Parties
    BY <1>2, IInvParts DEF DeleteTx, At, ReqInv, Request, Removing, OfItem, OfInitiator
  <2>2. StoreStep
    BY <1>2, <2>1, IInvParts, DeleteRowsStep DEF DeleteTx
  <2> QED BY <1>2, <2>2, FinishStep DEF DeleteTx
<1>3. CASE UpdateWrite(r)
  <2>1. req[r].party \in Parties /\ req[r].currency \in Currencies \cup {None}
    BY <1>3, IInvParts DEF UpdateWrite, At, ReqInv, Request, Removing, OfItem, OfInitiator
  <2>2. StoreStep
    BY <1>3, <2>1, IInvParts, UpdateBaseStep DEF UpdateWrite
  <2> QED BY <1>3, <2>2, FinishStep DEF UpdateWrite
<1>4. CASE ArchiveMembers(r)
  <2> DEFINE n == [req[r] EXCEPT !.pc = "archiveUnpaid", !.seen = members[req[r].party]]
  <2>1. req[r] \in Request /\ ReqInv(req[r], party, item)
    BY IInvParts
  <2>2. /\ At(r, "archiveMembers") /\ UNCHANGED storeVars
        /\ req' = [req EXCEPT ![r] = n]
    BY <1>4, IInvParts DEF ArchiveMembers
  <2>3. req[r].party \in Parties
    BY <2>1, <2>2 DEF At, ReqInv
  <2>4. Follows(n, req[r], "archiveUnpaid")
    <3>1. members[req[r].party] \in SUBSET Users /\ "archiveUnpaid" \in PCs
      BY <2>3, IInvParts DEF StoreInv, StoreTypeOK, PCs
    <3> QED BY <2>1, <3>1, ReadFollows
  <2>5. <<req[r].pc, "archiveUnpaid">> \in Onward
    BY <2>2 DEF At, Onward
  <2> HIDE DEF n
  <2>6. ReqInv(n, party, item)
    BY <2>1, <2>4, <2>5, OnwardKnows
  <2>7. ReqInv(n, party', item')
    BY <2>2, <2>6 DEF storeVars
  <2> QED BY <2>2, <2>4, <2>7, BecomeStep, IInvParts, UnchangedStore DEF Follows
<1>5. CASE ArchiveUnpaid(r)
  <2> DEFINE n == [req[r] EXCEPT !.pc = "archiveItems", !.plan = Plan(req[r].party, req[r].seen)]
  <2>1. req[r] \in Request /\ ReqInv(req[r], party, item)
    BY IInvParts
  <2>2. /\ At(r, "archiveUnpaid") /\ UNCHANGED storeVars
        /\ req' = [req EXCEPT ![r] = n]
    BY <1>5, IInvParts DEF ArchiveUnpaid
  <2>3. req[r].party \in Parties
    BY <2>1, <2>2 DEF At, ReqInv
  <2>4. Follows(n, req[r], "archiveItems")
    <3>1. Plan(req[r].party, req[r].seen) \in SUBSET ItemIds /\ "archiveItems" \in PCs
      BY <2>3, IInvParts DEF Plan, Unpaid, ItemsOf, PCs
    <3> QED BY <2>1, <3>1, ReadFollows
  <2>5. <<req[r].pc, "archiveItems">> \in Onward
    BY <2>2 DEF At, Onward
  <2> HIDE DEF n
  <2>6. ReqInv(n, party, item)
    BY <2>1, <2>4, <2>5, OnwardKnows
  <2>7. ReqInv(n, party', item')
    BY <2>2, <2>6 DEF storeVars
  <2> QED BY <2>2, <2>4, <2>7, BecomeStep, IInvParts, UnchangedStore DEF Follows
<1>6. CASE ArchiveItems(r)
  <2> DEFINE n == [req[r] EXCEPT !.pc = "archiveWrite", !.listed = ItemsOf(req[r].party)]
  <2>1. req[r] \in Request /\ ReqInv(req[r], party, item)
    BY IInvParts
  <2>2. /\ At(r, "archiveItems") /\ UNCHANGED storeVars
        /\ req' = [req EXCEPT ![r] = n]
    BY <1>6, IInvParts DEF ArchiveItems
  <2>3. req[r].party \in Parties
    BY <2>1, <2>2 DEF At, ReqInv
  <2>4. Follows(n, req[r], "archiveWrite")
    <3>1. ItemsOf(req[r].party) \in SUBSET ItemIds /\ "archiveWrite" \in PCs
      BY <2>3, IInvParts DEF ItemsOf, PCs
    <3> QED BY <2>1, <3>1, ReadFollows
  <2>5. <<req[r].pc, "archiveWrite">> \in Onward
    BY <2>2 DEF At, Onward
  <2> HIDE DEF n
  <2>6. ReqInv(n, party, item)
    BY <2>1, <2>4, <2>5, OnwardKnows
  <2>7. ReqInv(n, party', item')
    BY <2>2, <2>6 DEF storeVars
  <2> QED BY <2>2, <2>4, <2>7, BecomeStep, IInvParts, UnchangedStore DEF Follows
<1>7. CASE ArchiveWrite(r)
  <2> DEFINE n == [req[r] EXCEPT !.pc = "archiveTx"]
  <2>1. req[r] \in Request /\ ReqInv(req[r], party, item)
    BY IInvParts
  <2>2. /\ At(r, "archiveWrite") /\ req[r].party \in Parties
        /\ [exists |-> TRUE, plan |-> req[r].plan, listed |-> req[r].listed] \in Snapshot
    BY <1>7, <2>1 DEF ArchiveWrite, At, ReqInv, Request, Snapshot
  <2>3. StoreStep /\ party' = party /\ item' = item
    BY <1>7, <2>2, IInvParts, WriteFileStep DEF ArchiveWrite, WriteFile
  <2>4. req' = [req EXCEPT ![r] = n]
    BY <1>7, IInvParts DEF ArchiveWrite, Goto
  <2>5. Follows(n, req[r], "archiveTx")
    <3>1. "archiveTx" \in PCs
      BY DEF PCs
    <3> QED BY <2>1, <3>1, GotoFollows
  <2>6. <<req[r].pc, "archiveTx">> \in Onward
    BY <2>2 DEF At, Onward
  <2> HIDE DEF n
  <2>7. ReqInv(n, party', item')
    BY <2>1, <2>3, <2>5, <2>6, OnwardKnows
  <2> QED BY <2>3, <2>4, <2>5, <2>7, BecomeStep DEF Follows
<1>8. CASE ArchiveWriteFails(r)
  <2>1. req[r].party \in Parties /\ NoFile \in Snapshot
    BY <1>8, IInvParts DEF ArchiveWriteFails, At, ReqInv, NoFile, Snapshot
  <2>2. StoreStep
    BY <1>8, <2>1, IInvParts, WriteFileStep DEF ArchiveWriteFails
  <2> QED BY <1>8, <2>2, FinishStep DEF ArchiveWriteFails
<1>9. CASE ArchiveTx(r)
  <2>1. req[r].party \in Parties
    BY <1>9, IInvParts DEF ArchiveTx, At, ReqInv
  <2>2. CASE Open(req[r].party)
    BY <1>9, <2>1, <2>2, IInvParts, ArchiveRowsStep, FinishStep DEF ArchiveTx
  <2>3. CASE ~Open(req[r].party)
    BY <1>9, <2>3, IInvParts, UnchangedStore, FinishStep DEF ArchiveTx, storeVars
  <2> QED BY <2>2, <2>3
<1> QED BY <1>1, <1>2, <1>3, <1>4, <1>5, <1>6, <1>7, <1>8, <1>9 DEF PartyStep

LEMMA ItemStepInv ==
    ASSUME IInv, NEW r \in Reqs, ItemStep(r)
    PROVE  StoreStep /\ ReqStep(r)
<1>1. CASE AddMember(r)
  <2>1. At(r, "addMember") /\ UNCHANGED storeVars /\ (Goto(r, "addPayers") \/ Finish(r))
    BY <1>1 DEF AddMember, Require
  <2>2. <<req[r].pc, "addPayers">> \in Onward
    BY <2>1 DEF At, Onward
  <2> QED BY <2>1, <2>2, MoveStep
<1>2. CASE AddPayers(r)
  <2>1. At(r, "addPayers") /\ UNCHANGED storeVars /\ (Goto(r, "addTx") \/ Finish(r))
    BY <1>2 DEF AddPayers, Require
  <2>2. <<req[r].pc, "addTx">> \in Onward
    BY <2>1 DEF At, Onward
  <2> QED BY <2>1, <2>2, MoveStep
<1>3. CASE AddTx(r)
  <2>1. /\ req[r].party \in Parties /\ req[r].user \in Users /\ req[r].payers \in SUBSET Users
        /\ party[req[r].party].state # "unused"
        /\ req[r].currency \in Currencies \cup {None}
    BY <1>3, IInvParts DEF AddTx, At, ReqInv, Request, Removing, OfItem, OfInitiator
  <2>2. StoreStep
    BY <1>3, <2>1, IInvParts, InsertItemsStep DEF AddTx
  <2> QED BY <1>3, <2>2, FinishStep DEF AddTx
<1>4. CASE StatusMember(r)
  <2>1. At(r, "statusMember") /\ UNCHANGED storeVars /\ (Goto(r, "statusParty") \/ Finish(r))
    BY <1>4 DEF StatusMember, Require
  <2>2. <<req[r].pc, "statusParty">> \in Onward
    BY <2>1 DEF At, Onward
  <2> QED BY <2>1, <2>2, MoveStep
<1>5. CASE StatusParty(r)
  <2>1. At(r, "statusParty") /\ UNCHANGED storeVars /\ (Goto(r, "statusUpdate") \/ Finish(r))
    BY <1>5 DEF StatusParty, Require
  <2>2. <<req[r].pc, "statusUpdate">> \in Onward
    BY <2>1 DEF At, Onward
  <2> QED BY <2>1, <2>2, MoveStep
<1>6. CASE StatusUpdate(r)
  <2>1. req[r].item \in ItemIds /\ req[r].paid \in BOOLEAN
    BY <1>6, IInvParts DEF StatusUpdate, At, ReqInv, Request, Removing, OfItem, OfInitiator
  <2>2. StoreStep
    BY <1>6, <2>1, IInvParts, SetPaidStep DEF StatusUpdate
  <2> QED BY <1>6, <2>2, FinishStep DEF StatusUpdate
<1>7. CASE ItemParty(r)
  <2>1. /\ At(r, "itemParty") /\ UNCHANGED storeVars
        /\ Finish(r) \/ (Goto(r, "itemDelete") /\ party[req[r].party].owner = req[r].user)
    BY <1>7 DEF ItemParty, Require
  <2>2. CASE Finish(r)
    BY <2>1, <2>2, IInvParts, UnchangedStore, FinishStep
  <2>3. CASE Goto(r, "itemDelete") /\ party[req[r].party].owner = req[r].user
    <3> DEFINE n == [req[r] EXCEPT !.pc = "itemDelete"]
    <3>1. req' = [req EXCEPT ![r] = n]
      BY <2>3, IInvParts DEF Goto
    <3>2. req[r] \in Request /\ ReqInv(req[r], party, item) /\ req[r].pc = "itemParty"
      BY <2>1, IInvParts DEF At
    <3>3. Follows(n, req[r], "itemDelete")
      <4>1. "itemDelete" \in PCs
        BY DEF PCs
      <4> QED BY <3>2, <4>1, GotoFollows
    <3> HIDE DEF n
    <3>4. ReqInv(n, party, item)
      BY <2>3, <3>2, <3>3 DEF Follows, ReqInv, Leaving, Removing, OfOwner, OfItem, OfInitiator
    <3>5. ReqInv(n, party', item')
      BY <2>1, <3>4 DEF storeVars
    <3> QED BY <2>1, <3>1, <3>3, <3>5, BecomeStep, IInvParts, UnchangedStore DEF Follows
  <2> QED BY <2>1, <2>2, <2>3
<1>8. CASE ItemDelete(r)
  <2>1. req[r].item \in ItemIds
    BY <1>8, IInvParts DEF ItemDelete, At, ReqInv, Request, Removing, OfItem, OfInitiator
  <2>2. StoreStep
    BY <1>8, <2>1, IInvParts, DeleteItemStep DEF ItemDelete
  <2> QED BY <1>8, <2>2, FinishStep DEF ItemDelete
<1>9. CASE ClearMember(r)
  <2>1. At(r, "clearMember") /\ UNCHANGED storeVars /\ (Goto(r, "clearUpdate") \/ Finish(r))
    BY <1>9 DEF ClearMember, Require
  <2>2. <<req[r].pc, "clearUpdate">> \in Onward
    BY <2>1 DEF At, Onward
  <2> QED BY <2>1, <2>2, MoveStep
<1>10. CASE ClearUpdate(r)
  <2>1. req[r].party \in Parties
    BY <1>10, IInvParts DEF ClearUpdate, At, ReqInv, Request, Removing, OfItem, OfInitiator
  <2>2. StoreStep
    BY <1>10, <2>1, IInvParts, AllPaidStep DEF ClearUpdate
  <2> QED BY <1>10, <2>2, FinishStep DEF ClearUpdate
<1>11. CASE StatusPartyFails(r)
  <2> DEFINE n == [req[r] EXCEPT !.pc = "statusUpdate", !.unread = TRUE]
  <2>1. req[r] \in Request /\ ReqInv(req[r], party, item)
    BY IInvParts
  <2>2. /\ At(r, "statusParty") /\ UNCHANGED storeVars
        /\ req' = [req EXCEPT ![r] = n]
    BY <1>11, IInvParts DEF StatusPartyFails
  <2>3. Follows(n, req[r], "statusUpdate")
    <3>1. {} \in SUBSET Users /\ {} \in SUBSET ItemIds /\ "statusUpdate" \in PCs
      BY DEF PCs
    <3> QED BY <2>1, <3>1, ReadFollows
  <2>4. <<req[r].pc, "statusUpdate">> \in Onward
    BY <2>2 DEF At, Onward
  <2> HIDE DEF n
  <2>5. ReqInv(n, party, item)
    BY <2>1, <2>3, <2>4, OnwardKnows
  <2>6. ReqInv(n, party', item')
    BY <2>2, <2>5 DEF storeVars
  <2> QED BY <2>2, <2>3, <2>6, BecomeStep, IInvParts, UnchangedStore DEF Follows
<1> QED BY <1>1, <1>2, <1>3, <1>4, <1>5, <1>6, <1>7, <1>8, <1>9, <1>10, <1>11 DEF ItemStep

-----------------------------------------------------------------------------
(* The invariant is inductive. *)

LEMMA IInvInit == Init => IInv
<1> SUFFICES ASSUME Init PROVE IInv
  OBVIOUS
<1>1. TypeOK
  BY IdleReq DEF Init, StoreInit, TypeOK, StoreTypeOK, NoParty, NoItem, NoFile, PartyRow,
                 ItemRow, Snapshot
<1>2. ItemsFormed
  BY DEF Init, StoreInit, ItemsFormed, NoItem
<1>3. \A r \in Reqs : ReqInv(req[r], party, item)
  BY IdleReq DEF Init
<1> QED BY <1>1, <1>2, <1>3 DEF IInv

LEMMA AbortInv ==
    ASSUME IInv, NEW r \in Reqs, Abort(r)
    PROVE  StoreStep /\ ReqStep(r)
BY IInvParts, UnchangedStore, FinishStep DEF Abort

\* Where one request moves, every request still knows what it knew.
LEMMA IInvOfStep ==
    ASSUME IInv, NEW r \in Reqs, StoreStep, ReqStep(r)
    PROVE  IInv'
<1>1. TypeOK' /\ ItemsFormed'
  BY DEF StoreStep, StoreInv, ReqStep, TypeOK
<1>2. ASSUME NEW s \in Reqs PROVE ReqInv(req'[s], party', item')
  <2>1. CASE s = r
    BY <2>1 DEF ReqStep
  <2>2. CASE s # r
    <3>1. req[s] \in Request /\ ReqInv(req[s], party, item) /\ StoreInv
      BY IInvParts
    <3>2. req'[s] = req[s]
      BY <2>2 DEF ReqStep
    <3>3. ReqInv(req[s], party', item')
      BY <3>1, ReqKept DEF StoreStep
    <3> QED BY <3>2, <3>3
  <2> QED BY <2>1, <2>2
<1>3. (\A r1 \in Reqs : ReqInv(req[r1], party, item))'
  BY <1>2
<1> QED BY <1>1, <1>3 DEF IInv

LEMMA IInvNext == IInv /\ [Next]_vars => IInv'
<1> SUFFICES ASSUME IInv, [Next]_vars PROVE IInv'
  OBVIOUS
<1>1. CASE UNCHANGED vars
  BY <1>1 DEF vars, IInv, TypeOK, StoreTypeOK, ItemsFormed
<1>2. ASSUME NEW u \in Users, NEW p \in Parties, NEW c \in Currencies, CreateParty(u, p, c)
      PROVE  IInv'
  <2>1. StoreStep
    BY <1>2, IInvParts, InsertPartyStep DEF CreateParty
  <2>2. req' = req
    BY <1>2 DEF CreateParty
  <2>3. \A r \in Reqs : ReqInv(req[r], party', item')
    BY <2>1, IInvParts, ReqKept DEF StoreStep
  <2>4. (\A r \in Reqs : ReqInv(req[r], party, item))'
    BY <2>2, <2>3
  <2>5. TypeOK' /\ ItemsFormed'
    BY <2>1, <2>2, IInvParts DEF StoreStep, StoreInv, TypeOK
  <2> QED BY <2>4, <2>5 DEF IInv
<1>3. ASSUME NEW r \in Reqs, Start(r) PROVE IInv'
  BY <1>3, StartStep, IInvParts, UnchangedStore, IInvOfStep
<1>4. ASSUME NEW r \in Reqs, Step(r) PROVE IInv'
  BY <1>4, MembershipStepInv, PartyStepInv, ItemStepInv, AbortInv, IInvOfStep DEF Step
<1> QED BY <1>1, <1>2, <1>3, <1>4 DEF Next

LEMMA Invariant == Spec => []IInv
BY IInvInit, IInvNext, PTL DEF Spec

\* Rows, files and request slots keep their types, whichever requests overlap.
THEOREM TypeCorrect == Spec => []TypeOK
<1>1. IInv => TypeOK
  BY DEF IInv
<1> QED BY <1>1, Invariant, PTL

-----------------------------------------------------------------------------
(* The properties that hold however requests interleave. *)

\* The steps that write.
Write(r) ==
    \/ JoinInsert(r) \/ ForceInsert(r) \/ LeaveDelete(r) \/ RemoveDelete(r)
    \/ DeleteTx(r) \/ UpdateWrite(r)
    \/ ArchiveWrite(r) \/ ArchiveWriteFails(r) \/ ArchiveTx(r)
    \/ AddTx(r) \/ StatusUpdate(r) \/ ItemDelete(r) \/ ClearUpdate(r)

\* Every step creates a party, leaves the store alone, or is one of those.
LEMMA StepKinds ==
    ASSUME [Next]_vars
    PROVE  \/ UNCHANGED storeVars
           \/ \E u \in Users, p \in Parties, c \in Currencies : CreateParty(u, p, c)
           \/ \E r \in Reqs : Write(r)
<1>1. CASE UNCHANGED vars
  BY <1>1 DEF vars, storeVars
<1>2. ASSUME NEW r \in Reqs, Start(r) PROVE UNCHANGED storeVars
  <2>1. \A op, q : Begin(r, op, q) => UNCHANGED storeVars
    BY DEF Begin
  <2>2. ASSUME NEW u \in Users, NEW p \in Parties, NEW w, NEW c, NEW payers,
               \/ JoinStart(r, u, p) \/ ForceStart(r, u, p) \/ LeaveStart(r, u, p)
               \/ RemoveStart(r, u, p, w) \/ DeleteStart(r, u, p) \/ ClearStart(r, u, p)
               \/ UpdateStart(r, u, p, c) \/ ArchiveStart(r, u, p)
               \/ AddStart(r, u, p, payers)
        PROVE  UNCHANGED storeVars
    BY <2>1, <2>2 DEF JoinStart, ForceStart, LeaveStart, RemoveStart, DeleteStart, ClearStart,
                      UpdateStart, ArchiveStart, AddStart
  <2>3. ASSUME NEW u \in Users, NEW i \in ItemIds, NEW b,
               StatusStart(r, u, i, b) \/ ItemStart(r, u, i)
        PROVE  UNCHANGED storeVars
    BY <2>1, <2>3 DEF StatusStart, ItemStart
  <2> QED BY <1>2, <2>2, <2>3 DEF Start
<1>3. ASSUME NEW r \in Reqs, Step(r) PROVE UNCHANGED storeVars \/ Write(r)
  <2>1. CASE MembershipStep(r)
    BY <2>1 DEF MembershipStep, Write, JoinMember, LeaveMember, LeaveCount, RemoveMember,
                RemoveRelated, Require
  <2>2. CASE PartyStep(r)
    BY <2>2 DEF PartyStep, Write, DeleteCount, ArchiveMembers, ArchiveUnpaid, ArchiveItems,
                Require
  <2>3. CASE ItemStep(r)
    BY <2>3 DEF ItemStep, Write, AddMember, AddPayers, StatusMember, StatusParty,
                StatusPartyFails, ItemParty, ClearMember, Require
  <2>4. CASE Abort(r)
    BY <2>4 DEF Abort
  <2> QED BY <1>3, <2>1, <2>2, <2>3, <2>4 DEF Step
<1> QED BY <1>1, <1>2, <1>3 DEF Next

\* What a request that writes knows of its party and its item.
LEMMA WriterKnows ==
    ASSUME IInv, NEW r \in Reqs, Write(r)
    PROVE  /\ req[r].pc # "idle"
           /\ req[r].party \in Parties
           /\ ReqInv(req[r], party, item)
<1>1. ReqInv(req[r], party, item)
  BY IInvParts
<1>2. req[r].pc # "idle"
  BY DEF Write, JoinInsert, ForceInsert, LeaveDelete, RemoveDelete, DeleteTx, UpdateWrite,
         ArchiveWrite, ArchiveWriteFails, ArchiveTx, AddTx, StatusUpdate, ItemDelete,
         ClearUpdate, At
<1> QED BY <1>1, <1>2 DEF ReqInv

LEMMA FinishIsIdle ==
    ASSUME IInv, NEW r \in Reqs, Finish(r), req[r].pc # "idle"
    PROVE  Finishes(r)
BY IInvParts DEF Finish, Finishes, At, Idle

\* What a request may do to the memberships, by the rights it holds.
Added(r)   == \E u \in Users : InsertMember(req[r].party, u)
Removed(r) == \E u \in Users : /\ DeleteMember(req[r].party, u)
                               /\ u # party[req[r].party].owner
                               /\ req[r].user \in {u, party[req[r].party].owner}
Dropped(r) == DeleteRows(req[r].party) /\ req[r].user = party[req[r].party].owner

SameMembers ==
    /\ members' = members
    /\ \A p \in Parties : party'[p].state = party[p].state /\ party'[p].owner = party[p].owner

LEMMA MembersOfWrite ==
    ASSUME IInv, NEW r \in Reqs, Write(r)
    PROVE  SameMembers \/ Added(r) \/ ((Removed(r) \/ Dropped(r)) /\ Finishes(r))
<1>1. StoreTypeOK /\ ReqInv(req[r], party, item) /\ req[r].party \in Parties
  BY WriterKnows, IInvParts DEF StoreInv
<1>2. CASE JoinInsert(r)
  BY <1>1, <1>2 DEF JoinInsert, At, ReqInv, Added
<1>3. CASE ForceInsert(r)
  BY <1>1, <1>3 DEF ForceInsert, At, ReqInv, Added
<1>4. CASE LeaveDelete(r)
  <2>1. Finishes(r)
    BY <1>4, WriterKnows, FinishIsIdle DEF LeaveDelete
  <2>2. Removed(r)
    BY <1>1, <1>4 DEF LeaveDelete, At, ReqInv, Leaving, Removed
  <2> QED BY <2>1, <2>2
<1>5. CASE RemoveDelete(r)
  <2>1. Finishes(r)
    BY <1>5, WriterKnows, FinishIsIdle DEF RemoveDelete
  <2>2. Removed(r)
    BY <1>1, <1>5 DEF RemoveDelete, At, ReqInv, Removing, OfOwner, Removed
  <2> QED BY <2>1, <2>2
<1>6. CASE DeleteTx(r)
  <2>1. Finishes(r)
    BY <1>6, WriterKnows, FinishIsIdle DEF DeleteTx
  <2>2. Dropped(r)
    BY <1>1, <1>6 DEF DeleteTx, At, ReqInv, OfOwner, Dropped
  <2> QED BY <2>1, <2>2
<1>7. CASE UpdateWrite(r)
  <2>1. /\ members' = members
        /\ \/ party' = party
           \/ party' = [party EXCEPT ![req[r].party].base = req[r].currency]
    BY <1>7 DEF UpdateWrite, UpdateBase
  <2>2. ASSUME NEW p \in Parties, NEW c, party' = [party EXCEPT ![p].base = c]
        PROVE  \A q \in Parties : /\ party'[q].state = party[q].state
                                  /\ party'[q].owner = party[q].owner
    BY <1>1, <2>2 DEF StoreTypeOK, PartyRow
  <2>3. CASE party' = party
    BY <2>1, <2>3 DEF SameMembers
  <2>4. CASE party' = [party EXCEPT ![req[r].party].base = req[r].currency]
    BY <1>1, <2>1, <2>2, <2>4 DEF SameMembers
  <2> QED BY <2>1, <2>3, <2>4
<1>8. CASE ArchiveTx(r)
  <2>1. /\ members' = members
        /\ \/ party' = party
           \/ party' = [party EXCEPT ![req[r].party].archived = r]
    BY <1>8 DEF ArchiveTx, ArchiveRows
  <2>2. ASSUME NEW p \in Parties, party' = [party EXCEPT ![p].archived = r]
        PROVE  \A q \in Parties : /\ party'[q].state = party[q].state
                                  /\ party'[q].owner = party[q].owner
    BY <1>1, <2>2 DEF StoreTypeOK, PartyRow
  <2>3. CASE party' = party
    BY <2>1, <2>3 DEF SameMembers
  <2>4. CASE party' = [party EXCEPT ![req[r].party].archived = r]
    BY <1>1, <2>1, <2>2, <2>4 DEF SameMembers
  <2> QED BY <2>1, <2>3, <2>4
<1>9. CASE ArchiveWrite(r) \/ ArchiveWriteFails(r)
  BY <1>9 DEF ArchiveWrite, ArchiveWriteFails, WriteFile, SameMembers
<1>10. CASE AddTx(r) \/ StatusUpdate(r) \/ ItemDelete(r) \/ ClearUpdate(r)
  BY <1>10 DEF AddTx, InsertItems, StatusUpdate, SetPaid, ItemDelete, DeleteItemRow,
               ClearUpdate, SettleAll, SameMembers
<1> QED BY <1>2, <1>3, <1>4, <1>5, <1>6, <1>7, <1>8, <1>9, <1>10 DEF Write

LEMMA OwnerNext ==
    ASSUME IInv, OwnerIsMember, [Next]_vars
    PROVE  OwnerIsMember'
<1>1. StoreTypeOK
  BY IInvParts DEF StoreInv
<1>2. CASE UNCHANGED storeVars
  BY <1>2 DEF storeVars, OwnerIsMember, Live
<1>3. ASSUME NEW u \in Users, NEW p \in Parties, NEW c \in Currencies, CreateParty(u, p, c)
      PROVE  OwnerIsMember'
  BY <1>1, <1>3 DEF CreateParty, InsertParty, StoreTypeOK, OwnerIsMember, Live
<1>4. ASSUME NEW r \in Reqs, Write(r)
      PROVE  OwnerIsMember'
  <2>1. req[r].party \in Parties
    BY <1>4, WriterKnows
  <2>2. CASE SameMembers
    BY <2>2 DEF SameMembers, OwnerIsMember, Live
  <2>3. CASE Added(r)
    BY <1>1, <2>1, <2>3 DEF Added, InsertMember, StoreTypeOK, OwnerIsMember, Live
  <2>4. CASE Removed(r)
    BY <1>1, <2>1, <2>4 DEF Removed, DeleteMember, StoreTypeOK, OwnerIsMember, Live
  <2>5. CASE Dropped(r)
    BY <1>1, <2>1, <2>5 DEF Dropped, DeleteRows, StoreTypeOK, PartyRow, OwnerIsMember, Live
  <2> QED BY <1>4, <2>2, <2>3, <2>4, <2>5, MembersOfWrite
<1> QED BY <1>2, <1>3, <1>4, StepKinds

\* The owner of a live party is a member of it: leaving, removal and deletion
\* check the owner long before they write, and the owner never changes.
THEOREM OwnerStaysMember == Spec => []OwnerIsMember
<1>1. Init => OwnerIsMember
  BY DEF Init, StoreInit, NoParty, OwnerIsMember, Live
<1>2. IInv /\ OwnerIsMember /\ [Next]_vars => OwnerIsMember'
  BY OwnerNext
<1> QED BY <1>1, <1>2, Invariant, PTL DEF Spec

\* Only the member itself, or the owner of the party, ends a membership,
\* whatever the request that does it overlaps with.
THEOREM MembersHaveAuthority == Spec => MemberAuthority
<1> DEFINE Authority == \A p \in Parties : \A u \in members[p] \ members'[p] :
              \E r \in Reqs : Finishes(r) /\ req[r].user \in {u, party[p].owner}
<1>1. ASSUME IInv, [Next]_vars PROVE [Authority]_vars
  <2>1. StoreTypeOK
    BY <1>1, IInvParts DEF StoreInv
  <2>2. CASE UNCHANGED storeVars
    BY <2>2 DEF storeVars
  <2>3. ASSUME NEW u \in Users, NEW p \in Parties, NEW c \in Currencies, CreateParty(u, p, c)
        PROVE  Authority
    BY <2>1, <2>3 DEF CreateParty, InsertParty, StoreTypeOK
  <2>4. ASSUME NEW r \in Reqs, Write(r) PROVE Authority
    <3>1. req[r].party \in Parties
      BY <1>1, <2>4, WriterKnows
    <3>2. CASE SameMembers
      BY <3>2 DEF SameMembers
    <3>3. CASE Added(r)
      BY <2>1, <3>1, <3>3 DEF Added, InsertMember, StoreTypeOK
    <3>4. CASE Removed(r) /\ Finishes(r)
      BY <2>1, <3>1, <3>4 DEF Removed, DeleteMember, StoreTypeOK
    <3>5. CASE Dropped(r) /\ Finishes(r)
      BY <2>1, <3>1, <3>5 DEF Dropped, DeleteRows, StoreTypeOK
    <3> QED BY <1>1, <2>4, <3>2, <3>3, <3>4, <3>5, MembersOfWrite
  <2> QED BY <1>1, <2>2, <2>3, <2>4, StepKinds
<1>2. IInv /\ [Next]_vars => [Authority]_vars
  BY <1>1
<1>3. MemberAuthority <=> [][Authority]_vars
  BY PTL DEF MemberAuthority
<1> QED BY <1>2, <1>3, Invariant, PTL DEF Spec

\* Of the steps of a request, archiveTx alone writes archived_at, on an open row.
LEMMA ArchivedColumn ==
    ASSUME IInv, NEW r \in Reqs, Write(r), NEW p \in Parties
    PROVE  \/ party'[p].archived = party[p].archived
           \/ Open(p) /\ At(r, "archiveTx") /\ p = req[r].party /\ file' = file
<1>1. StoreTypeOK /\ req[r].party \in Parties
  BY WriterKnows, IInvParts DEF StoreInv
<1>2. CASE DeleteTx(r)
  <2>1. party' = [party EXCEPT ![req[r].party].state = "gone"]
    BY <1>2 DEF DeleteTx, DeleteRows
  <2>2. ASSUME NEW q \in Parties, party' = [party EXCEPT ![q].state = "gone"]
        PROVE  party'[p].archived = party[p].archived
    BY <1>1, <2>2 DEF StoreTypeOK, PartyRow
  <2> QED BY <1>1, <2>1, <2>2
<1>3. CASE UpdateWrite(r)
  <2>1. \/ party' = party
        \/ party' = [party EXCEPT ![req[r].party].base = req[r].currency]
    BY <1>3 DEF UpdateWrite, UpdateBase
  <2>2. ASSUME NEW q \in Parties, NEW c, party' = [party EXCEPT ![q].base = c]
        PROVE  party'[p].archived = party[p].archived
    BY <1>1, <2>2 DEF StoreTypeOK, PartyRow
  <2>3. CASE party' = [party EXCEPT ![req[r].party].base = req[r].currency]
    BY <1>1, <2>2, <2>3
  <2> QED BY <2>1, <2>3
<1>4. CASE ArchiveTx(r)
  <2>1. At(r, "archiveTx") /\ file' = file
    BY <1>4 DEF ArchiveTx
  <2>2. CASE ~Open(req[r].party)
    BY <1>4, <2>2 DEF ArchiveTx
  <2>3. CASE Open(req[r].party)
    <3>1. party' = [party EXCEPT ![req[r].party].archived = r]
      BY <1>4, <2>3 DEF ArchiveTx, ArchiveRows
    <3>2. CASE p = req[r].party
      BY <2>1, <2>3, <3>2
    <3>3. CASE p # req[r].party
      BY <1>1, <3>1, <3>3 DEF StoreTypeOK
    <3> QED BY <3>2, <3>3
  <2> QED BY <2>2, <2>3
<1>5. CASE JoinInsert(r) \/ ForceInsert(r) \/ LeaveDelete(r) \/ RemoveDelete(r)
  BY <1>5 DEF JoinInsert, ForceInsert, InsertMember, LeaveDelete, RemoveDelete, DeleteMember
<1>6. CASE \/ ArchiveWrite(r) \/ ArchiveWriteFails(r) \/ AddTx(r) \/ StatusUpdate(r)
           \/ ItemDelete(r) \/ ClearUpdate(r)
  BY <1>6 DEF ArchiveWrite, ArchiveWriteFails, WriteFile, AddTx, InsertItems, StatusUpdate,
              SetPaid, ItemDelete, DeleteItemRow, ClearUpdate, SettleAll
<1> QED BY <1>2, <1>3, <1>4, <1>5, <1>6 DEF Write

\* A party that was never created was never archived.
UnusedIsOpen == \A p \in Parties : party[p].state = "unused" => ~Archived(p)

LEMMA UnusedIsOpenNext ==
    ASSUME IInv, UnusedIsOpen, [Next]_vars
    PROVE  UnusedIsOpen'
<1>1. StoreTypeOK
  BY IInvParts DEF StoreInv
<1>2. CASE UNCHANGED storeVars
  BY <1>2 DEF storeVars, UnusedIsOpen, Archived
<1>3. ASSUME NEW u \in Users, NEW p \in Parties, NEW c \in Currencies, CreateParty(u, p, c)
      PROVE  UnusedIsOpen'
  BY <1>1, <1>3 DEF CreateParty, InsertParty, StoreTypeOK, UnusedIsOpen, Archived
<1>4. ASSUME NEW r \in Reqs, Write(r) PROVE UnusedIsOpen'
  <2> SUFFICES ASSUME NEW p \in Parties, party'[p].state = "unused"
               PROVE  party'[p].archived = None
    BY DEF UnusedIsOpen, Archived
  <2>1. party[p].state = "unused"
    <3>1. req[r].party \in Parties
      BY <1>4, WriterKnows
    <3>2. CASE Dropped(r)
      <4>1. p # req[r].party
        BY <1>1, <3>1, <3>2 DEF Dropped, DeleteRows, StoreTypeOK, PartyRow
      <4> QED BY <1>1, <3>2, <4>1 DEF Dropped, DeleteRows, StoreTypeOK
    <3>3. CASE SameMembers \/ Added(r) \/ Removed(r)
      BY <3>3 DEF SameMembers, Added, InsertMember, Removed, DeleteMember
    <3> QED BY <1>4, <3>2, <3>3, MembersOfWrite
  <2> QED BY <1>4, <2>1, ArchivedColumn DEF UnusedIsOpen, Archived, Open, Live
<1> QED BY <1>2, <1>3, <1>4, StepKinds

LEMMA ArchivedInvariant == Spec => []UnusedIsOpen
<1>1. Init => UnusedIsOpen
  BY DEF Init, StoreInit, NoParty, UnusedIsOpen, Archived
<1>2. IInv /\ UnusedIsOpen /\ [Next]_vars => UnusedIsOpen'
  BY UnusedIsOpenNext
<1> QED BY <1>1, <1>2, Invariant, PTL DEF Spec

\* archived_at never changes once it is set, although every archive request
\* that overlaps read the party while it was open.
THEOREM ArchivedAtMostOnce == Spec => ArchivedOnce
<1> DEFINE Once == \A p \in Parties : Archived(p) => party'[p].archived = party[p].archived
<1>1. ASSUME IInv, UnusedIsOpen, [Next]_vars PROVE [Once]_vars
  <2>1. CASE UNCHANGED storeVars
    BY <2>1 DEF storeVars
  <2>2. ASSUME NEW u \in Users, NEW p \in Parties, NEW c \in Currencies, CreateParty(u, p, c)
        PROVE  Once
    BY <1>1, <2>2, IInvParts DEF CreateParty, InsertParty, StoreInv, StoreTypeOK, UnusedIsOpen
  <2>3. ASSUME NEW r \in Reqs, Write(r) PROVE Once
    BY <1>1, <2>3, ArchivedColumn DEF Open
  <2> QED BY <1>1, <2>1, <2>2, <2>3, StepKinds
<1>2. IInv /\ UnusedIsOpen /\ [Next]_vars => [Once]_vars
  BY <1>1
<1>3. ArchivedOnce <=> [][Once]_vars
  BY PTL DEF ArchivedOnce
<1> QED BY <1>2, <1>3, Invariant, ArchivedInvariant, PTL DEF Spec

\* The only way to the transaction is through the snapshot.
LEMMA ArchiveTxEntered ==
    ASSUME IInv, NEW r \in Reqs, Start(r) \/ Step(r), req'[r].pc = "archiveTx"
    PROVE  ArchiveWrite(r)
<1>1. /\ req[r] \in Request
      /\ \A pc : Goto(r, pc) => req'[r].pc = pc
      /\ ~Finish(r)
  BY IInvParts DEF Goto, Finish, Idle, Request
<1>2. ~Start(r)
  <2>1. \A op, q : Begin(r, op, q) => req'[r] = q
    BY IInvParts DEF Begin
  <2>2. ASSUME NEW u \in Users, NEW p \in Parties, NEW w, NEW c, NEW payers
        PROVE  /\ ~JoinStart(r, u, p) /\ ~ForceStart(r, u, p) /\ ~LeaveStart(r, u, p)
               /\ ~RemoveStart(r, u, p, w) /\ ~DeleteStart(r, u, p) /\ ~ClearStart(r, u, p)
               /\ ~UpdateStart(r, u, p, c) /\ ~ArchiveStart(r, u, p)
               /\ ~AddStart(r, u, p, payers)
    <3>1. ~JoinStart(r, u, p) /\ ~ForceStart(r, u, p) /\ ~LeaveStart(r, u, p)
      BY <2>1 DEF JoinStart, ForceStart, LeaveStart, Idle
    <3>2. ~RemoveStart(r, u, p, w) /\ ~DeleteStart(r, u, p) /\ ~ClearStart(r, u, p)
      BY <2>1 DEF RemoveStart, DeleteStart, ClearStart, Idle
    <3>3. ~UpdateStart(r, u, p, c) /\ ~ArchiveStart(r, u, p) /\ ~AddStart(r, u, p, payers)
      BY <2>1 DEF UpdateStart, ArchiveStart, AddStart, Idle
    <3> QED BY <3>1, <3>2, <3>3
  <2>3. ASSUME NEW u \in Users, NEW i \in ItemIds, NEW b
        PROVE  ~StatusStart(r, u, i, b) /\ ~ItemStart(r, u, i)
    BY <2>1 DEF StatusStart, ItemStart, Idle
  <2> QED BY <2>2, <2>3 DEF Start
<1>3. ~Abort(r)
  BY <1>1 DEF Abort
<1>4. ~MembershipStep(r)
  BY <1>1 DEF MembershipStep, JoinMember, JoinInsert, ForceInsert, LeaveMember, LeaveCount,
        LeaveDelete, RemoveMember, RemoveRelated, RemoveDelete, Require
<1>5. ~ItemStep(r)
  <2>1. ~StatusPartyFails(r)
    BY <1>1, IInvParts DEF StatusPartyFails, Request
  <2> QED BY <1>1, <2>1 DEF ItemStep, AddMember, AddPayers, AddTx, StatusMember, StatusParty,
        StatusUpdate, ItemParty, ItemDelete, ClearMember, ClearUpdate, Require
<1>6. ASSUME PartyStep(r) PROVE ArchiveWrite(r)
  <2>1. ~ArchiveMembers(r) /\ ~ArchiveUnpaid(r) /\ ~ArchiveItems(r)
    BY <1>1, IInvParts DEF ArchiveMembers, ArchiveUnpaid, ArchiveItems, Request
  <2>2. /\ ~DeleteCount(r) /\ ~DeleteTx(r) /\ ~UpdateWrite(r)
        /\ ~ArchiveWriteFails(r) /\ ~ArchiveTx(r)
    BY <1>1 DEF DeleteCount, DeleteTx, UpdateWrite, ArchiveWriteFails, ArchiveTx, Require
  <2> QED BY <1>6, <2>1, <2>2 DEF PartyStep
<1> QED BY <1>2, <1>3, <1>4, <1>5, <1>6 DEF Step

\* While no rename fails, a snapshot is replaced but never taken away.
LEMMA SnapshotKept ==
    ASSUME IInv, ~RenameMayFail, [Next]_vars, NEW p \in Parties, file[p].exists
    PROVE  file'[p].exists
<1>1. file \in [Parties -> Snapshot]
  BY IInvParts DEF StoreInv, StoreTypeOK
<1>2. ASSUME NEW r \in Reqs, Write(r) PROVE file'[p].exists
  <2>1. CASE ArchiveWrite(r)
    BY <1>1, <2>1 DEF ArchiveWrite, WriteFile
  <2>2. ~ArchiveWriteFails(r)
    BY DEF ArchiveWriteFails
  <2>3. CASE /\ ~ArchiveWrite(r)
             /\ ~ArchiveWriteFails(r)
    <3>1. file' = file
      BY <1>2, <2>3 DEF Write, JoinInsert, ForceInsert, InsertMember, LeaveDelete, RemoveDelete,
            DeleteMember, DeleteTx, DeleteRows, UpdateWrite, UpdateBase, ArchiveTx, AddTx,
            InsertItems, StatusUpdate, SetPaid, ItemDelete, DeleteItemRow, ClearUpdate, SettleAll
    <3> QED BY <3>1
  <2> QED BY <2>1, <2>2, <2>3
<1> QED BY <1>2, StepKinds DEF storeVars, CreateParty, InsertParty

\* A request that reached the transaction has written the file.
TxHasSnapshot == \A r \in Reqs : At(r, "archiveTx") => file[req[r].party].exists

SnapshotInv == ArchivedHasSnapshot /\ TxHasSnapshot

LEMMA SnapshotNext ==
    ASSUME IInv, UnusedIsOpen, SnapshotInv, ~RenameMayFail, [Next]_vars
    PROVE  SnapshotInv'
<1>1. ASSUME NEW r \in Reqs, req'[r].pc = "archiveTx" PROVE file'[req'[r].party].exists
  <2>1. CASE req'[r] = req[r]
    <3>1. req[r].party \in Parties
      BY <1>1, <2>1, IInvParts DEF ReqInv
    <3> QED BY <1>1, <2>1, <3>1, SnapshotKept DEF SnapshotInv, TxHasSnapshot, At
  <2>2. CASE ArchiveWrite(r)
    <3>1. /\ req[r].party \in Parties /\ req'[r].party = req[r].party
          /\ file \in [Parties -> Snapshot]
      BY <2>2, IInvParts DEF ArchiveWrite, At, ReqInv, Goto, Request, StoreInv, StoreTypeOK
    <3> QED BY <2>2, <3>1 DEF ArchiveWrite, WriteFile
  <2>3. CASE req'[r] # req[r]
    <3>1. PICK s \in Reqs : Start(s) \/ Step(s)
      BY <2>3 DEF Next, vars, CreateParty
    <3>2. ReqStep(s)
      BY <3>1, StartStep, MembershipStepInv, PartyStepInv, ItemStepInv, AbortInv DEF Step
    <3>3. s = r
      BY <2>3, <3>2 DEF ReqStep
    <3> QED BY <1>1, <2>2, <3>1, <3>3, ArchiveTxEntered
  <2> QED BY <2>1, <2>3
<1>2. ASSUME NEW p \in Parties, party'[p].archived # None PROVE file'[p].exists
  <2>1. CASE Archived(p)
    BY <2>1, SnapshotKept DEF SnapshotInv, ArchivedHasSnapshot
  <2>2. CASE ~Archived(p)
    <3>1. CASE UNCHANGED storeVars
      BY <1>2, <2>2, <3>1 DEF storeVars, Archived
    <3>2. ASSUME NEW u \in Users, NEW q \in Parties, NEW c \in Currencies, CreateParty(u, q, c)
          PROVE  FALSE
      BY <1>2, <2>2, <3>2, IInvParts DEF CreateParty, InsertParty, StoreInv, StoreTypeOK, Archived
    <3>3. ASSUME NEW r \in Reqs, Write(r) PROVE file'[p].exists
      BY <1>2, <2>2, <3>3, ArchivedColumn DEF Archived, SnapshotInv, TxHasSnapshot
    <3> QED BY <3>1, <3>2, <3>3, StepKinds
  <2> QED BY <2>1, <2>2
<1>3. ArchivedHasSnapshot'
  BY <1>2 DEF ArchivedHasSnapshot, Archived
<1>4. TxHasSnapshot'
  BY <1>1 DEF TxHasSnapshot, At
<1> QED BY <1>3, <1>4 DEF SnapshotInv

\* An archived party has a snapshot, as long as the file system lets a file be
\* renamed over another: the file is in place before archived_at is committed.
THEOREM SnapshotBeforeArchive ==
    ASSUME ~RenameMayFail
    PROVE  Spec => []ArchivedHasSnapshot
<1>1. Init => SnapshotInv
  BY DEF Init, StoreInit, NoParty, Idle, SnapshotInv, ArchivedHasSnapshot, Archived,
         TxHasSnapshot, At
<1>2. IInv /\ UnusedIsOpen /\ SnapshotInv /\ [Next]_vars => SnapshotInv'
  BY SnapshotNext
<1>3. SnapshotInv => ArchivedHasSnapshot
  BY DEF SnapshotInv
<1> QED BY <1>1, <1>2, <1>3, Invariant, ArchivedInvariant, PTL DEF Spec

-----------------------------------------------------------------------------
(* Who changes an item. *)

\* What a step does to item i, by the user who asked for it.
Deletes(r, i) == item'[i].state = "gone" /\ req[r].user = party[item[i].party].owner
Pays(r, i)    == /\ item'[i].state # "gone"
                 /\ ~item[i].paid
                 /\ req[r].user = party[item[i].party].owner
Flips(r, i)   == item'[i].state # "gone" /\ req[r].user = item[i].initiator

LEMMA PaidByOwner ==
    ASSUME IInv, NEW r \in Reqs, req[r].party \in Parties, item' = AllPaid(req[r].party),
           req[r].user = party[req[r].party].owner,
           NEW i \in ItemIds, item[i].state = "live", item'[i] # item[i]
    PROVE  Pays(r, i)
<1>1. i \in Unpaid(req[r].party)
  BY DEF AllPaid
<1>2. item'[i].state = "live"
  BY AllPaidRows, IInvParts
<1> QED BY <1>1, <1>2 DEF Pays, Unpaid, ItemsOf

LEMMA ItemOfWrite ==
    ASSUME IInv, NEW r \in Reqs, Write(r),
           NEW i \in ItemIds, item[i].state = "live", item'[i] # item[i]
    PROVE  Finishes(r) /\ (Deletes(r, i) \/ Pays(r, i) \/ Flips(r, i))
<1>1. /\ req[r].party \in Parties /\ ReqInv(req[r], party, item)
      /\ StoreTypeOK
      /\ Finish(r) => Finishes(r)
  BY WriterKnows, FinishIsIdle, IInvParts DEF StoreInv
<1>2. CASE DeleteTx(r)
  <2>1. i \in ItemsOf(req[r].party) /\ item'[i] = NoItem("gone")
    BY <1>2 DEF DeleteTx, DeleteRows
  <2> QED BY <1>1, <1>2, <2>1 DEF DeleteTx, At, ReqInv, OfOwner, ItemsOf, NoItem, Deletes
<1>3. CASE ArchiveTx(r)
  <2>1. item' = AllPaid(req[r].party)
    BY <1>3 DEF ArchiveTx, ArchiveRows
  <2>2. req[r].user = party[req[r].party].owner
    BY <1>1, <1>3 DEF ArchiveTx, At, ReqInv, OfOwner
  <2> QED BY <1>1, <1>3, <2>1, <2>2, PaidByOwner DEF ArchiveTx
<1>4. CASE ClearUpdate(r)
  <2>1. item' = AllPaid(req[r].party)
    BY <1>4 DEF ClearUpdate, SettleAll
  <2>2. req[r].user = party[req[r].party].owner
    BY <1>1, <1>4 DEF ClearUpdate, At, ReqInv, OfOwner
  <2> QED BY <1>1, <1>4, <2>1, <2>2, PaidByOwner DEF ClearUpdate
<1>5. CASE StatusUpdate(r)
  <2>1. SetPaid(req[r].item, req[r].paid) /\ req[r].pc = "statusUpdate" /\ Finish(r)
    BY <1>5 DEF StatusUpdate, At
  <2>2. i = req[r].item /\ item' = [item EXCEPT ![i].paid = req[r].paid]
    BY <1>1, <2>1 DEF SetPaid, StoreTypeOK
  <2>3. item'[i].state = "live"
    BY <1>1, <2>2 DEF StoreTypeOK, ItemRow
  <2>4. item[i].initiator = req[r].user
    BY <1>1, <2>1, <2>2 DEF ReqInv, OfInitiator
  <2> QED BY <1>1, <2>1, <2>3, <2>4 DEF Flips
<1>6. CASE ItemDelete(r)
  <2>1. DeleteItemRow(req[r].item) /\ req[r].pc = "itemDelete" /\ Finish(r)
    BY <1>6 DEF ItemDelete, At
  <2>2. i = req[r].item /\ item'[i] = NoItem("gone")
    BY <1>1, <2>1 DEF DeleteItemRow, StoreTypeOK
  <2>3. item[i].party = req[r].party /\ req[r].user = party[req[r].party].owner
    BY <1>1, <2>1, <2>2 DEF ReqInv, OfItem, OfOwner
  <2> QED BY <1>1, <2>1, <2>2, <2>3 DEF Deletes, NoItem
<1>7. ~AddTx(r)
  BY DEF AddTx, InsertItems
<1>8. CASE \/ JoinInsert(r) \/ ForceInsert(r) \/ LeaveDelete(r) \/ RemoveDelete(r)
           \/ UpdateWrite(r) \/ ArchiveWrite(r) \/ ArchiveWriteFails(r)
  <2>1. item' = item
    BY <1>8 DEF JoinInsert, ForceInsert, InsertMember, LeaveDelete, RemoveDelete, DeleteMember,
                UpdateWrite, UpdateBase, ArchiveWrite, ArchiveWriteFails, WriteFile
  <2> QED BY <2>1
<1> QED BY <1>2, <1>3, <1>4, <1>5, <1>6, <1>7, <1>8 DEF Write

\* An item is deleted by the owner of its party, marked paid by the owner or
\* by its initiator, and set back to unpaid by its initiator: no interleaving
\* turns a right that was read earlier into a write on somebody else's item.
THEOREM ItemsHaveAuthority == Spec => ItemAuthority
<1> DEFINE Authority == \A i \in ItemIds :
              item[i].state = "live" /\ item'[i] # item[i] =>
                 \E r \in Reqs :
                    /\ Finishes(r)
                    /\ LET owner == party[item[i].party].owner
                       IN  IF item'[i].state = "gone" THEN req[r].user = owner
                           ELSE IF item[i].paid THEN req[r].user = item[i].initiator
                           ELSE req[r].user \in {item[i].initiator, owner}
<1>1. ASSUME IInv, [Next]_vars PROVE [Authority]_vars
  <2>1. CASE item' = item
    BY <2>1
  <2>2. ASSUME NEW r \in Reqs, Write(r) PROVE Authority
    BY <1>1, <2>2, ItemOfWrite DEF Deletes, Pays, Flips
  <2> QED BY <1>1, <2>1, <2>2, StepKinds DEF storeVars, CreateParty, InsertParty
<1>2. IInv /\ [Next]_vars => [Authority]_vars
  BY <1>1
<1>3. ItemAuthority <=> [][Authority]_vars
  BY PTL DEF ItemAuthority
<1> QED BY <1>2, <1>3, Invariant, PTL DEF Spec
=============================================================================
