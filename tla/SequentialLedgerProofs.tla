---------------------- MODULE SequentialLedgerProofs ----------------------
(***************************************************************************)
(* Proofs about PartyLedger with one request in flight and no failing      *)
(* COUNT (Alone; the read of the party may fail): archiving, leaving and   *)
(* deleting keep the tables consistent, the snapshot is the party as it    *)
(* was archived, and every endpoint, however many statements it takes, is  *)
(* one step of Ledger.                                                     *)
(*                                                                         *)
(* The invariant adds to IInv of PartyLedgerProofs that the tables are     *)
(* tidy (TidyRows) and that what the request has read still holds (Knows): *)
(* only the request itself writes to a party that exists, and the write is *)
(* its last statement, but for the snapshot file of archiveParty.          *)
(***************************************************************************)
EXTENDS PartyLedgerProofs

\* No two requests overlap, and no COUNT is taken for zero.
Alone == ~CountMayFail /\ \A r, s \in Reqs : r = s

\* Only a live party is archived or has members and items; an open debt is to a
\* member of its party.
TidyRows ==
    /\ \A p \in Parties : /\ Archived(p) => Live(p)
                          /\ party[p].state = "gone" => members[p] = {}
    /\ \A i \in ItemIds : item[i].state = "live" =>
          /\ Live(item[i].party)
          /\ ~item[i].paid => item[i].initiator \in members[item[i].party]

PlanRead  == {"archiveItems", "archiveWrite", "archiveTx"}
ItemsRead == {"archiveWrite", "archiveTx"}
Adding    == {"addMember", "addPayers", "addTx"}
OnlyLive  == Leaving \cup {"statusMember", "statusParty", "itemParty"}
OfMember  == {"leaveCount", "leaveDelete", "addPayers", "addTx", "statusParty", "statusUpdate"}

\* What request q has read before step pc is still what the tables hold.
Knows(q, pc) ==
    /\ pc \notin OnlyLive \cup {"idle"} /\ ~(pc = "statusUpdate" /\ q.unread) => Open(q.party)
    /\ pc \in Leaving => Live(q.party)
    /\ pc \in OfMember => q.user \in members[q.party]
    /\ pc \in {"removeRelated", "removeDelete"} => q.who \in members[q.party]
    /\ pc \in {"leaveDelete", "deleteTx"} => Unpaid(q.party) = {}
    /\ pc = "removeDelete" => Related(q.party, q.who) = {}
    /\ pc = "updateWrite" => q.currency \in Currencies
    /\ pc \in PlanRead \cup {"archiveUnpaid"} => q.seen = members[q.party]
    /\ pc \in PlanRead => q.plan = Plan(q.party, members[q.party])
    /\ pc \in ItemsRead => q.listed = ItemsOf(q.party)
    /\ pc = "archiveTx" =>
          file[q.party] = [exists |-> TRUE, plan |-> q.plan, listed |-> q.listed]
    /\ pc \in Adding => q.payers # {} /\ q.currency = party[q.party].base
    /\ pc = "addTx" => q.payers \subseteq members[q.party]
    /\ pc \in OfItem => item[q.item].state = "live"

KnowsAll == \A r \in Reqs, q \in Request : req[r] = q => Knows(q, q.pc)

AloneInv == TidyRows /\ KnowsAll

\* The rows of party p and its file are left as they are.
Untouched(p) ==
    /\ party'[p] = party[p] /\ members'[p] = members[p] /\ file'[p] = file[p]
    /\ item' = item

LEMMA KnowsKept ==
    ASSUME NEW q, NEW pc, Knows(q, pc), pc = "idle" \/ Untouched(q.party)
    PROVE  Knows(q, pc)'
<1>1. CASE pc = "idle"
  BY <1>1 DEF Knows, OnlyLive, OfMember, PlanRead, ItemsRead, Adding, OfItem, OfInitiator, Leaving
<1>2. CASE Untouched(q.party)
  <2>1. ItemsOf(q.party)' = ItemsOf(q.party)
    BY <1>2 DEF Untouched, ItemsOf
  <2>2. Unpaid(q.party)' = Unpaid(q.party)
    BY <1>2, <2>1 DEF Untouched, Unpaid
  <2>3. Related(q.party, q.who)' = Related(q.party, q.who)
    BY <1>2, <2>1 DEF Untouched, Related
  <2>4. Plan(q.party, members[q.party])' = Plan(q.party, members[q.party])
    BY <1>2, <2>2 DEF Untouched, Plan
  <2>5. Live(q.party)' = Live(q.party) /\ Open(q.party)' = Open(q.party)
    BY <1>2 DEF Untouched, Live, Open, Archived
  <2> QED BY <1>2, <2>1, <2>2, <2>3, <2>4, <2>5 DEF Untouched, Knows
<1> QED BY <1>1, <1>2

LEMMA AloneBecomes ==
    ASSUME Alone, NEW r \in Reqs, NEW n, req'[r] = n, Knows(n, n.pc)'
    PROVE  KnowsAll'
<1>1. \A s \in Reqs : req'[s] = n
  BY DEF Alone
<1> QED BY <1>1 DEF KnowsAll

LEMMA IdleKnows == \A q : Knows(q, "idle")
BY DEF Knows, OnlyLive, OfMember, PlanRead, ItemsRead, Adding, OfItem, OfInitiator, Leaving

LEMMA FinishKnows ==
    ASSUME Alone, IInv, NEW r \in Reqs, Finish(r)
    PROVE  KnowsAll'
<1>1. req'[r] = Idle /\ Idle.pc = "idle"
  BY IInvParts DEF Finish, Idle
<1>2. Knows(Idle, Idle.pc)'
  BY <1>1 DEF Knows, OnlyLive, OfMember, PlanRead, ItemsRead, Adding, OfItem, OfInitiator, Leaving
<1> QED BY <1>1, <1>2, AloneBecomes

\* The locals of q are those of m.
SameLocals(q, m) ==
    /\ q.party = m.party /\ q.user = m.user /\ q.who = m.who /\ q.item = m.item
    /\ q.paid = m.paid /\ q.payers = m.payers /\ q.currency = m.currency
    /\ q.seen = m.seen /\ q.plan = m.plan /\ q.listed = m.listed
    /\ q.unread = m.unread

LEMMA GotoKeeps ==
    ASSUME NEW q \in Request, NEW pc
    PROVE  [q EXCEPT !.pc = pc].pc = pc /\ SameLocals([q EXCEPT !.pc = pc], q)
BY DEF Request, SameLocals

LEMMA LocalsKnow ==
    ASSUME NEW q, NEW m, NEW pc, SameLocals(q, m), Knows(m, pc)
    PROVE  Knows(q, pc)
BY DEF SameLocals, Knows

\* A request that takes the value n without writing.
LEMMA ReadKnows ==
    ASSUME Alone, NEW r \in Reqs, NEW n, req'[r] = n, UNCHANGED storeVars, Knows(n, n.pc)
    PROVE  KnowsAll'
<1>1. Untouched(n.party)
  BY DEF Untouched, storeVars
<1>2. Knows(n, n.pc)'
  BY <1>1, KnowsKept
<1> QED BY <1>2, AloneBecomes

LEMMA MoveKnows ==
    ASSUME Alone, IInv, NEW r \in Reqs, NEW pc, UNCHANGED storeVars,
           Finish(r) \/ (Goto(r, pc) /\ Knows(req[r], pc))
    PROVE  KnowsAll'
<1>1. CASE Finish(r)
  BY <1>1, FinishKnows
<1>2. CASE Goto(r, pc) /\ Knows(req[r], pc)
  <2> DEFINE n == [req[r] EXCEPT !.pc = pc]
  <2>1. req'[r] = n /\ req[r] \in Request
    BY <1>2, IInvParts DEF Goto
  <2>2. n.pc = pc /\ SameLocals(n, req[r])
    BY <2>1, GotoKeeps
  <2> HIDE DEF n
  <2>3. Knows(n, n.pc)
    BY <1>2, <2>2, LocalsKnow
  <2> QED BY <2>1, <2>3, ReadKnows
<1> QED BY <1>1, <1>2

-----------------------------------------------------------------------------
(* The steps that only read keep Knows. *)

LEMMA BeginKnows ==
    ASSUME Alone, IInv, NEW r \in Reqs, NEW op, NEW q, Begin(r, op, q), Knows(q, q.pc)
    PROVE  KnowsAll'
<1>1. req'[r] = q /\ UNCHANGED storeVars
  BY IInvParts DEF Begin
<1> QED BY <1>1, ReadKnows

LEMMA StartKnows ==
    ASSUME Alone, IInv, NEW r \in Reqs, Start(r)
    PROVE  KnowsAll'
<1>1. ASSUME NEW u \in Users, NEW p \in Parties, JoinStart(r, u, p)
      PROVE  KnowsAll'
  <2> DEFINE q == [Idle EXCEPT !.pc = "joinMember", !.user = u, !.party = p]
  <2>1. q.pc = "joinMember" /\ q.party = p
    BY DEF Idle
  <2>2. Begin(r, "join", q)
    BY <1>1 DEF JoinStart
  <2>3. Open(p)
    BY <1>1 DEF JoinStart
  <2> HIDE DEF q
  <2>4. Knows(q, "joinMember")
    BY <2>1, <2>3
       DEF Knows, OnlyLive, OfMember, PlanRead, ItemsRead, Adding, OfItem, OfInitiator, Leaving
  <2> QED BY <2>1, <2>2, <2>4, BeginKnows
<1>2. ASSUME NEW u \in Users, NEW p \in Parties, ForceStart(r, u, p)
      PROVE  KnowsAll'
  <2> DEFINE q == [Idle EXCEPT !.pc = "forceInsert", !.who = u, !.party = p]
  <2>1. q.pc = "forceInsert" /\ q.party = p
    BY DEF Idle
  <2>2. Begin(r, "forceJoin", q)
    BY <1>2 DEF ForceStart
  <2>3. Open(p)
    BY <1>2 DEF ForceStart
  <2> HIDE DEF q
  <2>4. Knows(q, "forceInsert")
    BY <2>1, <2>3
       DEF Knows, OnlyLive, OfMember, PlanRead, ItemsRead, Adding, OfItem, OfInitiator, Leaving
  <2> QED BY <2>1, <2>2, <2>4, BeginKnows
<1>3. ASSUME NEW u \in Users, NEW p \in Parties, LeaveStart(r, u, p)
      PROVE  KnowsAll'
  <2> DEFINE q == [Idle EXCEPT !.pc = "leaveMember", !.user = u, !.party = p]
  <2>1. q.pc = "leaveMember" /\ q.party = p
    BY DEF Idle
  <2>2. Begin(r, "leave", q)
    BY <1>3 DEF LeaveStart
  <2>3. Live(p)
    BY <1>3 DEF LeaveStart
  <2> HIDE DEF q
  <2>4. Knows(q, "leaveMember")
    BY <2>1, <2>3
       DEF Knows, OnlyLive, OfMember, PlanRead, ItemsRead, Adding, OfItem, OfInitiator, Leaving
  <2> QED BY <2>1, <2>2, <2>4, BeginKnows
<1>4. ASSUME NEW u \in Users, NEW p \in Parties, NEW w \in Users, RemoveStart(r, u, p, w)
      PROVE  KnowsAll'
  <2> DEFINE q == [Idle EXCEPT !.pc = "removeMember", !.user = u, !.party = p, !.who = w]
  <2>1. q.pc = "removeMember" /\ q.party = p
    BY DEF Idle
  <2>2. Begin(r, "remove", q)
    BY <1>4 DEF RemoveStart
  <2>3. Open(p)
    BY <1>4 DEF RemoveStart
  <2> HIDE DEF q
  <2>4. Knows(q, "removeMember")
    BY <2>1, <2>3
       DEF Knows, OnlyLive, OfMember, PlanRead, ItemsRead, Adding, OfItem, OfInitiator, Leaving
  <2> QED BY <2>1, <2>2, <2>4, BeginKnows
<1>5. ASSUME NEW u \in Users, NEW p \in Parties, DeleteStart(r, u, p)
      PROVE  KnowsAll'
  <2> DEFINE q == [Idle EXCEPT !.pc = "deleteCount", !.user = u, !.party = p]
  <2>1. q.pc = "deleteCount" /\ q.party = p
    BY DEF Idle
  <2>2. Begin(r, "delete", q)
    BY <1>5 DEF DeleteStart
  <2>3. Open(p)
    BY <1>5 DEF DeleteStart
  <2> HIDE DEF q
  <2>4. Knows(q, "deleteCount")
    BY <2>1, <2>3
       DEF Knows, OnlyLive, OfMember, PlanRead, ItemsRead, Adding, OfItem, OfInitiator, Leaving
  <2> QED BY <2>1, <2>2, <2>4, BeginKnows
<1>6. ASSUME NEW u \in Users, NEW p \in Parties, NEW c \in Currencies, UpdateStart(r, u, p, c)
      PROVE  KnowsAll'
  <2> DEFINE q == [Idle EXCEPT !.pc = "updateWrite", !.user = u, !.party = p, !.currency = c]
  <2>1. q.pc = "updateWrite" /\ q.party = p /\ q.currency = c
    BY DEF Idle
  <2>2. Begin(r, "update", q)
    BY <1>6 DEF UpdateStart
  <2>3. Open(p)
    BY <1>6 DEF UpdateStart
  <2> HIDE DEF q
  <2>4. Knows(q, "updateWrite")
    BY <2>1, <2>3
       DEF Knows, OnlyLive, OfMember, PlanRead, ItemsRead, Adding, OfItem, OfInitiator, Leaving
  <2> QED BY <2>1, <2>2, <2>4, BeginKnows
<1>7. ASSUME NEW u \in Users, NEW p \in Parties, ArchiveStart(r, u, p)
      PROVE  KnowsAll'
  <2> DEFINE q == [Idle EXCEPT !.pc = "archiveMembers", !.user = u, !.party = p]
  <2>1. q.pc = "archiveMembers" /\ q.party = p
    BY DEF Idle
  <2>2. Begin(r, "archive", q)
    BY <1>7 DEF ArchiveStart
  <2>3. Open(p)
    BY <1>7 DEF ArchiveStart
  <2> HIDE DEF q
  <2>4. Knows(q, "archiveMembers")
    BY <2>1, <2>3
       DEF Knows, OnlyLive, OfMember, PlanRead, ItemsRead, Adding, OfItem, OfInitiator, Leaving
  <2> QED BY <2>1, <2>2, <2>4, BeginKnows
<1>8. ASSUME NEW u \in Users, NEW p \in Parties, NEW payers \in SUBSET Users,
             AddStart(r, u, p, payers)
      PROVE  KnowsAll'
  <2> DEFINE q == [Idle EXCEPT !.pc = "addMember", !.user = u, !.party = p, !.payers = payers,
                             !.currency = party[p].base]
  <2>1. q.pc = "addMember" /\ q.party = p /\ q.payers = payers /\ q.currency = party[p].base
    BY DEF Idle
  <2>2. Begin(r, "add", q)
    BY <1>8 DEF AddStart
  <2>3. Open(p) /\ payers # {}
    BY <1>8 DEF AddStart
  <2> HIDE DEF q
  <2>4. Knows(q, "addMember")
    BY <2>1, <2>3
       DEF Knows, OnlyLive, OfMember, PlanRead, ItemsRead, Adding, OfItem, OfInitiator, Leaving
  <2> QED BY <2>1, <2>2, <2>4, BeginKnows
<1>9. ASSUME NEW u \in Users, NEW p \in Parties, ClearStart(r, u, p)
      PROVE  KnowsAll'
  <2> DEFINE q == [Idle EXCEPT !.pc = "clearMember", !.user = u, !.party = p]
  <2>1. q.pc = "clearMember" /\ q.party = p
    BY DEF Idle
  <2>2. Begin(r, "clear", q)
    BY <1>9 DEF ClearStart
  <2>3. Open(p)
    BY <1>9 DEF ClearStart
  <2> HIDE DEF q
  <2>4. Knows(q, "clearMember")
    BY <2>1, <2>3
       DEF Knows, OnlyLive, OfMember, PlanRead, ItemsRead, Adding, OfItem, OfInitiator, Leaving
  <2> QED BY <2>1, <2>2, <2>4, BeginKnows
<1>10. ASSUME NEW u \in Users, NEW i \in ItemIds, NEW b \in BOOLEAN, StatusStart(r, u, i, b)
      PROVE  KnowsAll'
  <2> DEFINE q == [Idle EXCEPT !.pc = "statusMember", !.user = u, !.item = i,
                             !.party = item[i].party, !.paid = b]
  <2>1. q.pc = "statusMember" /\ q.party = item[i].party /\ q.item = i
    BY DEF Idle
  <2>2. Begin(r, "status", q)
    BY <1>10 DEF StatusStart
  <2>3. item[i].state = "live"
    BY <1>10 DEF StatusStart
  <2> HIDE DEF q
  <2>4. Knows(q, "statusMember")
    BY <2>1, <2>3
       DEF Knows, OnlyLive, OfMember, PlanRead, ItemsRead, Adding, OfItem, OfInitiator, Leaving
  <2> QED BY <2>1, <2>2, <2>4, BeginKnows
<1>11. ASSUME NEW u \in Users, NEW i \in ItemIds, ItemStart(r, u, i)
      PROVE  KnowsAll'
  <2> DEFINE q == [Idle EXCEPT !.pc = "itemParty", !.user = u, !.item = i,
                             !.party = item[i].party]
  <2>1. q.pc = "itemParty" /\ q.party = item[i].party /\ q.item = i
    BY DEF Idle
  <2>2. Begin(r, "deleteItem", q)
    BY <1>11 DEF ItemStart
  <2>3. item[i].state = "live"
    BY <1>11 DEF ItemStart
  <2> HIDE DEF q
  <2>4. Knows(q, "itemParty")
    BY <2>1, <2>3
       DEF Knows, OnlyLive, OfMember, PlanRead, ItemsRead, Adding, OfItem, OfInitiator, Leaving
  <2> QED BY <2>1, <2>2, <2>4, BeginKnows
<1> QED BY <1>1, <1>2, <1>3, <1>4, <1>5, <1>6, <1>7, <1>8, <1>9, <1>10, <1>11 DEF Start

LEMMA CountsAreTrue == Alone => \A S : Counted(S) = {S}
BY DEF Alone, Counted

LEMMA KnowsNow ==
    ASSUME IInv, KnowsAll, NEW r \in Reqs
    PROVE  Knows(req[r], req[r].pc)
BY IInvParts DEF KnowsAll

\* The steps that do not write to the tables.
Read(r) ==
    \/ JoinMember(r) \/ LeaveMember(r) \/ LeaveCount(r) \/ RemoveMember(r) \/ RemoveRelated(r)
    \/ DeleteCount(r) \/ ArchiveMembers(r) \/ ArchiveUnpaid(r) \/ ArchiveItems(r)
    \/ AddMember(r) \/ AddPayers(r) \/ StatusMember(r) \/ StatusParty(r)
    \/ StatusPartyFails(r) \/ ItemParty(r) \/ ClearMember(r) \/ Abort(r)

LEMMA ReadKnowsAll ==
    ASSUME Alone, IInv, TidyRows, KnowsAll, NEW r \in Reqs, Read(r)
    PROVE  KnowsAll'
<1>1. CASE JoinMember(r)
  <2>1. /\ req[r].pc = "joinMember" /\ UNCHANGED storeVars
        /\ Finish(r) \/ Goto(r, "joinInsert")
    BY <1>1, CountsAreTrue DEF JoinMember, Require, At
  <2>2. Knows(req[r], "joinInsert")
    BY <2>1, KnowsNow
       DEF Knows, OnlyLive, OfMember, PlanRead, ItemsRead, Adding, OfItem, OfInitiator, Leaving
  <2> QED BY <2>1, <2>2, MoveKnows
<1>2. CASE LeaveMember(r)
  <2>1. /\ req[r].pc = "leaveMember" /\ UNCHANGED storeVars
        /\ Finish(r) \/ (Goto(r, "leaveCount") /\ req[r].user \in members[req[r].party])
    BY <1>2, CountsAreTrue DEF LeaveMember, Require, At
  <2>2. req[r].user \in members[req[r].party] => Knows(req[r], "leaveCount")
    BY <2>1, KnowsNow
       DEF Knows, OnlyLive, OfMember, PlanRead, ItemsRead, Adding, OfItem, OfInitiator, Leaving
  <2> QED BY <2>1, <2>2, MoveKnows
<1>3. CASE LeaveCount(r)
  <2>1. /\ req[r].pc = "leaveCount" /\ UNCHANGED storeVars
        /\ Finish(r) \/ (Goto(r, "leaveDelete") /\ Unpaid(req[r].party) = {})
    BY <1>3, CountsAreTrue DEF LeaveCount, Require, At
  <2>2. Unpaid(req[r].party) = {} => Knows(req[r], "leaveDelete")
    BY <2>1, KnowsNow
       DEF Knows, OnlyLive, OfMember, PlanRead, ItemsRead, Adding, OfItem, OfInitiator, Leaving
  <2> QED BY <2>1, <2>2, MoveKnows
<1>4. CASE RemoveMember(r)
  <2>1. /\ req[r].pc = "removeMember" /\ UNCHANGED storeVars
        /\ Finish(r) \/ (Goto(r, "removeRelated") /\ req[r].who \in members[req[r].party])
    BY <1>4, CountsAreTrue DEF RemoveMember, Require, At
  <2>2. req[r].who \in members[req[r].party] => Knows(req[r], "removeRelated")
    BY <2>1, KnowsNow
       DEF Knows, OnlyLive, OfMember, PlanRead, ItemsRead, Adding, OfItem, OfInitiator, Leaving
  <2> QED BY <2>1, <2>2, MoveKnows
<1>5. CASE RemoveRelated(r)
  <2>1. /\ req[r].pc = "removeRelated" /\ UNCHANGED storeVars
        /\ Finish(r) \/ (Goto(r, "removeDelete") /\ Related(req[r].party, req[r].who) = {})
    BY <1>5, CountsAreTrue DEF RemoveRelated, Require, At
  <2>2. Related(req[r].party, req[r].who) = {} => Knows(req[r], "removeDelete")
    BY <2>1, KnowsNow
       DEF Knows, OnlyLive, OfMember, PlanRead, ItemsRead, Adding, OfItem, OfInitiator, Leaving
  <2> QED BY <2>1, <2>2, MoveKnows
<1>6. CASE DeleteCount(r)
  <2>1. /\ req[r].pc = "deleteCount" /\ UNCHANGED storeVars
        /\ Finish(r) \/ (Goto(r, "deleteTx") /\ Unpaid(req[r].party) = {})
    BY <1>6, CountsAreTrue DEF DeleteCount, Require, At
  <2>2. Unpaid(req[r].party) = {} => Knows(req[r], "deleteTx")
    BY <2>1, KnowsNow
       DEF Knows, OnlyLive, OfMember, PlanRead, ItemsRead, Adding, OfItem, OfInitiator, Leaving
  <2> QED BY <2>1, <2>2, MoveKnows
<1>7. CASE AddMember(r)
  <2>1. /\ req[r].pc = "addMember" /\ UNCHANGED storeVars
        /\ Finish(r) \/ (Goto(r, "addPayers") /\ req[r].user \in members[req[r].party])
    BY <1>7, CountsAreTrue DEF AddMember, Require, At
  <2>2. req[r].user \in members[req[r].party] => Knows(req[r], "addPayers")
    BY <2>1, KnowsNow
       DEF Knows, OnlyLive, OfMember, PlanRead, ItemsRead, Adding, OfItem, OfInitiator, Leaving
  <2> QED BY <2>1, <2>2, MoveKnows
<1>8. CASE AddPayers(r)
  <2>1. /\ req[r].pc = "addPayers" /\ UNCHANGED storeVars
        /\ Finish(r) \/ (Goto(r, "addTx") /\ req[r].payers \subseteq members[req[r].party])
    BY <1>8, CountsAreTrue DEF AddPayers, Require, At
  <2>2. req[r].payers \subseteq members[req[r].party] => Knows(req[r], "addTx")
    BY <2>1, KnowsNow
       DEF Knows, OnlyLive, OfMember, PlanRead, ItemsRead, Adding, OfItem, OfInitiator, Leaving
  <2> QED BY <2>1, <2>2, MoveKnows
<1>9. CASE StatusMember(r)
  <2>1. /\ req[r].pc = "statusMember" /\ UNCHANGED storeVars
        /\ Finish(r) \/ (Goto(r, "statusParty") /\ req[r].user \in members[req[r].party])
    BY <1>9, CountsAreTrue DEF StatusMember, Require, At
  <2>2. req[r].user \in members[req[r].party] => Knows(req[r], "statusParty")
    BY <2>1, KnowsNow
       DEF Knows, OnlyLive, OfMember, PlanRead, ItemsRead, Adding, OfItem, OfInitiator, Leaving
  <2> QED BY <2>1, <2>2, MoveKnows
<1>10. CASE ClearMember(r)
  <2>1. /\ req[r].pc = "clearMember" /\ UNCHANGED storeVars
        /\ Finish(r) \/ Goto(r, "clearUpdate")
    BY <1>10, CountsAreTrue DEF ClearMember, Require, At
  <2>2. Knows(req[r], "clearUpdate")
    BY <2>1, KnowsNow
       DEF Knows, OnlyLive, OfMember, PlanRead, ItemsRead, Adding, OfItem, OfInitiator, Leaving
  <2> QED BY <2>1, <2>2, MoveKnows
<1>11. CASE ItemParty(r)
  <2>1. /\ req[r].pc = "itemParty" /\ UNCHANGED storeVars
        /\ Finish(r) \/ (Goto(r, "itemDelete") /\ Open(req[r].party))
    BY <1>11, CountsAreTrue DEF ItemParty, Require, At
  <2>2. Open(req[r].party) => Knows(req[r], "itemDelete")
    BY <2>1, KnowsNow
       DEF Knows, OnlyLive, OfMember, PlanRead, ItemsRead, Adding, OfItem, OfInitiator, Leaving
  <2> QED BY <2>1, <2>2, MoveKnows
<1>12. CASE StatusParty(r)
  <2>1. /\ req[r].pc = "statusParty" /\ UNCHANGED storeVars
        /\ \/ Finish(r)
           \/ Goto(r, "statusUpdate") /\ ~(Live(req[r].party) /\ Archived(req[r].party))
    BY <1>12 DEF StatusParty, Require, At
  <2>2. item[req[r].item].state = "live" /\ Knows(req[r], "statusParty")
    BY <2>1, KnowsNow DEF Knows, OfItem, OfInitiator
  <2>3. Live(req[r].party)
    <3>1. /\ req[r].item \in ItemIds
          /\ item[req[r].item].state = "live" => item[req[r].item].party = req[r].party
      BY <2>1, IInvParts DEF ReqInv, OfItem, OfInitiator
    <3> QED BY <2>2, <3>1 DEF TidyRows
  <2>4. ~(Live(req[r].party) /\ Archived(req[r].party)) => Knows(req[r], "statusUpdate")
    BY <2>2, <2>3
       DEF Knows, Open, OnlyLive, OfMember, PlanRead, ItemsRead, Adding, OfItem, OfInitiator,
           Leaving
  <2> QED BY <2>1, <2>4, MoveKnows
<1>13. CASE ArchiveMembers(r)
  <2> DEFINE n == [req[r] EXCEPT !.pc = "archiveUnpaid", !.seen = members[req[r].party]]
  <2>1. req'[r] = n /\ req[r].pc = "archiveMembers" /\ UNCHANGED storeVars /\ req[r] \in Request
    BY <1>13, IInvParts DEF ArchiveMembers, At
  <2>2. /\ n.pc = "archiveUnpaid" /\ n.party = req[r].party
        /\ n.seen = members[req[r].party]
    BY <2>1 DEF Request
  <2>3. Knows(req[r], "archiveMembers")
    BY <2>1, KnowsNow
  <2> HIDE DEF n
  <2>4. Knows(n, "archiveUnpaid")
    BY <2>2, <2>3
       DEF Knows, OnlyLive, OfMember, PlanRead, ItemsRead, Adding, OfItem, OfInitiator, Leaving
  <2> QED BY <2>1, <2>2, <2>4, ReadKnows
<1>14. CASE ArchiveUnpaid(r)
  <2> DEFINE n == [req[r] EXCEPT !.pc = "archiveItems", !.plan = Plan(req[r].party, req[r].seen)]
  <2>1. req'[r] = n /\ req[r].pc = "archiveUnpaid" /\ UNCHANGED storeVars /\ req[r] \in Request
    BY <1>14, IInvParts DEF ArchiveUnpaid, At
  <2>2. /\ n.pc = "archiveItems" /\ n.party = req[r].party
        /\ n.plan = Plan(req[r].party, req[r].seen) /\ n.seen = req[r].seen
    BY <2>1 DEF Request
  <2>3. Knows(req[r], "archiveUnpaid")
    BY <2>1, KnowsNow
  <2> HIDE DEF n
  <2>4. Knows(n, "archiveItems")
    BY <2>2, <2>3
       DEF Knows, OnlyLive, OfMember, PlanRead, ItemsRead, Adding, OfItem, OfInitiator, Leaving
  <2> QED BY <2>1, <2>2, <2>4, ReadKnows
<1>15. CASE ArchiveItems(r)
  <2> DEFINE n == [req[r] EXCEPT !.pc = "archiveWrite", !.listed = ItemsOf(req[r].party)]
  <2>1. req'[r] = n /\ req[r].pc = "archiveItems" /\ UNCHANGED storeVars /\ req[r] \in Request
    BY <1>15, IInvParts DEF ArchiveItems, At
  <2>2. /\ n.pc = "archiveWrite" /\ n.party = req[r].party
        /\ n.listed = ItemsOf(req[r].party) /\ n.seen = req[r].seen /\ n.plan = req[r].plan
    BY <2>1 DEF Request
  <2>3. Knows(req[r], "archiveItems")
    BY <2>1, KnowsNow
  <2> HIDE DEF n
  <2>4. Knows(n, "archiveWrite")
    BY <2>2, <2>3
       DEF Knows, OnlyLive, OfMember, PlanRead, ItemsRead, Adding, OfItem, OfInitiator, Leaving
  <2> QED BY <2>1, <2>2, <2>4, ReadKnows
<1>16. CASE Abort(r)
  BY <1>16, FinishKnows DEF Abort
<1>17. CASE StatusPartyFails(r)
  <2> DEFINE n == [req[r] EXCEPT !.pc = "statusUpdate", !.unread = TRUE]
  <2>1. req'[r] = n /\ req[r].pc = "statusParty" /\ UNCHANGED storeVars /\ req[r] \in Request
    BY <1>17, IInvParts DEF StatusPartyFails, At
  <2>2. /\ n.pc = "statusUpdate" /\ n.party = req[r].party /\ n.unread
        /\ n.user = req[r].user /\ n.item = req[r].item
    BY <2>1 DEF Request
  <2>3. Knows(req[r], "statusParty")
    BY <2>1, KnowsNow
  <2> HIDE DEF n
  <2>4. Knows(n, "statusUpdate")
    BY <2>2, <2>3
       DEF Knows, OnlyLive, OfMember, PlanRead, ItemsRead, Adding, OfItem, OfInitiator, Leaving
  <2> QED BY <2>1, <2>2, <2>4, ReadKnows
<1> QED BY <1>1, <1>2, <1>3, <1>4, <1>5, <1>6, <1>7, <1>8, <1>9, <1>10, <1>11, <1>12, <1>13, <1>14,
          <1>15, <1>16, <1>17
   DEF Read

-----------------------------------------------------------------------------
(* The steps that write. *)

\* Every step creates a party, begins a request, reads, or writes.
LEMMA SequentialStepKinds ==
    ASSUME [Next]_vars
    PROVE  \/ UNCHANGED vars
           \/ \E u \in Users, p \in Parties, c \in Currencies : CreateParty(u, p, c)
           \/ \E r \in Reqs : Start(r) \/ Read(r) \/ Write(r)
<1>1. ASSUME NEW r \in Reqs, Step(r) PROVE Read(r) \/ Write(r)
  BY <1>1 DEF Step, MembershipStep, PartyStep, ItemStep, Read, Write
<1> QED BY <1>1 DEF Next

LEMMA CreateKnows ==
    ASSUME IInv, KnowsAll, NEW u \in Users, NEW p \in Parties, NEW c \in Currencies,
           CreateParty(u, p, c)
    PROVE  KnowsAll'
<1>1. StoreTypeOK /\ req' = req /\ party[p].state = "unused" /\ InsertParty(p, u, c)
  BY IInvParts DEF StoreInv, CreateParty
<1> SUFFICES ASSUME NEW r \in Reqs, NEW q \in Request, req[r] = q
             PROVE  Knows(q, q.pc)'
  BY <1>1 DEF KnowsAll
<1>2. q.pc = "idle" \/ Untouched(q.party)
  <2>1. q.pc # "idle" => q.party \in Parties /\ party[q.party].state # "unused"
    BY IInvParts DEF ReqInv
  <2>2. ASSUME NEW k \in Parties, k # p PROVE Untouched(k)
    BY <1>1, <2>2 DEF InsertParty, Untouched, StoreTypeOK
  <2> QED BY <1>1, <2>1, <2>2
<1> QED BY <1>2, KnowsKept DEF KnowsAll

\* Once the file is in place it shows the party as the transaction will find it.
LEMMA SnapshotKnows ==
    ASSUME Alone, NEW r \in Reqs, NEW n, req'[r] = n, n.pc = "archiveTx",
           Knows(n, "archiveWrite"), party' = party, members' = members, item' = item,
           file'[n.party] = [exists |-> TRUE, plan |-> n.plan, listed |-> n.listed]
    PROVE  KnowsAll'
<1>1. /\ Open(n.party)' = Open(n.party)
      /\ Plan(n.party, members[n.party])' = Plan(n.party, members[n.party])
      /\ ItemsOf(n.party)' = ItemsOf(n.party)
  BY DEF Open, Live, Archived, Plan, Unpaid, ItemsOf
<1>2. Knows(n, "archiveTx")'
  BY <1>1 DEF Knows, OnlyLive, OfMember, PlanRead, ItemsRead, Adding, OfItem, OfInitiator, Leaving
<1> QED BY <1>2, AloneBecomes

\* Every write but that of the snapshot is the last statement of its request.
LEMMA WriteKnows ==
    ASSUME Alone, IInv, KnowsAll, NEW r \in Reqs, Write(r)
    PROVE  KnowsAll'
<1>1. CASE ArchiveWrite(r)
  <2> DEFINE n == [req[r] EXCEPT !.pc = "archiveTx"]
  <2>1. /\ req'[r] = n /\ req[r].pc = "archiveWrite" /\ req[r] \in Request
        /\ req[r].party \in Parties
        /\ WriteFile(req[r].party, [exists |-> TRUE, plan |-> req[r].plan,
                                    listed |-> req[r].listed])
    BY <1>1, IInvParts, WriterKnows DEF ArchiveWrite, At, Goto
  <2>2. n.pc = "archiveTx" /\ SameLocals(n, req[r])
    BY <2>1, GotoKeeps
  <2>3. Knows(req[r], "archiveWrite")
    BY <2>1, KnowsNow
  <2> HIDE DEF n
  <2>4. Knows(n, "archiveWrite")
    BY <2>2, <2>3, LocalsKnow
  <2>5. /\ file'[n.party] = [exists |-> TRUE, plan |-> n.plan, listed |-> n.listed]
        /\ party' = party /\ members' = members /\ item' = item
    BY <2>1, <2>2, IInvParts DEF SameLocals, WriteFile, StoreInv, StoreTypeOK
  <2> QED BY <2>1, <2>2, <2>4, <2>5, SnapshotKnows DEF SameLocals
<1>2. CASE ~ArchiveWrite(r)
  <2>1. Finish(r)
    BY <1>2 DEF Write, JoinInsert, ForceInsert, LeaveDelete, RemoveDelete, DeleteTx, UpdateWrite,
          ArchiveWriteFails, ArchiveTx, AddTx, StatusUpdate, ItemDelete, ClearUpdate
  <2> QED BY <2>1, FinishKnows
<1> QED BY <1>1, <1>2

-----------------------------------------------------------------------------
(* Every write leaves the tables tidy. *)

LEMMA CreateTidy ==
    ASSUME IInv, TidyRows, NEW u \in Users, NEW p \in Parties, NEW c \in Currencies,
           party[p].state = "unused", InsertParty(p, u, c)
    PROVE  TidyRows'
<1>1. StoreTypeOK /\ ItemsFormed
  BY IInvParts DEF StoreInv
<1>2. \A i \in ItemIds : item[i].state = "live" => item[i].party # p
  BY <1>1 DEF TidyRows, Live
<1>3. \A k \in Parties : k # p => party'[k] = party[k] /\ members'[k] = members[k]
  BY <1>1 DEF InsertParty, StoreTypeOK
<1>4. party'[p].state = "live" /\ party'[p].archived = None /\ item' = item
  BY <1>1 DEF InsertParty, StoreTypeOK
<1>5. (\A k \in Parties : /\ Archived(k) => Live(k)
                          /\ party[k].state = "gone" => members[k] = {})'
  BY <1>3, <1>4 DEF TidyRows, Archived, Live
<1>6. (\A i \in ItemIds : item[i].state = "live" =>
          /\ Live(item[i].party)
          /\ ~item[i].paid => item[i].initiator \in members[item[i].party])'
  BY <1>1, <1>2, <1>3, <1>4 DEF TidyRows, Archived, Live, ItemsFormed
<1> QED BY <1>5, <1>6 DEF TidyRows

\* The tables stay tidy when the memberships that go are nobody's claim.
LEMMA MembersTidy ==
    ASSUME IInv, TidyRows, NEW p \in Parties, NEW u \in Users, Live(p),
           \/ InsertMember(p, u)
           \/ DeleteMember(p, u) /\ \A i \in Unpaid(p) : item[i].initiator # u
    PROVE  TidyRows'
<1>1. StoreTypeOK
  BY IInvParts DEF StoreInv
<1>2. /\ party' = party /\ item' = item
      /\ \A k \in Parties : k # p => members'[k] = members[k]
      /\ \A i \in ItemIds : item[i].state = "live" /\ ~item[i].paid /\ item[i].party = p
            /\ item[i].initiator \in members[p] => item[i].initiator \in members'[p]
  BY <1>1 DEF InsertMember, DeleteMember, StoreTypeOK, Unpaid, ItemsOf
<1>3. (\A k \in Parties : /\ Archived(k) => Live(k)
                          /\ party[k].state = "gone" => members[k] = {})'
  BY <1>2 DEF TidyRows, Archived, Live
<1>4. (\A i \in ItemIds : item[i].state = "live" =>
          /\ Live(item[i].party)
          /\ ~item[i].paid => item[i].initiator \in members[item[i].party])'
  BY <1>2, IInvParts DEF TidyRows, Archived, Live, StoreInv, ItemsFormed
<1> QED BY <1>3, <1>4 DEF TidyRows

LEMMA DeleteTidy ==
    ASSUME IInv, TidyRows, NEW p \in Parties, Open(p), DeleteRows(p)
    PROVE  TidyRows'
<1>1. StoreTypeOK /\ ItemsFormed
  BY IInvParts DEF StoreInv
<1>2. \A k \in Parties : k # p => party'[k] = party[k] /\ members'[k] = members[k]
  BY <1>1 DEF DeleteRows, StoreTypeOK
<1>3. members'[p] = {} /\ party'[p].archived = None
  BY <1>1 DEF DeleteRows, StoreTypeOK, PartyRow, Open, Archived
<1>4. \A i \in ItemIds : item'[i].state = "live" => item'[i] = item[i] /\ item[i].party # p
  BY <1>1 DEF DeleteRows, ItemsOf, NoItem
<1>5. (\A k \in Parties : /\ Archived(k) => Live(k)
                          /\ party[k].state = "gone" => members[k] = {})'
  BY <1>2, <1>3 DEF TidyRows, Archived, Live
<1>6. (\A i \in ItemIds : item[i].state = "live" =>
          /\ Live(item[i].party)
          /\ ~item[i].paid => item[i].initiator \in members[item[i].party])'
  BY <1>1, <1>2, <1>4 DEF TidyRows, Archived, Live, ItemsFormed
<1> QED BY <1>5, <1>6 DEF TidyRows

\* The tables stay tidy when no party changes but in its base currency, and
\* items change in ways that owe nothing to a party that is not open.
LEMMA ItemsTidy ==
    ASSUME IInv, TidyRows, members' = members,
           \A p \in Parties : /\ party'[p].state = party[p].state
                              /\ party'[p].archived = party[p].archived,
           \A i \in ItemIds : item'[i].state = "live" =>
              /\ item'[i].party \in Parties
              /\ Live(item'[i].party)
              /\ ~item'[i].paid => item'[i].initiator \in members[item'[i].party]
    PROVE  TidyRows'
BY DEF TidyRows, Archived, Live

LEMMA AddTidy ==
    ASSUME IInv, TidyRows, NEW p \in Parties, NEW u \in members[p], NEW payers \in SUBSET Users,
           NEW c, Open(p), InsertItems(p, u, payers, c)
    PROVE  TidyRows'
<1>1. \A i \in ItemIds : \/ item'[i] = item[i]
                         \/ item'[i].party = p /\ item'[i].initiator = u
  <2>1. PICK id \in [payers -> {i \in ItemIds : item[i].state = "unused"}] :
          item' = [i \in ItemIds |->
                    IF {v \in payers : id[v] = i} = {} THEN item[i]
                    ELSE [state |-> "live", party |-> p, initiator |-> u, currency |-> c,
                          payer |-> CHOOSE v \in payers : id[v] = i,
                          paid  |-> u \in {v \in payers : id[v] = i}]]
    BY DEF InsertItems
  <2> TAKE i \in ItemIds
  <2>2. CASE {v \in payers : id[v] = i} = {}
    BY <2>1, <2>2
  <2>3. CASE {v \in payers : id[v] = i} # {}
    BY <2>1, <2>3
  <2> QED BY <2>2, <2>3
<1>2. party' = party /\ members' = members
  BY DEF InsertItems
<1> QED BY <1>1, <1>2, ItemsTidy, IInvParts DEF TidyRows, StoreInv, ItemsFormed, Open

LEMMA StatusTidy ==
    ASSUME IInv, TidyRows, NEW i \in ItemIds, NEW b \in BOOLEAN, SetPaid(i, b),
           item[i].state = "live", item[i].initiator \in members[item[i].party]
    PROVE  TidyRows'
<1>1. /\ item' = [item EXCEPT ![i].paid = b] /\ party' = party /\ members' = members
      /\ item \in [ItemIds -> ItemRow]
  BY IInvParts DEF SetPaid, StoreInv, StoreTypeOK
<1>2. /\ item'[i].party = item[i].party /\ item'[i].initiator = item[i].initiator
      /\ \A k \in ItemIds : k # i => item'[k] = item[k]
  BY <1>1 DEF ItemRow
<1> QED BY <1>1, <1>2, ItemsTidy, IInvParts DEF TidyRows, StoreInv, ItemsFormed

LEMMA DeleteItemTidy ==
    ASSUME IInv, TidyRows, NEW i \in ItemIds, DeleteItemRow(i)
    PROVE  TidyRows'
<1>1. /\ item'[i].state # "live" /\ party' = party /\ members' = members
      /\ \A k \in ItemIds : k # i => item'[k] = item[k]
  BY IInvParts DEF DeleteItemRow, NoItem, StoreInv, StoreTypeOK
<1> QED BY <1>1, ItemsTidy, IInvParts DEF TidyRows, StoreInv, ItemsFormed

\* After UPDATE ... SET paid = 1 a party has no open debt, and others keep theirs.
LEMMA AllPaidPaid ==
    ASSUME IInv, NEW p \in Parties, NEW i \in ItemIds, ~AllPaid(p)[i].paid,
           item[i].state = "live"
    PROVE  ~item[i].paid /\ item[i].party # p
<1>1. item[i] \in ItemRow
  BY IInvParts DEF StoreInv, StoreTypeOK
<1>2. [item[i] EXCEPT !.paid = TRUE].paid = TRUE
  BY <1>1 DEF ItemRow
<1>3. i \notin Unpaid(p)
  BY <1>2 DEF AllPaid
<1>4. AllPaid(p)[i] = item[i]
  BY <1>3 DEF AllPaid
<1> QED BY <1>3, <1>4 DEF Unpaid, ItemsOf

LEMMA ClearTidy ==
    ASSUME IInv, TidyRows, NEW p \in Parties, SettleAll(p)
    PROVE  TidyRows'
<1>1. item' = AllPaid(p) /\ party' = party /\ members' = members /\ StoreInv
  BY IInvParts DEF SettleAll
<1> QED BY <1>1, AllPaidRows, AllPaidPaid, ItemsTidy DEF TidyRows, StoreInv, ItemsFormed

LEMMA ArchiveTidy ==
    ASSUME IInv, TidyRows, NEW p \in Parties, NEW r \in Reqs, Open(p), ArchiveRows(p, r)
    PROVE  TidyRows'
<1>1. item' = AllPaid(p) /\ members' = members /\ StoreInv
  BY IInvParts DEF ArchiveRows
<1>2. /\ \A k \in Parties : party'[k].state = party[k].state
      /\ \A k \in Parties : k # p => party'[k] = party[k]
  BY <1>1 DEF ArchiveRows, StoreInv, StoreTypeOK, PartyRow
<1>3. (\A k \in Parties : /\ Archived(k) => Live(k)
                          /\ party[k].state = "gone" => members[k] = {})'
  BY <1>1, <1>2 DEF TidyRows, Archived, Live, Open
<1>4. ASSUME NEW i \in ItemIds, item'[i].state = "live"
      PROVE  /\ party'[item'[i].party].state = "live"
             /\ ~item'[i].paid => item'[i].initiator \in members'[item'[i].party]
  <2>1. /\ item[i].state = "live" /\ item'[i].party = item[i].party
        /\ item'[i].initiator = item[i].initiator
        /\ item[i].party \in Parties
        /\ ~item'[i].paid => ~item[i].paid /\ item[i].party # p
    BY <1>1, <1>4, AllPaidRows, AllPaidPaid DEF StoreInv, ItemsFormed
  <2> QED BY <1>1, <1>2, <2>1 DEF TidyRows, Archived, Live
<1>5. (\A i \in ItemIds : item[i].state = "live" =>
          /\ Live(item[i].party)
          /\ ~item[i].paid => item[i].initiator \in members[item[i].party])'
  BY <1>4 DEF Live, Archived
<1> QED BY <1>3, <1>5 DEF TidyRows

-----------------------------------------------------------------------------
(* Every write is a whole endpoint. *)

\* Ledger over the tables and files as they are.
Tables == INSTANCE Ledger

\* A snapshot of a party that is still open.
Exports(p) == Open(p) /\ \E content \in Snapshot : WriteFile(p, content)

\* The transaction of archiveParty, with the snapshot in place.
Archives(p, r) ==
    /\ Open(p)
    /\ ArchiveRows(p, r)
    /\ UNCHANGED file
    /\ file[p] = [exists |-> TRUE, plan |-> Plan(p, members[p]), listed |-> ItemsOf(p)]

MembershipChange(p) ==
    \E u \in Users : Tables!Join(p, u) \/ Tables!Leave(p, u) \/ Tables!RemoveMember(p, u)

PartyChange(p) ==
    \/ Tables!DeleteParty(p)
    \/ \E c \in Currencies : Tables!UpdateParty(p, c)

ItemChange(p) ==
    \/ \E u \in Users, payers \in SUBSET Users : Tables!AddItem(p, u, payers)
    \/ \E i \in ItemIds : /\ item[i].party = p
                          /\ \/ \E b \in BOOLEAN : Tables!UpdateItemStatus(i, b)
                             \/ Tables!DeleteItem(i)
    \/ Tables!ClearBestPay(p)

\* The write of a request that could not read the party.
UnreadChange(r) ==
    /\ At(r, "statusUpdate") /\ req[r].unread /\ Finishes(r)
    /\ req[r].item \in ItemIds /\ req[r].paid \in BOOLEAN
    /\ Tables!UpdateItemStatusUnread(req[r].item, req[r].paid)

LEMMA MembershipWrite ==
    ASSUME IInv, KnowsAll, NEW r \in Reqs,
           JoinInsert(r) \/ ForceInsert(r) \/ LeaveDelete(r) \/ RemoveDelete(r)
    PROVE  MembershipChange(req[r].party)
<1>1. /\ ReqInv(req[r], party, item) /\ Knows(req[r], req[r].pc)
      /\ req[r].party \in Parties
  BY WriterKnows, KnowsNow DEF Write
<1>2. CASE JoinInsert(r)
  <2>1. req[r].user \in Users /\ Open(req[r].party) /\ InsertMember(req[r].party, req[r].user)
    BY <1>1, <1>2 DEF JoinInsert, At, ReqInv, Knows, OnlyLive, Leaving
  <2>2. Tables!Join(req[r].party, req[r].user)
    BY <2>1 DEF Tables!Join, Tables!Open, Tables!Live, Tables!Archived, Tables!InsertMember,
                Open, Live, Archived, InsertMember
  <2> QED BY <2>1, <2>2 DEF MembershipChange
<1>3. CASE ForceInsert(r)
  <2>1. req[r].who \in Users /\ Open(req[r].party) /\ InsertMember(req[r].party, req[r].who)
    BY <1>1, <1>3 DEF ForceInsert, At, ReqInv, Knows, OnlyLive, Leaving
  <2>2. Tables!Join(req[r].party, req[r].who)
    BY <2>1 DEF Tables!Join, Tables!Open, Tables!Live, Tables!Archived, Tables!InsertMember,
                Open, Live, Archived, InsertMember
  <2> QED BY <2>1, <2>2 DEF MembershipChange
<1>4. CASE LeaveDelete(r)
  <2>1. /\ req[r].user \in Users /\ Live(req[r].party) /\ Unpaid(req[r].party) = {}
        /\ req[r].user \in members[req[r].party] /\ req[r].user # party[req[r].party].owner
        /\ DeleteMember(req[r].party, req[r].user)
    BY <1>1, <1>4 DEF LeaveDelete, At, ReqInv, Knows, OnlyLive, Leaving, OfMember
  <2>2. Tables!Leave(req[r].party, req[r].user)
    BY <2>1 DEF Tables!Leave, Tables!Live, Tables!Unpaid, Tables!ItemsOf, Tables!DeleteMember,
                Live, Unpaid, ItemsOf, DeleteMember
  <2> QED BY <2>1, <2>2 DEF MembershipChange
<1>5. CASE RemoveDelete(r)
  <2>1. /\ req[r].who \in Users /\ Open(req[r].party)
        /\ Related(req[r].party, req[r].who) = {}
        /\ req[r].who \in members[req[r].party] /\ req[r].who # party[req[r].party].owner
        /\ DeleteMember(req[r].party, req[r].who)
    BY <1>1, <1>5 DEF RemoveDelete, At, ReqInv, Knows, OnlyLive, Leaving, Removing
  <2>2. Tables!RemoveMember(req[r].party, req[r].who)
    BY <2>1 DEF Tables!RemoveMember, Tables!Open, Tables!Live, Tables!Archived, Tables!Related,
                Tables!ItemsOf, Tables!DeleteMember, Open, Live, Archived, Related, ItemsOf,
                DeleteMember
  <2> QED BY <2>1, <2>2 DEF MembershipChange
<1> QED BY <1>2, <1>3, <1>4, <1>5

LEMMA PartyWrite ==
    ASSUME IInv, KnowsAll, NEW r \in Reqs, DeleteTx(r) \/ UpdateWrite(r)
    PROVE  PartyChange(req[r].party)
<1>1. /\ Knows(req[r], req[r].pc) /\ req[r].party \in Parties
  BY WriterKnows, KnowsNow DEF Write
<1>2. CASE DeleteTx(r)
  <2>1. Open(req[r].party) /\ Unpaid(req[r].party) = {} /\ DeleteRows(req[r].party)
    BY <1>1, <1>2 DEF DeleteTx, At, Knows, OnlyLive, Leaving
  <2> QED BY <2>1 DEF PartyChange, Tables!DeleteParty, Tables!Open, Tables!Live, Tables!Archived,
          Tables!Unpaid, Tables!ItemsOf, Tables!DeleteRows, Tables!NoItem, Open, Live, Archived,
          Unpaid, ItemsOf, DeleteRows, NoItem
<1>3. CASE UpdateWrite(r)
  <2>1. /\ req[r].currency \in Currencies /\ Open(req[r].party)
        /\ UpdateBase(req[r].party, req[r].currency)
    BY <1>1, <1>3 DEF UpdateWrite, At, Knows, OnlyLive, Leaving
  <2> QED BY <2>1 DEF PartyChange, Tables!UpdateParty, Tables!Open, Tables!Live, Tables!Archived,
          Tables!UpdateBase, Open, Live, Archived, UpdateBase
<1> QED BY <1>2, <1>3

LEMMA ItemWrite ==
    ASSUME IInv, KnowsAll, NEW r \in Reqs,
           AddTx(r) \/ StatusUpdate(r) \/ ItemDelete(r) \/ ClearUpdate(r)
    PROVE  ItemChange(req[r].party) \/ UnreadChange(r)
<1>1. /\ ReqInv(req[r], party, item) /\ Knows(req[r], req[r].pc)
      /\ req[r].party \in Parties /\ req[r] \in Request
  BY WriterKnows, KnowsNow, IInvParts DEF Write
<1>2. CASE AddTx(r)
  <2>1. /\ Open(req[r].party) /\ req[r].user \in Users
        /\ req[r].payers # {} /\ req[r].payers \in SUBSET Users
        /\ req[r].payers \cup {req[r].user} \subseteq members[req[r].party]
        /\ InsertItems(req[r].party, req[r].user, req[r].payers, party[req[r].party].base)
    BY <1>1, <1>2 DEF AddTx, At, ReqInv, Knows, OnlyLive, Leaving, Adding, OfMember, Request
  <2>2. Tables!AddItem(req[r].party, req[r].user, req[r].payers)
    BY <2>1 DEF Tables!AddItem, Tables!Open, Tables!Live, Tables!Archived, Tables!InsertItems,
                Open, Live, Archived, InsertItems
  <2> QED BY <2>1, <2>2 DEF ItemChange
<1>3. CASE StatusUpdate(r)
  <2>1. /\ req[r].item \in ItemIds /\ req[r].paid \in BOOLEAN
        /\ item[req[r].item].state = "live" /\ item[req[r].item].party = req[r].party
        /\ item[req[r].item].initiator \in members[req[r].party]
        /\ req[r].unread \/ Open(req[r].party)
        /\ SetPaid(req[r].item, req[r].paid)
    BY <1>1, <1>3 DEF StatusUpdate, At, ReqInv, Knows, OnlyLive, Leaving, OfMember, OfItem,
                      OfInitiator, Request
  <2>2. CASE Open(req[r].party)
    <3>1. Tables!UpdateItemStatus(req[r].item, req[r].paid)
      BY <2>1, <2>2 DEF Tables!UpdateItemStatus, Tables!Open, Tables!Live, Tables!Archived,
                        Tables!SetPaid, Open, Live, Archived, SetPaid
    <3> QED BY <2>1, <3>1 DEF ItemChange
  <2>3. CASE req[r].unread
    <3>1. Tables!UpdateItemStatusUnread(req[r].item, req[r].paid)
      BY <2>1 DEF Tables!UpdateItemStatusUnread, Tables!SetPaid, SetPaid
    <3>2. Finishes(r) /\ At(r, "statusUpdate")
      BY <1>3, IInvParts DEF StatusUpdate, Finish, Finishes, At, Idle
    <3> QED BY <2>1, <2>3, <3>1, <3>2 DEF UnreadChange
  <2> QED BY <2>1, <2>2, <2>3
<1>4. CASE ItemDelete(r)
  <2>1. /\ req[r].item \in ItemIds
        /\ item[req[r].item].state = "live" /\ item[req[r].item].party = req[r].party
        /\ Open(req[r].party) /\ DeleteItemRow(req[r].item)
    BY <1>1, <1>4 DEF ItemDelete, At, ReqInv, Knows, OnlyLive, Leaving, OfItem, OfInitiator
  <2>2. Tables!DeleteItem(req[r].item)
    BY <2>1 DEF Tables!DeleteItem, Tables!Open, Tables!Live, Tables!Archived,
                Tables!DeleteItemRow, Tables!NoItem, Open, Live, Archived, DeleteItemRow, NoItem
  <2> QED BY <2>1, <2>2 DEF ItemChange
<1>5. CASE ClearUpdate(r)
  <2>1. Open(req[r].party) /\ SettleAll(req[r].party)
    BY <1>1, <1>5 DEF ClearUpdate, At, Knows, OnlyLive, Leaving
  <2> QED BY <2>1 DEF ItemChange, Tables!ClearBestPay, Tables!Open, Tables!Live, Tables!Archived,
          Tables!SettleAll, Tables!AllPaid, Tables!Unpaid, Tables!ItemsOf, Open, Live, Archived,
          SettleAll, AllPaid, Unpaid, ItemsOf
<1> QED BY <1>2, <1>3, <1>4, <1>5

LEMMA ArchiveStep ==
    ASSUME IInv, KnowsAll, NEW r \in Reqs, ArchiveWrite(r) \/ ArchiveWriteFails(r) \/ ArchiveTx(r)
    PROVE  Exports(req[r].party) \/ Archives(req[r].party, r)
<1>1. /\ Knows(req[r], req[r].pc) /\ req[r].party \in Parties /\ req[r] \in Request
  BY WriterKnows, KnowsNow, IInvParts DEF Write
<1>2. CASE ArchiveWrite(r)
  <2> DEFINE content == [exists |-> TRUE, plan |-> req[r].plan, listed |-> req[r].listed]
  <2>1. content \in Snapshot
    BY <1>1 DEF Request, Snapshot
  <2>2. Open(req[r].party) /\ WriteFile(req[r].party, content)
    BY <1>1, <1>2 DEF ArchiveWrite, At, Knows, OnlyLive, Leaving
  <2> QED BY <2>1, <2>2 DEF Exports
<1>3. CASE ArchiveWriteFails(r)
  <2>1. NoFile \in Snapshot
    BY DEF NoFile, Snapshot
  <2> QED BY <1>1, <1>3, <2>1 DEF ArchiveWriteFails, At, Knows, OnlyLive, Leaving, Exports
<1>4. CASE ArchiveTx(r)
  BY <1>1, <1>4 DEF ArchiveTx, At, Knows, OnlyLive, Leaving, PlanRead, ItemsRead, Archives
<1> QED BY <1>2, <1>3, <1>4

\* The request reads what it needs in several statements, and its write is
\* guarded and done as Ledger does it at once.
LEMMA WriteIsAtomic ==
    ASSUME IInv, KnowsAll, NEW r \in Reqs, Write(r)
    PROVE  \E p \in Parties :
              \/ MembershipChange(p) \/ PartyChange(p) \/ ItemChange(p)
              \/ Exports(p) \/ Archives(p, r) \/ UnreadChange(r)
BY WriterKnows, MembershipWrite, PartyWrite, ItemWrite, ArchiveStep DEF Write

LEMMA MembershipTidy ==
    ASSUME IInv, TidyRows, NEW p \in Parties, MembershipChange(p)
    PROVE  TidyRows'
<1>1. PICK u \in Users : Tables!Join(p, u) \/ Tables!Leave(p, u) \/ Tables!RemoveMember(p, u)
  BY DEF MembershipChange
<1>2. CASE Tables!Join(p, u)
  <2>1. Live(p) /\ InsertMember(p, u)
    BY <1>2 DEF Tables!Join, Tables!Open, Tables!Live, Tables!InsertMember, Live, InsertMember
  <2> QED BY <2>1, MembersTidy
<1>3. CASE Tables!Leave(p, u)
  <2>1. Live(p) /\ DeleteMember(p, u) /\ Unpaid(p) = {}
    BY <1>3 DEF Tables!Leave, Tables!Live, Tables!DeleteMember, Tables!Unpaid, Tables!ItemsOf,
                Live, DeleteMember, Unpaid, ItemsOf
  <2> QED BY <2>1, MembersTidy
<1>4. CASE Tables!RemoveMember(p, u)
  <2>1. Live(p) /\ DeleteMember(p, u) /\ Related(p, u) = {}
    BY <1>4 DEF Tables!RemoveMember, Tables!Open, Tables!Live, Tables!DeleteMember,
                Tables!Related, Tables!ItemsOf, Live, DeleteMember, Related, ItemsOf
  <2>2. \A i \in Unpaid(p) : item[i].initiator # u
    BY <2>1 DEF Related, Unpaid
  <2> QED BY <2>1, <2>2, MembersTidy
<1> QED BY <1>1, <1>2, <1>3, <1>4

LEMMA PartyTidy ==
    ASSUME IInv, TidyRows, NEW p \in Parties, PartyChange(p)
    PROVE  TidyRows'
<1>1. CASE Tables!DeleteParty(p)
  <2>1. Open(p) /\ DeleteRows(p)
    BY <1>1 DEF Tables!DeleteParty, Tables!Open, Tables!Live, Tables!Archived, Tables!DeleteRows,
                Tables!ItemsOf, Tables!NoItem, Open, Live, Archived, DeleteRows, ItemsOf, NoItem
  <2> QED BY <2>1, DeleteTidy
<1>2. ASSUME NEW c \in Currencies, Tables!UpdateParty(p, c) PROVE TidyRows'
  <2>1. /\ party' = [party EXCEPT ![p].base = c] /\ item' = item /\ members' = members
        /\ StoreTypeOK /\ ItemsFormed
    BY <1>2, IInvParts DEF Tables!UpdateParty, Tables!Open, Tables!Live, Tables!UpdateBase, StoreInv
  <2>2. \A k \in Parties : /\ party'[k].state = party[k].state
                           /\ party'[k].archived = party[k].archived
    BY <2>1 DEF StoreTypeOK, PartyRow
  <2> QED BY <2>1, <2>2, ItemsTidy DEF TidyRows, ItemsFormed
<1> QED BY <1>1, <1>2 DEF PartyChange

LEMMA ItemTidy ==
    ASSUME IInv, TidyRows, NEW p \in Parties, ItemChange(p)
    PROVE  TidyRows'
<1>1. ASSUME NEW u \in Users, NEW payers \in SUBSET Users, Tables!AddItem(p, u, payers)
      PROVE  TidyRows'
  <2>1. Open(p) /\ u \in members[p] /\ InsertItems(p, u, payers, party[p].base)
    BY <1>1 DEF Tables!AddItem, Tables!Open, Tables!Live, Tables!Archived, Tables!InsertItems,
                Open, Live, Archived, InsertItems
  <2> QED BY <2>1, AddTidy
<1>2. ASSUME NEW i \in ItemIds, NEW b \in BOOLEAN, Tables!UpdateItemStatus(i, b)
      PROVE  TidyRows'
  <2>1. /\ item[i].state = "live" /\ item[i].initiator \in members[item[i].party]
        /\ SetPaid(i, b)
    BY <1>2 DEF Tables!UpdateItemStatus, Tables!SetPaid, SetPaid
  <2> QED BY <2>1, StatusTidy
<1>3. ASSUME NEW i \in ItemIds, Tables!DeleteItem(i) PROVE TidyRows'
  <2>1. DeleteItemRow(i)
    BY <1>3 DEF Tables!DeleteItem, Tables!DeleteItemRow, Tables!NoItem, DeleteItemRow, NoItem
  <2> QED BY <2>1, DeleteItemTidy
<1>4. CASE Tables!ClearBestPay(p)
  <2>1. SettleAll(p)
    BY <1>4 DEF Tables!ClearBestPay, Tables!SettleAll, Tables!AllPaid, Tables!Unpaid,
                Tables!ItemsOf, SettleAll, AllPaid, Unpaid, ItemsOf
  <2> QED BY <2>1, ClearTidy
<1> QED BY <1>1, <1>2, <1>3, <1>4 DEF ItemChange

LEMMA UnreadTidy ==
    ASSUME IInv, TidyRows, NEW r \in Reqs, UnreadChange(r)
    PROVE  TidyRows'
BY StatusTidy DEF UnreadChange, Tables!UpdateItemStatusUnread, Tables!SetPaid, SetPaid

LEMMA TidyNext ==
    ASSUME IInv, AloneInv, [Next]_vars
    PROVE  TidyRows'
<1>1. CASE UNCHANGED storeVars
  BY <1>1 DEF storeVars, AloneInv, TidyRows, Archived, Live
<1>2. ASSUME NEW u \in Users, NEW p \in Parties, NEW c \in Currencies, CreateParty(u, p, c)
      PROVE  TidyRows'
  BY <1>2, CreateTidy DEF CreateParty, AloneInv
<1>3. ASSUME NEW r \in Reqs, Write(r) PROVE TidyRows'
  <2>1. PICK p \in Parties : \/ MembershipChange(p) \/ PartyChange(p) \/ ItemChange(p)
                             \/ Exports(p) \/ Archives(p, r) \/ UnreadChange(r)
    BY <1>3, WriteIsAtomic DEF AloneInv
  <2>2. CASE Exports(p)
    BY <2>2 DEF Exports, WriteFile, AloneInv, TidyRows, Archived, Live
  <2>3. CASE Archives(p, r)
    BY <2>3, ArchiveTidy DEF Archives, AloneInv
  <2> QED BY <2>1, <2>2, <2>3, MembershipTidy, PartyTidy, ItemTidy, UnreadTidy DEF AloneInv
<1> QED BY <1>1, <1>2, <1>3, StepKinds

LEMMA KnowsNext ==
    ASSUME Alone, IInv, AloneInv, [Next]_vars
    PROVE  KnowsAll'
<1>1. CASE UNCHANGED vars
  <2> SUFFICES ASSUME NEW r \in Reqs, NEW q \in Request, req[r] = q
               PROVE  Knows(q, q.pc)'
    BY <1>1 DEF KnowsAll, vars
  <2>1. Untouched(q.party)
    BY <1>1 DEF Untouched, vars
  <2> QED BY <2>1, KnowsKept DEF AloneInv, KnowsAll
<1> QED BY <1>1, CreateKnows, StartKnows, ReadKnowsAll, WriteKnows, SequentialStepKinds DEF AloneInv

LEMMA AloneInvariant ==
    ASSUME Alone
    PROVE  Spec => []AloneInv
<1>1. Init => AloneInv
  <2> SUFFICES ASSUME Init PROVE AloneInv
    OBVIOUS
  <2>1. TidyRows
    BY DEF Init, StoreInit, NoParty, NoItem, TidyRows, Archived, Live
  <2>2. KnowsAll
    <3>1. \A r \in Reqs : req[r].pc = "idle"
      BY DEF Init, Idle
    <3> QED BY <3>1, IdleKnows DEF KnowsAll
  <2> QED BY <2>1, <2>2 DEF AloneInv
<1>2. IInv /\ AloneInv /\ [Next]_vars => AloneInv'
  BY TidyNext, KnowsNext DEF AloneInv
<1> QED BY <1>1, <1>2, Invariant, PTL DEF Spec

-----------------------------------------------------------------------------
(* What the tables show while requests do not overlap. *)

\* Deleting a party leaves no membership and no item behind: no request is let
\* in between the reads and the transaction to add one.
THEOREM DeleteLeavesNoOrphans ==
    ASSUME Alone
    PROVE  Spec => []NoOrphans
<1>1. AloneInv => NoOrphans
  BY DEF AloneInv, TidyRows, NoOrphans, ItemsOf, Live
<1> QED BY <1>1, AloneInvariant, PTL

\* A creditor of an open debt is still in the party: neither leaveParty nor
\* removePartyMember takes such a member out, and only a member files an item.
THEOREM CreditorsStay ==
    ASSUME Alone
    PROVE  Spec => []UnpaidInitiatorIsMember
<1>1. AloneInv => UnpaidInitiatorIsMember
  BY DEF AloneInv, TidyRows, UnpaidInitiatorIsMember, Unpaid, ItemsOf
<1> QED BY <1>1, AloneInvariant, PTL

LEMMA ChangeKeeps ==
    ASSUME IInv, NEW p \in Parties, MembershipChange(p) \/ PartyChange(p) \/ ItemChange(p)
    PROVE  /\ file' = file
           /\ \A k \in Parties :
                 /\ party'[k].archived = party[k].archived
                 /\ Live(k) /\ party'[k].state = "gone" => Unpaid(k) = {}
<1>1. StoreTypeOK
  BY IInvParts DEF StoreInv
<1>2. CASE Tables!DeleteParty(p)
  <2>1. Unpaid(p) = {} /\ file' = file /\ party' = [party EXCEPT ![p].state = "gone"]
    BY <1>2 DEF Tables!DeleteParty, Tables!Unpaid, Tables!ItemsOf, Tables!DeleteRows, Unpaid,
                ItemsOf
  <2>2. \A k \in Parties : /\ party'[k].archived = party[k].archived
                           /\ k # p => party'[k] = party[k]
    BY <1>1, <2>1 DEF StoreTypeOK, PartyRow
  <2> QED BY <2>1, <2>2 DEF Live
<1>3. ASSUME NEW c \in Currencies, Tables!UpdateParty(p, c)
      PROVE  /\ file' = file
             /\ \A k \in Parties : /\ party'[k].archived = party[k].archived
                                   /\ party'[k].state = party[k].state
  <2>1. party' = [party EXCEPT ![p].base = c] /\ file' = file
    BY <1>3 DEF Tables!UpdateParty, Tables!Open, Tables!Live, Tables!UpdateBase
  <2> QED BY <1>1, <2>1 DEF StoreTypeOK, PartyRow
<1>4. MembershipChange(p) => file' = file /\ party' = party
  BY DEF MembershipChange, Tables!Join, Tables!InsertMember, Tables!Leave, Tables!RemoveMember,
         Tables!DeleteMember
<1>5. ItemChange(p) => file' = file /\ party' = party
  BY DEF ItemChange, Tables!AddItem, Tables!InsertItems, Tables!UpdateItemStatus, Tables!SetPaid,
         Tables!DeleteItem, Tables!DeleteItemRow, Tables!ClearBestPay, Tables!SettleAll
<1> QED BY <1>2, <1>3, <1>4, <1>5 DEF PartyChange, Live

LEMMA UnreadKeeps ==
    ASSUME NEW r \in Reqs, UnreadChange(r)
    PROVE  file' = file /\ party' = party
BY DEF UnreadChange, Tables!UpdateItemStatusUnread, Tables!SetPaid

\* Every step, as the tables and files see it.
LEMMA AloneStep ==
    ASSUME IInv, AloneInv, [Next]_vars
    PROVE  \/ UNCHANGED storeVars
           \/ \E u \in Users, p \in Parties, c \in Currencies :
                 party[p].state = "unused" /\ InsertParty(p, u, c)
           \/ \E p \in Parties, r \in Reqs :
                 \/ MembershipChange(p) \/ PartyChange(p) \/ ItemChange(p)
                 \/ Exports(p) \/ Archives(p, r) \/ UnreadChange(r)
BY StepKinds, WriteIsAtomic DEF CreateParty, AloneInv

LEMMA CreateColumns ==
    ASSUME IInv, AloneInv, NEW u \in Users, NEW p \in Parties, NEW c \in Currencies,
           party[p].state = "unused", InsertParty(p, u, c)
    PROVE  /\ file' = file
           /\ \A k \in Parties : /\ party'[k].archived = party[k].archived
                                 /\ party'[k].state = "gone" => party[k].state = "gone"
<1>1. StoreTypeOK /\ party[p].archived = None
  BY IInvParts DEF StoreInv, AloneInv, TidyRows, Archived, Live
<1> QED BY <1>1 DEF InsertParty, StoreTypeOK

LEMMA ArchiveColumns ==
    ASSUME IInv, NEW p \in Parties, NEW r \in Reqs, Archives(p, r)
    PROVE  /\ file' = file
           /\ party'[p].archived = r
           /\ \A k \in Parties : /\ party'[k].state = party[k].state
                                 /\ k # p => party'[k] = party[k]
<1>1. StoreTypeOK /\ party' = [party EXCEPT ![p].archived = r] /\ file' = file
  BY IInvParts DEF StoreInv, Archives, ArchiveRows
<1> QED BY <1>1 DEF StoreTypeOK, PartyRow

\* The debts that archiving declares settled are those of the plan.
LEMMA PlanIsSettled ==
    ASSUME IInv, TidyRows, NEW p \in Parties, item' = AllPaid(p)
    PROVE  Plan(p, members[p]) = {i \in ItemsOf(p) : /\ ~item[i].paid /\ item'[i].paid
                                                     /\ item[i].payer \in members[p]
                                                     /\ item[i].payer # item[i].initiator}
<1>1. \A i \in ItemIds : item[i].state = "live" /\ item[i].party = p /\ ~item[i].paid
        => item'[i].paid
  BY AllPaidPaid
<1>2. \A i \in ItemIds : item[i].state = "live" /\ item[i].party = p /\ ~item[i].paid
        => item[i].initiator \in members[p]
  BY DEF TidyRows
<1> QED BY <1>1, <1>2 DEF Plan, Unpaid, ItemsOf

\* The snapshot of an archived party lists its items as they were, and plans a
\* payment for every debt that archiving declares settled and whose debtor is
\* still a member: the reads that fill it, the rename and the transaction are one
\* request, and nothing comes between them.
THEOREM SnapshotShowsArchive ==
    ASSUME Alone
    PROVE  Spec => SnapshotIsPreArchive
<1> DEFINE PreArchive == \A p \in Parties : ~Archived(p) /\ party'[p].archived # None =>
              /\ file'[p].listed = ItemsOf(p)
              /\ file'[p].plan = {i \in ItemsOf(p) : /\ ~item[i].paid /\ item'[i].paid
                                                    /\ item[i].payer \in members[p]
                                                    /\ item[i].payer # item[i].initiator}
<1>1. ASSUME IInv, AloneInv, [Next]_vars PROVE PreArchive
  <2>1. ASSUME \A k \in Parties : party'[k].archived = party[k].archived PROVE PreArchive
    BY <2>1 DEF Archived
  <2>2. ASSUME NEW p \in Parties, NEW r \in Reqs, Archives(p, r) PROVE PreArchive
    <3>1. /\ file'[p].listed = ItemsOf(p) /\ file'[p].plan = Plan(p, members[p])
          /\ item' = AllPaid(p)
          /\ \A k \in Parties : k # p => party'[k] = party[k]
      BY <2>2, ArchiveColumns DEF Archives, ArchiveRows
    <3>2. Plan(p, members[p]) = {i \in ItemsOf(p) : /\ ~item[i].paid /\ item'[i].paid
                                                    /\ item[i].payer \in members[p]
                                                    /\ item[i].payer # item[i].initiator}
      BY <1>1, <3>1, PlanIsSettled DEF AloneInv
    <3> QED BY <3>1, <3>2 DEF Archived
  <2>3. ASSUME NEW p \in Parties, Exports(p) PROVE PreArchive
    BY <2>1, <2>3 DEF Exports, WriteFile
  <2>4. CASE UNCHANGED storeVars
    BY <2>1, <2>4 DEF storeVars
  <2> QED BY <1>1, <2>1, <2>2, <2>3, <2>4, AloneStep, CreateColumns, ChangeKeeps,
            UnreadKeeps
<1>2. IInv /\ AloneInv /\ [Next]_vars => [PreArchive]_vars
  BY <1>1
<1>3. SnapshotIsPreArchive <=> [][PreArchive]_vars
  BY PTL DEF SnapshotIsPreArchive
<1> QED BY <1>2, <1>3, Invariant, AloneInvariant, PTL DEF Spec

\* The items of party p that are unpaid after a step, but for those that were
\* unpaid in it before, once it was archived.
NewlyUnpaid(p) == Unpaid(p)' \ (IF Archived(p) THEN Unpaid(p) ELSE {})

LEMMA UnpaidShrinks ==
    ASSUME NEW p \in Parties, Archived(p),
           \A i \in ItemIds : item'[i].state = "live" /\ item'[i].party = p => item'[i] = item[i]
    PROVE  NewlyUnpaid(p) = {}
BY DEF NewlyUnpaid, Unpaid, ItemsOf

\* Items are added, and changed by requests that read the party, in open
\* parties only.
LEMMA ItemChangeIsOpen ==
    ASSUME IInv, NEW p \in Parties, ItemChange(p), NEW k \in Parties, Archived(k)'
    PROVE  NewlyUnpaid(k) = {}
<1>1. Archived(k) /\ StoreInv
  BY IInvParts, ChangeKeeps DEF Archived
<1>2. ASSUME NEW u \in Users, NEW payers \in SUBSET Users, Tables!AddItem(p, u, payers)
      PROVE  \A i \in ItemIds : item'[i] = item[i] \/ item'[i].party # k
  <2>1. /\ k # p
        /\ InsertItems(p, u, payers, party[p].base)
    BY <1>1, <1>2 DEF Tables!AddItem, Tables!Open, Tables!Live, Tables!Archived,
                Tables!InsertItems, Archived, InsertItems
  <2>2. PICK id \in [payers -> {i \in ItemIds : item[i].state = "unused"}] :
          item' = [i \in ItemIds |->
                    IF {v \in payers : id[v] = i} = {} THEN item[i]
                    ELSE [state |-> "live", party |-> p, initiator |-> u,
                          currency |-> party[p].base,
                          payer |-> CHOOSE v \in payers : id[v] = i,
                          paid  |-> u \in {v \in payers : id[v] = i}]]
    BY <2>1 DEF InsertItems
  <2> TAKE i \in ItemIds
  <2>3. CASE {v \in payers : id[v] = i} = {}
    BY <2>2, <2>3
  <2>4. CASE {v \in payers : id[v] = i} # {}
    BY <2>1, <2>2, <2>4
  <2> QED BY <2>3, <2>4
<1>3. ASSUME NEW i \in ItemIds, NEW b \in BOOLEAN, Tables!UpdateItemStatus(i, b)
      PROVE  \A j \in ItemIds : item'[j] = item[j] \/ item'[j].party # k
  <2>1. item[i].party # k /\ item' = [item EXCEPT ![i].paid = b] /\ item \in [ItemIds -> ItemRow]
    BY <1>1, <1>3 DEF Tables!UpdateItemStatus, Tables!Open, Tables!Live, Tables!Archived,
                Tables!SetPaid, Archived, StoreInv, StoreTypeOK
  <2> QED BY <2>1 DEF ItemRow
<1>4. ASSUME NEW i \in ItemIds, Tables!DeleteItem(i)
      PROVE  \A j \in ItemIds : item'[j] = item[j] \/ item'[j].state # "live"
  BY <1>1, <1>4 DEF Tables!DeleteItem, Tables!DeleteItemRow, Tables!NoItem, StoreInv, StoreTypeOK
<1>5. ASSUME Tables!ClearBestPay(p)
      PROVE  \A j \in ItemIds : item'[j] = item[j] \/ item'[j].paid
  <2>1. item' = AllPaid(p) /\ item \in [ItemIds -> ItemRow]
    BY <1>1, <1>5 DEF Tables!ClearBestPay, Tables!SettleAll, Tables!AllPaid, Tables!Unpaid,
                Tables!ItemsOf, AllPaid, Unpaid, ItemsOf, StoreInv, StoreTypeOK
  <2> QED BY <2>1 DEF AllPaid, ItemRow
<1> QED BY <1>1, <1>2, <1>3, <1>4, <1>5 DEF ItemChange, NewlyUnpaid, Unpaid, ItemsOf

\* Archiving settles a party, and nothing unsettles it but a status request whose
\* read of the party failed: every other later write looks at archived_at.
THEOREM ArchiveSettles ==
    ASSUME Alone
    PROVE  Spec => ArchivedStaysSettled
<1> DEFINE Unreads(i) == \E r \in Reqs : /\ At(r, "statusUpdate") /\ Finishes(r)
                                       /\ req[r].item = i /\ req[r].unread
           Settled == \A p \in Parties : Archived(p)' =>
                         \A i \in Unpaid(p)' \ (IF Archived(p) THEN Unpaid(p) ELSE {}) :
                            \E r \in Reqs : /\ At(r, "statusUpdate") /\ Finishes(r)
                                            /\ req[r].item = i /\ req[r].unread
<1>1. ASSUME IInv, AloneInv, [Next]_vars PROVE Settled
  <2> SUFFICES ASSUME NEW p \in Parties, Archived(p)'
               PROVE  \A i \in NewlyUnpaid(p) : Unreads(i)
    BY DEF NewlyUnpaid
  <2>1. StoreInv
    BY <1>1, IInvParts
  <2>2. CASE item' = item /\ party'[p].archived = party[p].archived
    BY <2>2, UnpaidShrinks DEF Archived
  <2>3. ASSUME NEW k \in Parties, MembershipChange(k) PROVE NewlyUnpaid(p) = {}
    <3>1. item' = item /\ party' = party
      BY <2>3 DEF MembershipChange, Tables!Join, Tables!InsertMember, Tables!Leave,
             Tables!RemoveMember, Tables!DeleteMember
    <3> QED BY <3>1, UnpaidShrinks DEF Archived
  <2>4. ASSUME NEW k \in Parties, PartyChange(k) PROVE NewlyUnpaid(p) = {}
    <3>1. Archived(p)
      BY <1>1, <2>4, ChangeKeeps DEF Archived
    <3>2. \A i \in ItemIds : item'[i] = item[i] \/ item'[i].state # "live"
      BY <2>1, <2>4 DEF PartyChange, Tables!DeleteParty, Tables!DeleteRows, Tables!NoItem,
             Tables!UpdateParty, Tables!UpdateBase, Tables!ItemsOf, StoreInv, StoreTypeOK
    <3> QED BY <3>1, <3>2, UnpaidShrinks
  <2>5. ASSUME NEW k \in Parties, NEW r \in Reqs, Archives(k, r) PROVE NewlyUnpaid(p) = {}
    <3>1. item' = AllPaid(k) /\ (p # k => Archived(p))
      BY <1>1, <2>5, ArchiveColumns DEF Archives, ArchiveRows, Archived
    <3>2. \A i \in ItemIds : /\ item'[i].party = item[i].party
                             /\ item'[i].state = "live" => item[i].state = "live"
                             /\ item'[i].state = "live" /\ ~item'[i].paid =>
                                   ~item[i].paid /\ item[i].party # k
      BY <1>1, <2>1, <3>1, AllPaidRows, AllPaidPaid
    <3> QED BY <3>1, <3>2 DEF NewlyUnpaid, Unpaid, ItemsOf
  <2>6. ASSUME NEW r \in Reqs, UnreadChange(r) PROVE \A i \in NewlyUnpaid(p) : Unreads(i)
    <3>1. /\ item' = [item EXCEPT ![req[r].item].paid = req[r].paid] /\ Archived(p)
          /\ item \in [ItemIds -> ItemRow]
      BY <2>1, <2>6, UnreadKeeps DEF UnreadChange, Tables!UpdateItemStatusUnread, Tables!SetPaid,
             Archived, StoreInv, StoreTypeOK
    <3>2. \A i \in NewlyUnpaid(p) : i = req[r].item
      BY <3>1 DEF NewlyUnpaid, Unpaid, ItemsOf
    <3> QED BY <2>6, <3>2 DEF UnreadChange
  <2>7. ASSUME NEW u \in Users, NEW k \in Parties, NEW c \in Currencies,
               party[k].state = "unused", InsertParty(k, u, c)
        PROVE  NewlyUnpaid(p) = {}
    <3>1. item' = item /\ Archived(p)
      BY <1>1, <2>7, CreateColumns DEF InsertParty, Archived
    <3> QED BY <3>1, UnpaidShrinks
  <2>8. ASSUME NEW k \in Parties, Exports(k) \/ UNCHANGED storeVars
        PROVE  NewlyUnpaid(p) = {}
    <3>1. item' = item /\ party' = party
      BY <2>8 DEF Exports, WriteFile, storeVars
    <3> QED BY <3>1, UnpaidShrinks DEF Archived
  <2> HIDE DEF Unreads
  <2> QED BY <1>1, <2>3, <2>4, <2>5, <2>6, <2>7, <2>8, AloneStep, ItemChangeIsOpen
<1>2. IInv /\ AloneInv /\ [Next]_vars => [Settled]_vars
  BY <1>1
<1>3. ArchivedStaysSettled <=> [][Settled]_vars
  BY PTL DEF ArchivedStaysSettled
<1> QED BY <1>2, <1>3, Invariant, AloneInvariant, PTL DEF Spec

\* Nothing rewrites the snapshot of an archived party: archiveParty refuses it
\* before it exports, and no request is between its check and its rename.
THEOREM SnapshotIsFinal ==
    ASSUME Alone
    PROVE  Spec => SnapshotStable
<1> DEFINE Stable == \A p \in Parties : Archived(p) => file'[p] = file[p]
<1>1. ASSUME IInv, AloneInv, [Next]_vars PROVE Stable
  <2>1. ASSUME NEW p \in Parties, Exports(p) PROVE Stable
    BY <2>1, IInvParts DEF Exports, WriteFile, Open, StoreInv, StoreTypeOK
  <2>2. CASE UNCHANGED storeVars
    BY <2>2 DEF storeVars
  <2> QED BY <1>1, <2>1, <2>2, AloneStep, CreateColumns, ChangeKeeps, UnreadKeeps,
            ArchiveColumns
<1>2. IInv /\ AloneInv /\ [Next]_vars => [Stable]_vars
  BY <1>1
<1>3. SnapshotStable <=> [][Stable]_vars
  BY PTL DEF SnapshotStable
<1> QED BY <1>2, <1>3, Invariant, AloneInvariant, PTL DEF Spec

\* A party is deleted only when nothing in it is unpaid: the count that
\* deleteParty made still holds when its transaction runs.
THEOREM DeleteIsSettled ==
    ASSUME Alone
    PROVE  Spec => DeletedOnlySettled
<1> DEFINE Settled == \A p \in Parties : Live(p) /\ party'[p].state = "gone" => Unpaid(p) = {}
<1>1. ASSUME IInv, AloneInv, [Next]_vars PROVE Settled
  <2>1. ASSUME NEW p \in Parties, Exports(p) PROVE Settled
    BY <2>1 DEF Exports, WriteFile, Live
  <2>2. CASE UNCHANGED storeVars
    BY <2>2 DEF storeVars, Live
  <2> QED BY <1>1, <2>1, <2>2, AloneStep, CreateColumns, ChangeKeeps, UnreadKeeps, ArchiveColumns
         DEF Live
<1>2. IInv /\ AloneInv /\ [Next]_vars => [Settled]_vars
  BY <1>1
<1>3. DeletedOnlySettled <=> [][Settled]_vars
  BY PTL DEF DeletedOnlySettled
<1> QED BY <1>2, <1>3, Invariant, AloneInvariant, PTL DEF Spec

-----------------------------------------------------------------------------
(* The endpoints are atomic: PartyLedger, one request at a time, implements *)
(* Ledger.                                                                  *)

\* The refinement mapping: a snapshot counts once its party is archived.
Counts == [p \in Parties |-> IF Archived(p) THEN file[p] ELSE NoFile]

LEMMA CountsKept ==
    ASSUME file' = file, \A p \in Parties : party'[p].archived = party[p].archived
    PROVE  Counts' = Counts
BY DEF Counts, Archived

LEMMA MembershipRefines ==
    ASSUME NEW p \in Parties, MembershipChange(p), Counts' = Counts
    PROVE  Atomic!Next
<1>1. PICK u \in Users : Tables!Join(p, u) \/ Tables!Leave(p, u) \/ Tables!RemoveMember(p, u)
  BY DEF MembershipChange
<1>2. Tables!Join(p, u) => Atomic!Join(p, u)
  BY DEF Tables!Join, Tables!Open, Tables!Live, Tables!Archived, Tables!InsertMember,
         Atomic!Join, Atomic!Open, Atomic!Live, Atomic!Archived, Atomic!InsertMember, Counts
<1>3. Tables!Leave(p, u) => Atomic!Leave(p, u)
  BY DEF Tables!Leave, Tables!Live, Tables!Unpaid, Tables!ItemsOf, Tables!DeleteMember,
         Atomic!Leave, Atomic!Live, Atomic!Unpaid, Atomic!ItemsOf, Atomic!DeleteMember, Counts
<1>4. Tables!RemoveMember(p, u) => Atomic!RemoveMember(p, u)
  BY DEF Tables!RemoveMember, Tables!Open, Tables!Live, Tables!Archived, Tables!Related,
         Tables!ItemsOf, Tables!DeleteMember, Atomic!RemoveMember, Atomic!Open, Atomic!Live,
         Atomic!Archived, Atomic!Related, Atomic!ItemsOf, Atomic!DeleteMember, Counts
<1> QED BY <1>1, <1>2, <1>3, <1>4 DEF Atomic!Next

LEMMA PartyRefines ==
    ASSUME NEW p \in Parties, PartyChange(p), Counts' = Counts
    PROVE  Atomic!Next
<1>1. Tables!DeleteParty(p) => Atomic!DeleteParty(p)
  BY DEF Tables!DeleteParty, Tables!Open, Tables!Live, Tables!Archived, Tables!Unpaid,
         Tables!ItemsOf, Tables!DeleteRows, Tables!NoItem, Atomic!DeleteParty, Atomic!Open,
         Atomic!Live, Atomic!Archived, Atomic!Unpaid, Atomic!ItemsOf, Atomic!DeleteRows,
         Atomic!NoItem, Counts
<1>2. \A c \in Currencies : Tables!UpdateParty(p, c) => Atomic!UpdateParty(p, c)
  BY DEF Tables!UpdateParty, Tables!Open, Tables!Live, Tables!Archived, Tables!UpdateBase,
         Atomic!UpdateParty, Atomic!Open, Atomic!Live, Atomic!Archived, Atomic!UpdateBase, Counts
<1> QED BY <1>1, <1>2 DEF Atomic!Next, PartyChange

LEMMA ItemRefines ==
    ASSUME NEW p \in Parties, ItemChange(p), Counts' = Counts
    PROVE  Atomic!Next
<1>1. ASSUME NEW u \in Users, NEW payers \in SUBSET Users, Tables!AddItem(p, u, payers)
      PROVE  Atomic!AddItem(p, u, payers)
  BY <1>1 DEF Tables!AddItem, Tables!Open, Tables!Live, Tables!Archived, Tables!InsertItems,
         Atomic!AddItem, Atomic!Open, Atomic!Live, Atomic!Archived, Atomic!InsertItems, Counts
<1>2. ASSUME NEW i \in ItemIds, NEW b \in BOOLEAN, Tables!UpdateItemStatus(i, b)
      PROVE  Atomic!UpdateItemStatus(i, b)
  BY <1>2 DEF Tables!UpdateItemStatus, Tables!Open, Tables!Live, Tables!Archived, Tables!SetPaid,
         Atomic!UpdateItemStatus, Atomic!Open, Atomic!Live, Atomic!Archived, Atomic!SetPaid, Counts
<1>3. ASSUME NEW i \in ItemIds, Tables!DeleteItem(i) PROVE Atomic!DeleteItem(i)
  BY <1>3 DEF Tables!DeleteItem, Tables!Open, Tables!Live, Tables!Archived, Tables!DeleteItemRow,
         Tables!NoItem, Atomic!DeleteItem, Atomic!Open, Atomic!Live, Atomic!Archived,
         Atomic!DeleteItemRow, Atomic!NoItem, Counts
<1>4. Tables!ClearBestPay(p) => Atomic!ClearBestPay(p)
  BY DEF Tables!ClearBestPay, Tables!Open, Tables!Live, Tables!Archived, Tables!SettleAll,
         Tables!AllPaid, Tables!Unpaid, Tables!ItemsOf, Atomic!ClearBestPay, Atomic!Open,
         Atomic!Live, Atomic!Archived, Atomic!SettleAll, Atomic!AllPaid, Atomic!Unpaid,
         Atomic!ItemsOf, Counts
<1> QED BY <1>1, <1>2, <1>3, <1>4 DEF Atomic!Next, ItemChange

\* The snapshot, written two steps before, appears with the transaction.
LEMMA ArchiveRefines ==
    ASSUME IInv, NEW p \in Parties, NEW r \in Reqs, Archives(p, r)
    PROVE  Atomic!Archive(p, r)
<1>1. /\ Open(p) /\ ArchiveRows(p, r) /\ file' = file
      /\ file[p] = [exists |-> TRUE, plan |-> Plan(p, members[p]), listed |-> ItemsOf(p)]
  BY DEF Archives
<1>2. Counts' = [Counts EXCEPT ![p] = file[p]]
  <2>1. party'[p].archived = r /\ r # None /\ \A k \in Parties : k # p => party'[k] = party[k]
    BY ArchiveColumns, NoneAssumption
  <2>2. \A k \in Parties : Counts'[k] = IF k = p THEN file[p] ELSE Counts[k]
    BY <1>1, <2>1 DEF Counts, Archived
  <2>3. Counts' = [k \in Parties |-> Counts'[k]]
    BY DEF Counts
  <2> QED BY <2>2, <2>3 DEF Counts
<1>3. Counts' = [Counts EXCEPT ![p] = [exists |-> TRUE, listed |-> ItemsOf(p),
                                       plan |-> Plan(p, members[p])]]
  BY <1>1, <1>2
<1> QED BY <1>1, <1>3 DEF Atomic!Archive, Atomic!Open, Atomic!Live, Atomic!Archived,
      Atomic!ArchiveRows, Atomic!AllPaid, Atomic!Unpaid, Atomic!ItemsOf, Atomic!Plan, Open, Live,
      Archived, ArchiveRows, AllPaid, Unpaid, ItemsOf, Plan, Counts

LEMMA StepRefines ==
    ASSUME IInv, AloneInv, [Next]_vars
    PROVE  [Atomic!Next]_(Atomic!storeVars)
<1>1. UNCHANGED <<party, members, item, Counts>> => UNCHANGED Atomic!storeVars
  BY DEF Atomic!storeVars, Counts
<1>2. CASE UNCHANGED storeVars
  <2>1. party' = party /\ members' = members /\ item' = item /\ file' = file
    BY <1>2 DEF storeVars
  <2> QED BY <1>1, <2>1, CountsKept
<1>3. ASSUME NEW u \in Users, NEW p \in Parties, NEW c \in Currencies,
             party[p].state = "unused", InsertParty(p, u, c)
      PROVE  Atomic!Next
  <2>1. Counts' = Counts
    BY <1>3, CreateColumns, CountsKept
  <2>2. Atomic!CreateParty(p, u, c)
    BY <1>3, <2>1 DEF Atomic!CreateParty, Atomic!InsertParty, InsertParty, Counts
  <2> QED BY <2>2 DEF Atomic!Next
<1>4. ASSUME NEW p \in Parties, MembershipChange(p) \/ PartyChange(p) \/ ItemChange(p)
      PROVE  Atomic!Next
  <2>1. Counts' = Counts
    BY <1>4, ChangeKeeps, CountsKept
  <2> QED BY <1>4, <2>1, MembershipRefines, PartyRefines, ItemRefines
<1>5. ASSUME NEW p \in Parties, Exports(p) PROVE UNCHANGED Atomic!storeVars
  <2>1. /\ party' = party /\ members' = members /\ item' = item
        /\ ~Archived(p) /\ \A k \in Parties : k # p => file'[k] = file[k]
    BY <1>5, IInvParts DEF Exports, WriteFile, Open, StoreInv, StoreTypeOK
  <2>2. Counts' = Counts
    BY <2>1 DEF Counts, Archived
  <2> QED BY <1>1, <2>1, <2>2
<1>6. ASSUME NEW p \in Parties, NEW r \in Reqs, Archives(p, r) PROVE Atomic!Next
  BY <1>6, ArchiveRefines DEF Atomic!Next
<1>7. ASSUME NEW r \in Reqs, UnreadChange(r) PROVE Atomic!Next
  <2>1. Counts' = Counts
    BY <1>7, UnreadKeeps, CountsKept
  <2>2. Atomic!UpdateItemStatusUnread(req[r].item, req[r].paid)
    BY <1>7, <2>1 DEF UnreadChange, Tables!UpdateItemStatusUnread, Tables!SetPaid,
         Atomic!UpdateItemStatusUnread, Atomic!SetPaid, Counts
  <2> QED BY <1>7, <2>2 DEF UnreadChange, Atomic!Next
<1> QED BY <1>2, <1>3, <1>4, <1>5, <1>6, <1>7, AloneStep

\* With one request at a time every endpoint of PartyLedger, though it takes up to
\* six steps, is one atomic action of Ledger under that action's guards, and the
\* steps before its write are stutters.  A status request that could not read the
\* party is UpdateItemStatusUnread, the one action of Ledger that does not ask for
\* an open party.
THEOREM EndpointsAreAtomic ==
    ASSUME Alone
    PROVE  Spec => ImplementsLedger
<1>1. Init => Atomic!StoreInit
  <2> SUFFICES ASSUME Init PROVE Atomic!StoreInit
    OBVIOUS
  <2>1. Counts = [p \in Parties |-> NoFile]
    BY DEF Init, StoreInit, NoParty, Archived, Counts
  <2> QED BY <2>1 DEF Init, StoreInit, NoParty, NoItem, NoFile, Atomic!StoreInit, Atomic!NoParty,
          Atomic!NoItem, Atomic!NoFile, Counts
<1>2. IInv /\ AloneInv /\ [Next]_vars => [Atomic!Next]_(Atomic!storeVars)
  BY StepRefines
<1> QED BY <1>1, <1>2, Invariant, AloneInvariant, PTL DEF Spec, ImplementsLedger, Atomic!Spec
=============================================================================
