--------------------------- MODULE PartyLedger ---------------------------
(***************************************************************************)
(* The party and item endpoints (internal/httpapi/party.go, items.go, the  *)
(* force-join of admin.go, and internal/ledger for /v1 and MCP) as they    *)
(* run: every request is a goroutine that issues one SQL statement or      *)
(* transaction after another, and requests interleave between them.        *)
(*                                                                         *)
(* A request slot of Reqs is idle or holds the locals of one request.  Its *)
(* pc names the statement the request issues next.  A check made on the    *)
(* local copy of a row is part of the step that read the row; a request    *)
(* refused there is no step at all, one refused later just finishes.       *)
(*                                                                         *)
(* An operator Action_Mistake is Action with a plausible mistake made in   *)
(* it.  No action uses it; it shows what the properties below would catch. *)
(***************************************************************************)
EXTENDS LedgerStore

CONSTANTS
    Ops,            \* the endpoints the run exercises
    CountMayFail,   \* a SELECT COUNT may fail; the code then sees zero
    ReadMayFail,    \* updateItemStatus's read of the party may fail; it then goes on
    RenameMayFail   \* os.Rename over an existing snapshot may fail

AllOps == {"create", "join", "forceJoin", "leave", "remove", "delete", "archive",
           "update", "add", "status", "deleteItem", "clear"}

ASSUME ParametersAssumption ==
    /\ Ops \subseteq AllOps
    /\ CountMayFail \in BOOLEAN
    /\ ReadMayFail \in BOOLEAN
    /\ RenameMayFail \in BOOLEAN

VARIABLE req          \* the request slots

vars == <<party, members, item, file, req>>

PCs == {"idle", "joinMember", "joinInsert", "forceInsert",
        "leaveMember", "leaveCount", "leaveDelete",
        "removeMember", "removeRelated", "removeDelete",
        "deleteCount", "deleteTx",
        "archiveMembers", "archiveUnpaid", "archiveItems", "archiveWrite", "archiveTx",
        "updateWrite", "addMember", "addPayers", "addTx",
        "statusMember", "statusParty", "statusUpdate",
        "itemParty", "itemDelete", "clearMember", "clearUpdate"}

\* unread is history: the request goes on without having seen the party.
Request == [pc       : PCs,
            user     : Users \cup {None},
            party    : Parties \cup {None},
            who      : Users \cup {None},        \* the member to remove or add
            item     : ItemIds \cup {None},
            paid     : BOOLEAN,                  \* the new payment status
            payers   : SUBSET Users,
            currency : Currencies \cup {None},   \* base currency read or to write
            seen     : SUBSET Users,             \* members read for the settlement
            plan     : SUBSET ItemIds,
            listed   : SUBSET ItemIds,
            unread   : BOOLEAN]

Idle == [pc |-> "idle", user |-> None, party |-> None, who |-> None, item |-> None,
         paid |-> FALSE, payers |-> {}, currency |-> None, seen |-> {}, plan |-> {},
         listed |-> {}, unread |-> FALSE]

TypeOK == StoreTypeOK /\ req \in [Reqs -> Request]

Init == StoreInit /\ req = [r \in Reqs |-> Idle]

Begin(r, op, first) ==
    /\ op \in Ops
    /\ req[r].pc = "idle"
    /\ req' = [req EXCEPT ![r] = first]
    /\ UNCHANGED storeVars

At(r, pc) == req[r].pc = pc
Goto(r, pc) == req' = [req EXCEPT ![r].pc = pc]
Finish(r) == req' = [req EXCEPT ![r] = Idle]

\* The request goes on at pc if the condition it just read holds.
Require(r, condition, pc) ==
    /\ IF condition THEN Goto(r, pc) ELSE Finish(r)
    /\ UNCHANGED storeVars

\* What a request may take a counted set for: Count's error is dropped.
Counted(S) == {S} \cup (IF CountMayFail THEN {{}} ELSE {})

-----------------------------------------------------------------------------
(* party.go: createParty, joinParty; admin.go: adminForceJoinParty *)

CreateParty(u, p, c) ==
    /\ "create" \in Ops
    /\ party[p].state = "unused"
    /\ InsertParty(p, u, c)
    /\ UNCHANGED req

JoinStart(r, u, p) ==
    /\ Open(p)
    /\ Begin(r, "join", [Idle EXCEPT !.pc = "joinMember", !.user = u, !.party = p])

JoinMember(r) ==
    /\ At(r, "joinMember")
    /\ \E ms \in Counted(members[req[r].party]) :
          Require(r, req[r].user \notin ms, "joinInsert")

JoinInsert(r) ==
    /\ At(r, "joinInsert")
    /\ InsertMember(req[r].party, req[r].user)
    /\ Finish(r)

\* An administrator adds user w.
ForceStart(r, w, p) ==
    /\ Open(p)
    /\ Begin(r, "forceJoin", [Idle EXCEPT !.pc = "forceInsert", !.who = w, !.party = p])

\* Takes the administrator for the user to add.
ForceInsert_CallerJoins(r) ==
    /\ At(r, "forceInsert")
    /\ InsertMember(req[r].party, req[r].user)
    /\ Finish(r)

ForceInsert(r) ==
    /\ At(r, "forceInsert")
    /\ InsertMember(req[r].party, req[r].who)
    /\ Finish(r)

-----------------------------------------------------------------------------
(* party.go: leaveParty, removePartyMember, deleteParty, updateParty *)

\* Forgets that the owner cannot leave.
LeaveStart_OwnerToo(r, u, p) ==
    /\ Live(p)
    /\ Begin(r, "leave", [Idle EXCEPT !.pc = "leaveMember", !.user = u, !.party = p])

LeaveStart(r, u, p) ==
    /\ Live(p)
    /\ party[p].owner # u
    /\ Begin(r, "leave", [Idle EXCEPT !.pc = "leaveMember", !.user = u, !.party = p])

LeaveMember(r) ==
    /\ At(r, "leaveMember")
    /\ \E ms \in Counted(members[req[r].party]) : Require(r, req[r].user \in ms, "leaveCount")

\* Looks only at what the leaving member has to pay.
LeaveCount_OwnDebts(r) ==
    /\ At(r, "leaveCount")
    /\ Require(r, {i \in Unpaid(req[r].party) : item[i].payer = req[r].user} = {}, "leaveDelete")

LeaveCount(r) ==
    /\ At(r, "leaveCount")
    /\ \E open \in Counted(Unpaid(req[r].party)) : Require(r, open = {}, "leaveDelete")

LeaveDelete(r) ==
    /\ At(r, "leaveDelete")
    /\ DeleteMember(req[r].party, req[r].user)
    /\ Finish(r)

\* Lets any user remove a member.
RemoveStart_AnyUser(r, u, p, w) ==
    /\ Open(p)
    /\ w # u
    /\ Begin(r, "remove", [Idle EXCEPT !.pc = "removeMember", !.user = u, !.party = p,
                                      !.who = w])

RemoveStart(r, u, p, w) ==
    /\ Open(p)
    /\ party[p].owner = u
    /\ w # u
    /\ Begin(r, "remove", [Idle EXCEPT !.pc = "removeMember", !.user = u, !.party = p,
                                      !.who = w])

RemoveMember(r) ==
    /\ At(r, "removeMember")
    /\ \E ms \in Counted(members[req[r].party]) : Require(r, req[r].who \in ms, "removeRelated")

\* Looks only at the items the member pays.
RemoveRelated_PayerOnly(r) ==
    /\ At(r, "removeRelated")
    /\ Require(r, {i \in ItemsOf(req[r].party) : item[i].payer = req[r].who} = {}, "removeDelete")

RemoveRelated(r) ==
    /\ At(r, "removeRelated")
    /\ \E related \in Counted(Related(req[r].party, req[r].who)) :
          Require(r, related = {}, "removeDelete")

RemoveDelete(r) ==
    /\ At(r, "removeDelete")
    /\ DeleteMember(req[r].party, req[r].who)
    /\ Finish(r)

DeleteStart(r, u, p) ==
    /\ Open(p)
    /\ party[p].owner = u
    /\ Begin(r, "delete", [Idle EXCEPT !.pc = "deleteCount", !.user = u, !.party = p])

\* Refuses only the owner's own open debts.
DeleteCount_OwnDebts(r) ==
    /\ At(r, "deleteCount")
    /\ Require(r, {i \in Unpaid(req[r].party) : item[i].payer = req[r].user} = {}, "deleteTx")

DeleteCount(r) ==
    /\ At(r, "deleteCount")
    /\ \E open \in Counted(Unpaid(req[r].party)) : Require(r, open = {}, "deleteTx")

DeleteTx(r) ==
    /\ At(r, "deleteTx")
    /\ DeleteRows(req[r].party)
    /\ Finish(r)

UpdateStart(r, u, p, c) ==
    /\ Open(p)
    /\ party[p].owner = u
    /\ Begin(r, "update", [Idle EXCEPT !.pc = "updateWrite", !.user = u, !.party = p,
                                      !.currency = c])

UpdateWrite(r) ==
    /\ At(r, "updateWrite")
    /\ UpdateBase(req[r].party, req[r].currency)
    /\ Finish(r)

-----------------------------------------------------------------------------
(* party.go: archiveParty; items.go: partyExport, partySettlement *)

\* Archives an archived party again.
ArchiveStart_Again(r, u, p) ==
    /\ Live(p)
    /\ party[p].owner = u
    /\ Begin(r, "archive", [Idle EXCEPT !.pc = "archiveMembers", !.user = u, !.party = p])

ArchiveStart(r, u, p) ==
    /\ Open(p)
    /\ party[p].owner = u
    /\ Begin(r, "archive", [Idle EXCEPT !.pc = "archiveMembers", !.user = u, !.party = p])

ArchiveMembers(r) ==
    /\ At(r, "archiveMembers")
    /\ req' = [req EXCEPT ![r].pc = "archiveUnpaid", ![r].seen = members[req[r].party]]
    /\ UNCHANGED storeVars

\* Plans payments for items that are paid already.
ArchiveUnpaid_PaidToo(r) ==
    /\ At(r, "archiveUnpaid")
    /\ req' = [req EXCEPT ![r].pc = "archiveItems",
                          ![r].plan = {i \in ItemsOf(req[r].party) : item[i].payer # item[i].initiator}]
    /\ UNCHANGED storeVars

ArchiveUnpaid(r) ==
    /\ At(r, "archiveUnpaid")
    /\ req' = [req EXCEPT ![r].pc = "archiveItems", ![r].plan = Plan(req[r].party, req[r].seen)]
    /\ UNCHANGED storeVars

\* Leaves the file for after the transaction.
ArchiveItems_WriteLater(r) ==
    /\ At(r, "archiveItems")
    /\ Goto(r, "archiveTx")
    /\ UNCHANGED storeVars

ArchiveItems(r) ==
    /\ At(r, "archiveItems")
    /\ req' = [req EXCEPT ![r].pc = "archiveWrite", ![r].listed = ItemsOf(req[r].party)]
    /\ UNCHANGED storeVars

\* writeArchiveSnapshot: the rename puts the new file in place at once.
ArchiveWrite(r) ==
    /\ At(r, "archiveWrite")
    /\ WriteFile(req[r].party, [exists |-> TRUE, plan |-> req[r].plan, listed |-> req[r].listed])
    /\ Goto(r, "archiveTx")

\* The fallback of a failed rename: the old file is removed, then the second
\* rename fails too (or the process dies before it).
ArchiveWriteFails(r) ==
    /\ RenameMayFail
    /\ At(r, "archiveWrite")
    /\ WriteFile(req[r].party, NoFile)
    /\ Finish(r)

\* Trusts the copy of the row read when the request began.
ArchiveTx_NoRecheck(r) ==
    /\ At(r, "archiveTx")
    /\ ArchiveRows(req[r].party, r)
    /\ UNCHANGED file
    /\ Finish(r)

\* The row is locked and looked at again before anything is written.
ArchiveTx(r) ==
    /\ At(r, "archiveTx")
    /\ IF Open(req[r].party) THEN ArchiveRows(req[r].party, r)
                             ELSE UNCHANGED <<party, members, item>>
    /\ UNCHANGED file
    /\ Finish(r)

-----------------------------------------------------------------------------
(* items.go: addItem, updateItemStatus, deleteItem, clearPartyBestPay;     *)
(* ledger.go: CreateItem, UpdateItemPaid                                   *)

AddStart(r, u, p, payers) ==
    /\ Open(p)
    /\ payers # {}
    /\ Begin(r, "add", [Idle EXCEPT !.pc = "addMember", !.user = u, !.party = p,
                                   !.payers = payers, !.currency = party[p].base])

AddMember(r) ==
    /\ At(r, "addMember")
    /\ \E ms \in Counted(members[req[r].party]) : Require(r, req[r].user \in ms, "addPayers")

AddPayers(r) ==
    /\ At(r, "addPayers")
    /\ \E ms \in Counted(members[req[r].party]) : Require(r, req[r].payers \subseteq ms, "addTx")

AddTx(r) ==
    /\ At(r, "addTx")
    /\ InsertItems(req[r].party, req[r].user, req[r].payers, req[r].currency)
    /\ Finish(r)

\* Finds the item whoever entered it.
StatusStart_AnyItem(r, u, i, b) ==
    /\ item[i].state = "live"
    /\ Begin(r, "status", [Idle EXCEPT !.pc = "statusMember", !.user = u, !.item = i,
                                      !.party = item[i].party, !.paid = b])

StatusStart(r, u, i, b) ==
    /\ item[i].state = "live"
    /\ item[i].initiator = u
    /\ Begin(r, "status", [Idle EXCEPT !.pc = "statusMember", !.user = u, !.item = i,
                                      !.party = item[i].party, !.paid = b])

StatusMember(r) ==
    /\ At(r, "statusMember")
    /\ \E ms \in Counted(members[req[r].party]) : Require(r, req[r].user \in ms, "statusParty")

\* Does not look at archived_at.
StatusParty_NoCheck(r) ==
    /\ At(r, "statusParty")
    /\ Goto(r, "statusUpdate")
    /\ UNCHANGED storeVars

\* A party row that is gone does not stop the request.
StatusParty(r) ==
    /\ At(r, "statusParty")
    /\ Require(r, ~(Live(req[r].party) /\ Archived(req[r].party)), "statusUpdate")

\* Nor does any other error of this read.
StatusPartyFails(r) ==
    /\ ReadMayFail
    /\ At(r, "statusParty")
    /\ req' = [req EXCEPT ![r].pc = "statusUpdate", ![r].unread = TRUE]
    /\ UNCHANGED storeVars

StatusUpdate(r) ==
    /\ At(r, "statusUpdate")
    /\ SetPaid(req[r].item, req[r].paid)
    /\ Finish(r)

ItemStart(r, u, i) ==
    /\ item[i].state = "live"
    /\ Begin(r, "deleteItem", [Idle EXCEPT !.pc = "itemParty", !.user = u, !.item = i,
                                          !.party = item[i].party])

ItemParty(r) ==
    /\ At(r, "itemParty")
    /\ Require(r, Open(req[r].party) /\ party[req[r].party].owner = req[r].user, "itemDelete")

ItemDelete(r) ==
    /\ At(r, "itemDelete")
    /\ DeleteItemRow(req[r].item)
    /\ Finish(r)

ClearStart(r, u, p) ==
    /\ Open(p)
    /\ party[p].owner = u
    /\ Begin(r, "clear", [Idle EXCEPT !.pc = "clearMember", !.user = u, !.party = p])

ClearMember(r) ==
    /\ At(r, "clearMember")
    /\ \E ms \in Counted(members[req[r].party]) : Require(r, req[r].user \in ms, "clearUpdate")

ClearUpdate(r) ==
    /\ At(r, "clearUpdate")
    /\ SettleAll(req[r].party)
    /\ Finish(r)

-----------------------------------------------------------------------------
\* A request ends early: a statement whose error is looked at fails, or the
\* server stops.  Transactions roll back.  (The DELETE of removePartyMember
\* fails unseen; what it leaves is the same.)
Abort(r) ==
    /\ ~At(r, "idle")
    /\ Finish(r)
    /\ UNCHANGED storeVars

Start(r) ==
    \/ \E u \in Users, p \in Parties :
          \/ JoinStart(r, u, p)
          \/ ForceStart(r, u, p)
          \/ LeaveStart(r, u, p)
          \/ \E w \in Users : RemoveStart(r, u, p, w)
          \/ DeleteStart(r, u, p)
          \/ \E c \in Currencies : UpdateStart(r, u, p, c)
          \/ ArchiveStart(r, u, p)
          \/ \E payers \in SUBSET Users : AddStart(r, u, p, payers)
          \/ ClearStart(r, u, p)
    \/ \E u \in Users, i \in ItemIds :
          \/ \E b \in BOOLEAN : StatusStart(r, u, i, b)
          \/ ItemStart(r, u, i)

MembershipStep(r) ==
    \/ JoinMember(r) \/ JoinInsert(r) \/ ForceInsert(r)
    \/ LeaveMember(r) \/ LeaveCount(r) \/ LeaveDelete(r)
    \/ RemoveMember(r) \/ RemoveRelated(r) \/ RemoveDelete(r)

PartyStep(r) ==
    \/ DeleteCount(r) \/ DeleteTx(r) \/ UpdateWrite(r)
    \/ ArchiveMembers(r) \/ ArchiveUnpaid(r) \/ ArchiveItems(r)
    \/ ArchiveWrite(r) \/ ArchiveWriteFails(r) \/ ArchiveTx(r)

ItemStep(r) ==
    \/ AddMember(r) \/ AddPayers(r) \/ AddTx(r)
    \/ StatusMember(r) \/ StatusParty(r) \/ StatusPartyFails(r) \/ StatusUpdate(r)
    \/ ItemParty(r) \/ ItemDelete(r)
    \/ ClearMember(r) \/ ClearUpdate(r)

Step(r) == MembershipStep(r) \/ PartyStep(r) \/ ItemStep(r) \/ Abort(r)

Next ==
    \/ \E u \in Users, p \in Parties, c \in Currencies : CreateParty(u, p, c)
    \/ \E r \in Reqs : Start(r) \/ Step(r)

Spec == Init /\ [][Next]_vars

\* A goroutine that is running gets to its next statement.
FairSpec == Spec /\ \A r \in Reqs : WF_vars(Step(r))

-----------------------------------------------------------------------------
(* Properties that hold however requests interleave *)

\* The owner of a party is one of its members for as long as the party lives:
\* leaveParty and removePartyMember never take the owner's row away, whichever
\* requests they overlap with.
OwnerIsMember == \A p \in Parties : Live(p) => party[p].owner \in members[p]

\* archived_at is written once: of several archive requests that all read an
\* open party, one stamps it, because the transaction locks and rereads the row.
ArchivedOnce ==
    [][\A p \in Parties : Archived(p) => party'[p].archived = party[p].archived]_vars

\* An archived party has a snapshot to download: the file is in place before
\* the transaction commits, and no other request takes it away.
ArchivedHasSnapshot == \A p \in Parties : Archived(p) => file[p].exists

Finishes(r) == ~At(r, "idle") /\ req'[r].pc = "idle"

\* Who changes an item: only its initiator turns it back to unpaid, only its
\* initiator or the owner of its party marks it paid, only the owner removes it.
\* The rights are read in one statement and used in a later one.
ItemAuthority ==
    [][\A i \in ItemIds :
          item[i].state = "live" /\ item'[i] # item[i] =>
             \E r \in Reqs :
                /\ Finishes(r)
                /\ LET owner == party[item[i].party].owner
                   IN  IF item'[i].state = "gone" THEN req[r].user = owner
                       ELSE IF item[i].paid THEN req[r].user = item[i].initiator
                       ELSE req[r].user \in {item[i].initiator, owner}]_vars

\* Who takes a member out of a party: the member or the owner of the party.
MemberAuthority ==
    [][\A p \in Parties : \A u \in members[p] \ members'[p] :
          \E r \in Reqs : Finishes(r) /\ req[r].user \in {u, party[p].owner}]_vars

\* Archiving locks the items in the end: only requests that read the party
\* before it was archived can still write, or status requests that could not
\* read it at all.  After finitely many of the first, and if there comes a time
\* without the second, the items of an archived party never change again.
ArchivedQuiesces ==
    \A p \in Parties :
       <>[](Live(p) /\ Archived(p) /\ \A r \in Reqs : ~req[r].unread) =>
          <>[][\A i \in ItemIds : item[i].party = p => item'[i] = item[i]]_vars

-----------------------------------------------------------------------------
(* Properties that hold while requests do not overlap (one slot)           *)

\* Archiving settles a party: what is unpaid in it afterwards was set unpaid by
\* status requests that could not read the party.
ArchivedStaysSettled ==
    [][\A p \in Parties : Archived(p)' =>
          \A i \in Unpaid(p)' \ (IF Archived(p) THEN Unpaid(p) ELSE {}) :
             \E r \in Reqs : /\ At(r, "statusUpdate") /\ Finishes(r)
                             /\ req[r].item = i /\ req[r].unread]_vars

\* Archiving settles a party for good, at least in the end, whatever overlaps
\* it.  The code does not keep this (archive_race).
ArchivedEndsSettled ==
    \A p \in Parties : <>[](Live(p) /\ Archived(p)) => <>[](Unpaid(p) = {})

\* When a party is archived its snapshot lists all its items, and plans a
\* payment for exactly those debts between two users that archiving declares
\* settled and whose debtor is still a member.  (The debts of users who left are
\* settled without a payment; SettlementCoversUnpaid is about them.)
SnapshotIsPreArchive ==
    [][\A p \in Parties : ~Archived(p) /\ party'[p].archived # None =>
          /\ file'[p].listed = ItemsOf(p)
          /\ file'[p].plan = {i \in ItemsOf(p) : /\ ~item[i].paid /\ item'[i].paid
                                                /\ item[i].payer \in members[p]
                                                /\ item[i].payer # item[i].initiator}]_vars

\* The snapshot of an archived party is the one it was archived with.
SnapshotStable ==
    [][\A p \in Parties : Archived(p) => file'[p] = file[p]]_vars

\* The payments an archived party still owes by its snapshot stay on record: no
\* later export drops one from the plan, whoever else is archiving.
SnapshotKeepsPlan ==
    [][\A p \in Parties : Archived(p) => file[p].plan \subseteq file'[p].plan]_vars

\* A party is deleted only when no item in it is unpaid.
DeletedOnlySettled ==
    [][\A p \in Parties : Live(p) /\ party'[p].state = "gone" => Unpaid(p) = {}]_vars

\* A deleted party leaves no membership and no item behind.
NoOrphans ==
    \A p \in Parties : party[p].state = "gone" => members[p] = {} /\ ItemsOf(p) = {}

\* Whoever is owed money in a party is still in it: the creditor of an unpaid
\* item cannot have left, nor been removed.
UnpaidInitiatorIsMember ==
    \A p \in Parties : \A i \in Unpaid(p) : item[i].initiator \in members[p]

\* The settlement of a party covers its open debts: no unpaid item between two
\* users is missing from what is handed to settlement.Compute.
SettlementCoversUnpaid ==
    \A p \in Parties : \A i \in Unpaid(p) :
       item[i].payer # item[i].initiator => i \in Plan(p, members[p])

\* One request at a time, every endpoint is the atomic change Ledger describes.
\* A snapshot counts from the moment its party is archived.
Atomic == INSTANCE Ledger WITH
             file <- [p \in Parties |-> IF Archived(p) THEN file[p] ELSE NoFile]

ImplementsLedger == Atomic!Spec
=============================================================================
