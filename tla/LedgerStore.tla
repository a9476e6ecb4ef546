--------------------------- MODULE LedgerStore ---------------------------
(***************************************************************************)
(* The part of the database, and of data/archive on disk, that the party   *)
(* handlers work on: the tables party, party_member and item, and one      *)
(* archive snapshot file for each party.  The module gives the rows, the   *)
(* queries the handlers run and the effect of each statement (or           *)
(* transaction) that writes.  Ledger uses them for whole endpoints,        *)
(* PartyLedger for the single steps of concurrent requests.                *)
(*                                                                         *)
(* Abstractions: amounts, descriptions, names and invite codes are left    *)
(* out; archived_at, a time.Now(), is the request that wrote it; an item   *)
(* remembers the currency its amount was expressed in when it was stored,  *)
(* which the table does not.  Ids are never reused (AUTO_INCREMENT).       *)
(***************************************************************************)
EXTENDS FiniteSets

CONSTANTS
    Users,        \* rows of the user table; the code never deletes one
    Parties,      \* party ids the run may hand out
    ItemIds,      \* item ids the run may hand out
    Currencies,   \* active currency codes
    Reqs,         \* HTTP requests in flight; also the stamps of archived_at
    None          \* NULL

ASSUME NoneAssumption ==
    None \notin Users \cup Parties \cup ItemIds \cup Currencies \cup Reqs

VARIABLES
    party,        \* party rows, by id
    members,      \* party_member: the set of users of each party
    item,         \* item rows, by id
    file          \* data/archive/party_<id>.json

storeVars == <<party, members, item, file>>

PartyRow == [state    : {"unused", "live", "gone"},
             owner    : Users \cup {None},
             base     : Currencies \cup {None},
             archived : Reqs \cup {None}]

ItemRow == [state     : {"unused", "live", "gone"},
            party     : Parties \cup {None},
            payer     : Users \cup {None},
            initiator : Users \cup {None},
            paid      : BOOLEAN,
            currency  : Currencies \cup {None}]

\* What a snapshot is read for: the items its payment plan covers and the
\* items it lists.
Snapshot == [exists : BOOLEAN, plan : SUBSET ItemIds, listed : SUBSET ItemIds]

NoParty == [state |-> "unused", owner |-> None, base |-> None, archived |-> None]
NoFile  == [exists |-> FALSE, plan |-> {}, listed |-> {}]
NoItem(state) == [state |-> state, party |-> None, payer |-> None,
                  initiator |-> None, paid |-> FALSE, currency |-> None]

StoreTypeOK ==
    /\ party   \in [Parties -> PartyRow]
    /\ members \in [Parties -> SUBSET Users]
    /\ item    \in [ItemIds -> ItemRow]
    /\ file    \in [Parties -> Snapshot]

StoreInit ==
    /\ party   = [p \in Parties |-> NoParty]
    /\ members = [p \in Parties |-> {}]
    /\ item    = [i \in ItemIds |-> NoItem("unused")]
    /\ file    = [p \in Parties |-> NoFile]

-----------------------------------------------------------------------------
(* Queries *)

Live(p) == party[p].state = "live"
Archived(p) == party[p].archived # None

\* The row is read and its copy passes "ArchivedAt != nil".
Open(p) == Live(p) /\ ~Archived(p)

ItemsOf(p) == {i \in ItemIds : item[i].state = "live" /\ item[i].party = p}
Unpaid(p)  == {i \in ItemsOf(p) : ~item[i].paid}
Related(p, u) == {i \in ItemsOf(p) : u \in {item[i].payer, item[i].initiator}}

\* The debts partySettlement hands to settlement.Compute that can appear in
\* its result: unpaid items between two different members of the list read.
Plan(p, ms) == {i \in Unpaid(p) : /\ item[i].payer # item[i].initiator
                                  /\ {item[i].payer, item[i].initiator} \subseteq ms}

-----------------------------------------------------------------------------
(* Statements and transactions that write *)

\* Transaction of createParty: the party row and its owner's membership.
InsertParty(p, u, c) ==
    /\ party' = [party EXCEPT ![p] = [state |-> "live", owner |-> u, base |-> c,
                                      archived |-> None]]
    /\ members' = [members EXCEPT ![p] = @ \cup {u}]
    /\ UNCHANGED <<item, file>>

\* The unique key (party_id, user_id) refuses or ignores a second row.
InsertMember(p, u) ==
    /\ members' = [members EXCEPT ![p] = @ \cup {u}]
    /\ UNCHANGED <<party, item, file>>

DeleteMember(p, u) ==
    /\ members' = [members EXCEPT ![p] = @ \ {u}]
    /\ UNCHANGED <<party, item, file>>

\* DeleteRows with the items forgotten, which no foreign key would notice.
DeleteRows_KeepItems(p) ==
    /\ members' = [members EXCEPT ![p] = {}]
    /\ party' = [party EXCEPT ![p].state = "gone"]
    /\ UNCHANGED <<item, file>>

\* Transaction of deleteParty: members, items, party.
DeleteRows(p) ==
    /\ members' = [members EXCEPT ![p] = {}]
    /\ item' = [i \in ItemIds |-> IF i \in ItemsOf(p) THEN NoItem("gone") ELSE item[i]]
    /\ party' = [party EXCEPT ![p].state = "gone"]
    /\ UNCHANGED file

\* UPDATE item SET paid = 1 WHERE party_id = p AND paid = 0.
AllPaid(p) ==
    [i \in ItemIds |-> IF i \in Unpaid(p) THEN [item[i] EXCEPT !.paid = TRUE] ELSE item[i]]

SettleAll(p) ==
    /\ item' = AllPaid(p)
    /\ UNCHANGED <<party, members, file>>

\* Transaction of archiveParty, past its check: settle the items, stamp the row.
ArchiveRows(p, r) ==
    /\ item' = AllPaid(p)
    /\ party' = [party EXCEPT ![p].archived = r]
    /\ UNCHANGED members

\* UPDATE party SET ..., base_currency = c WHERE id = p: no row, no effect.
UpdateBase(p, c) ==
    /\ party' = IF Live(p) THEN [party EXCEPT ![p].base = c] ELSE party
    /\ UNCHANGED <<members, item, file>>

\* Transaction of addItem: one row for each payer, under fresh ids.
InsertItems(p, u, payers, c) ==
    /\ \E id \in [payers -> {i \in ItemIds : item[i].state = "unused"}] :
          LET PayersOf(i) == {v \in payers : id[v] = i}
          IN  /\ \A i \in ItemIds, v, w \in payers : {v, w} \subseteq PayersOf(i) => v = w
              /\ item' = [i \in ItemIds |->
                    IF PayersOf(i) = {} THEN item[i]
                    ELSE [state |-> "live", party |-> p, initiator |-> u, currency |-> c,
                          payer |-> CHOOSE v \in payers : id[v] = i,
                          paid  |-> u \in PayersOf(i)]]
    /\ UNCHANGED <<party, members, file>>

\* UPDATE item SET paid = b WHERE id = i.
SetPaid(i, b) ==
    /\ item' = IF item[i].state = "live" THEN [item EXCEPT ![i].paid = b] ELSE item
    /\ UNCHANGED <<party, members, file>>

\* DELETE FROM item WHERE id = i.
DeleteItemRow(i) ==
    /\ item' = [item EXCEPT ![i] = NoItem("gone")]
    /\ UNCHANGED <<party, members, file>>

WriteFile(p, content) ==
    /\ file' = [file EXCEPT ![p] = content]
    /\ UNCHANGED <<party, members, item>>
=============================================================================
