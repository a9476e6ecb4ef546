----------------------------- MODULE Ledger -----------------------------
(***************************************************************************)
(* What the party endpoints promise when requests do not overlap: each     *)
(* endpoint is one atomic, guarded change of the store.  PartyLedger is    *)
(* the code, step by step; with a single request in flight it implements   *)
(* this specification.  One of the changes is not guarded as it should be: *)
(* UpdateItemStatusUnread.                                                 *)
(***************************************************************************)
EXTENDS LedgerStore

CreateParty(p, u, c) ==
    /\ party[p].state = "unused"
    /\ InsertParty(p, u, c)

\* joinParty with the invite code, or adminForceJoinParty.
Join(p, u) ==
    /\ Open(p)
    /\ InsertMember(p, u)

\* An archived party can be left: leaveParty does not look at archived_at.
Leave(p, u) ==
    /\ Live(p)
    /\ u \in members[p] \ {party[p].owner}
    /\ Unpaid(p) = {}
    /\ DeleteMember(p, u)

RemoveMember(p, u) ==
    /\ Open(p)
    /\ u \in members[p] \ {party[p].owner}
    /\ Related(p, u) = {}
    /\ DeleteMember(p, u)

DeleteParty(p) ==
    /\ Open(p)
    /\ Unpaid(p) = {}
    /\ DeleteRows(p)

UpdateParty(p, c) ==
    /\ Open(p)
    /\ UpdateBase(p, c)

\* The snapshot shows the party as it was before the items were settled.
Archive(p, r) ==
    /\ Open(p)
    /\ ArchiveRows(p, r)
    /\ file' = [file EXCEPT ![p] = [exists |-> TRUE, listed |-> ItemsOf(p),
                                    plan |-> Plan(p, members[p])]]

AddItem(p, u, payers) ==
    /\ Open(p)
    /\ payers # {}
    /\ payers \cup {u} \subseteq members[p]
    /\ InsertItems(p, u, payers, party[p].base)

UpdateItemStatus(i, b) ==
    /\ item[i].state = "live"
    /\ Open(item[i].party)
    /\ item[i].initiator \in members[item[i].party]
    /\ SetPaid(i, b)

\* The party could not be read, and is taken for open.
UpdateItemStatusUnread(i, b) ==
    /\ item[i].state = "live"
    /\ item[i].initiator \in members[item[i].party]
    /\ SetPaid(i, b)

DeleteItem(i) ==
    /\ item[i].state = "live"
    /\ Open(item[i].party)
    /\ DeleteItemRow(i)

ClearBestPay(p) ==
    /\ Open(p)
    /\ SettleAll(p)

Next ==
    \/ \E p \in Parties, u \in Users :
          \/ \E c \in Currencies : CreateParty(p, u, c)
          \/ Join(p, u)
          \/ Leave(p, u)
          \/ RemoveMember(p, u)
          \/ \E payers \in SUBSET Users : AddItem(p, u, payers)
    \/ \E p \in Parties :
          \/ DeleteParty(p)
          \/ \E c \in Currencies : UpdateParty(p, c)
          \/ \E r \in Reqs : Archive(p, r)
          \/ ClearBestPay(p)
    \/ \E i \in ItemIds :
          \/ \E b \in BOOLEAN : UpdateItemStatus(i, b) \/ UpdateItemStatusUnread(i, b)
          \/ DeleteItem(i)

Spec == StoreInit /\ [][Next]_storeVars
=============================================================================
