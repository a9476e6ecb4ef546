------------------------- MODULE LedgerStoreProofs -------------------------
(***************************************************************************)
(* Every statement of LedgerStore that writes keeps the tables well        *)
(* formed, and a row, once there, keeps what identifies it.  The proofs    *)
(* about PartyLedger and about PartyTab both rest on these lemmas.         *)
(***************************************************************************)
EXTENDS LedgerStore, TLAPS

\* An item belongs to a party that was created, and names real users.
ItemsFormed ==
    \A i \in ItemIds : item[i].state = "live" =>
        /\ item[i].party \in Parties
        /\ party[item[i].party].state # "unused"
        /\ item[i].payer \in Users
        /\ item[i].initiator \in Users

StoreInv == StoreTypeOK /\ ItemsFormed

\* A row, once there, is never reborn and keeps its owner.
PartyStable ==
    \A p \in Parties : party[p].state # "unused" =>
        party'[p].state # "unused" /\ party'[p].owner = party[p].owner

\* An item, once there, is never reborn and keeps its party and its users.
ItemStable ==
    \A i \in ItemIds : item[i].state # "unused" =>
        /\ item'[i].state # "unused"
        /\ item'[i].state = "live" =>
             /\ item[i].state = "live"
             /\ item'[i].party = item[i].party
             /\ item'[i].payer = item[i].payer
             /\ item'[i].initiator = item[i].initiator

StoreStep == StoreInv' /\ PartyStable /\ ItemStable

-----------------------------------------------------------------------------
(* Every statement that writes keeps StoreInv and the stable columns. *)

LEMMA UnchangedStore ==
    ASSUME StoreInv, UNCHANGED storeVars
    PROVE  StoreStep
BY DEF StoreStep, StoreInv, StoreTypeOK, ItemsFormed, PartyStable, ItemStable, storeVars

LEMMA InsertPartyStep ==
    ASSUME StoreInv, NEW p \in Parties, NEW u \in Users, NEW c \in Currencies,
           party[p].state = "unused", InsertParty(p, u, c)
    PROVE  StoreStep
<1>1. StoreTypeOK'
  BY DEF StoreInv, StoreTypeOK, InsertParty, PartyRow
<1>2. ItemsFormed'
  BY DEF StoreInv, StoreTypeOK, ItemsFormed, InsertParty, PartyRow
<1>3. PartyStable /\ ItemStable
  BY DEF StoreInv, StoreTypeOK, PartyStable, ItemStable, InsertParty
<1> QED BY <1>1, <1>2, <1>3 DEF StoreStep, StoreInv

LEMMA MemberStep ==
    ASSUME StoreInv, NEW p \in Parties, NEW u \in Users,
           InsertMember(p, u) \/ DeleteMember(p, u)
    PROVE  StoreStep
BY DEF StoreStep, StoreInv, StoreTypeOK, ItemsFormed, PartyStable, ItemStable,
       InsertMember, DeleteMember

LEMMA DeleteRowsStep ==
    ASSUME StoreInv, NEW p \in Parties, DeleteRows(p)
    PROVE  StoreStep
<1>1. StoreTypeOK'
  <2>1. NoItem("gone") \in ItemRow
    BY DEF NoItem, ItemRow
  <2>2. item' \in [ItemIds -> ItemRow]
    BY <2>1 DEF StoreInv, StoreTypeOK, DeleteRows
  <2>3. party' \in [Parties -> PartyRow]
    BY DEF StoreInv, StoreTypeOK, DeleteRows, PartyRow
  <2>4. members' \in [Parties -> SUBSET Users] /\ file' \in [Parties -> Snapshot]
    BY DEF StoreInv, StoreTypeOK, DeleteRows
  <2> QED BY <2>2, <2>3, <2>4 DEF StoreTypeOK
<1>2. ItemsFormed'
  BY DEF StoreInv, StoreTypeOK, ItemsFormed, DeleteRows, PartyRow, NoItem
<1>3. PartyStable /\ ItemStable
  BY DEF StoreInv, StoreTypeOK, PartyStable, ItemStable, DeleteRows, PartyRow, NoItem, ItemsOf
<1> QED BY <1>1, <1>2, <1>3 DEF StoreStep, StoreInv

\* UPDATE ... SET paid = 1 touches that column only.
LEMMA AllPaidRows ==
    ASSUME StoreInv, NEW p \in Parties
    PROVE  /\ AllPaid(p) \in [ItemIds -> ItemRow]
           /\ \A i \in ItemIds :
                /\ AllPaid(p)[i].state = item[i].state
                /\ AllPaid(p)[i].party = item[i].party
                /\ AllPaid(p)[i].payer = item[i].payer
                /\ AllPaid(p)[i].initiator = item[i].initiator
<1>1. \A i \in ItemIds : item[i] \in ItemRow
  BY DEF StoreInv, StoreTypeOK
<1>2. \A i \in ItemIds :
        /\ [item[i] EXCEPT !.paid = TRUE] \in ItemRow
        /\ [item[i] EXCEPT !.paid = TRUE].state = item[i].state
        /\ [item[i] EXCEPT !.paid = TRUE].party = item[i].party
        /\ [item[i] EXCEPT !.paid = TRUE].payer = item[i].payer
        /\ [item[i] EXCEPT !.paid = TRUE].initiator = item[i].initiator
  BY <1>1 DEF ItemRow
<1>3. \A i \in ItemIds : AllPaid(p)[i] \in {item[i], [item[i] EXCEPT !.paid = TRUE]}
  BY DEF AllPaid
<1>4. AllPaid(p) = [i \in ItemIds |-> AllPaid(p)[i]]
  BY DEF AllPaid
<1>5. AllPaid(p) \in [ItemIds -> ItemRow]
  <2>1. \A i \in ItemIds : AllPaid(p)[i] \in ItemRow
    BY <1>1, <1>2, <1>3
  <2> QED BY <1>4, <2>1
<1>6. ASSUME NEW i \in ItemIds
      PROVE  /\ AllPaid(p)[i].state = item[i].state
             /\ AllPaid(p)[i].party = item[i].party
             /\ AllPaid(p)[i].payer = item[i].payer
             /\ AllPaid(p)[i].initiator = item[i].initiator
  BY <1>2, <1>3
<1> QED BY <1>5, <1>6

LEMMA AllPaidStep ==
    ASSUME StoreInv, NEW p \in Parties, SettleAll(p)
    PROVE  StoreStep
BY AllPaidRows DEF StoreStep, StoreInv, StoreTypeOK, ItemsFormed, PartyStable, ItemStable, SettleAll

LEMMA ArchiveRowsStep ==
    ASSUME StoreInv, NEW p \in Parties, NEW r \in Reqs, ArchiveRows(p, r), UNCHANGED file
    PROVE  StoreStep
<1>1. party' \in [Parties -> PartyRow]
  BY DEF StoreInv, StoreTypeOK, ArchiveRows, PartyRow
<1>2. \A q \in Parties : party'[q].state = party[q].state /\ party'[q].owner = party[q].owner
  BY DEF StoreInv, StoreTypeOK, ArchiveRows, PartyRow
<1>3. item' = AllPaid(p) /\ members' = members /\ file' = file
  BY DEF ArchiveRows
<1>4. StoreTypeOK'
  BY <1>1, <1>3, AllPaidRows DEF StoreInv, StoreTypeOK
<1>5. ItemsFormed' /\ PartyStable /\ ItemStable
  BY <1>2, <1>3, AllPaidRows DEF StoreInv, ItemsFormed, PartyStable, ItemStable
<1> QED BY <1>4, <1>5 DEF StoreStep, StoreInv

LEMMA UpdateBaseStep ==
    ASSUME StoreInv, NEW p \in Parties, NEW c \in Currencies \cup {None}, UpdateBase(p, c)
    PROVE  StoreStep
BY DEF StoreStep, StoreInv, StoreTypeOK, ItemsFormed, PartyStable, ItemStable, UpdateBase, PartyRow

LEMMA SetPaidStep ==
    ASSUME StoreInv, NEW i \in ItemIds, NEW b \in BOOLEAN, SetPaid(i, b)
    PROVE  StoreStep
<1>1. StoreTypeOK'
  BY DEF StoreInv, StoreTypeOK, SetPaid, ItemRow
<1>2. ItemsFormed' /\ PartyStable /\ ItemStable
  BY DEF StoreInv, StoreTypeOK, ItemsFormed, PartyStable, ItemStable, SetPaid, ItemRow
<1> QED BY <1>1, <1>2 DEF StoreStep, StoreInv

LEMMA DeleteItemStep ==
    ASSUME StoreInv, NEW i \in ItemIds, DeleteItemRow(i)
    PROVE  StoreStep
<1>1. StoreTypeOK'
  BY DEF StoreInv, StoreTypeOK, DeleteItemRow, ItemRow, NoItem
<1>2. ItemsFormed' /\ PartyStable /\ ItemStable
  BY DEF StoreInv, StoreTypeOK, ItemsFormed, PartyStable, ItemStable, DeleteItemRow, ItemRow, NoItem
<1> QED BY <1>1, <1>2 DEF StoreStep, StoreInv

LEMMA WriteFileStep ==
    ASSUME StoreInv, NEW p \in Parties, NEW content \in Snapshot, WriteFile(p, content)
    PROVE  StoreStep
BY DEF StoreStep, StoreInv, StoreTypeOK, ItemsFormed, PartyStable, ItemStable, WriteFile

LEMMA InsertItemsStep ==
    ASSUME StoreInv, NEW p \in Parties, NEW u \in Users, NEW payers \in SUBSET Users,
           NEW c \in Currencies \cup {None}, party[p].state # "unused",
           InsertItems(p, u, payers, c)
    PROVE  StoreStep
<1> DEFINE Fresh == {i \in ItemIds : item[i].state = "unused"}
<1>1. PICK id \in [payers -> Fresh] :
        item' = [i \in ItemIds |->
                    IF {v \in payers : id[v] = i} = {} THEN item[i]
                    ELSE [state |-> "live", party |-> p, initiator |-> u, currency |-> c,
                          payer |-> CHOOSE v \in payers : id[v] = i,
                          paid  |-> u \in {v \in payers : id[v] = i}]]
  BY DEF InsertItems
<1>2. \A i \in ItemIds :
        \/ item'[i] = item[i]
        \/ /\ item[i].state = "unused"
           /\ item'[i].state = "live" /\ item'[i].party = p /\ item'[i].initiator = u
           /\ item'[i].currency = c /\ item'[i].payer \in Users /\ item'[i] \in ItemRow
  <2> TAKE i \in ItemIds
  <2>1. CASE {v \in payers : id[v] = i} = {}
    BY <1>1, <2>1
  <2>2. CASE {v \in payers : id[v] = i} # {}
    <3>1. PICK v \in payers : id[v] = i
      BY <2>2
    <3>2. item[i].state = "unused"
      BY <1>1, <3>1
    <3>3. (CHOOSE w \in payers : id[w] = i) \in payers
      BY <3>1
    <3>4. item'[i] = [state |-> "live", party |-> p, initiator |-> u, currency |-> c,
                      payer |-> CHOOSE w \in payers : id[w] = i,
                      paid  |-> u \in {w \in payers : id[w] = i}]
      BY <1>1, <2>2
    <3>5. (u \in {w \in payers : id[w] = i}) \in BOOLEAN
      OBVIOUS
    <3> QED BY <3>2, <3>3, <3>4, <3>5 DEF ItemRow
  <2> QED BY <2>1, <2>2
<1>3. item' \in [ItemIds -> ItemRow]
  <2>1. item' = [i \in ItemIds |-> item'[i]]
    BY <1>1
  <2> QED BY <1>2, <2>1 DEF StoreInv, StoreTypeOK
<1>4. StoreTypeOK'
  BY <1>3 DEF StoreInv, StoreTypeOK, InsertItems
<1>5. ItemsFormed' /\ PartyStable /\ ItemStable
  BY <1>2 DEF StoreInv, StoreTypeOK, ItemsFormed, PartyStable, ItemStable, InsertItems
<1> QED BY <1>4, <1>5 DEF StoreStep, StoreInv

\* A statement that writes, with the guard its endpoint never omits: a new party
\* is unused, items are added to a party that was created, the owner stays.
Written ==
    \/ \E p \in Parties, u \in Users, c \in Currencies :
          party[p].state = "unused" /\ InsertParty(p, u, c)
    \/ \E p \in Parties, u \in Users :
          InsertMember(p, u) \/ (u # party[p].owner /\ DeleteMember(p, u))
    \/ \E p \in Parties :
          DeleteRows(p) \/ SettleAll(p) \/ \E c \in Currencies : UpdateBase(p, c)
    \/ \E p \in Parties, r \in Reqs : ArchiveRows(p, r) /\ file' \in [Parties -> Snapshot]
    \/ \E p \in Parties, u \in Users, payers \in SUBSET Users, c \in Currencies \cup {None} :
          party[p].state # "unused" /\ InsertItems(p, u, payers, c)
    \/ \E i \in ItemIds : DeleteItemRow(i) \/ \E b \in BOOLEAN : SetPaid(i, b)

\* The owner of a party is one of its members.
OwnersIn == \A p \in Parties : Live(p) => party[p].owner \in members[p]

LEMMA WrittenKeeps ==
    ASSUME StoreInv, OwnersIn, Written
    PROVE  StoreInv' /\ OwnersIn'
<1>0. StoreTypeOK
  BY DEF StoreInv
<1>1. ASSUME NEW p \in Parties, NEW u \in Users, NEW c \in Currencies,
             party[p].state = "unused", InsertParty(p, u, c)
      PROVE  StoreInv' /\ OwnersIn'
  <2>1. OwnersIn'
    BY <1>0, <1>1 DEF InsertParty, StoreTypeOK, OwnersIn, Live
  <2> QED BY <1>1, <2>1, InsertPartyStep DEF StoreStep
<1>2. ASSUME NEW p \in Parties, NEW u \in Users, InsertMember(p, u)
      PROVE  StoreInv' /\ OwnersIn'
  <2>1. OwnersIn'
    BY <1>0, <1>2 DEF InsertMember, StoreTypeOK, OwnersIn, Live
  <2> QED BY <1>2, <2>1, MemberStep DEF StoreStep
<1>3. ASSUME NEW p \in Parties, NEW u \in Users, u # party[p].owner, DeleteMember(p, u)
      PROVE  StoreInv' /\ OwnersIn'
  <2>1. OwnersIn'
    BY <1>0, <1>3 DEF DeleteMember, StoreTypeOK, OwnersIn, Live
  <2> QED BY <1>3, <2>1, MemberStep DEF StoreStep
<1>4. ASSUME NEW p \in Parties, DeleteRows(p)
      PROVE  StoreInv' /\ OwnersIn'
  <2>1. OwnersIn'
    BY <1>0, <1>4 DEF DeleteRows, StoreTypeOK, PartyRow, OwnersIn, Live
  <2> QED BY <1>4, <2>1, DeleteRowsStep DEF StoreStep
<1>5. ASSUME NEW p \in Parties, SettleAll(p)
      PROVE  StoreInv' /\ OwnersIn'
  <2>1. OwnersIn'
    BY <1>5 DEF SettleAll, OwnersIn, Live
  <2> QED BY <1>5, <2>1, AllPaidStep DEF StoreStep
<1>6. ASSUME NEW p \in Parties, NEW c \in Currencies, UpdateBase(p, c)
      PROVE  StoreInv' /\ OwnersIn'
  <2>1. \A q \in Parties : party'[q].state = party[q].state /\ party'[q].owner = party[q].owner
    BY <1>0, <1>6 DEF UpdateBase, StoreTypeOK, PartyRow
  <2>2. OwnersIn'
    BY <1>6, <2>1 DEF UpdateBase, OwnersIn, Live
  <2> QED BY <1>6, <2>2, UpdateBaseStep DEF StoreStep
<1>7. ASSUME NEW p \in Parties, NEW r \in Reqs, ArchiveRows(p, r), file' \in [Parties -> Snapshot]
      PROVE  StoreInv' /\ OwnersIn'
  <2>1. party' \in [Parties -> PartyRow]
    BY <1>0, <1>7 DEF StoreTypeOK, ArchiveRows, PartyRow
  <2>2. \A q \in Parties : party'[q].state = party[q].state /\ party'[q].owner = party[q].owner
    BY <1>0, <1>7 DEF StoreTypeOK, ArchiveRows, PartyRow
  <2>3. item' = AllPaid(p) /\ members' = members
    BY <1>7 DEF ArchiveRows
  <2>4. StoreTypeOK'
    BY <1>0, <1>7, <2>1, <2>3, AllPaidRows DEF StoreTypeOK
  <2>5. ItemsFormed'
    BY <2>2, <2>3, AllPaidRows DEF StoreInv, ItemsFormed
  <2>6. OwnersIn'
    BY <2>2, <2>3 DEF OwnersIn, Live
  <2> QED BY <2>4, <2>5, <2>6 DEF StoreInv
<1>8. ASSUME NEW p \in Parties, NEW u \in Users, NEW payers \in SUBSET Users,
             NEW c \in Currencies \cup {None}, party[p].state # "unused",
             InsertItems(p, u, payers, c)
      PROVE  StoreInv' /\ OwnersIn'
  <2>1. OwnersIn'
    BY <1>8 DEF InsertItems, OwnersIn, Live
  <2> QED BY <1>8, <2>1, InsertItemsStep DEF StoreStep
<1>9. ASSUME NEW i \in ItemIds, DeleteItemRow(i)
      PROVE  StoreInv' /\ OwnersIn'
  <2>1. OwnersIn'
    BY <1>9 DEF DeleteItemRow, OwnersIn, Live
  <2> QED BY <1>9, <2>1, DeleteItemStep DEF StoreStep
<1>10. ASSUME NEW i \in ItemIds, NEW b \in BOOLEAN, SetPaid(i, b)
       PROVE  StoreInv' /\ OwnersIn'
  <2>1. OwnersIn'
    BY <1>10 DEF SetPaid, OwnersIn, Live
  <2> QED BY <1>10, <2>1, SetPaidStep DEF StoreStep
<1> QED BY <1>1, <1>2, <1>3, <1>4, <1>5, <1>6, <1>7, <1>8, <1>9, <1>10 DEF Written
=============================================================================
