---------------------------- MODULE Settlement ----------------------------
(***************************************************************************)
(* internal/settlement: from the unpaid items of a party to a list of      *)
(* transfers between its members.  AggregateUnpaid sums the items,         *)
(* Compute offsets each pair of members, Optimize nets every member and    *)
(* matches creditors with debtors in the order the members are listed.     *)
(*                                                                         *)
(* Member k is the k-th user of the query (ORDER BY pm.id); user names are *)
(* unique, so names and ids are one.  Amounts are cents, an int64 in the   *)
(* code; DECIMAL(10,2) keeps each below 10^10, far from its limits.        *)
(***************************************************************************)
EXTENDS Integers, Sequences, FiniteSetsExt

CONSTANTS
    N,            \* members of the party
    MaxItems,     \* bound: unpaid items in the party
    MaxAmount     \* bound: cents of one item

ASSUME SettlementAssumption ==
    /\ N \in Nat \ {0}
    /\ MaxItems \in Nat
    /\ MaxAmount \in Nat \ {0}

Users == 1 .. N

\* The nested maps of the code, zero where they have no entry.
Debts == [Users \X Users -> Nat]
NoDebts == [pair \in Users \X Users |-> 0]
Entry == [name : Users, amount : Nat]

VARIABLES
    pc,           \* where Compute and Optimize are
    items,        \* number of item rows read so far
    unpaid,       \* AggregateUnpaid's result: <<payer, initiator>> -> amount
    stage1,       \* Compute's pairwise offsets: <<debtor, creditor>> -> amount
    next,         \* Optimize: the member whose balance is looked at
    creditors,    \* its two lists, in the order of the members
    debtors,
    i, j,         \* the loop's positions in them
    result        \* the transfers: <<debtor, creditor>> -> amount

vars == <<pc, items, unpaid, stage1, next, creditors, debtors, i, j, result>>

\* The sum of an amount per member.
Total(amounts) == MapThenSumSet(LAMBDA u : amounts[u], Users)

\* What u is owed minus what u owes.
Net(debts, u) == Total([v \in Users |-> debts[<<v, u>>] - debts[<<u, v>>]])

TypeOK ==
    /\ pc \in {"aggregate", "offset", "net", "match", "done"}
    /\ items \in 0 .. MaxItems
    /\ {unpaid, stage1, result} \subseteq Debts
    /\ next \in 1 .. N + 1
    /\ {creditors, debtors} \subseteq Seq(Entry)
    /\ {i, j} \subseteq Nat \ {0}

Init ==
    /\ pc = "aggregate"
    /\ items = 0
    /\ unpaid = NoDebts
    /\ stage1 = NoDebts
    /\ next = 1
    /\ creditors = <<>>
    /\ debtors = <<>>
    /\ i = 1
    /\ j = 1
    /\ result = NoDebts

\* One more row; payer and initiator may be the same user.
AggregateUnpaid(payer, initiator, amount) ==
    /\ pc = "aggregate"
    /\ items < MaxItems
    /\ items' = items + 1
    /\ unpaid' = [unpaid EXCEPT ![<<payer, initiator>>] = @ + amount]
    /\ UNCHANGED <<pc, stage1, next, creditors, debtors, i, j, result>>

RowsDone ==
    /\ pc = "aggregate"
    /\ pc' = "offset"
    /\ UNCHANGED <<items, unpaid, stage1, next, creditors, debtors, i, j, result>>

\* Offsets a pair only when it is met the other way round too.
Offset_OneWay ==
    [pair \in Users \X Users |->
        LET diff == unpaid[<<pair[1], pair[2]>>] - unpaid[<<pair[2], pair[1]>>]
        IN  IF pair[1] < pair[2] /\ diff > 0 THEN diff ELSE 0]

\* Each pair of members keeps the difference, owed in one direction.
Offset ==
    [pair \in Users \X Users |->
        LET diff == unpaid[<<pair[1], pair[2]>>] - unpaid[<<pair[2], pair[1]>>]
        IN  IF diff > 0 THEN diff ELSE 0]

Compute ==
    /\ pc = "offset"
    /\ stage1' = Offset
    /\ pc' = "net"
    /\ UNCHANGED <<items, unpaid, next, creditors, debtors, i, j, result>>

\* The list with one more entry, where there is an amount.
Listed(list, user, amount) ==
    IF amount > 0 THEN Append(list, [name |-> user, amount |-> amount]) ELSE list

\* Takes all a member is owed, and all a member owes, for the balance.
SplitBalances_Gross ==
    /\ pc = "net"
    /\ creditors' = Listed(creditors, next, Total([v \in Users |-> stage1[<<v, next>>]]))
    /\ debtors' = Listed(debtors, next, Total([v \in Users |-> stage1[<<next, v>>]]))
    /\ next' = next + 1
    /\ pc' = IF next = N THEN "match" ELSE "net"
    /\ UNCHANGED <<items, unpaid, stage1, i, j, result>>

\* The next member goes to one of the lists, or to neither.
SplitBalances ==
    /\ pc = "net"
    /\ creditors' = Listed(creditors, next, Net(stage1, next))
    /\ debtors' = Listed(debtors, next, -Net(stage1, next))
    /\ next' = next + 1
    /\ pc' = IF next = N THEN "match" ELSE "net"
    /\ UNCHANGED <<items, unpaid, stage1, i, j, result>>

Smaller(a, b) == IF b < a THEN b ELSE a

\* Stays at a debtor with nothing left.
Advance_CreditorOnly(c, d) ==
    /\ i' = IF c = 0 THEN i + 1 ELSE i
    /\ j' = j

\* The positions move past a creditor, or debtor, with nothing left.
Advance(c, d) ==
    /\ i' = IF c = 0 THEN i + 1 ELSE i
    /\ j' = IF d = 0 THEN j + 1 ELSE j

\* Pays the creditor in full whatever the debtor still has.
Transfer_WholeCredit(c, d) == c.amount

\* Pays in instalments of at most two cents.
Transfer_Instalment(c, d) == Smaller(2, Smaller(c.amount, d.amount))

Transfer(c, d) == Smaller(c.amount, d.amount)

\* One round of Optimize's loop.  add stores the amount, it does not sum.
Match ==
    /\ pc = "match"
    /\ i <= Len(creditors)
    /\ j <= Len(debtors)
    /\ LET c == creditors[i]
           d == debtors[j]
           amount == Transfer(c, d)
       IN  /\ result' = IF amount > 0 THEN [result EXCEPT ![<<d.name, c.name>>] = amount]
                                      ELSE result
           /\ creditors' = [creditors EXCEPT ![i].amount = @ - amount]
           /\ debtors' = [debtors EXCEPT ![j].amount = @ - amount]
           /\ Advance(c.amount - amount, d.amount - amount)
    /\ UNCHANGED <<pc, items, unpaid, stage1, next>>

Return ==
    /\ pc = "match"
    /\ i > Len(creditors) \/ j > Len(debtors)
    /\ pc' = "done"
    /\ UNCHANGED <<items, unpaid, stage1, next, creditors, debtors, i, j, result>>

Next ==
    \/ \E payer, initiator \in Users, amount \in 1 .. MaxAmount :
          AggregateUnpaid(payer, initiator, amount)
    \/ RowsDone
    \/ Compute
    \/ SplitBalances
    \/ Match
    \/ Return

Spec == Init /\ [][Next]_vars

\* The function runs to its end, on the rows the query returned.
FairSpec == Spec /\ WF_vars(RowsDone \/ Compute \/ SplitBalances \/ Match \/ Return)

-----------------------------------------------------------------------------
Transfers == {pair \in Users \X Users : result[pair] > 0}
Unbalanced == {u \in Users : Net(unpaid, u) # 0}

\* The transfers move exactly what the items say: every member ends with the
\* net amount that the unpaid items give them, to the cent.
NetPreserved ==
    pc = "done" => \A u \in Users : Net(result, u) = Net(unpaid, u)

\* A pair of members gets at most one transfer: the assignment in add never
\* overwrites an amount stored in an earlier round.
NoOverwrite ==
    [][\A pair \in Transfers : result'[pair] = result[pair]]_vars

\* n members with an open balance need at most n - 1 transfers.
FewTransfers ==
    pc = "done" => Cardinality(Transfers) <= (IF Unbalanced = {} THEN 0
                                              ELSE Cardinality(Unbalanced) - 1)

\* Nobody pays and receives, and nobody pays more than their net debt.
NoPassThrough ==
    \A pair \in Transfers : /\ Net(unpaid, pair[1]) <= -result[pair]
                            /\ Net(unpaid, pair[2]) >= result[pair]

\* The loop ends.
Terminates == <>(pc = "done")

\* No plan has fewer transfers.  Where the open balances fall into two groups
\* that each sum to zero, n - 2 transfers are enough.
FewestTransfers ==
    pc = "done" =>
       \A group \in SUBSET Unbalanced :
          /\ group \notin {{}, Unbalanced}
          /\ MapThenSumSet(LAMBDA u : Net(unpaid, u), group) = 0
          => Cardinality(Transfers) <= Cardinality(Unbalanced) - 2
=============================================================================
