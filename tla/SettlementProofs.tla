-------------------------- MODULE SettlementProofs --------------------------
(***************************************************************************)
(* Proofs about Settlement, for any number of members, items and cents.    *)
(*                                                                         *)
(* The balances of all members sum to zero, whatever the items (SumInv).   *)
(* The two lists hold exactly the members with a balance, each with what   *)
(* the transfers have left of it; those before the loop's position have    *)
(* nothing left, those from it on have something (Ranked, ListInv).  So    *)
(* the two members a round looks at have not met before (TransferInv),     *)
(* each round passes one of them (CountInv), and when one list is through  *)
(* nobody has anything left (Exhausted): what is left is zero or positive  *)
(* for all, or zero or negative for all, and sums to zero.                 *)
(*                                                                         *)
(* Total is a fold over the set of members.  What such a sum does when an  *)
(* amount changes is shown on the smallest set of members for which it     *)
(* would not be so.                                                        *)
(***************************************************************************)
EXTENDS Settlement, FiniteSetTheorems, WellFoundedInduction, TLAPS

-----------------------------------------------------------------------------
(* Sums over the members.  Total is a recursive function over their sets;  *)
(* an induction looks at the smallest set that breaks the claim.           *)

Pick(s) == CHOOSE x \in s : TRUE

\* g sums f over each subset of s.
Sums(f, g, s) ==
    \A t \in SUBSET s : g[t] = IF t = {} THEN 0 ELSE f[Pick(t)] + g[t \ {Pick(t)}]

LEMMA UsersFinite == IsFiniteSet(Users)
BY FS_Interval, SettlementAssumption DEF Users

LEMMA SmallestSet ==
    ASSUME NEW T, T \subseteq SUBSET Users, T # {}
    PROVE  \E s \in T : \A t \in SUBSET s : t # s => t \notin T
<1>1. IsWellFoundedOn(StrictSubsetOrdering(Users), SUBSET Users)
  BY UsersFinite, FS_FiniteSubsetsOfFinite, FS_StrictSubsetOrderingWellFounded
<1>2. PICK s \in T : \A t \in T : <<t, s>> \notin StrictSubsetOrdering(Users)
  BY <1>1, WFMin
<1>3. ASSUME NEW t \in SUBSET s, t # s
      PROVE  <<t, s>> \in StrictSubsetOrdering(Users)
  <2>1. <<t, s>> \in (SUBSET Users) \X (SUBSET Users) /\ <<t, s>>[1] = t /\ <<t, s>>[2] = s
    OBVIOUS
  <2> QED BY <1>3, <2>1, Zenon DEF StrictSubsetOrdering
<1>4. \A t \in SUBSET s : t # s => t \notin T
  BY <1>2, <1>3
<1> QED BY <1>4

LEMMA PickSmaller ==
    ASSUME NEW t, t # {}
    PROVE  Pick(t) \in t /\ t \ {Pick(t)} \in SUBSET t /\ t \ {Pick(t)} # t
BY DEF Pick

LEMMA SumsUnique ==
    ASSUME NEW f, NEW s \in SUBSET Users, NEW r \in SUBSET Users, NEW g, NEW h,
           Sums(f, g, s), Sums(f, h, r)
    PROVE  \A t \in SUBSET (s \cap r) : g[t] = h[t]
<1> DEFINE T == {t \in SUBSET (s \cap r) : g[t] # h[t]}
<1>1. SUFFICES ASSUME T # {} PROVE FALSE
  OBVIOUS
<1>2. PICK t \in T : \A x \in SUBSET t : x # t => x \notin T
  BY <1>1, SmallestSet
<1>3. t \in SUBSET s /\ t \in SUBSET r /\ g[t] # h[t]
  OBVIOUS
<1>4. t # {}
  BY <1>3 DEF Sums
<1>5. g[t \ {Pick(t)}] = h[t \ {Pick(t)}]
  BY <1>2, <1>3, <1>4, PickSmaller
<1> QED BY <1>3, <1>4, <1>5 DEF Sums

LEMMA SumsExist ==
    ASSUME NEW f \in [Users -> Int]
    PROVE  \E g \in [SUBSET Users -> Int] : Sums(f, g, Users)
<1> DEFINE Has(s) == \E g \in [SUBSET s -> Int] : Sums(f, g, s)
           T == {s \in SUBSET Users : ~Has(s)}
<1>1. SUFFICES ASSUME T # {} PROVE FALSE
  OBVIOUS
<1>2. PICK s \in T : \A t \in SUBSET s : t # s => t \notin T
  BY <1>1, SmallestSet
<1> DEFINE G(t) == CHOOSE g \in [SUBSET t -> Int] : Sums(f, g, t)
           value(t) == IF t = {} THEN 0 ELSE f[Pick(t)] + G(t \ {Pick(t)})[t \ {Pick(t)}]
           g == [t \in SUBSET s |-> value(t)]
<1>3. \A t \in SUBSET s : t # s => G(t) \in [SUBSET t -> Int] /\ Sums(f, G(t), t)
  <2>1. \A t \in SUBSET s : t # s => Has(t)
    BY <1>2
  <2> QED BY <2>1
<1> HIDE DEF G
<1>4. \A t \in SUBSET s : t # {} => Pick(t) \in Users /\ t \ {Pick(t)} \in SUBSET s
                                      /\ t \ {Pick(t)} # s
  BY PickSmaller
<1>5. \A t \in SUBSET s : value(t) \in Int
  <2> SUFFICES ASSUME NEW t \in SUBSET s, t # {} PROVE value(t) \in Int
    OBVIOUS
  <2> DEFINE r == t \ {Pick(t)}
  <2>1. r \in SUBSET s /\ r # s /\ r \in SUBSET r /\ f[Pick(t)] \in Int
    BY <1>4
  <2> HIDE DEF r
  <2>2. G(r)[r] \in Int
    BY <1>3, <2>1
  <2> QED BY <2>1, <2>2 DEF r
<1>6. \A t \in SUBSET s : t # s => G(t)[t] = value(t)
  <2> SUFFICES ASSUME NEW t \in SUBSET s, t # s PROVE G(t)[t] = value(t)
    OBVIOUS
  <2>1. t \in SUBSET t /\ Sums(f, G(t), t)
    BY <1>3
  <2>2. CASE t = {}
    BY <2>1, <2>2 DEF Sums
  <2>3. CASE t # {}
    <3> DEFINE r == t \ {Pick(t)}
    <3>1. r \in SUBSET s /\ r # s /\ r \in SUBSET t /\ r \in SUBSET (t \cap r)
      BY <2>3, PickSmaller
    <3>2. Sums(f, G(r), r) /\ Sums(f, G(t), t)
      BY <1>3, <2>1, <3>1
    <3>3. G(t)[r] = G(r)[r]
      <4>1. t \in SUBSET Users /\ r \in SUBSET Users
        OBVIOUS
      <4> HIDE DEF r
      <4> QED BY <3>1, <3>2, <4>1, SumsUnique
    <3>4. G(t)[t] = f[Pick(t)] + G(t)[r]
      BY <2>1, <2>3 DEF Sums
    <3> QED BY <2>3, <3>3, <3>4
  <2> QED BY <2>2, <2>3
<1>7. g \in [SUBSET s -> Int]
  BY <1>5
<1>8. Sums(f, g, s)
  <2> SUFFICES ASSUME NEW t \in SUBSET s
               PROVE  g[t] = IF t = {} THEN 0 ELSE f[Pick(t)] + g[t \ {Pick(t)}]
    BY DEF Sums
  <2>1. CASE t = {}
    BY <2>1
  <2>2. CASE t # {}
    <3>1. g[t \ {Pick(t)}] = G(t \ {Pick(t)})[t \ {Pick(t)}]
      BY <1>4, <1>6, <2>2
    <3> QED BY <2>2, <3>1
  <2> QED BY <2>1, <2>2
<1> QED BY <1>7, <1>8

LEMMA TotalUnfolds ==
    ASSUME NEW f \in [Users -> Int]
    PROVE  \E g \in [SUBSET Users -> Int] : Sums(f, g, Users) /\ Total(f) = g[Users]
<1> DEFINE Iter(g) == [t \in SUBSET Users |->
                          IF t = {} THEN 0 ELSE f[Pick(t)] + g[t \ {Pick(t)}]]
           it == CHOOSE g : g = Iter(g)
<1>1. Total(f) = it[Users]
  BY DEF Total, MapThenSumSet, MapThenFoldSet, Pick
<1>2. PICK g \in [SUBSET Users -> Int] : Sums(f, g, Users)
  BY SumsExist
<1>3. g = Iter(g)
  BY <1>2 DEF Sums
<1>4. it = Iter(it)
  BY <1>3
<1> HIDE DEF it
<1>5. Sums(f, it, Users)
  BY <1>4 DEF Sums
<1>6. Users \in SUBSET Users /\ Users \in SUBSET (Users \cap Users)
  OBVIOUS
<1>7. it[Users] = g[Users]
  BY <1>2, <1>5, <1>6, SumsUnique
<1> QED BY <1>1, <1>2, <1>7

LEMMA SumsOfNone == ASSUME NEW f, NEW g, Sums(f, g, Users) PROVE g[{}] = 0
<1>1. {} \in SUBSET Users
  OBVIOUS
<1> QED BY <1>1 DEF Sums

LEMMA TotalType == ASSUME NEW f \in [Users -> Int] PROVE Total(f) \in Int
<1>1. PICK g \in [SUBSET Users -> Int] : Total(f) = g[Users]
  BY TotalUnfolds
<1>2. Users \in SUBSET Users
  OBVIOUS
<1> QED BY <1>1, <1>2

LEMMA TotalOfZeros ==
    ASSUME NEW f \in [Users -> Int], \A u \in Users : f[u] = 0
    PROVE  Total(f) = 0
<1>1. PICK g \in [SUBSET Users -> Int] : Sums(f, g, Users) /\ Total(f) = g[Users]
  BY TotalUnfolds
<1> DEFINE T == {s \in SUBSET Users : g[s] # 0}
<1>2. T = {}
  <2>1. SUFFICES ASSUME T # {} PROVE FALSE
    OBVIOUS
  <2>2. PICK s \in T : \A t \in SUBSET s : t # s => t \notin T
    BY <2>1, SmallestSet
  <2>3. s # {}
    <3>1. g[{}] = 0
      BY <1>1, SumsOfNone
    <3>2. {} \notin T
      BY <3>1
    <3> QED BY <2>2, <3>2
  <2>4. Pick(s) \in Users /\ g[s \ {Pick(s)}] = 0
    BY <2>2, <2>3, PickSmaller
  <2>5. g[s] = f[Pick(s)] + g[s \ {Pick(s)}]
    BY <1>1, <2>2, <2>3 DEF Sums
  <2>6. f[Pick(s)] = 0
    BY <2>4
  <2> QED BY <2>2, <2>4, <2>5, <2>6
<1> QED BY <1>1, <1>2

\* h is f with a more at x.
Changed(f, h, x, a) == h[x] = f[x] + a /\ \A u \in Users \ {x} : h[u] = f[u]

\* An amount that one member gets changes the sum by it.
LEMMA TotalOfUpdate ==
    ASSUME NEW f \in [Users -> Int], NEW h \in [Users -> Int], NEW x \in Users, NEW a \in Int,
           Changed(f, h, x, a)
    PROVE  Total(h) = Total(f) + a
<1> USE DEF Changed
<1>1. PICK g \in [SUBSET Users -> Int] : Sums(f, g, Users) /\ Total(f) = g[Users]
  BY TotalUnfolds
<1>2. PICK k \in [SUBSET Users -> Int] : Sums(h, k, Users) /\ Total(h) = k[Users]
  BY TotalUnfolds
<1> DEFINE more(s) == IF x \in s THEN a ELSE 0
           T == {s \in SUBSET Users : k[s] # g[s] + more(s)}
<1>3. T = {}
  <2>1. SUFFICES ASSUME T # {} PROVE FALSE
    OBVIOUS
  <2>2. PICK s \in T : \A t \in SUBSET s : t # s => t \notin T
    BY <2>1, SmallestSet
  <2>3. s # {}
    <3>1. g[{}] = 0 /\ k[{}] = 0
      BY <1>1, <1>2, SumsOfNone
    <3>2. {} \notin T
      BY <3>1
    <3> QED BY <2>2, <3>2
  <2> DEFINE p == Pick(s)
             r == s \ {p}
  <2>4. p \in Users /\ p \in s /\ r \in SUBSET Users /\ k[r] = g[r] + more(r)
    BY <2>2, <2>3, PickSmaller
  <2>5. g[s] = f[p] + g[r] /\ k[s] = h[p] + k[r]
    BY <1>1, <1>2, <2>2, <2>3 DEF Sums
  <2>6. s \in SUBSET Users /\ g[r] \in Int /\ k[s] # g[s] + more(s)
    BY <2>2, <2>4
  <2>7. f[p] \in Int
    BY <2>4
  <2> HIDE DEF p
  <2>8. CASE p = x
    <3>1. more(s) = a /\ more(r) = 0
      BY <2>4, <2>8
    <3> QED BY <2>4, <2>5, <2>6, <2>7, <2>8, <3>1
  <2>9. CASE p # x
    <3>1. more(s) = more(r) /\ more(r) \in Int /\ h[p] = f[p]
      BY <2>4, <2>9
    <3> QED BY <2>4, <2>5, <2>6, <2>7, <3>1
  <2> QED BY <2>8, <2>9
<1>4. Users \in SUBSET Users /\ more(Users) = a
  OBVIOUS
<1>5. k[Users] = g[Users] + more(Users)
  BY <1>3, <1>4
<1> QED BY <1>1, <1>2, <1>4, <1>5

\* Where nobody is above zero, nobody is below the sum.
LEMMA TotalOfDebts ==
    ASSUME NEW f \in [Users -> Int], \A u \in Users : f[u] =< 0, NEW x \in Users
    PROVE  Total(f) =< f[x] /\ Total(f) =< 0
<1>1. PICK g \in [SUBSET Users -> Int] : Sums(f, g, Users) /\ Total(f) = g[Users]
  BY TotalUnfolds
<1> DEFINE Low(s) == g[s] =< 0 /\ (x \in s => g[s] =< f[x])
           T == {s \in SUBSET Users : ~Low(s)}
<1>2. T = {}
  <2>1. SUFFICES ASSUME T # {} PROVE FALSE
    OBVIOUS
  <2>2. PICK s \in T : \A t \in SUBSET s : t # s => t \notin T
    BY <2>1, SmallestSet
  <2>3. s # {}
    <3>1. g[{}] = 0
      BY <1>1, SumsOfNone
    <3>2. {} \notin T
      BY <3>1
    <3> QED BY <2>2, <3>2
  <2> DEFINE p == Pick(s)
             r == s \ {p}
  <2>4. p \in Users /\ r \in SUBSET Users /\ Low(r)
    BY <2>2, <2>3, PickSmaller
  <2>5. g[s] = f[p] + g[r]
    BY <1>1, <2>2, <2>3 DEF Sums
  <2>6. f[p] \in Int /\ f[p] =< 0 /\ f[x] \in Int /\ f[x] =< 0 /\ g[r] \in Int /\ g[r] =< 0
    BY <2>4
  <2>7. x \in s => p = x \/ g[r] =< f[x]
    BY <2>4
  <2>8. Low(s)
    BY <2>5, <2>6, <2>7
  <2> QED BY <2>2, <2>8
<1> QED BY <1>1, <1>2

\* The same from above.
LEMMA TotalOfCredits ==
    ASSUME NEW f \in [Users -> Int], \A u \in Users : f[u] >= 0, NEW x \in Users
    PROVE  Total(f) >= f[x] /\ Total(f) >= 0
<1>1. PICK g \in [SUBSET Users -> Int] : Sums(f, g, Users) /\ Total(f) = g[Users]
  BY TotalUnfolds
<1> DEFINE High(s) == g[s] >= 0 /\ (x \in s => g[s] >= f[x])
           T == {s \in SUBSET Users : ~High(s)}
<1>2. T = {}
  <2>1. SUFFICES ASSUME T # {} PROVE FALSE
    OBVIOUS
  <2>2. PICK s \in T : \A t \in SUBSET s : t # s => t \notin T
    BY <2>1, SmallestSet
  <2>3. s # {}
    <3>1. g[{}] = 0
      BY <1>1, SumsOfNone
    <3>2. {} \notin T
      BY <3>1
    <3> QED BY <2>2, <3>2
  <2> DEFINE p == Pick(s)
             r == s \ {p}
  <2>4. p \in Users /\ r \in SUBSET Users /\ High(r)
    BY <2>2, <2>3, PickSmaller
  <2>5. g[s] = f[p] + g[r]
    BY <1>1, <2>2, <2>3 DEF Sums
  <2>6. f[p] \in Int /\ f[p] >= 0 /\ f[x] \in Int /\ f[x] >= 0 /\ g[r] \in Int /\ g[r] >= 0
    BY <2>4
  <2>7. x \in s => p = x \/ g[r] >= f[x]
    BY <2>4
  <2>8. High(s)
    BY <2>5, <2>6, <2>7
  <2> QED BY <2>2, <2>8
<1> QED BY <1>1, <1>2

Difference(e, f, h) == \A u \in Users : e[u] = f[u] - h[u]

\* Sums add up member by member.
LEMMA TotalOfSum ==
    ASSUME NEW f \in [Users -> Int], NEW h \in [Users -> Int],
           NEW e \in [Users -> Int], Difference(e, f, h)
    PROVE  Total(e) = Total(f) - Total(h)
<1> USE DEF Difference
<1>1. PICK g \in [SUBSET Users -> Int] : Sums(f, g, Users) /\ Total(f) = g[Users]
  BY TotalUnfolds
<1>2. PICK k \in [SUBSET Users -> Int] : Sums(h, k, Users) /\ Total(h) = k[Users]
  BY TotalUnfolds
<1>3. PICK d \in [SUBSET Users -> Int] : Sums(e, d, Users) /\ Total(e) = d[Users]
  BY TotalUnfolds
<1> DEFINE T == {s \in SUBSET Users : d[s] # g[s] - k[s]}
<1>4. T = {}
  <2>1. SUFFICES ASSUME T # {} PROVE FALSE
    OBVIOUS
  <2>2. PICK s \in T : \A t \in SUBSET s : t # s => t \notin T
    BY <2>1, SmallestSet
  <2>3. s # {}
    <3>1. g[{}] = 0 /\ k[{}] = 0 /\ d[{}] = 0
      BY <1>1, <1>2, <1>3, SumsOfNone
    <3>2. {} \notin T
      BY <3>1
    <3> QED BY <2>2, <3>2
  <2> DEFINE p == Pick(s)
             r == s \ {p}
  <2>4. p \in Users /\ r \in SUBSET Users /\ d[r] = g[r] - k[r]
    BY <2>2, <2>3, PickSmaller
  <2>5. g[s] = f[p] + g[r] /\ k[s] = h[p] + k[r] /\ d[s] = e[p] + d[r]
    BY <1>1, <1>2, <1>3, <2>2, <2>3 DEF Sums
  <2>6. f[p] \in Int /\ h[p] \in Int /\ e[p] = f[p] - h[p] /\ g[r] \in Int /\ k[r] \in Int
    BY <2>4
  <2>7. d[s] = g[s] - k[s]
    BY <2>4, <2>5, <2>6
  <2> QED BY <2>2, <2>7
<1> QED BY <1>1, <1>2, <1>3, <1>4

-----------------------------------------------------------------------------
(* Net amounts.                                                            *)

Flow(debts, u) == [v \in Users |-> debts[<<v, u>>] - debts[<<u, v>>]]
Nets(debts) == [u \in Users |-> Net(debts, u)]

LEMMA FlowType ==
    ASSUME NEW debts \in Debts, NEW u \in Users
    PROVE  /\ Flow(debts, u) \in [Users -> Int]
           /\ Net(debts, u) = Total(Flow(debts, u))
           /\ \A v \in Users : /\ Flow(debts, u)[v] = debts[<<v, u>>] - debts[<<u, v>>]
                               /\ debts[<<v, u>>] \in Nat /\ debts[<<u, v>>] \in Nat
<1>1. \A v \in Users : debts[<<v, u>>] \in Nat /\ debts[<<u, v>>] \in Nat
  BY DEF Debts
<1> QED BY <1>1 DEF Flow, Net

LEMMA NetType ==
    ASSUME NEW debts \in Debts
    PROVE  Nets(debts) \in [Users -> Int] /\ \A u \in Users : Net(debts, u) \in Int
<1>1. \A u \in Users : Net(debts, u) \in Int
  BY FlowType, TotalType
<1> QED BY <1>1 DEF Nets

\* Debts that differ in nothing but where they cancel out.
LEMMA SameNet ==
    ASSUME NEW debts \in Debts, NEW other \in Debts, NEW u \in Users,
           \A v \in Users : debts[<<v, u>>] - debts[<<u, v>>] = other[<<v, u>>] - other[<<u, v>>]
    PROVE  Net(other, u) = Net(debts, u)
<1>1. Flow(other, u) = Flow(debts, u)
  BY DEF Flow
<1> QED BY <1>1, FlowType

\* One debt grows: its creditor is owed more, its debtor owes more.
LEMMA NetAfter ==
    ASSUME NEW debts \in Debts, NEW other \in Debts, NEW p \in Users, NEW q \in Users,
           NEW a \in Int, other[<<p, q>>] = debts[<<p, q>>] + a,
           \A x, y \in Users : x # p \/ y # q => other[<<x, y>>] = debts[<<x, y>>]
    PROVE  /\ p # q => Net(other, q) = Net(debts, q) + a
           /\ p # q => Net(other, p) = Net(debts, p) - a
           /\ \A u \in Users : p = q \/ (u # p /\ u # q) => Net(other, u) = Net(debts, u)
<1> DEFINE F(u) == Flow(debts, u)
           H(u) == Flow(other, u)
<1>1. \A u \in Users : /\ F(u) \in [Users -> Int] /\ H(u) \in [Users -> Int]
                       /\ Net(debts, u) = Total(F(u)) /\ Net(other, u) = Total(H(u))
  BY FlowType
<1>2. \A u, v \in Users : /\ F(u)[v] = debts[<<v, u>>] - debts[<<u, v>>]
                          /\ H(u)[v] = other[<<v, u>>] - other[<<u, v>>]
                          /\ debts[<<v, u>>] \in Nat /\ debts[<<u, v>>] \in Nat
  BY FlowType
<1> HIDE DEF F, H
<1>3. ASSUME p # q PROVE Net(other, q) = Net(debts, q) + a
  <2>0. /\ other[<<q, p>>] = debts[<<q, p>>]
        /\ \A v \in Users \ {p} :
              other[<<q, v>>] = debts[<<q, v>>] /\ other[<<v, q>>] = debts[<<v, q>>]
    BY <1>3
  <2>1. H(q)[p] = F(q)[p] + a /\ \A v \in Users \ {p} : H(q)[v] = F(q)[v]
    <3>1. ASSUME NEW v \in Users \ {p} PROVE H(q)[v] = F(q)[v]
      <4>1. /\ H(q)[v] = other[<<v, q>>] - other[<<q, v>>]
            /\ F(q)[v] = debts[<<v, q>>] - debts[<<q, v>>]
        BY <1>2
      <4>2. other[<<q, v>>] = debts[<<q, v>>] /\ other[<<v, q>>] = debts[<<v, q>>]
        BY <2>0
      <4> QED BY <4>1, <4>2
    <3>2. debts[<<p, q>>] \in Nat /\ debts[<<q, p>>] \in Nat
      BY <1>2
    <3>3. H(q)[p] = other[<<p, q>>] - other[<<q, p>>]
             /\ F(q)[p] = debts[<<p, q>>] - debts[<<q, p>>]
      BY <1>2
    <3>4. H(q)[p] = F(q)[p] + a
      BY <2>0, <3>2, <3>3
    <3> QED BY <3>1, <3>4
  <2>2. Changed(F(q), H(q), p, a)
    BY <2>1 DEF Changed
  <2>3. Total(H(q)) = Total(F(q)) + a
    BY <1>1, <2>2, TotalOfUpdate
  <2> QED BY <1>1, <2>3
<1>4. ASSUME p # q PROVE Net(other, p) = Net(debts, p) - a
  <2>0. /\ other[<<q, p>>] = debts[<<q, p>>]
        /\ \A v \in Users \ {q} :
              other[<<p, v>>] = debts[<<p, v>>] /\ other[<<v, p>>] = debts[<<v, p>>]
    BY <1>4
  <2>1. H(p)[q] = F(p)[q] + (-a) /\ \A v \in Users \ {q} : H(p)[v] = F(p)[v]
    <3>1. ASSUME NEW v \in Users \ {q} PROVE H(p)[v] = F(p)[v]
      <4>1. /\ H(p)[v] = other[<<v, p>>] - other[<<p, v>>]
            /\ F(p)[v] = debts[<<v, p>>] - debts[<<p, v>>]
        BY <1>2
      <4>2. other[<<p, v>>] = debts[<<p, v>>] /\ other[<<v, p>>] = debts[<<v, p>>]
        BY <2>0
      <4> QED BY <4>1, <4>2
    <3>2. debts[<<p, q>>] \in Nat /\ debts[<<q, p>>] \in Nat
      BY <1>2
    <3>3. H(p)[q] = other[<<q, p>>] - other[<<p, q>>]
             /\ F(p)[q] = debts[<<q, p>>] - debts[<<p, q>>]
      BY <1>2
    <3>4. H(p)[q] = F(p)[q] + (-a)
      BY <2>0, <3>2, <3>3
    <3> QED BY <3>1, <3>4
  <2>2. Changed(F(p), H(p), q, -a)
    BY <2>1 DEF Changed
  <2>3. -a \in Int
    OBVIOUS
  <2>4. Total(H(p)) = Total(F(p)) + (-a)
    BY <1>1, <2>2, <2>3, TotalOfUpdate
  <2> QED BY <1>1, <2>4, TotalType
<1>5. ASSUME NEW u \in Users, p = q \/ (u # p /\ u # q) PROVE Net(other, u) = Net(debts, u)
  <2>1. \A v \in Users : debts[<<v, u>>] - debts[<<u, v>>] = other[<<v, u>>] - other[<<u, v>>]
    BY <1>2, <1>5
  <2> QED BY <2>1, SameNet
<1> QED BY <1>3, <1>4, <1>5

\* What one member is owed more another owes more: the sum of all stays.
LEMMA NetsAfter ==
    ASSUME NEW debts \in Debts, NEW other \in Debts, NEW p \in Users, NEW q \in Users,
           NEW a \in Int, other[<<p, q>>] = debts[<<p, q>>] + a,
           \A x, y \in Users : x # p \/ y # q => other[<<x, y>>] = debts[<<x, y>>]
    PROVE  Total(Nets(other)) = Total(Nets(debts))
<1> DEFINE f == Nets(debts)
           h == Nets(other)
           m == [u \in Users |-> IF u = q THEN f[u] + a ELSE f[u]]
<1>1. f \in [Users -> Int] /\ h \in [Users -> Int]
        /\ \A u \in Users : f[u] = Net(debts, u) /\ h[u] = Net(other, u)
  BY NetType DEF Nets
<1>2. /\ p # q => Net(other, q) = Net(debts, q) + a
      /\ p # q => Net(other, p) = Net(debts, p) - a
      /\ \A u \in Users : p = q \/ (u # p /\ u # q) => Net(other, u) = Net(debts, u)
  BY NetAfter
<1> HIDE DEF f, h
<1>3. m \in [Users -> Int] /\ m[q] = f[q] + a /\ \A u \in Users \ {q} : m[u] = f[u]
  BY <1>1
<1> HIDE DEF m
<1>4. CASE p = q
  <2>1. h = f
    BY <1>1, <1>2, <1>4
  <2> QED BY <2>1 DEF f, h
<1>5. CASE p # q
  <2>1. h[p] = m[p] + (-a) /\ \A u \in Users \ {p} : h[u] = m[u]
    BY <1>1, <1>2, <1>3, <1>5
  <2>2. Total(m) = Total(f) + a
    <3>1. Changed(f, m, q, a)
      BY <1>3 DEF Changed
    <3> QED BY <1>1, <1>3, <3>1, TotalOfUpdate
  <2>3. Total(h) = Total(m) + (-a)
    <3>1. Changed(m, h, p, -a) /\ -a \in Int
      BY <2>1 DEF Changed
    <3> QED BY <1>1, <1>3, <3>1, TotalOfUpdate
  <2>4. Total(f) \in Int
    BY <1>1, TotalType
  <2> QED BY <2>2, <2>3, <2>4 DEF f, h
<1> QED BY <1>4, <1>5

-----------------------------------------------------------------------------
(* The lists of creditors and debtors.                                     *)

\* The members up to last who are due an amount, each with what is left of
\* it; those before pos have nothing left.
Ranked(list, pos, last, due, left) ==
    /\ list \in Seq(Entry)
    /\ pos \in 1 .. Len(list) + 1
    /\ \A k \in 1 .. Len(list) :
          /\ list[k].name =< last
          /\ list[k].amount = left[list[k].name]
          /\ due[list[k].name] > 0
          /\ k < pos <=> list[k].amount = 0
    /\ \A k, l \in 1 .. Len(list) : list[k].name = list[l].name => k = l
    /\ \A u \in Users : u =< last /\ due[u] > 0 => \E k \in 1 .. Len(list) : list[k].name = u

LEMMA EntriesOf ==
    ASSUME NEW list \in Seq(Entry)
    PROVE  /\ Len(list) \in Nat /\ DOMAIN list = 1 .. Len(list)
           /\ \A k \in 1 .. Len(list) : list[k].name \in Users /\ list[k].amount \in Nat
<1>1. Len(list) \in Nat /\ DOMAIN list = 1 .. Len(list) /\ list \in [1 .. Len(list) -> Entry]
  OBVIOUS
<1>2. \A k \in 1 .. Len(list) : list[k] \in Entry
  BY <1>1
<1> QED BY <1>1, <1>2 DEF Entry

\* The next member is listed if there is an amount due.
LEMMA RankedAppend ==
    ASSUME NEW list, NEW m \in Users, NEW due \in [Users -> Int], Ranked(list, 1, m - 1, due, due)
    PROVE  /\ Ranked(Listed(list, m, due[m]), 1, m, due, due)
           /\ Len(Listed(list, m, due[m])) = IF due[m] > 0 THEN Len(list) + 1 ELSE Len(list)
<1> DEFINE more == Listed(list, m, due[m])
           n == Len(list)
<1>1. n \in Nat /\ list \in Seq(Entry) /\ m \in Nat /\ \A u \in Users : u \in Nat
  BY EntriesOf DEF Ranked, Users
<1>2. \A k \in 1 .. n : list[k].name \in Users /\ list[k].name =< m - 1 /\ list[k].name =< m
  <2>1. \A k \in 1 .. n : list[k].name \in Users /\ list[k].name =< m - 1
    BY <1>1, EntriesOf DEF Ranked
  <2>2. \A u \in Users : u =< m - 1 => u =< m
    BY <1>1
  <2> QED BY <2>1, <2>2
<1>3. CASE due[m] > 0
  <2> DEFINE e == [name |-> m, amount |-> due[m]]
  <2>1. e \in Entry /\ e.name = m /\ e.amount = due[m]
    BY <1>3 DEF Entry
  <2>2. more = Append(list, e)
    BY <1>3 DEF Listed
  <2> HIDE DEF e
  <2>3. more \in Seq(Entry) /\ Len(more) = n + 1 /\ more[n + 1] = e
          /\ \A k \in 1 .. n : more[k] = list[k]
    BY <1>1, <2>1, <2>2
  <2> HIDE DEF more
  <2>4. 1 .. n + 1 = (1 .. n) \union {n + 1} /\ 1 \in 1 .. Len(more) + 1
    BY <1>1, <2>3
  <2>5. \A k \in 1 .. n : /\ list[k].amount = due[list[k].name]
                          /\ due[list[k].name] > 0 /\ ~(k < 1) /\ list[k].amount # 0
    BY <1>1 DEF Ranked
  <2>6. \A k \in 1 .. Len(more) :
          /\ more[k].name =< m /\ more[k].amount = due[more[k].name]
          /\ due[more[k].name] > 0 /\ (k < 1 <=> more[k].amount = 0)
    <3>1. ASSUME NEW k \in 1 .. n
          PROVE  /\ more[k].name =< m /\ more[k].amount = due[more[k].name]
                 /\ due[more[k].name] > 0 /\ (k < 1 <=> more[k].amount = 0)
      <4>1. more[k] = list[k]
        BY <2>3
      <4>2. list[k].name =< m
        BY <1>2
      <4> QED BY <2>5, <4>1, <4>2
    <3>2. more[n + 1].name = m /\ more[n + 1].amount = due[m]
      BY <2>1, <2>3
    <3>3. n + 1 >= 1 /\ m =< m
      BY <1>1
    <3> QED BY <1>3, <2>3, <2>4, <3>1, <3>2, <3>3
  <2>7. \A k, l \in 1 .. Len(more) : more[k].name = more[l].name => k = l
    <3>1. more[n + 1].name = m /\ \A k \in 1 .. n : more[k].name # m
      BY <1>1, <1>2, <2>1, <2>3
    <3>2. \A k, l \in 1 .. n : more[k].name = more[l].name => k = l
      BY <2>3 DEF Ranked
    <3> QED BY <2>3, <2>4, <3>1, <3>2
  <2>8. ASSUME NEW u \in Users, u =< m, due[u] > 0
        PROVE  \E k \in 1 .. Len(more) : more[k].name = u
    <3>1. CASE u = m
      BY <2>1, <2>3, <2>4, <3>1
    <3>2. CASE u # m
      <4>1. u =< m - 1
        BY <1>1, <2>8, <3>2
      <4>2. PICK k \in 1 .. n : list[k].name = u
        BY <2>8, <4>1 DEF Ranked
      <4> QED BY <2>3, <2>4, <4>2
    <3> QED BY <3>1, <3>2
  <2> QED BY <1>3, <2>3, <2>4, <2>6, <2>7, <2>8 DEF Ranked, more
<1>4. CASE ~(due[m] > 0)
  <2>1. more = list
    BY <1>4 DEF Listed
  <2> HIDE DEF more
  <2>2. \A k \in 1 .. n : list[k].name =< m
    BY <1>2
  <2>3. \A u \in Users : u =< m /\ due[u] > 0 => u =< m - 1
    BY <1>1, <1>4
  <2>4. Ranked(list, 1, m, due, due)
    BY <2>2, <2>3 DEF Ranked
  <2> QED BY <1>4, <2>1, <2>4 DEF more
<1> QED BY <1>3, <1>4

\* The list with the member at pos paid, and the position after that.
Paid(list, pos, amount) == [list EXCEPT ![pos].amount = @ - amount]
Passed(list, pos, amount) == IF list[pos].amount - amount = 0 THEN pos + 1 ELSE pos

SameNames(list, other) ==
    Len(other) = Len(list) /\ \A k \in 1 .. Len(list) : other[k].name = list[k].name

\* That payment is all that changes what is left.
Charged(list, pos, amount, left, rest) ==
    /\ pos =< Len(list) /\ amount =< list[pos].amount
    /\ rest[list[pos].name] = left[list[pos].name] - amount
    /\ \A k \in 1 .. Len(list) : k # pos => rest[list[k].name] = left[list[k].name]

\* The member at pos is paid, and passed when nothing is left.
LEMMA RankedPay ==
    ASSUME NEW list, NEW pos, NEW last, NEW due \in [Users -> Int],
           NEW left, NEW rest \in [Users -> Int],
           Ranked(list, pos, last, due, left),
           NEW amount \in Nat, Charged(list, pos, amount, left, rest)
    PROVE  /\ Ranked(Paid(list, pos, amount), Passed(list, pos, amount), last, due, rest)
           /\ SameNames(list, Paid(list, pos, amount))
<1> DEFINE paid == Paid(list, pos, amount)
           new == Passed(list, pos, amount)
           n == Len(list)
           e == [list[pos] EXCEPT !.amount = @ - amount]
<1>1. n \in Nat /\ list \in [1 .. n -> Entry] /\ list \in Seq(Entry) /\ pos \in 1 .. n
  BY EntriesOf DEF Ranked, Charged
<1>2. \A k \in 1 .. n : list[k].name \in Users /\ list[k].amount \in Nat
  BY <1>1, EntriesOf
<1>3. e \in Entry /\ e.name = list[pos].name /\ e.amount = list[pos].amount - amount
  <2>1. list[pos] \in Entry /\ list[pos].amount \in Nat
    BY <1>1, <1>2
  <2>2. list[pos].amount - amount \in Nat
    BY <2>1 DEF Charged
  <2> QED BY <2>1, <2>2 DEF Entry
<1>4. paid = [list EXCEPT ![pos] = e] /\ new = IF e.amount = 0 THEN pos + 1 ELSE pos
  BY <1>3 DEF Paid, Passed
<1> HIDE DEF e, paid, new
<1>5. paid \in [1 .. n -> Entry] /\ paid[pos] = e /\ \A k \in 1 .. n : k # pos => paid[k] = list[k]
  BY <1>1, <1>3, <1>4
<1>6. paid \in Seq(Entry) /\ Len(paid) = n
  BY <1>1, <1>3, <1>4
<1>7. \A k \in 1 .. n : paid[k].name = list[k].name
  BY <1>3, <1>5
<1>8. new \in 1 .. n + 1
  BY <1>1, <1>4
<1>9. ASSUME NEW k \in 1 .. n
      PROVE  paid[k].amount = rest[paid[k].name] /\ (k < new <=> paid[k].amount = 0)
  <2>1. list[k].amount = left[list[k].name] /\ (k < pos <=> list[k].amount = 0)
    BY DEF Ranked
  <2>2. CASE k = pos
    <3>1. paid[k].amount = list[pos].amount - amount /\ paid[k].name = list[pos].name
      BY <1>3, <1>5, <2>2
    <3> QED BY <1>1, <1>3, <1>4, <2>1, <2>2, <3>1 DEF Charged
  <2>3. CASE k # pos
    <3>1. paid[k] = list[k]
      BY <1>5, <2>3
    <3>2. k < new <=> k < pos
      BY <1>1, <1>3, <1>4, <2>3
    <3>3. rest[list[k].name] = left[list[k].name]
      BY <2>3 DEF Charged
    <3> QED BY <2>1, <3>1, <3>2, <3>3
  <2> QED BY <2>2, <2>3
<1>10. Ranked(paid, new, last, due, rest)
  <2>1. \A k \in 1 .. n : paid[k].name =< last /\ due[paid[k].name] > 0
    BY <1>7 DEF Ranked
  <2>2. \A k, l \in 1 .. n : paid[k].name = paid[l].name => k = l
    BY <1>7 DEF Ranked
  <2>3. ASSUME NEW u \in Users, u =< last, due[u] > 0
        PROVE  \E k \in 1 .. n : paid[k].name = u
    <3>1. PICK k \in 1 .. n : list[k].name = u
      BY <2>3 DEF Ranked
    <3> QED BY <1>7, <3>1
  <2> QED BY <1>6, <1>8, <1>9, <2>1, <2>2, <2>3 DEF Ranked
<1> QED BY <1>6, <1>7, <1>10 DEF paid, new, SameNames

\* What is due to the members and by them, and what is left of it.
Due(debts, credits, debits) ==
    \A u \in Users : credits[u] = Net(debts, u) /\ debits[u] = -Net(debts, u)
Left(debts, paid, cLeft, dLeft) ==
    \A u \in Users : /\ cLeft[u] = Net(debts, u) - Net(paid, u)
                     /\ dLeft[u] = Net(paid, u) - Net(debts, u)
EvenStay(debts, paid) == \A u \in Users : Net(debts, u) = 0 => Net(paid, u) = 0
SameNets(debts, paid) == \A u \in Users : Net(paid, u) = Net(debts, u)
OnePast(cl, dl, p, q) == p > Len(cl) \/ q > Len(dl)
BothPast(cl, dl, p, q) == p = Len(cl) + 1 /\ q = Len(dl) + 1

\* When one list is through, so is the other, and every member has paid and
\* got what the items say.
LEMMA Exhausted ==
    ASSUME NEW debts \in Debts, NEW paid \in Debts, NEW cl, NEW dl, NEW p, NEW q,
           NEW credits \in [Users -> Int], NEW debits \in [Users -> Int],
           NEW cLeft \in [Users -> Int], NEW dLeft \in [Users -> Int],
           Due(debts, credits, debits), Left(debts, paid, cLeft, dLeft),
           Ranked(cl, p, N, credits, cLeft), Ranked(dl, q, N, debits, dLeft),
           Total(Nets(debts)) = 0, Total(Nets(paid)) = 0,
           EvenStay(debts, paid), OnePast(cl, dl, p, q)
    PROVE  SameNets(debts, paid) /\ BothPast(cl, dl, p, q)
<1> USE DEF Due, Left, EvenStay, OnePast
<1>1. /\ Len(cl) \in Nat /\ p \in 1 .. Len(cl) + 1
      /\ \A k \in 1 .. Len(cl) : cl[k].name \in Users /\ cl[k].amount \in Nat
  BY EntriesOf DEF Ranked
<1>2. /\ Len(dl) \in Nat /\ q \in 1 .. Len(dl) + 1
      /\ \A k \in 1 .. Len(dl) : dl[k].name \in Users /\ dl[k].amount \in Nat
  BY EntriesOf DEF Ranked
<1>3. \A u \in Users : u =< N
  BY SettlementAssumption DEF Users
<1>4. ASSUME NEW u \in Users, credits[u] > 0
      PROVE  cLeft[u] >= 0 /\ (p > Len(cl) => cLeft[u] = 0)
  <2>1. PICK k \in 1 .. Len(cl) : cl[k].name = u
    BY <1>3, <1>4 DEF Ranked
  <2>2. cl[k].amount = cLeft[u] /\ (k < p <=> cl[k].amount = 0)
    BY <2>1 DEF Ranked
  <2>3. p > Len(cl) => k < p
    BY <1>1
  <2> QED BY <1>1, <2>2, <2>3
<1>5. ASSUME NEW u \in Users, debits[u] > 0
      PROVE  dLeft[u] >= 0 /\ (q > Len(dl) => dLeft[u] = 0)
  <2>1. PICK k \in 1 .. Len(dl) : dl[k].name = u
    BY <1>3, <1>5 DEF Ranked
  <2>2. dl[k].amount = dLeft[u] /\ (k < q <=> dl[k].amount = 0)
    BY <2>1 DEF Ranked
  <2>3. q > Len(dl) => k < q
    BY <1>2
  <2> QED BY <1>2, <2>2, <2>3
<1>6. \A u \in Users : /\ cLeft[u] \in Int /\ credits[u] \in Int
                       /\ dLeft[u] = -cLeft[u] /\ debits[u] = -credits[u]
                       /\ credits[u] = 0 => cLeft[u] = 0
  BY NetType
<1>7. Total(cLeft) = 0
  <2>1. /\ Nets(debts) \in [Users -> Int] /\ Nets(paid) \in [Users -> Int]
        /\ Difference(cLeft, Nets(debts), Nets(paid))
    BY NetType DEF Nets, Difference
  <2>2. Total(cLeft) = Total(Nets(debts)) - Total(Nets(paid))
    BY <2>1, TotalOfSum
  <2> QED BY <2>2
<1>8. \A u \in Users : cLeft[u] = 0
  <2>1. CASE p > Len(cl)
    <3>1. ASSUME NEW u \in Users PROVE cLeft[u] =< 0
      <4>1. CASE credits[u] > 0
        BY <1>4, <1>6, <2>1, <4>1
      <4>2. CASE credits[u] = 0
        BY <1>6, <4>2
      <4>3. CASE credits[u] < 0
        <5>1. debits[u] > 0
          BY <1>6, <4>3
        <5>2. dLeft[u] >= 0
          BY <1>5, <5>1
        <5> QED BY <1>6, <5>2
      <4> QED BY <1>6, <4>1, <4>2, <4>3
    <3>2. \A u \in Users : Total(cLeft) =< cLeft[u]
      BY <1>7, <3>1, TotalOfDebts
    <3> QED BY <1>6, <1>7, <3>1, <3>2
  <2>2. CASE q > Len(dl)
    <3>1. ASSUME NEW u \in Users PROVE cLeft[u] >= 0
      <4>1. CASE credits[u] > 0
        BY <1>4, <4>1
      <4>2. CASE credits[u] = 0
        BY <1>6, <4>2
      <4>3. CASE credits[u] < 0
        <5>1. debits[u] > 0
          BY <1>6, <4>3
        <5>2. dLeft[u] = 0
          BY <1>5, <2>2, <5>1
        <5> QED BY <1>6, <5>2
      <4> QED BY <1>6, <4>1, <4>2, <4>3
    <3>2. \A u \in Users : Total(cLeft) >= cLeft[u]
      BY <1>7, <3>1, TotalOfCredits
    <3> QED BY <1>6, <1>7, <3>1, <3>2
  <2> QED BY <2>1, <2>2
<1>9. ~(p =< Len(cl))
  <2>1. SUFFICES ASSUME p =< Len(cl) PROVE FALSE
    OBVIOUS
  <2>2. p \in 1 .. Len(cl) /\ ~(p < p)
    BY <1>1, <2>1
  <2>3. cl[p].amount = cLeft[cl[p].name] /\ cl[p].amount # 0
    BY <2>2 DEF Ranked
  <2>4. cLeft[cl[p].name] = 0
    BY <1>1, <1>8, <2>2
  <2> QED BY <2>3, <2>4
<1>10. ~(q =< Len(dl))
  <2>1. SUFFICES ASSUME q =< Len(dl) PROVE FALSE
    OBVIOUS
  <2>2. q \in 1 .. Len(dl) /\ ~(q < q)
    BY <1>2, <2>1
  <2>3. dl[q].amount = dLeft[dl[q].name] /\ dl[q].amount # 0
    BY <2>2 DEF Ranked
  <2>4. dLeft[dl[q].name] = 0
    BY <1>2, <1>6, <1>8, <2>2
  <2> QED BY <2>3, <2>4
<1>11. SameNets(debts, paid)
  <2>1. \A u \in Users : cLeft[u] = Net(debts, u) - Net(paid, u) /\ cLeft[u] = 0
    BY <1>8
  <2>2. \A u \in Users : Net(debts, u) \in Int /\ Net(paid, u) \in Int
    BY NetType
  <2> QED BY <2>1, <2>2 DEF SameNets
<1> QED BY <1>1, <1>2, <1>9, <1>10, <1>11 DEF BothPast

-----------------------------------------------------------------------------
(* The invariant.                                                          *)

Credits == [u \in Users |-> Net(unpaid, u)]
Debits == [u \in Users |-> -Net(unpaid, u)]
CreditsLeft == [u \in Users |-> Net(unpaid, u) - Net(result, u)]
DebitsLeft == [u \in Users |-> Net(result, u) - Net(unpaid, u)]

Matching == pc \in {"match", "done"}
Through == i > Len(creditors) \/ j > Len(debtors)

SumInv ==
    /\ Total(Nets(unpaid)) = 0
    /\ Total(Nets(result)) = 0
    /\ pc \in {"net", "match", "done"} => \A u \in Users : Net(stage1, u) = Net(unpaid, u)

PhaseInv ==
    /\ pc \in {"aggregate", "offset"} => next = 1 /\ creditors = <<>> /\ debtors = <<>>
    /\ ~Matching => result = NoDebts /\ i = 1 /\ j = 1
    /\ pc = "net" => next \in Users
    /\ Matching => next = N + 1
    /\ pc = "done" => Through

ListInv ==
    /\ Ranked(creditors, i, next - 1, Credits, CreditsLeft)
    /\ Ranked(debtors, j, next - 1, Debits, DebitsLeft)

\* A transfer is between two members that the loop has looked at together,
\* and has passed at least one of since.
TransferInv ==
    /\ \A u \in Users : Net(unpaid, u) = 0 => Net(result, u) = 0
    /\ \A pair \in Transfers :
          \E k \in 1 .. Len(creditors), l \in 1 .. Len(debtors) :
              /\ pair = <<debtors[l].name, creditors[k].name>>
              /\ k =< i /\ l =< j /\ (k < i \/ l < j)

Open(last) == {u \in 1 .. last : Net(unpaid, u) # 0}

CountInv ==
    /\ Cardinality(Transfers) =< i + j - 2
    /\ Matching /\ Through /\ Transfers # {} => Cardinality(Transfers) =< i + j - 3
    /\ Len(creditors) + Len(debtors) = Cardinality(Open(next - 1))

SettleInv == TypeOK /\ SumInv /\ PhaseInv /\ ListInv /\ TransferInv /\ CountInv

LEMMA NetOfNone == \A u \in Users : Net(NoDebts, u) = 0
<1>1. NoDebts \in Debts /\ \A u, v \in Users : NoDebts[<<u, v>>] = 0
  BY DEF NoDebts, Debts
<1>2. ASSUME NEW u \in Users PROVE Net(NoDebts, u) = 0
  <2>1. Flow(NoDebts, u) \in [Users -> Int] /\ Net(NoDebts, u) = Total(Flow(NoDebts, u))
    BY <1>1, FlowType
  <2>2. \A v \in Users : Flow(NoDebts, u)[v] = 0
    <3> SUFFICES ASSUME NEW v \in Users PROVE Flow(NoDebts, u)[v] = 0
      OBVIOUS
    <3>1. Flow(NoDebts, u)[v] = NoDebts[<<v, u>>] - NoDebts[<<u, v>>]
      BY DEF Flow
    <3>2. NoDebts[<<v, u>>] = 0 /\ NoDebts[<<u, v>>] = 0
      BY <1>1
    <3> QED BY <3>1, <3>2
  <2> HIDE DEF NoDebts
  <2> QED BY <2>1, <2>2, TotalOfZeros
<1> QED BY <1>2

LEMMA NetsOfNone == NoDebts \in Debts /\ Total(Nets(NoDebts)) = 0
<1>1. NoDebts \in Debts
  BY DEF NoDebts, Debts
<1>2. Nets(NoDebts) \in [Users -> Int] /\ \A u \in Users : Nets(NoDebts)[u] = 0
  BY <1>1, NetType, NetOfNone DEF Nets
<1> QED BY <1>1, <1>2, TotalOfZeros

LEMMA RankedNone ==
    ASSUME NEW due, NEW left
    PROVE  Ranked(<<>>, 1, 0, due, left)
<1>1. <<>> \in Seq(Entry) /\ Len(<<>>) = 0 /\ 1 .. 0 = {} /\ 1 \in 1 .. 0 + 1
  OBVIOUS
<1>2. \A u \in Users : ~(u =< 0)
  BY SettlementAssumption DEF Users
<1> QED BY <1>1, <1>2 DEF Ranked

LEMMA Amounts ==
    ASSUME TypeOK
    PROVE  /\ Credits \in [Users -> Int] /\ Debits \in [Users -> Int]
           /\ CreditsLeft \in [Users -> Int] /\ DebitsLeft \in [Users -> Int]
           /\ \A u \in Users : /\ Net(unpaid, u) \in Int /\ Net(result, u) \in Int
                               /\ Credits[u] = Net(unpaid, u) /\ Debits[u] = -Net(unpaid, u)
                               /\ CreditsLeft[u] = Net(unpaid, u) - Net(result, u)
                               /\ DebitsLeft[u] = Net(result, u) - Net(unpaid, u)
<1>1. unpaid \in Debts /\ result \in Debts
  BY DEF TypeOK
<1>2. \A u \in Users : Net(unpaid, u) \in Int /\ Net(result, u) \in Int
  BY <1>1, NetType
<1> QED BY <1>2 DEF Credits, Debits, CreditsLeft, DebitsLeft

\* As long as nothing is transferred.
LEMMA NothingYet ==
    ASSUME TypeOK, result = NoDebts
    PROVE  /\ CreditsLeft = Credits /\ DebitsLeft = Debits
           /\ Transfers = {} /\ Cardinality(Transfers) = 0
           /\ \A u \in Users : Net(result, u) = 0
<1>1. \A u \in Users : Net(result, u) = 0
  BY NetOfNone
<1>2. CreditsLeft = Credits /\ DebitsLeft = Debits
  BY <1>1, Amounts DEF CreditsLeft, Credits, DebitsLeft, Debits
<1>3. Transfers = {}
  BY DEF Transfers, NoDebts
<1> QED BY <1>1, <1>2, <1>3, FS_EmptySet

LEMMA NobodyOpen == Open(0) = {} /\ Cardinality(Open(0)) = 0
<1>1. Open(0) = {}
  BY DEF Open
<1> QED BY <1>1, FS_EmptySet

-----------------------------------------------------------------------------
(* The steps.                                                              *)

LEMMA SettleInit == Init => SettleInv
<1> SUFFICES ASSUME Init PROVE SettleInv
  OBVIOUS
<1>1. /\ pc = "aggregate" /\ items = 0 /\ unpaid = NoDebts /\ stage1 = NoDebts /\ result = NoDebts
      /\ next = 1 /\ creditors = <<>> /\ debtors = <<>> /\ i = 1 /\ j = 1
  BY DEF Init
<1>2. NoDebts \in Debts /\ Total(Nets(NoDebts)) = 0 /\ 1 \in 1 .. N + 1 /\ 0 \in 0 .. MaxItems
  BY NetsOfNone, SettlementAssumption
<1>3. TypeOK
  BY <1>1, <1>2 DEF TypeOK
<1>4. SumInv /\ PhaseInv
  BY <1>1, <1>2 DEF SumInv, PhaseInv, Matching
<1>5. ListInv
  BY <1>1, RankedNone DEF ListInv
<1>6. TransferInv /\ CountInv
  BY <1>1, <1>3, NothingYet, NobodyOpen DEF TransferInv, CountInv, Matching
<1> QED BY <1>3, <1>4, <1>5, <1>6 DEF SettleInv

\* Before the lists are begun.
LEMMA NotListedNext ==
    ASSUME TypeOK', next' = 1, creditors' = <<>>, debtors' = <<>>, i' = 1, j' = 1,
           result' = NoDebts, ~Matching'
    PROVE  ListInv' /\ TransferInv' /\ CountInv'
<1>1. ListInv'
  BY RankedNone DEF ListInv
<1>2. Transfers' = {}
  BY DEF Transfers, NoDebts
<1>3. TransferInv'
  BY <1>2, NetOfNone DEF TransferInv
<1>4. Open(0)' = {}
  BY DEF Open
<1>5. CountInv'
  BY <1>2, <1>4, FS_EmptySet DEF CountInv
<1> QED BY <1>1, <1>3, <1>5

LEMMA AggregateStep ==
    ASSUME SettleInv, NEW p \in Users, NEW q \in Users, NEW a \in 1 .. MaxAmount,
           AggregateUnpaid(p, q, a)
    PROVE  SettleInv'
<1>1. /\ pc = "aggregate" /\ items < MaxItems /\ items' = items + 1
      /\ unpaid' = [unpaid EXCEPT ![<<p, q>>] = @ + a]
      /\ UNCHANGED <<pc, stage1, next, creditors, debtors, i, j, result>>
  BY DEF AggregateUnpaid
<1>2. TypeOK /\ unpaid \in Debts /\ a \in Int /\ a \in Nat
  BY SettlementAssumption DEF SettleInv, TypeOK
<1>3. /\ next = 1 /\ creditors = <<>> /\ debtors = <<>> /\ i = 1 /\ j = 1 /\ result = NoDebts
      /\ ~Matching
  BY <1>1 DEF SettleInv, PhaseInv, Matching
<1>4. unpaid[<<p, q>>] \in Nat /\ unpaid[<<p, q>>] + a \in Nat
  BY <1>2 DEF Debts
<1>5. unpaid' \in Debts
  BY <1>1, <1>2, <1>4 DEF Debts
<1>6. /\ unpaid'[<<p, q>>] = unpaid[<<p, q>>] + a
      /\ \A x, y \in Users : x # p \/ y # q => unpaid'[<<x, y>>] = unpaid[<<x, y>>]
  BY <1>1, <1>2 DEF Debts
<1>7. TypeOK'
  <2>1. items' \in 0 .. MaxItems
    BY <1>1, <1>2, SettlementAssumption DEF TypeOK
  <2> QED BY <1>1, <1>2, <1>5, <2>1 DEF TypeOK
<1>8. SumInv'
  <2>1. Total(Nets(unpaid')) = Total(Nets(unpaid))
    BY <1>2, <1>5, <1>6, NetsAfter
  <2> QED BY <1>1, <2>1 DEF SettleInv, SumInv, Nets
<1>9. PhaseInv'
  BY <1>1, <1>3 DEF PhaseInv, Matching
<1>10. ListInv' /\ TransferInv' /\ CountInv'
  BY <1>1, <1>3, <1>7, NotListedNext DEF Matching
<1> QED BY <1>7, <1>8, <1>9, <1>10 DEF SettleInv

LEMMA OffsetNet ==
    ASSUME TypeOK
    PROVE  Offset \in Debts /\ \A u \in Users : Net(Offset, u) = Net(unpaid, u)
<1>1. unpaid \in Debts
  BY DEF TypeOK
<1>2. \A x, y \in Users : unpaid[<<x, y>>] \in Nat /\ unpaid[<<y, x>>] \in Nat
  BY <1>1 DEF Debts
<1>3. ASSUME NEW x \in Users, NEW y \in Users
      PROVE  /\ unpaid[<<x, y>>] > unpaid[<<y, x>>] =>
                   Offset[<<x, y>>] = unpaid[<<x, y>>] - unpaid[<<y, x>>]
             /\ ~(unpaid[<<x, y>>] > unpaid[<<y, x>>]) => Offset[<<x, y>>] = 0
  <2>1. <<x, y>> \in Users \X Users /\ <<x, y>>[1] = x /\ <<x, y>>[2] = y
    OBVIOUS
  <2> DEFINE a == unpaid[<<x, y>>]
             b == unpaid[<<y, x>>]
  <2>2. a \in Nat /\ b \in Nat
    BY <1>2
  <2>3. Offset[<<x, y>>] = IF a - b > 0 THEN a - b ELSE 0
    BY <2>1 DEF Offset
  <2> HIDE DEF a, b
  <2>4. /\ a > b => Offset[<<x, y>>] = a - b
        /\ ~(a > b) => Offset[<<x, y>>] = 0
    BY <2>2, <2>3
  <2> QED BY <2>4 DEF a, b
<1>4. \A x, y \in Users : Offset[<<x, y>>] \in Nat
  <2> SUFFICES ASSUME NEW x \in Users, NEW y \in Users PROVE Offset[<<x, y>>] \in Nat
    OBVIOUS
  <2>1. unpaid[<<x, y>>] \in Nat /\ unpaid[<<y, x>>] \in Nat
    BY <1>2
  <2> QED BY <1>3, <2>1
<1>5. Offset \in Debts
  <2>1. \A pair \in Users \X Users : Offset[pair] \in Nat
    BY <1>4
  <2> QED BY <2>1 DEF Offset, Debts
<1>6. ASSUME NEW u \in Users PROVE Net(Offset, u) = Net(unpaid, u)
  <2>1. ASSUME NEW v \in Users
        PROVE  unpaid[<<v, u>>] - unpaid[<<u, v>>] = Offset[<<v, u>>] - Offset[<<u, v>>]
    <3>1. unpaid[<<v, u>>] \in Nat /\ unpaid[<<u, v>>] \in Nat
      BY <1>2
    <3>2. /\ unpaid[<<v, u>>] > unpaid[<<u, v>>] =>
                Offset[<<v, u>>] = unpaid[<<v, u>>] - unpaid[<<u, v>>]
          /\ ~(unpaid[<<v, u>>] > unpaid[<<u, v>>]) => Offset[<<v, u>>] = 0
          /\ unpaid[<<u, v>>] > unpaid[<<v, u>>] =>
                Offset[<<u, v>>] = unpaid[<<u, v>>] - unpaid[<<v, u>>]
          /\ ~(unpaid[<<u, v>>] > unpaid[<<v, u>>]) => Offset[<<u, v>>] = 0
      BY <1>3
    <3> QED BY <3>1, <3>2
  <2> QED BY <1>1, <1>5, <2>1, SameNet
<1> QED BY <1>5, <1>6

\* Steps that end a phase.
LEMMA PhaseStep ==
    ASSUME SettleInv, RowsDone \/ Compute
    PROVE  SettleInv'
<1>1. /\ pc \in {"aggregate", "offset"} /\ pc' \in {"offset", "net"}
      /\ (pc' = "net" => stage1' = Offset) /\ stage1' \in {stage1, Offset}
      /\ UNCHANGED <<items, unpaid, next, creditors, debtors, i, j, result>>
  BY DEF RowsDone, Compute
<1>2. /\ next = 1 /\ creditors = <<>> /\ debtors = <<>> /\ i = 1 /\ j = 1 /\ result = NoDebts
      /\ ~Matching /\ ~Matching'
  BY <1>1 DEF SettleInv, PhaseInv, Matching
<1>3. TypeOK /\ Offset \in Debts /\ \A u \in Users : Net(Offset, u) = Net(unpaid, u)
  BY OffsetNet DEF SettleInv
<1>4. TypeOK'
  BY <1>1, <1>3 DEF TypeOK
<1>5. SumInv'
  BY <1>1, <1>3 DEF SettleInv, SumInv, Nets
<1>6. PhaseInv'
  BY <1>1, <1>2, SettlementAssumption DEF PhaseInv, Matching, Users
<1>7. ListInv' /\ TransferInv' /\ CountInv'
  BY <1>1, <1>2, <1>4, NotListedNext
<1> QED BY <1>4, <1>5, <1>6, <1>7 DEF SettleInv

LEMMA OpenNext ==
    ASSUME NEW m \in Users, \A u \in Users : Net(unpaid, u) \in Int
    PROVE  /\ Cardinality(Open(m - 1)) \in Nat
           /\ Cardinality(Open(m)) = IF Net(unpaid, m) = 0 THEN Cardinality(Open(m - 1))
                                     ELSE Cardinality(Open(m - 1)) + 1
<1>1. m \in Nat \ {0} /\ 1 .. m = (1 .. m - 1) \union {m} /\ m \notin 1 .. m - 1
  BY DEF Users
<1>2. IsFiniteSet(1 .. m - 1)
  BY <1>1, FS_Interval
<1>3. IsFiniteSet(Open(m - 1))
  BY <1>2, FS_Subset DEF Open
<1>4. Cardinality(Open(m - 1)) \in Nat
  BY <1>3, FS_CardinalityType
<1>5. CASE Net(unpaid, m) = 0
  <2>1. Open(m) = Open(m - 1)
    BY <1>1, <1>5 DEF Open
  <2> QED BY <1>4, <1>5, <2>1
<1>6. CASE Net(unpaid, m) # 0
  <2>1. Open(m) = Open(m - 1) \union {m} /\ m \notin Open(m - 1)
    BY <1>1, <1>6 DEF Open
  <2>2. Cardinality(Open(m - 1) \union {m}) = Cardinality(Open(m - 1)) + 1
    BY <1>3, <2>1, FS_AddElement
  <2> QED BY <1>4, <1>6, <2>1, <2>2
<1> QED BY <1>5, <1>6

LEMMA SplitStep ==
    ASSUME SettleInv, SplitBalances
    PROVE  SettleInv'
<1>1. /\ pc = "net"
      /\ creditors' = Listed(creditors, next, Net(stage1, next))
      /\ debtors' = Listed(debtors, next, -Net(stage1, next))
      /\ next' = next + 1
      /\ pc' = IF next = N THEN "match" ELSE "net"
      /\ UNCHANGED <<items, unpaid, stage1, i, j, result>>
  BY DEF SplitBalances
<1>2. /\ next \in Users /\ i = 1 /\ j = 1 /\ result = NoDebts
      /\ TypeOK /\ Net(stage1, next) = Net(unpaid, next)
  BY <1>1 DEF SettleInv, PhaseInv, Matching, SumInv
<1>3. /\ next \in Nat \ {0} /\ next' - 1 = next /\ next =< N
      /\ pc' \in {"net", "match"} /\ (pc' = "net" => next' \in Users)
      /\ (pc' = "match" => next' = N + 1)
  BY <1>1, <1>2, SettlementAssumption DEF Users
<1>4. /\ Credits \in [Users -> Int] /\ Debits \in [Users -> Int]
      /\ Net(unpaid, next) \in Int
      /\ Credits[next] = Net(unpaid, next) /\ Debits[next] = -Net(unpaid, next)
      /\ \A u \in Users : Net(unpaid, u) \in Int
  BY <1>2, Amounts
<1>5. CreditsLeft = Credits /\ DebitsLeft = Debits /\ Transfers = {} /\ Cardinality(Transfers) = 0
  BY <1>2, NothingYet
<1>6. Credits' = Credits /\ Debits' = Debits /\ CreditsLeft' = Credits /\ DebitsLeft' = Debits
      /\ Transfers' = {}
  <2>1. CreditsLeft' = CreditsLeft /\ DebitsLeft' = DebitsLeft
    BY <1>1 DEF CreditsLeft, DebitsLeft
  <2>2. Credits' = Credits /\ Debits' = Debits /\ Transfers' = Transfers
    BY <1>1 DEF Credits, Debits, Transfers
  <2> QED BY <1>5, <2>1, <2>2
<1>7. /\ Ranked(creditors, 1, next - 1, Credits, Credits)
      /\ Ranked(debtors, 1, next - 1, Debits, Debits)
  BY <1>2, <1>5 DEF SettleInv, ListInv
<1>8. /\ Ranked(creditors', 1, next, Credits, Credits)
      /\ Len(creditors') = IF Credits[next] > 0 THEN Len(creditors) + 1 ELSE Len(creditors)
  <2> HIDE DEF Credits
  <2>1. creditors' = Listed(creditors, next, Credits[next])
    BY <1>1, <1>2, <1>4
  <2> QED BY <1>2, <1>4, <1>7, <2>1, RankedAppend
<1>9. /\ Ranked(debtors', 1, next, Debits, Debits)
      /\ Len(debtors') = IF Debits[next] > 0 THEN Len(debtors) + 1 ELSE Len(debtors)
  <2> HIDE DEF Debits
  <2>1. debtors' = Listed(debtors, next, Debits[next])
    BY <1>1, <1>2, <1>4
  <2> QED BY <1>2, <1>4, <1>7, <2>1, RankedAppend
<1>10. TypeOK'
  <2>1. creditors' \in Seq(Entry) /\ debtors' \in Seq(Entry)
    BY <1>8, <1>9 DEF Ranked
  <2>2. next' \in 1 .. N + 1
    BY <1>1, <1>3, SettlementAssumption
  <2> QED BY <1>1, <1>2, <1>3, <2>1, <2>2 DEF TypeOK
<1>11. SumInv'
  <2>1. /\ Total(Nets(unpaid)) = 0 /\ Total(Nets(result)) = 0
        /\ \A u \in Users : Net(stage1, u) = Net(unpaid, u)
    BY <1>1 DEF SettleInv, SumInv
  <2> QED BY <1>1, <2>1 DEF SumInv, Nets
<1>12. PhaseInv'
  BY <1>1, <1>2, <1>3 DEF PhaseInv, Matching
<1>13. ListInv'
  BY <1>1, <1>2, <1>3, <1>6, <1>8, <1>9 DEF ListInv
<1>14. TransferInv'
  BY <1>1, <1>2, <1>6, NetOfNone DEF TransferInv
<1>15. CountInv'
  <2>1. Len(creditors) + Len(debtors) = Cardinality(Open(next - 1))
    BY DEF SettleInv, CountInv
  <2>2. Len(creditors) \in Nat /\ Len(debtors) \in Nat
    BY <1>7, EntriesOf DEF Ranked
  <2>3. Cardinality(Open(next)) = IF Net(unpaid, next) = 0 THEN Cardinality(Open(next - 1))
                                  ELSE Cardinality(Open(next - 1)) + 1
    BY <1>2, <1>4, OpenNext
  <2>4. Len(creditors') + Len(debtors') = Cardinality(Open(next))
    <3>1. CASE Net(unpaid, next) > 0
      <4>1. Credits[next] > 0 /\ ~(Debits[next] > 0) /\ Net(unpaid, next) # 0
        BY <1>4, <3>1
      <4>2. Len(creditors') = Len(creditors) + 1 /\ Len(debtors') = Len(debtors)
        BY <1>8, <1>9, <4>1
      <4>3. Cardinality(Open(next)) = Cardinality(Open(next - 1)) + 1
        BY <2>3, <4>1
      <4> QED BY <2>1, <2>2, <4>2, <4>3
    <3>2. CASE Net(unpaid, next) < 0
      <4>1. ~(Credits[next] > 0) /\ Debits[next] > 0 /\ Net(unpaid, next) # 0
        BY <1>4, <3>2
      <4>2. Len(creditors') = Len(creditors) /\ Len(debtors') = Len(debtors) + 1
        BY <1>8, <1>9, <4>1
      <4>3. Cardinality(Open(next)) = Cardinality(Open(next - 1)) + 1
        BY <2>3, <4>1
      <4> QED BY <2>1, <2>2, <4>2, <4>3
    <3>3. CASE Net(unpaid, next) = 0
      BY <1>4, <1>8, <1>9, <2>1, <2>2, <2>3, <3>3
    <3> QED BY <1>4, <3>1, <3>2, <3>3
  <2>5. (Open(next - 1))' = Open(next)
    BY <1>1, <1>3 DEF Open
  <2>6. Cardinality(Transfers') = 0
    BY <1>6, FS_EmptySet
  <2> QED BY <1>1, <1>2, <1>6, <2>4, <2>5, <2>6 DEF CountInv
<1> QED BY <1>10, <1>11, <1>12, <1>13, <1>14, <1>15 DEF SettleInv

LEMMA TransfersFinite == IsFiniteSet(Transfers) /\ Cardinality(Transfers) \in Nat
<1>1. IsFiniteSet(Users \X Users)
  BY UsersFinite, FS_Product
<1>2. Transfers \subseteq Users \X Users
  BY DEF Transfers
<1>3. IsFiniteSet(Transfers)
  BY <1>1, <1>2, FS_Subset
<1> QED BY <1>3, FS_CardinalityType

\* What an iteration does: a is transferred from debtor d to creditor c.
Matched(c, d, a) ==
    /\ i \in 1 .. Len(creditors) /\ j \in 1 .. Len(debtors)
    /\ c = creditors[i] /\ d = debtors[j]
    /\ a > 0 /\ a =< c.amount /\ a =< d.amount /\ a \in {c.amount, d.amount}
    /\ Net(unpaid, c.name) > 0 /\ Net(unpaid, d.name) < 0 /\ c.name # d.name
    /\ result[<<d.name, c.name>>] = 0
    /\ result' = [result EXCEPT ![<<d.name, c.name>>] = a]
    /\ creditors' = [creditors EXCEPT ![i].amount = @ - a]
    /\ debtors' = [debtors EXCEPT ![j].amount = @ - a]
    /\ i' = IF c.amount - a = 0 THEN i + 1 ELSE i
    /\ j' = IF d.amount - a = 0 THEN j + 1 ELSE j

\* The creditor and the debtor the loop looks at, and what it transfers.
LEMMA MatchPair ==
    ASSUME SettleInv, Match
    PROVE  \E c \in Entry, d \in Entry, a \in Nat : Matched(c, d, a)
<1> DEFINE c == creditors[i]
           d == debtors[j]
           a == Smaller(c.amount, d.amount)
<1>1. /\ pc = "match" /\ i =< Len(creditors) /\ j =< Len(debtors)
      /\ result' = IF a > 0 THEN [result EXCEPT ![<<d.name, c.name>>] = a] ELSE result
      /\ creditors' = [creditors EXCEPT ![i].amount = @ - a]
      /\ debtors' = [debtors EXCEPT ![j].amount = @ - a]
      /\ i' = IF c.amount - a = 0 THEN i + 1 ELSE i
      /\ j' = IF d.amount - a = 0 THEN j + 1 ELSE j
  BY DEF Match, Transfer, Advance
<1>2. TypeOK /\ ListInv /\ TransferInv
  BY DEF SettleInv
<1>3. /\ creditors \in Seq(Entry) /\ debtors \in Seq(Entry)
      /\ i \in 1 .. Len(creditors) /\ j \in 1 .. Len(debtors)
  <2>1. creditors \in Seq(Entry) /\ debtors \in Seq(Entry) /\ i \in Nat \ {0} /\ j \in Nat \ {0}
    BY <1>2 DEF TypeOK
  <2> QED BY <1>1, <2>1
<1>4. c \in Entry /\ d \in Entry
  BY <1>3
<1>5. c.name \in Users /\ c.amount \in Nat /\ d.name \in Users /\ d.amount \in Nat
  BY <1>4 DEF Entry
<1>6. c.amount # 0 /\ Credits[c.name] > 0
  BY <1>2, <1>3 DEF ListInv, Ranked
<1>7. d.amount # 0 /\ Debits[d.name] > 0
  BY <1>2, <1>3 DEF ListInv, Ranked
<1>8. /\ a \in Nat /\ a > 0 /\ a =< c.amount /\ a =< d.amount /\ a \in {c.amount, d.amount}
  BY <1>5, <1>6, <1>7 DEF Smaller
<1>9. Net(unpaid, c.name) > 0 /\ Net(unpaid, d.name) < 0 /\ c.name # d.name
  <2>1. /\ Credits[c.name] = Net(unpaid, c.name) /\ Debits[d.name] = -Net(unpaid, d.name)
        /\ Net(unpaid, c.name) \in Int /\ Net(unpaid, d.name) \in Int
    BY <1>2, <1>5, Amounts
  <2> QED BY <1>6, <1>7, <2>1
<1>10. result[<<d.name, c.name>>] = 0
  <2>1. result[<<d.name, c.name>>] \in Nat
    BY <1>2, <1>5 DEF TypeOK, Debts
  <2>2. SUFFICES ASSUME <<d.name, c.name>> \in Transfers PROVE FALSE
    BY <1>5, <2>1 DEF Transfers
  <2>3. PICK k \in 1 .. Len(creditors), l \in 1 .. Len(debtors) :
           /\ <<d.name, c.name>> = <<debtors[l].name, creditors[k].name>>
           /\ k =< i /\ l =< j /\ (k < i \/ l < j)
    BY <1>2, <2>2 DEF TransferInv
  <2>4. creditors[k].name = creditors[i].name /\ debtors[l].name = debtors[j].name
    BY <2>3
  <2>5. k = i
    BY <1>2, <1>3, <2>4 DEF ListInv, Ranked
  <2>6. l = j
    BY <1>2, <1>3, <2>4 DEF ListInv, Ranked
  <2> QED BY <1>3, <2>3, <2>5, <2>6
<1>11. result' = [result EXCEPT ![<<d.name, c.name>>] = a]
  BY <1>1, <1>8
<1>12. c = creditors[i] /\ d = debtors[j]
  OBVIOUS
<1> HIDE DEF c, d, a
<1>13. c \in Entry /\ d \in Entry /\ a \in Nat
  BY <1>4, <1>8
<1>14. Matched(c, d, a)
  BY <1>1, <1>3, <1>8, <1>9, <1>10, <1>11, <1>12 DEF Matched
<1> QED BY <1>13, <1>14, Zenon

LEMMA MatchStep ==
    ASSUME SettleInv, Match
    PROVE  SettleInv'
<1>1. /\ pc = "match" /\ UNCHANGED <<pc, items, unpaid, stage1, next>>
  BY DEF Match
<1>0. PICK c \in Entry, d \in Entry, a \in Nat : Matched(c, d, a)
  BY MatchPair, Zenon
<1>2. /\ i \in 1 .. Len(creditors) /\ j \in 1 .. Len(debtors)
      /\ c = creditors[i] /\ d = debtors[j]
      /\ a > 0 /\ a =< c.amount /\ a =< d.amount /\ a \in {c.amount, d.amount}
      /\ Net(unpaid, c.name) > 0 /\ Net(unpaid, d.name) < 0 /\ c.name # d.name
      /\ result[<<d.name, c.name>>] = 0
      /\ result' = [result EXCEPT ![<<d.name, c.name>>] = a]
      /\ creditors' = [creditors EXCEPT ![i].amount = @ - a]
      /\ debtors' = [debtors EXCEPT ![j].amount = @ - a]
      /\ i' = IF c.amount - a = 0 THEN i + 1 ELSE i
      /\ j' = IF d.amount - a = 0 THEN j + 1 ELSE j
  BY <1>0 DEF Matched
<1>3. PICK x \in Users, y \in Users : x = d.name /\ y = c.name
  BY DEF Entry
<1>4. /\ TypeOK /\ SumInv /\ PhaseInv /\ ListInv /\ TransferInv /\ CountInv
      /\ unpaid \in Debts /\ result \in Debts /\ next - 1 = N
      /\ c.amount \in Nat /\ d.amount \in Nat
  <2>1. next = N + 1
    BY <1>1 DEF SettleInv, PhaseInv, Matching
  <2> QED BY <2>1, SettlementAssumption DEF SettleInv, TypeOK, Entry
<1>5. /\ result' \in Debts
      /\ result'[<<x, y>>] = result[<<x, y>>] + a
      /\ \A u, v \in Users : u # x \/ v # y => result'[<<u, v>>] = result[<<u, v>>]
  BY <1>2, <1>3, <1>4 DEF Debts
<1>6. /\ Net(result', y) = Net(result, y) + a
      /\ Net(result', x) = Net(result, x) - a
      /\ \A u \in Users : u # x /\ u # y => Net(result', u) = Net(result, u)
      /\ \A u \in Users : Net(result', u) \in Int
  <2>1. x # y
    BY <1>2, <1>3
  <2> QED BY <1>4, <1>5, <2>1, NetAfter, NetType
<1>7. Total(Nets(unpaid)) = 0 /\ Total(Nets(result')) = 0
  <2>1. Total(Nets(result')) = Total(Nets(result))
    BY <1>4, <1>5, NetsAfter
  <2> QED BY <1>4, <2>1 DEF SumInv
<1>8. /\ Credits \in [Users -> Int] /\ Debits \in [Users -> Int]
      /\ CreditsLeft \in [Users -> Int] /\ DebitsLeft \in [Users -> Int]
      /\ \A u \in Users : /\ Net(unpaid, u) \in Int /\ Net(result, u) \in Int
                          /\ Credits[u] = Net(unpaid, u) /\ Debits[u] = -Net(unpaid, u)
                          /\ CreditsLeft[u] = Net(unpaid, u) - Net(result, u)
                          /\ DebitsLeft[u] = Net(result, u) - Net(unpaid, u)
  BY <1>4, Amounts
<1>9. PICK cLeft \in [Users -> Int], dLeft \in [Users -> Int] :
         /\ CreditsLeft' = cLeft /\ DebitsLeft' = dLeft
         /\ \A u \in Users : /\ cLeft[u] = Net(unpaid, u) - Net(result', u)
                             /\ dLeft[u] = Net(result', u) - Net(unpaid, u)
  <2>1. CreditsLeft' = [u \in Users |-> Net(unpaid, u) - Net(result', u)]
    BY <1>1 DEF CreditsLeft
  <2>2. DebitsLeft' = [u \in Users |-> Net(result', u) - Net(unpaid, u)]
    BY <1>1 DEF DebitsLeft
  <2>3. CreditsLeft' \in [Users -> Int] /\ DebitsLeft' \in [Users -> Int]
    BY <1>6, <1>8, <2>1, <2>2
  <2> QED BY <2>1, <2>2, <2>3
<1>10. Credits' = Credits /\ Debits' = Debits
  BY <1>1 DEF Credits, Debits
<1>11. /\ Ranked(creditors, i, N, Credits, CreditsLeft)
       /\ Ranked(debtors, j, N, Debits, DebitsLeft)
  BY <1>4 DEF ListInv
<1>12. /\ Ranked(creditors', i', N, Credits, cLeft)
       /\ Len(creditors') = Len(creditors)
       /\ \A k \in 1 .. Len(creditors) : creditors'[k].name = creditors[k].name
  <2>1. cLeft[creditors[i].name] = CreditsLeft[creditors[i].name] - a
    <3>1. cLeft[y] = CreditsLeft[y] - a
      BY <1>6, <1>8, <1>9
    <3> QED BY <1>2, <1>3, <3>1
  <2>2. ASSUME NEW k \in 1 .. Len(creditors), k # i
        PROVE  cLeft[creditors[k].name] = CreditsLeft[creditors[k].name]
    <3>1. creditors[k].name \in Users
      BY <1>4, EntriesOf DEF TypeOK
    <3>2. creditors[k].name # y /\ Credits[creditors[k].name] > 0
      BY <1>2, <1>3, <1>11, <2>2 DEF Ranked
    <3>3. creditors[k].name # x
      BY <1>2, <1>3, <1>8, <3>1, <3>2
    <3> QED BY <1>6, <1>8, <1>9, <3>1, <3>2, <3>3
  <2>3. /\ a =< creditors[i].amount
        /\ i' = Passed(creditors, i, a) /\ creditors' = Paid(creditors, i, a)
    BY <1>2 DEF Passed, Paid
  <2>4. i \in Nat /\ Len(creditors) \in Nat /\ i =< Len(creditors) /\ creditors[i].amount \in Nat
    BY <1>2, <1>4, EntriesOf DEF TypeOK
  <2>5. Credits \in [Users -> Int]
    BY <1>8
  <2>6. /\ Ranked(Paid(creditors, i, a), Passed(creditors, i, a), N, Credits, cLeft)
        /\ SameNames(creditors, Paid(creditors, i, a))
    <3>1. Charged(creditors, i, a, CreditsLeft, cLeft)
      BY <2>1, <2>2, <2>3, <2>4 DEF Charged
    <3> QED BY <1>11, <2>5, <3>1, RankedPay
  <2> QED BY <2>3, <2>6 DEF SameNames
<1>13. /\ Ranked(debtors', j', N, Debits, dLeft)
       /\ Len(debtors') = Len(debtors)
       /\ \A k \in 1 .. Len(debtors) : debtors'[k].name = debtors[k].name
  <2>1. dLeft[debtors[j].name] = DebitsLeft[debtors[j].name] - a
    <3>1. dLeft[x] = DebitsLeft[x] - a
      BY <1>6, <1>8, <1>9
    <3> QED BY <1>2, <1>3, <3>1
  <2>2. ASSUME NEW k \in 1 .. Len(debtors), k # j
        PROVE  dLeft[debtors[k].name] = DebitsLeft[debtors[k].name]
    <3>1. debtors[k].name \in Users
      BY <1>4, EntriesOf DEF TypeOK
    <3>2. debtors[k].name # x /\ Debits[debtors[k].name] > 0
      BY <1>2, <1>3, <1>11, <2>2 DEF Ranked
    <3>3. debtors[k].name # y
      BY <1>2, <1>3, <1>8, <3>1, <3>2
    <3> QED BY <1>6, <1>8, <1>9, <3>1, <3>2, <3>3
  <2>3. /\ a =< debtors[j].amount
        /\ j' = Passed(debtors, j, a) /\ debtors' = Paid(debtors, j, a)
    BY <1>2 DEF Passed, Paid
  <2>4. j \in Nat /\ Len(debtors) \in Nat /\ j =< Len(debtors) /\ debtors[j].amount \in Nat
    BY <1>2, <1>4, EntriesOf DEF TypeOK
  <2>5. Debits \in [Users -> Int]
    BY <1>8
  <2>6. /\ Ranked(Paid(debtors, j, a), Passed(debtors, j, a), N, Debits, dLeft)
        /\ SameNames(debtors, Paid(debtors, j, a))
    <3>1. Charged(debtors, j, a, DebitsLeft, dLeft)
      BY <2>1, <2>2, <2>3, <2>4 DEF Charged
    <3> QED BY <1>11, <2>5, <3>1, RankedPay
  <2> QED BY <2>3, <2>6 DEF SameNames
<1>14. /\ creditors' \in Seq(Entry) /\ debtors' \in Seq(Entry)
       /\ Len(creditors) \in Nat /\ Len(debtors) \in Nat
       /\ i \in Nat \ {0} /\ j \in Nat \ {0} /\ i =< Len(creditors) /\ j =< Len(debtors)
       /\ (i' = i /\ j' = j + 1) \/ (i' = i + 1 /\ j' = j) \/ (i' = i + 1 /\ j' = j + 1)
  <2>1. creditors' \in Seq(Entry) /\ debtors' \in Seq(Entry)
    BY <1>12, <1>13 DEF Ranked
  <2>2. Len(creditors) \in Nat /\ Len(debtors) \in Nat
    BY <1>4, EntriesOf DEF TypeOK
  <2>3. (i' = i /\ j' = j + 1) \/ (i' = i + 1 /\ j' = j) \/ (i' = i + 1 /\ j' = j + 1)
    <3>1. CASE a = c.amount
      <4>1. c.amount - a = 0
        BY <1>4, <3>1
      <4> QED BY <1>2, <4>1
    <3>2. CASE a = d.amount
      <4>1. d.amount - a = 0
        BY <1>4, <3>2
      <4> QED BY <1>2, <4>1
    <3> QED BY <1>2, <3>1, <3>2
  <2> QED BY <1>2, <2>1, <2>2, <2>3, SMTT(20)
<1>15. TypeOK'
  <2>1. i' \in Nat \ {0} /\ j' \in Nat \ {0}
    BY <1>14, SMTT(20)
  <2> QED BY <1>1, <1>4, <1>5, <1>14, <2>1 DEF TypeOK
<1>16. SumInv'
  BY <1>1, <1>4, <1>7 DEF SumInv, Nets
<1>17. PhaseInv'
  BY <1>1, <1>4 DEF PhaseInv, Matching
<1>18. ListInv'
  BY <1>1, <1>4, <1>9, <1>10, <1>12, <1>13 DEF ListInv
<1>19. Transfers' = Transfers \union {<<x, y>>} /\ <<x, y>> \notin Transfers
  <2>1. Transfers' = {pair \in Users \X Users : result'[pair] > 0}
    BY DEF Transfers
  <2>2. result'[<<x, y>>] > 0 /\ ~(result[<<x, y>>] > 0)
    BY <1>2, <1>3, <1>5
  <2>3. \A pair \in Users \X Users : pair # <<x, y>> => result'[pair] = result[pair]
    BY <1>5
  <2> QED BY <2>1, <2>2, <2>3 DEF Transfers
<1>20. TransferInv'
  <2>1. ASSUME NEW u \in Users, Net(unpaid, u) = 0 PROVE Net(result', u) = 0
    <3>1. u # x /\ u # y
      BY <1>2, <1>3, <2>1
    <3> QED BY <1>4, <1>6, <2>1, <3>1 DEF TransferInv
  <2>2. ASSUME NEW pair \in Transfers'
        PROVE  \E k \in 1 .. Len(creditors'), l \in 1 .. Len(debtors') :
                  /\ pair = <<debtors'[l].name, creditors'[k].name>>
                  /\ k =< i' /\ l =< j' /\ (k < i' \/ l < j')
    <3>1. CASE pair = <<x, y>>
      <4>1. i \in 1 .. Len(creditors') /\ j \in 1 .. Len(debtors')
        BY <1>2, <1>12, <1>13
      <4>2. debtors'[j].name = x /\ creditors'[i].name = y
        BY <1>2, <1>3, <1>12, <1>13
      <4>3. i =< i' /\ j =< j' /\ (i < i' \/ j < j')
        BY <1>14
      <4> QED BY <3>1, <4>1, <4>2, <4>3
    <3>2. CASE pair \in Transfers
      <4>1. PICK k \in 1 .. Len(creditors), l \in 1 .. Len(debtors) :
               /\ pair = <<debtors[l].name, creditors[k].name>>
               /\ k =< i /\ l =< j /\ (k < i \/ l < j)
        BY <1>4, <3>2 DEF TransferInv
      <4>2. k \in 1 .. Len(creditors') /\ l \in 1 .. Len(debtors')
        BY <1>12, <1>13
      <4>3. debtors'[l].name = debtors[l].name /\ creditors'[k].name = creditors[k].name
        BY <1>12, <1>13
      <4>4. k =< i' /\ l =< j' /\ (k < i' \/ l < j')
        BY <1>14, <4>1, SMTT(20)
      <4> QED BY <4>1, <4>2, <4>3, <4>4
    <3> QED BY <1>19, <3>1, <3>2
  <2> QED BY <1>1, <2>1, <2>2 DEF TransferInv
<1>21. CountInv'
  <2>1. Cardinality(Transfers) \in Nat /\ Cardinality(Transfers') = Cardinality(Transfers) + 1
    <3>1. IsFiniteSet(Transfers) /\ Cardinality(Transfers) \in Nat
      BY TransfersFinite
    <3>2. Cardinality(Transfers \union {<<x, y>>}) = Cardinality(Transfers) + 1
      BY <1>19, <3>1, FS_AddElement
    <3> QED BY <1>19, <3>1, <3>2
  <2>2. Cardinality(Transfers) =< i + j - 2
    BY <1>4 DEF CountInv
  <2>3. Cardinality(Transfers') =< i' + j' - 2
    <3>1. PICK p \in Nat, q \in Nat : p = i' /\ q = j'
      BY <1>14
    <3>2. i \in Nat /\ j \in Nat /\ p + q >= i + j + 1
      <4>1. (p = i /\ q = j + 1) \/ (p = i + 1 /\ q = j) \/ (p = i + 1 /\ q = j + 1)
        BY <1>14, <3>1, Zenon
      <4> QED BY <1>14, <4>1
    <3>3. PICK n \in Nat : n = Cardinality(Transfers)
      BY <2>1
    <3>4. n =< i + j - 2
      BY <2>2, <3>3
    <3>5. n + 1 =< p + q - 2
      BY <3>2, <3>4
    <3>6. Cardinality(Transfers') =< p + q - 2
      BY <2>1, <3>3, <3>5
    <3> QED BY <3>1, <3>6, Zenon
  <2>4. ASSUME Through' PROVE Cardinality(Transfers') =< i' + j' - 3
    <3>1. OnePast(creditors', debtors', i', j')
      BY <2>4 DEF Through, OnePast
    <3>2. EvenStay(unpaid, result')
      BY <1>1, <1>20 DEF TransferInv, EvenStay
    <3>3. Due(unpaid, Credits, Debits) /\ Left(unpaid, result', cLeft, dLeft)
      BY <1>8, <1>9 DEF Due, Left
    <3>4. BothPast(creditors', debtors', i', j')
      BY <1>4, <1>5, <1>7, <1>8, <1>12, <1>13, <3>1, <3>2, <3>3, Exhausted
    <3>5. i' = i + 1 /\ j' = j + 1
      BY <1>12, <1>13, <1>14, <3>4 DEF BothPast
    <3> QED BY <1>14, <2>1, <2>2, <3>5
  <2>5. Len(creditors') + Len(debtors') = Cardinality(Open(next - 1))
    BY <1>4, <1>12, <1>13 DEF CountInv
  <2>6. (Open(next - 1))' = Open(next - 1)
    BY <1>1 DEF Open
  <2> QED BY <2>3, <2>4, <2>5, <2>6 DEF CountInv
<1> QED BY <1>15, <1>16, <1>17, <1>18, <1>20, <1>21 DEF SettleInv

LEMMA ReturnStep ==
    ASSUME SettleInv, Return
    PROVE  SettleInv'
<1>1. /\ pc = "match" /\ pc' = "done" /\ Through
      /\ UNCHANGED <<items, unpaid, stage1, next, creditors, debtors, i, j, result>>
  BY DEF Return, Through
<1>2. TypeOK'
  BY <1>1 DEF SettleInv, TypeOK
<1>3. SumInv' /\ PhaseInv'
  BY <1>1 DEF SettleInv, SumInv, PhaseInv, Matching, Through, Nets
<1>4. /\ Credits' = Credits /\ Debits' = Debits /\ Transfers' = Transfers
      /\ CreditsLeft' = CreditsLeft /\ DebitsLeft' = DebitsLeft
  BY <1>1 DEF Credits, Debits, CreditsLeft, DebitsLeft, Transfers
<1>5. ListInv' /\ TransferInv'
  BY <1>1, <1>4 DEF SettleInv, ListInv, TransferInv
<1>6. CountInv'
  <2>1. (Open(next - 1))' = Open(next - 1)
    BY <1>1 DEF Open
  <2> QED BY <1>1, <1>4, <2>1 DEF SettleInv, CountInv, Matching, Through
<1> QED BY <1>2, <1>3, <1>5, <1>6 DEF SettleInv

LEMMA IdleStep ==
    ASSUME SettleInv, UNCHANGED vars
    PROVE  SettleInv'
<1>1. UNCHANGED <<pc, items, unpaid, stage1, next, creditors, debtors, i, j, result>>
  BY DEF vars
<1>2. /\ Credits' = Credits /\ Debits' = Debits /\ Transfers' = Transfers
      /\ CreditsLeft' = CreditsLeft /\ DebitsLeft' = DebitsLeft
  BY <1>1 DEF Credits, Debits, CreditsLeft, DebitsLeft, Transfers
<1>3. TypeOK' /\ SumInv' /\ PhaseInv'
  BY <1>1 DEF SettleInv, TypeOK, SumInv, PhaseInv, Matching, Through, Nets
<1>4. ListInv' /\ TransferInv'
  BY <1>1, <1>2 DEF SettleInv, ListInv, TransferInv
<1>5. CountInv'
  <2>1. (Open(next - 1))' = Open(next - 1)
    BY <1>1 DEF Open
  <2> QED BY <1>1, <1>2, <2>1 DEF SettleInv, CountInv, Matching, Through
<1> QED BY <1>3, <1>4, <1>5 DEF SettleInv

LEMMA SettleStep == SettleInv /\ [Next]_vars => SettleInv'
<1> SUFFICES ASSUME SettleInv, [Next]_vars PROVE SettleInv'
  OBVIOUS
<1>1. ASSUME NEW p \in Users, NEW q \in Users, NEW a \in 1 .. MaxAmount, AggregateUnpaid(p, q, a)
      PROVE  SettleInv'
  BY <1>1, AggregateStep
<1>2. CASE RowsDone \/ Compute
  BY <1>2, PhaseStep
<1>3. CASE SplitBalances
  BY <1>3, SplitStep
<1>4. CASE Match
  BY <1>4, MatchStep
<1>5. CASE Return
  BY <1>5, ReturnStep
<1>6. CASE UNCHANGED vars
  BY <1>6, IdleStep
<1> QED BY <1>1, <1>2, <1>3, <1>4, <1>5, <1>6 DEF Next

LEMMA SettleAlways == Spec => []SettleInv
<1>1. Init => SettleInv
  BY SettleInit
<1>2. SettleInv /\ [Next]_vars => SettleInv'
  BY SettleStep
<1> QED BY <1>1, <1>2, PTL DEF Spec

-----------------------------------------------------------------------------
(* What follows from the invariant.                                        *)

\* Every variable keeps its type.
THEOREM SettlementTypes == Spec => []TypeOK
<1>1. SettleInv => TypeOK
  BY DEF SettleInv
<1> QED BY <1>1, SettleAlways, PTL

\* When the loop has ended, both lists are at their end and the transfers add
\* up to the net amounts.
LEMMA AtTheEnd ==
    ASSUME SettleInv, pc = "done"
    PROVE  /\ \A u \in Users : Net(result, u) = Net(unpaid, u)
           /\ i = Len(creditors) + 1 /\ j = Len(debtors) + 1
<1>1. /\ TypeOK /\ SumInv /\ ListInv /\ TransferInv /\ Through /\ next - 1 = N
      /\ unpaid \in Debts /\ result \in Debts
  <2>1. next = N + 1 /\ Through
    BY DEF SettleInv, PhaseInv, Matching
  <2> QED BY <2>1, SettlementAssumption DEF SettleInv, TypeOK
<1>2. /\ Credits \in [Users -> Int] /\ Debits \in [Users -> Int]
      /\ CreditsLeft \in [Users -> Int] /\ DebitsLeft \in [Users -> Int]
  BY <1>1, Amounts
<1>3. Due(unpaid, Credits, Debits) /\ Left(unpaid, result, CreditsLeft, DebitsLeft)
  BY <1>1, Amounts DEF Due, Left
<1>4. /\ Ranked(creditors, i, N, Credits, CreditsLeft)
      /\ Ranked(debtors, j, N, Debits, DebitsLeft)
  BY <1>1 DEF ListInv
<1>5. EvenStay(unpaid, result) /\ OnePast(creditors, debtors, i, j)
  BY <1>1 DEF TransferInv, EvenStay, OnePast, Through
<1>6. SameNets(unpaid, result) /\ BothPast(creditors, debtors, i, j)
  BY <1>1, <1>2, <1>3, <1>4, <1>5, Exhausted DEF SumInv
<1> QED BY <1>6 DEF SameNets, BothPast

\* The transfers settle the party: for any number of members and any unpaid
\* items, each member's net amount in the transfers that Optimize returns is
\* the member's net amount in the items.
THEOREM SettlementIsExact == Spec => []NetPreserved
<1>1. SettleInv => NetPreserved
  BY AtTheEnd DEF NetPreserved
<1> QED BY <1>1, SettleAlways, PTL

\* A transfer is from a member with a debt to a member with a credit, and
\* neither has paid, or got, too much.
LEMMA TransferEnds ==
    ASSUME SettleInv, NEW x \in Users, NEW y \in Users, result[<<x, y>>] > 0
    PROVE  /\ Net(unpaid, x) < 0 /\ Net(unpaid, x) =< Net(result, x)
           /\ Net(unpaid, y) > 0 /\ Net(unpaid, y) >= Net(result, y)
<1>1. TypeOK /\ ListInv /\ TransferInv /\ <<x, y>> \in Transfers
  BY DEF SettleInv, Transfers
<1>2. PICK k \in 1 .. Len(creditors), l \in 1 .. Len(debtors) :
         <<x, y>> = <<debtors[l].name, creditors[k].name>>
  BY <1>1 DEF TransferInv
<1>3. debtors[l].name = x /\ creditors[k].name = y
  BY <1>2
<1>4. creditors[k].amount \in Nat /\ debtors[l].amount \in Nat
  BY <1>1, EntriesOf DEF TypeOK
<1>5. Credits[y] > 0 /\ creditors[k].amount = CreditsLeft[y]
  BY <1>1, <1>3 DEF ListInv, Ranked
<1>6. Debits[x] > 0 /\ debtors[l].amount = DebitsLeft[x]
  BY <1>1, <1>3 DEF ListInv, Ranked
<1>7. /\ Net(unpaid, x) \in Int /\ Net(result, x) \in Int
      /\ Net(unpaid, y) \in Int /\ Net(result, y) \in Int
      /\ Credits[y] = Net(unpaid, y) /\ CreditsLeft[y] = Net(unpaid, y) - Net(result, y)
      /\ Debits[x] = -Net(unpaid, x) /\ DebitsLeft[x] = Net(result, x) - Net(unpaid, x)
  BY <1>1, Amounts
<1> QED BY <1>4, <1>5, <1>6, <1>7, SMTT(20)

\* No transfer goes through a member: who pays is a debtor, who receives is a
\* creditor, and no amount is larger than either one's net amount.
THEOREM NobodyPaysAndReceives == Spec => []NoPassThrough
<1>1. SettleInv => NoPassThrough
  <2> SUFFICES ASSUME SettleInv, NEW pair \in Transfers
               PROVE  /\ Net(unpaid, pair[1]) =< -result[pair]
                      /\ Net(unpaid, pair[2]) >= result[pair]
    BY DEF NoPassThrough
  <2>1. PICK x \in Users, y \in Users : pair = <<x, y>> /\ pair[1] = x /\ pair[2] = y
    BY DEF Transfers
  <2>2. /\ result \in Debts /\ result[<<x, y>>] > 0
        /\ \A u, v \in Users : result[<<u, v>>] \in Nat
        /\ \A u \in Users : Net(unpaid, u) \in Int /\ Net(result, u) \in Int
    BY <2>1, NetType DEF SettleInv, TypeOK, Transfers, Debts
  <2>3. /\ Net(unpaid, x) < 0 /\ Net(unpaid, x) =< Net(result, x)
        /\ Net(unpaid, y) > 0 /\ Net(unpaid, y) >= Net(result, y)
    BY <2>2, TransferEnds
  <2>4. ASSUME NEW v \in Users PROVE result[<<v, x>>] = 0 /\ result[<<y, v>>] = 0
    <3>1. ~(result[<<v, x>>] > 0)
      BY <2>2, <2>3, TransferEnds
    <3>2. ~(result[<<y, v>>] > 0)
      BY <2>2, <2>3, TransferEnds
    <3>3. result[<<v, x>>] \in Nat /\ result[<<y, v>>] \in Nat
      BY <2>2
    <3> QED BY <3>1, <3>2, <3>3
  <2>5. Net(result, x) =< -result[<<x, y>>]
    <3>1. Flow(result, x) \in [Users -> Int] /\ Net(result, x) = Total(Flow(result, x))
      BY <2>2, FlowType
    <3>2. ASSUME NEW v \in Users
          PROVE  /\ Flow(result, x)[v] = -result[<<x, v>>] /\ result[<<x, v>>] \in Nat
                 /\ Flow(result, x)[v] =< 0
      <4>1. Flow(result, x)[v] = result[<<v, x>>] - result[<<x, v>>]
        BY <2>2, FlowType
      <4>2. result[<<v, x>>] \in Nat /\ result[<<x, v>>] \in Nat
        BY <2>2
      <4>3. result[<<v, x>>] = 0
        BY <2>4
      <4> QED BY <4>1, <4>2, <4>3
    <3>3. \A v \in Users : Flow(result, x)[v] =< 0
      BY <3>2
    <3>4. Total(Flow(result, x)) =< Flow(result, x)[y]
      BY <3>1, <3>3, TotalOfDebts
    <3> QED BY <3>1, <3>2, <3>4
  <2>6. Net(result, y) >= result[<<x, y>>]
    <3>1. Flow(result, y) \in [Users -> Int] /\ Net(result, y) = Total(Flow(result, y))
      BY <2>2, FlowType
    <3>2. ASSUME NEW v \in Users
          PROVE  /\ Flow(result, y)[v] = result[<<v, y>>] /\ result[<<v, y>>] \in Nat
                 /\ Flow(result, y)[v] >= 0
      <4>1. Flow(result, y)[v] = result[<<v, y>>] - result[<<y, v>>]
        BY <2>2, FlowType
      <4>2. result[<<v, y>>] \in Nat /\ result[<<y, v>>] \in Nat
        BY <2>2
      <4>3. result[<<y, v>>] = 0
        BY <2>4
      <4> QED BY <4>1, <4>2, <4>3
    <3>3. \A v \in Users : Flow(result, y)[v] >= 0
      BY <3>2
    <3>4. Total(Flow(result, y)) >= Flow(result, y)[x]
      BY <3>1, <3>3, TotalOfCredits
    <3> QED BY <3>1, <3>2, <3>4
  <2>7. result[<<x, y>>] \in Nat /\ Net(unpaid, x) \in Int /\ Net(unpaid, y) \in Int
        /\ Net(result, x) \in Int /\ Net(result, y) \in Int
    BY <2>2
  <2> QED BY <2>1, <2>3, <2>5, <2>6, <2>7
<1> QED BY <1>1, SettleAlways, PTL

\* n members with an open balance need at most n - 1 transfers: each round
\* passes a list entry, and the last round passes two.
THEOREM TransfersAreFew == Spec => []FewTransfers
<1>1. SettleInv => FewTransfers
  <2> SUFFICES ASSUME SettleInv, pc = "done"
               PROVE  Cardinality(Transfers) =< (IF Unbalanced = {} THEN 0
                                                 ELSE Cardinality(Unbalanced) - 1)
    BY DEF FewTransfers
  <2>1. TypeOK /\ CountInv /\ Matching /\ Through /\ next - 1 = N
    <3>1. next = N + 1 /\ Through
      BY DEF SettleInv, PhaseInv, Matching
    <3> QED BY <3>1, SettlementAssumption DEF SettleInv, Matching
  <2>2. Unbalanced = Open(N)
    BY DEF Unbalanced, Open, Users
  <2>3. Len(creditors) + Len(debtors) = Cardinality(Unbalanced)
    BY <2>1, <2>2 DEF CountInv
  <2>4. i = Len(creditors) + 1 /\ j = Len(debtors) + 1
    BY AtTheEnd
  <2>5. Len(creditors) \in Nat /\ Len(debtors) \in Nat
    BY <2>1, EntriesOf DEF TypeOK
  <2>6. CASE Transfers = {}
    <3>1. Cardinality(Transfers) = 0
      BY <2>6, FS_EmptySet
    <3>2. ASSUME Unbalanced # {} PROVE Cardinality(Unbalanced) >= 1
      <4>1. IsFiniteSet(Unbalanced)
        BY UsersFinite, FS_Subset DEF Unbalanced
      <4>2. Cardinality(Unbalanced) \in Nat /\ Cardinality(Unbalanced) # 0
        BY <3>2, <4>1, FS_CardinalityType, FS_EmptySet
      <4> QED BY <4>2
    <3> QED BY <2>3, <2>5, <3>1, <3>2
  <2>7. CASE Transfers # {}
    <3>1. Cardinality(Transfers) =< i + j - 3
      BY <2>1, <2>7 DEF CountInv
    <3>2. Cardinality(Transfers) =< Cardinality(Unbalanced) - 1 /\ Cardinality(Transfers) \in Nat
      BY <2>3, <2>4, <2>5, <3>1, TransfersFinite
    <3>3. Unbalanced # {}
      <4>1. Cardinality(Unbalanced) # 0
        BY <2>3, <2>5, <3>2
      <4> QED BY <4>1, FS_EmptySet
    <3> QED BY <3>2, <3>3
  <2> QED BY <2>6, <2>7
<1> QED BY <1>1, SettleAlways, PTL

\* add's assignment never replaces an amount: the pair that a round pays has
\* not been paid before.
THEOREM NothingIsOverwritten == Spec => NoOverwrite
<1>1. SettleInv /\ [Next]_vars => [\A pair \in Transfers : result'[pair] = result[pair]]_vars
  <2> SUFFICES ASSUME SettleInv, Next
               PROVE  \A pair \in Transfers : result'[pair] = result[pair]
    OBVIOUS
  <2>1. CASE Match
    <3>0. PICK c \in Entry, d \in Entry, a \in Nat : Matched(c, d, a)
      BY <2>1, MatchPair, Zenon
    <3>1. /\ result[<<d.name, c.name>>] = 0
          /\ result' = [result EXCEPT ![<<d.name, c.name>>] = a]
      BY <3>0 DEF Matched
    <3>2. result \in Debts /\ \A pair \in Transfers : pair \in Users \X Users /\ result[pair] > 0
      BY DEF SettleInv, TypeOK, Transfers
    <3>3. \A pair \in Transfers : pair # <<d.name, c.name>>
      BY <3>1, <3>2
    <3> QED BY <3>1, <3>2, <3>3 DEF Debts
  <2>2. CASE ~Match
    <3>1. result' = result
      BY <2>2 DEF Next, AggregateUnpaid, RowsDone, Compute, SplitBalances, Return
    <3> QED BY <3>1
  <2> QED BY <2>1, <2>2
<1> QED BY <1>1, SettleAlways, PTL DEF Spec, NoOverwrite
=============================================================================
