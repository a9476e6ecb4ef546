---------------------------- MODULE MCPartyTab -----------------------------
(* The instance of PartyTab that TLC explores: the tab opens on a page     *)
(* that has no party or is about one of them, in whatever state.  If that  *)
(* party exists, the others are the user's own and have nobody else.  What *)
(* is owed at first is owed by one member to another.                      *)
EXTENDS PartyTab, TLC

MCInit ==
    /\ Init
    /\ \A i \in ItemIds : item[i].state = "live" => item[i].payer # item[i].initiator
    /\ \E p \in Parties :
          /\ route.party \in {p, None}
          /\ \A q \in Parties \ {p} :
                /\ Live(q) <=> Live(p)
                /\ party[q].owner \in {Me, NoParty.owner}
                /\ members[q] \subseteq {Me}
                /\ ItemsOf(q) = {}

MCSpec == MCInit /\ [][Next]_vars

Symmetry == Permutations(Parties)
=============================================================================
