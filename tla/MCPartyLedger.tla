-------------------------- MODULE MCPartyLedger --------------------------
EXTENDS PartyLedger, TLC
Symmetry == Permutations(Users) \cup Permutations(ItemIds) \cup Permutations(Reqs)
=============================================================================
