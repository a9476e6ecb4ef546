----------------------------- MODULE MCAccounts -----------------------------
(* The instance of AccountTabs that TLC explores: both tabs open on pages  *)
(* that write the same tables, and the other tables start empty.           *)
EXTENDS AccountTabs

CONSTANTS u1, u2, t1, t2, c2

Opens(page1, user1, page2, user2) ==
    /\ tab[t1].page = page1 /\ tab[t1].user = user1
    /\ tab[t2].page = page2 /\ tab[t2].user = user2

SigningIn ==
    /\ \E page \in {"login", "mfa"} : Opens(page, None, "profile", u1)
    /\ admins = {u2}
    /\ \A d \in DeviceIds : device[d].user # u2

Profiles ==
    /\ Opens("profile", u1, "profile", u1)
    /\ admins = {u2}
    /\ \A d \in DeviceIds : device[d].kind \in {"none", "totp"} /\ device[d].user # u2
    /\ tab[t2].calm \/ (TokensOf(u1) = {} /\ DevicesOf(u1, Kinds) # {})

Rights == Opens("users", u1, "users", u2) /\ admins = Users

Money == Opens("currencies", u1, "currencies", u1) /\ admins = {u1}

MCInit ==
    /\ Init
    /\ tab[t1].calm /\ (Profiles \/ tab[t2].calm)
    /\ SigningIn \/ Profiles \/ Rights \/ Money
    /\ SigningIn \/ Profiles \/ \A d \in DeviceIds : device[d].state = "unused"
    /\ \A k \in TokenIds : (token[k].user = u1 /\ Profiles) \/ token[k].state = "unused"
    /\ \A k \in TicketIds : ticket[k].state = "live" => tab[t1].ticket = k
    /\ Money \/ (currency[c2].live /\ \A p \in Parties : party[p].base = None)

MCSpec == MCInit /\ [][Next]_vars

\* Parties are written only while somebody looks at the currencies.
PartiesMatter ==
    (\E s \in Slots : req[s].op = "party") => \E t \in Tabs : tab[t].page = "currencies"
=============================================================================
