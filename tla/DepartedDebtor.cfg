\* One request at a time; the debtor of an item leaves.
SPECIFICATION Spec
CONSTANTS
  Users = {u1, u2}
  Parties = {p1}
  ItemIds = {i1}
  Currencies = {c1}
  Reqs = {r1}
  None = None
  Ops = {"create", "join", "add", "status", "leave"}
  CountMayFail = FALSE
  ReadMayFail = FALSE
  RenameMayFail = FALSE
INVARIANT SettlementCoversUnpaid
CHECK_DEADLOCK FALSE
