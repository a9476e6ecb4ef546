\* An item is added while the party is being archived.
SPECIFICATION FairSpec
CONSTANTS
  Users = {u1, u2}
  Parties = {p1}
  ItemIds = {i1}
  Currencies = {c1}
  Reqs = {r1, r2}
  None = None
  Ops = {"create", "join", "archive", "add", "status", "deleteItem", "clear"}
  CountMayFail = FALSE
  ReadMayFail = FALSE
  RenameMayFail = FALSE
PROPERTY ArchivedEndsSettled
CHECK_DEADLOCK FALSE
