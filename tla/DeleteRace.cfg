\* An item is added while the party is being deleted.
SPECIFICATION Spec
CONSTANTS
  Users = {u1, u2}
  Parties = {p1}
  ItemIds = {i1}
  Currencies = {c1}
  Reqs = {r1, r2}
  None = None
  Ops = {"create", "join", "add", "delete"}
  CountMayFail = FALSE
  ReadMayFail = FALSE
  RenameMayFail = FALSE
PROPERTY DeletedOnlySettled
CHECK_DEADLOCK FALSE
