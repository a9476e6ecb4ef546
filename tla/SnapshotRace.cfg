\* The party is archived by two requests at once.
SPECIFICATION Spec
CONSTANTS
  Users = {u1, u2}
  Parties = {p1}
  ItemIds = {i1}
  Currencies = {c1}
  Reqs = {r1, r2}
  None = None
  Ops = {"create", "join", "add", "archive"}
  CountMayFail = FALSE
  ReadMayFail = FALSE
  RenameMayFail = FALSE
PROPERTY SnapshotKeepsPlan
CHECK_DEADLOCK FALSE
