\* One request at a time, three users, two items; a rename or a read of
\* the party may fail.
SPECIFICATION Spec
CONSTANTS
  Users = {u1, u2, u3}
  Parties = {p1}
  ItemIds = {i1, i2}
  Currencies = {c1}
  Reqs = {r1}
  None = None
  Ops <- AllOps
  CountMayFail = FALSE
  ReadMayFail = TRUE
  RenameMayFail = TRUE
INVARIANTS
  TypeOK
  NoOrphans
  UnpaidInitiatorIsMember
PROPERTIES
  ArchivedStaysSettled
  SnapshotIsPreArchive
  SnapshotStable
  DeletedOnlySettled
  ImplementsLedger
SYMMETRY Symmetry
CHECK_DEADLOCK FALSE
