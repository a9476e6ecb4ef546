\* Two overlapping requests of any kind; a count may fail and be read as zero,
\* the read of a party may fail and be passed over.
SPECIFICATION FairSpec
CONSTANTS
  Users = {u1, u2}
  Parties = {p1}
  ItemIds = {i1}
  Currencies = {c1}
  Reqs = {r1, r2}
  None = None
  Ops <- AllOps
  CountMayFail = TRUE
  ReadMayFail = TRUE
  RenameMayFail = FALSE
INVARIANTS
  OwnerIsMember
  ArchivedHasSnapshot
PROPERTIES
  ArchivedOnce
  ItemAuthority
  MemberAuthority
  ArchivedQuiesces
CHECK_DEADLOCK FALSE
