\* Two tabs, two users, two requests or dialogs at a time; a limit of one token.
SPECIFICATION MCSpec
CONSTANTS
  u1 = u1
  u2 = u2
  t1 = t1
  t2 = t2
  c2 = c2
  Users = {u1, u2}
  Tabs = {t1, t2}
  Codes = {c1, c2}
  DefaultCodes = {c1}
  Parties = {p1}
  None = None
  Slots = {1, 2}
  TokenIds = {1, 2, 3}
  TicketIds = {1}
  DeviceIds = {1, 2}
  TokenLimit = 1
  MaxMoves = 1
  MaxWrites = 2
  MaxLost = 1
  MaxEvents = 3
CONSTRAINT PartiesMatter
INVARIANTS
  TypeOK
  TokensWithinLimit
  RestingPageIsCurrent
PROPERTIES
  AdminsRemain
  CurrenciesInUseStay
  TicketsAreSpent
CHECK_DEADLOCK FALSE
