\* One tab of one of two users, two parties, one item.
SPECIFICATION MCSpec
CONSTANTS
  Users = {u1, u2}
  Me = u1
  Parties = {p1, p2}
  ItemIds = {i1}
  Currencies = {c1}
  Reqs = {r1}
  None = None
  Slots = {1, 2}
  MaxMoves = 2
  MaxWrites = 2
  MaxElsewhere = 1
  MaxLost = 1
  MaxEvents = 2
INVARIANTS
  TypeOK
  RestingPageIsCurrent
  PageShowsItsParty
  SuccessIsTrue
  SpinnerHasALoad
PROPERTIES
  FreshOffersAreHonoured
SYMMETRY Symmetry
CHECK_DEADLOCK FALSE
