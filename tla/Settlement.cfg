\* Four members, up to three unpaid items of one to three cents.
SPECIFICATION FairSpec
CONSTANTS
  N = 4
  MaxItems = 3
  MaxAmount = 3
INVARIANTS
  TypeOK
  NetPreserved
  FewTransfers
  NoPassThrough
PROPERTIES
  NoOverwrite
  Terminates
CHECK_DEADLOCK FALSE
