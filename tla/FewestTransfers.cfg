\* Four members, two items: a transfer for each item would be enough.
SPECIFICATION Spec
CONSTANTS
  N = 4
  MaxItems = 2
  MaxAmount = 2
INVARIANT FewestTransfers
CHECK_DEADLOCK FALSE
