SPECIFICATION FairSpec
CONSTANTS
  Tabs = {t1, t2}
  MaxTokens = 2
  MaxLosses = 2
PROPERTIES
  LoadingEnds
