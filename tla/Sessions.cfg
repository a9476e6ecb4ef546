SPECIFICATION Spec
CONSTANTS
  Tabs = {t1, t2}
  MaxTokens = 3
  MaxLosses = 1
INVARIANTS
  TypeOK
  OneLivePerSession
  JarIsNewest
  LogoutIsFinal
PROPERTIES
  LogoutEndsSession
  RevokedForGood
  DisabledMintsNothing
