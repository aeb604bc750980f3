CONSTANTS
  Callers = {c1, c2, c3}
  Credentials = {old, new}
  Lifetimes = {2, 4}
  MaxLifetime = 3
  Default = 3
  Early = 1
  Timeout = 1
  MaxTime = 2
SPECIFICATION Spec
CHECK_DEADLOCK FALSE
INVARIANTS
  TypeOK
  OwnCredentialOnly
  CachedTokenIsGood
  FetchIsShared
PROPERTIES
  WaitersSettle
