CONSTANTS
  Callers = {c1}
  Ttl = 4
  MinRefresh = 2
  StaleIfError = 0
  Timeout = 1
  MaxKid = 1
  MaxTime = 6
SPECIFICATION Spec
CHECK_DEADLOCK FALSE
PROPERTIES
  NoHammering
