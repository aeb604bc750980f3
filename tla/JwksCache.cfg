CONSTANTS
  Callers = {c1, c2, c3}
  Ttl = 4
  MinRefresh = 2
  StaleIfError = 5
  Timeout = 1
  MaxKid = 2
  MaxTime = 8
SPECIFICATION Spec
CHECK_DEADLOCK FALSE
INVARIANTS
  TypeOK
  WithdrawnKeyExpires
  NewKeyIsAccepted
