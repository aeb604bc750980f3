CONSTANTS
  lola = lola
  jti = jti
  Subjects <- MCSubjects
  Tokens <- MCTokens
  Iat <- MCIat
  Events <- MCEvents
  Posts = {p1, p2}
  MaxAge = 1
  Skew = 1
  TicksPerSec = 2
  MaxTime = 4
  MaxLog = 2
  MaxFails = 1
  MaxRestarts = 1
SPECIFICATION Spec
CHECK_DEADLOCK FALSE
INVARIANTS
  TypeOK
  RestartRemembers
  AcceptedOnce
PROPERTIES
  PostsAnswered
