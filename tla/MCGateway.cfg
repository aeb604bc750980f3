CONSTANTS
  lola = lola
  jti1 = jti1
  Tenant = Tenant
  Keys = {lola}
  AgentOf <- MCAgentOf
  AdminOps = {}
  CliRuns = {c1}
  MaxWrites = 3
  Subjects <- MCSubjects
  Tokens <- MCTokens
  Iat <- MCIat
  Events <- MCEvents
  Posts = {p1}
  MaxAge = 1
  Skew = 1
  TicksPerSec = 1
  MaxTime = 0
  MaxLog = 2
  MaxFails = 0
  MaxRestarts = 1
  Requests = {r1}
  Bearers <- MCBearers
SPECIFICATION Spec
CHECK_DEADLOCK FALSE
INVARIANTS
  TypeOK
PROPERTIES
  AccessIsGated
