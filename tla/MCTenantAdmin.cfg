CONSTANTS
  lola = lola
  Lola = Lola
  Tenant = Tenant
  AdminOps = {u1}
  CliRuns = {c1}
  Keys <- MCKeys
  AgentOf <- MCAgentOf
  MaxWrites = 3
SPECIFICATION Spec
INVARIANTS
  TypeOK
  WritersKeepSwitches
  ServedNeverGoesBack
  ServesFileUnlessRaced
