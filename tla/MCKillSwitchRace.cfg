CONSTANTS
  lola = lola
  Lola = Lola
  Tenant = Tenant
  AdminOps = {u1}
  CliRuns = {c1}
  Keys = {lola}
  AgentOf <- MCOneSpelling
  MaxWrites = 3
SPECIFICATION Spec
INVARIANTS
  SwitchStaysOff
