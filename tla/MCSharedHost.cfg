CONSTANTS
  acme = acme
  beta = beta
  web = web
  files = files
  read = read
  All = All
  Servers = {acme, beta}
  HostOf <- MCOneHost
  Kinds = {web, files}
  Scopes = {read}
  Commands <- MCCommands
  Runs = {r1, r2}
  Requests = {q1}
  Buffer = 2
  Timeout = 1
  Pause = 1
  Lifetimes = {4}
  Stating = {acme}
  Default = 5
  Interval = 1
  MaxTime = 4
  MaxStarts = 3
SPECIFICATION Spec
CHECK_DEADLOCK FALSE
INVARIANTS
  AsksItsServer
