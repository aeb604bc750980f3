CONSTANTS
  own = own
  ext = ext
  lola = lola
  addr = addr
  addrU = addrU
  j1 = j1
  crm = crm
  read = read
  send = send
  edit = edit
  get = get
  contacts = contacts
  dots = dots
  Reserved = Reserved
  Blank = Blank
  Unfit = {dots}
  Methods = {get}
  Segments = {contacts, lola, dots, Reserved, Blank}
  Permissions = {read, send}
  Lower <- MCLower
  Configs <- MCConfigs
  Requests = {r1}
  MaxBytes = 1
  Size = 1
  MaxFails = 1
  MaxTime = 2
  MaxRecords = 2
SPECIFICATION Spec
CHECK_DEADLOCK FALSE
INVARIANTS
  TypeOK
  OwnCredential
  AuditIsInOrder
PROPERTIES
  AccessIsGated
  AnswerIsFit
  AuditTellsTheTruth
  RequestsAnswered
