---------------------------- MODULE GatewayProofs ----------------------------
(***************************************************************************)
(* The gateway keeps AccessGate's promise, for any number of requests,     *)
(* bearers, administrators, command line runs, event tokens and restarts.  *)
(* The configuration and the status list are taken from the proofs about   *)
(* TenantAdmin and SecurityEvents.                                         *)
(***************************************************************************)
EXTENDS Gateway, TLAPS

AdminFacts == INSTANCE TenantAdminProofs

EventFacts == INSTANCE SecurityEventsProofs

----------------------------------------------------------------------------
(* The parts as the gateway has them, and as they were proved about *)

LEMMA SameAdmin ==
  /\ Admin!Init => AdminFacts!Init
  /\ Admin!Next => AdminFacts!Next
  /\ AdminFacts!TypeOK <=> Admin!TypeOK
  /\ AdminFacts!ServesFileUnlessRaced <=> Admin!ServesFileUnlessRaced
  /\ AdminFacts!Got = Admin!Got /\ AdminFacts!Copy = Admin!Copy
<1> USE DEF Admin!Switches, Admin!Agents, Admin!SwitchesOf, Admin!Config, Admin!Copy, Admin!NoCopy, Admin!Idle, Admin!NoOp, Admin!Got,
            Admin!Owners, Admin!Everyone, Admin!Flipping, Admin!On, AdminFacts!Owners, AdminFacts!Everyone, AdminFacts!Flipping, AdminFacts!On,
            AdminFacts!Switches, AdminFacts!Agents, AdminFacts!SwitchesOf, AdminFacts!Config, AdminFacts!Copy, AdminFacts!NoCopy, AdminFacts!Idle, AdminFacts!NoOp, AdminFacts!Got
<1>1. Admin!Init => AdminFacts!Init
  BY Zenon DEF Admin!Init, AdminFacts!Init
<1>2. AdminFacts!TypeOK <=> Admin!TypeOK
  BY Zenon DEF Admin!TypeOK, AdminFacts!TypeOK
<1>3. AdminFacts!ServesFileUnlessRaced <=> Admin!ServesFileUnlessRaced
  BY Zenon DEF Admin!ServesFileUnlessRaced, AdminFacts!ServesFileUnlessRaced
<1>4. AdminFacts!Got = Admin!Got /\ AdminFacts!Copy = Admin!Copy
  BY Zenon
<1>5. Admin!Next => AdminFacts!Next
  BY Zenon DEF
    Admin!TurnedOn, Admin!Respelled, Admin!Flipped, Admin!FlipPut, Admin!FlipFails, Admin!Body, Admin!Spellings, Admin!Get, Admin!Rename, Admin!PutRename, Admin!EntryAfterPut,
    Admin!PutStat, Admin!Read, Admin!UpdateStart, Admin!Updated, Admin!UpdateFinish, Admin!Flip,
    Admin!FlipTenant, Admin!Found, Admin!FlipAgent, Admin!CredentialStart, Admin!FiledUnder,
    Admin!CredentialStore, Admin!Listing, Admin!CredentialPut, Admin!CredentialDelete, Admin!Abandon,
    Admin!CliStart, Admin!CliStore, Admin!CliPut, Admin!CliQuit, Admin!Restart, Admin!AdminNext,
    Admin!CliNext, Admin!Next,
    AdminFacts!TurnedOn, AdminFacts!Respelled, AdminFacts!Flipped, AdminFacts!FlipPut, AdminFacts!FlipFails,
    AdminFacts!Body, AdminFacts!Spellings, AdminFacts!Get, AdminFacts!Rename,
    AdminFacts!PutRename, AdminFacts!EntryAfterPut, AdminFacts!PutStat, AdminFacts!Read,
    AdminFacts!UpdateStart, AdminFacts!Updated, AdminFacts!UpdateFinish, AdminFacts!Flip,
    AdminFacts!FlipTenant, AdminFacts!Found, AdminFacts!FlipAgent, AdminFacts!CredentialStart,
    AdminFacts!FiledUnder, AdminFacts!CredentialStore, AdminFacts!Listing, AdminFacts!CredentialPut,
    AdminFacts!CredentialDelete, AdminFacts!Abandon, AdminFacts!CliStart, AdminFacts!CliStore,
    AdminFacts!CliPut, AdminFacts!CliQuit, AdminFacts!Restart, AdminFacts!AdminNext, AdminFacts!CliNext,
    AdminFacts!Next
<1> QED
  BY <1>1, <1>2, <1>3, <1>4, <1>5

LEMMA SameStatus ==
  /\ Status!Init => EventFacts!Init
  /\ Status!Next => EventFacts!Next
  /\ EventFacts!TypeOK <=> Status!TypeOK
<1> USE DEF Status!Event, Status!Damaged, Status!Window, Status!NowSec, Status!NoPost, Status!Quiet,
            EventFacts!Event, EventFacts!Damaged, EventFacts!Window, EventFacts!NowSec, EventFacts!NoPost,
            EventFacts!Quiet, Status!Ends, Status!Lines, EventFacts!Ends, EventFacts!Lines
<1>1. Status!Init => EventFacts!Init
  BY Zenon DEF Status!Init, EventFacts!Init
<1>2. EventFacts!TypeOK <=> Status!TypeOK
  BY Zenon DEF Status!TypeOK, EventFacts!TypeOK
<1>3. Status!Next => EventFacts!Next
  BY Zenon DEF
    Status!Apply, Status!Replay, Status!Tick, Status!Receive, Status!InWindow, Status!Pruned, Status!Until,
    Status!Accept, Status!Refuse, Status!RefuseOther, Status!Pending, Status!Appended, Status!ApplyNext,
    Status!ApplyFails, Status!Spoiled, Status!CutShort, Status!Begin, Status!Acknowledge, Status!Restart, Status!Handle,
    Status!EventsNext, Status!Next,
    EventFacts!Apply, EventFacts!Replay, EventFacts!Tick, EventFacts!Receive, EventFacts!InWindow,
    EventFacts!Pruned, EventFacts!Until, EventFacts!Accept, EventFacts!Refuse, EventFacts!RefuseOther,
    EventFacts!Pending, EventFacts!Appended, EventFacts!ApplyNext, EventFacts!ApplyFails,
    EventFacts!Spoiled, EventFacts!CutShort, EventFacts!Begin, EventFacts!Acknowledge, EventFacts!Restart, EventFacts!Handle,
    EventFacts!EventsNext, EventFacts!Next
<1> QED
  BY <1>1, <1>2, <1>3

----------------------------------------------------------------------------
(* Every step of the gateway is a step of its parts, or leaves them alone. *)

LEMMA AdminSteps == ASSUME [Next]_vars PROVE [AdminFacts!Next]_(AdminFacts!adminVars)
<1>1. [Admin!Next]_adminVars
  <2>1. CASE RequestStep
    <3>1. ASSUME NEW r \in Requests, NEW b \in Bearers, Arrive(r, b) PROVE Admin!Read
      BY <3>1 DEF Arrive, Admin!Read
    <3>2. ASSUME NEW r \in Requests, Handle(r) PROVE UNCHANGED adminVars
      BY <3>2 DEF Handle
    <3> QED
      BY <2>1, <3>1, <3>2 DEF RequestStep, Admin!Next
  <2>2. CASE AdminStep \/ CliStep
    BY <2>2 DEF AdminStep, CliStep, Admin!Next
  <2>3. CASE EventStep
    <3>1. ASSUME NEW p \in Posts, NEW t \in Tokens, Deliver(p, t) PROVE Admin!Read
      BY <3>1 DEF Deliver, Admin!Read
    <3> QED
      BY <2>3, <3>1 DEF EventStep, Admin!Next
  <2>4. CASE Restart
    BY <2>4 DEF Restart, Admin!Next
  <2>5. CASE UNCHANGED vars
    BY <2>5 DEF vars
  <2> QED
    BY <2>1, <2>2, <2>3, <2>4, <2>5 DEF Next
<1> QED
  BY <1>1, SameAdmin DEF adminVars, AdminFacts!adminVars

LEMMA StatusSteps == ASSUME [Next]_vars PROVE [EventFacts!Next]_(EventFacts!eventVars)
<1>1. [Status!Next]_eventVars
  <2>1. CASE RequestStep
    BY <2>1 DEF RequestStep, Arrive, Handle
  <2>2. CASE AdminStep \/ CliStep
    BY <2>2 DEF AdminStep, CliStep
  <2>3. CASE EventStep
    <3>1. ASSUME NEW p \in Posts, NEW t \in Tokens, Deliver(p, t) PROVE Status!Next
      BY <3>1 DEF Deliver, Status!Next
    <3> QED
      BY <2>3, <3>1 DEF EventStep, Status!Next
  <2>4. CASE Restart
    BY <2>4 DEF Restart, Status!Next
  <2>5. CASE UNCHANGED vars
    BY <2>5 DEF vars
  <2> QED
    BY <2>1, <2>2, <2>3, <2>4, <2>5 DEF Next
<1> QED
  BY <1>1, SameStatus DEF eventVars, EventFacts!eventVars

LEMMA EventsAssumed ==
  /\ MaxAge \in Nat /\ Skew \in Nat /\ MaxTime \in Nat /\ MaxLog \in Nat
  /\ MaxFails \in Nat /\ MaxRestarts \in Nat
  /\ TicksPerSec \in Nat \ {0}
  /\ Iat \in [Tokens -> Nat]
  /\ Events \in [Tokens -> Seq(EventFacts!Event)]
  BY StatusAssumption DEF Status!Event, EventFacts!Event

PartsInv == AdminFacts!TypeOK /\ AdminFacts!Coherent /\ EventFacts!IInv

LEMMA PartsInit == ASSUME Init PROVE PartsInv
<1>1. AdminFacts!Init /\ EventFacts!Init
  BY SameAdmin, SameStatus DEF Init
<1>2. AdminFacts!TypeOK
  BY <1>1, AdminAssumption, AdminFacts!TypeInit
<1>3. AdminFacts!Coherent
  BY <1>1, AdminAssumption, AdminFacts!CoherentInit
<1>4. EventFacts!IInv
  BY <1>1, EventsAssumed, EventFacts!InitHolds
<1> QED
  BY <1>2, <1>3, <1>4 DEF PartsInv

LEMMA PartsStep == ASSUME PartsInv, [Next]_vars PROVE PartsInv'
<1>1. [AdminFacts!Next]_(AdminFacts!adminVars) /\ [EventFacts!Next]_(EventFacts!eventVars)
  BY AdminSteps, StatusSteps
<1>2. AdminFacts!TypeOK'
  BY <1>1, AdminAssumption, AdminFacts!TypeStep DEF PartsInv
<1>3. AdminFacts!Coherent'
  BY <1>1, AdminAssumption, AdminFacts!CoherentStep DEF PartsInv
<1>4. EventFacts!IInv'
  BY <1>1, EventsAssumed, EventFacts!StepKeeps DEF PartsInv
<1> QED
  BY <1>2, <1>3, <1>4 DEF PartsInv

\* What a request needs to know of the parts: the configuration it is served is one, and is the one in
\* the file unless that is hidden.
LEMMA Served == ASSUME PartsInv PROVE Admin!Got \in Admin!Copy /\ Admin!ServesFileUnlessRaced
<1>1. AdminFacts!Got \in AdminFacts!Copy
  BY AdminAssumption, AdminFacts!GotIsCopy DEF PartsInv
<1>2. AdminFacts!ServesFileUnlessRaced
  BY DEF PartsInv, AdminFacts!Coherent, AdminFacts!Settled, AdminFacts!Idle, AdminFacts!ServesFileUnlessRaced,
         AdminFacts!Got
<1> QED
  BY <1>1, <1>2, SameAdmin

----------------------------------------------------------------------------
(* The inductive invariant: what a request has passed *)

\* Every gate that is open now has been seen open; a snapshot that permits the agent was the open switch
\* when it was taken; and a request that got past a check had the gate open.
HasPassed(r, b) ==
  /\ req[r].bearer = {b}
  /\ OpenTo(b) \subseteq passed[r]
  /\ Permits(req[r].view.cfg, b) => "switch" \in passed[r]
  /\ req[r].at # "key" => "status" \in passed[r]
  /\ req[r].at \notin {"key", "ask"} => "switch" \in passed[r]

Passes == \A r \in Requests : req[r].at # "idle" => \E b \in Bearers : HasPassed(r, b)

GInv == PartsInv /\ RequestsTypeOK /\ Passes

\* What Observe adds for one request.
LEMMA Observed ==
  ASSUME Observe, RequestsTypeOK, NEW r \in Requests, NEW b, req'[r].at # "idle", req'[r].bearer = {b}
  PROVE  passed'[r] = passed[r] \cup OpenTo(b)'
  BY DEF Observe

LEMMA IdleObserved ==
  ASSUME Observe, NEW r \in Requests, req'[r].at = "idle"
  PROVE  passed'[r] = {}
  BY DEF Observe

\* The gates as they are after a step that leaves the parts alone, or only looks at the configuration.
LEMMA GatesUntouched ==
  ASSUME PartsInv, UNCHANGED <<adminVars, eventVars>>
  PROVE  \A b : OpenTo(b)' = OpenTo(b)
  BY DEF adminVars, eventVars, OpenTo, Effective, Permits, Revoked, Admin!Spellings, Admin!NoCopy, Admin!Got

LEMMA GatesLookedAt ==
  ASSUME PartsInv, Admin!Get, UNCHANGED <<file, statting, raced, eventVars>>
  PROVE  /\ \A b : OpenTo(b)' = OpenTo(b)
         /\ Effective.cfg = Admin!Got.cfg
<1>1. /\ Admin!Idle /\ cache' = [mtime |-> file.ver, copy |-> Admin!Got]
      /\ UNCHANGED <<file, statting, raced, revoked>>
  BY DEF Admin!Get, eventVars
<1>2. Admin!Got' = Admin!Got /\ statting = Admin!NoCopy /\ Admin!NoCopy' = Admin!NoCopy
  BY <1>1 DEF Admin!Got, Admin!Idle, Admin!NoCopy
<1>3. ~ raced => Admin!Got = file
  BY <1>1, Served DEF Admin!ServesFileUnlessRaced
<1>4. Effective' = Effective /\ Effective = Admin!Got
  BY <1>1, <1>2, <1>3 DEF Effective
<1> QED
  BY <1>1, <1>4 DEF OpenTo, Permits, Revoked, Admin!Spellings

LEMMA NoRequestIsOne ==
  NoRequest \in [at : Stages, bearer : SUBSET Bearers, view : Admin!Copy]
  BY DEF NoRequest, Stages, Admin!NoCopy, Admin!Copy, Admin!Config, Admin!SwitchesOf, Admin!Switches

LEMMA PassedIsTyped ==
  ASSUME Observe, RequestsTypeOK
  PROVE  passed' \in [Requests -> SUBSET {"switch", "status"}]
<1>1. \A r \in Requests : passed[r] \subseteq {"switch", "status"}
  BY DEF RequestsTypeOK
<1>2. \A b : OpenTo(b)' \subseteq {"switch", "status"}
  BY DEF OpenTo
<1> QED
  BY <1>1, <1>2 DEF Observe

\* A request that is where it was has passed what it had passed, and what is open now.
LEMMA StillPasses ==
  ASSUME RequestsTypeOK, Observe, NEW r \in Requests, NEW b, HasPassed(r, b), req[r].at # "idle",
         req'[r] = req[r]
  PROVE  HasPassed(r, b)'
<1>1. passed'[r] = passed[r] \cup OpenTo(b)'
  BY Observed DEF HasPassed
<1>2. Permits(req[r].view.cfg, b)' <=> Permits(req[r].view.cfg, b)
  BY DEF Permits, Admin!Spellings
<1> QED
  BY <1>1, <1>2 DEF HasPassed

LEMMA RequestsStay ==
  ASSUME RequestsTypeOK, Passes, Observe, UNCHANGED req
  PROVE  RequestsTypeOK' /\ Passes'
<1>1. RequestsTypeOK'
  BY PassedIsTyped, IdleObserved DEF RequestsTypeOK
<1>2. Passes'
  BY StillPasses DEF Passes
<1> QED
  BY <1>1, <1>2

----------------------------------------------------------------------------
(* One lemma an action of a request *)

\* A step of one request: the others stay, and what holds of that one is all that is to show.
LEMMA OneRequest ==
  ASSUME RequestsTypeOK, Passes, Observe, NEW r \in Requests,
         NEW new \in [at : Stages, bearer : SUBSET Bearers, view : Admin!Copy],
         req' = [req EXCEPT ![r] = new], new.at = "idle" => new = NoRequest,
         new.at # "idle" => \E b \in Bearers : HasPassed(r, b)'
  PROVE  RequestsTypeOK' /\ Passes'
<1>1. req' \in [Requests -> [at : Stages, bearer : SUBSET Bearers, view : Admin!Copy]]
  BY DEF RequestsTypeOK
<1>2. req'[r] = new /\ \A q \in Requests \ {r} : req'[q] = req[q]
  BY DEF RequestsTypeOK
<1>3. \A q \in Requests : req'[q].at = "idle" => req'[q] = NoRequest /\ passed'[q] = {}
  BY <1>2, IdleObserved DEF RequestsTypeOK
<1>4. RequestsTypeOK'
  BY <1>1, <1>3, PassedIsTyped DEF RequestsTypeOK
<1>5. ASSUME NEW q \in Requests, req'[q].at # "idle" PROVE \E b \in Bearers : HasPassed(q, b)'
  <2>1. CASE q = r
    BY <1>2, <1>5, <2>1
  <2>2. CASE q # r
    <3>1. req'[q] = req[q] /\ req[q].at # "idle"
      BY <1>2, <1>5, <2>2
    <3>2. PICK b \in Bearers : HasPassed(q, b)
      BY <3>1 DEF Passes
    <3> QED
      BY <3>1, <3>2, StillPasses
  <2> QED
    BY <2>1, <2>2
<1> QED
  BY <1>4, <1>5 DEF Passes

\* What a request that arrives becomes.
LEMMA ArriveBegins ==
  ASSUME GInv, Observe, NEW r \in Requests, NEW b \in Bearers, Arrive(r, b)
  PROVE  /\ req[r] = NoRequest /\ passed[r] = {}
         /\ req' = [req EXCEPT ![r] = [at |-> "key", bearer |-> {b}, view |-> Admin!Got]]
         /\ [at |-> "key", bearer |-> {b}, view |-> Admin!Got]
              \in [at : Stages, bearer : SUBSET Bearers, view : Admin!Copy]
         /\ \A c : OpenTo(c)' = OpenTo(c)
         /\ HasPassed(r, b)' /\ passed'[r] = OpenTo(b)
<1>1. req[r] = NoRequest /\ passed[r] = {}
  BY DEF Arrive, GInv, RequestsTypeOK
<1>2. req' = [req EXCEPT ![r] = [at |-> "key", bearer |-> {b}, view |-> Admin!Got]]
  BY DEF Arrive
<1>3. req'[r] = [at |-> "key", bearer |-> {b}, view |-> Admin!Got]
  BY <1>2 DEF GInv, RequestsTypeOK
<1>4. /\ \A c : OpenTo(c)' = OpenTo(c)
      /\ Effective.cfg = Admin!Got.cfg
  BY GatesLookedAt DEF Arrive, GInv, eventVars
<1>5. passed'[r] = OpenTo(b)
  <2>1. passed'[r] = passed[r] \cup OpenTo(b)'
    BY <1>3, Observed DEF GInv
  <2> QED
    BY <1>1, <1>4, <2>1
<1>6. Permits(req[r].view.cfg, b)' => "switch" \in OpenTo(b)
  <2>1. Permits(req[r].view.cfg, b)' <=> Permits(Admin!Got.cfg, b)
    BY <1>3 DEF Permits, Admin!Spellings
  <2> QED
    BY <1>4, <2>1 DEF OpenTo
<1>7. HasPassed(r, b)'
  BY <1>3, <1>4, <1>5, <1>6 DEF HasPassed
<1>8. [at |-> "key", bearer |-> {b}, view |-> Admin!Got] \in [at : Stages, bearer : SUBSET Bearers, view : Admin!Copy]
  BY Served DEF GInv, Stages
<1> QED
  BY <1>1, <1>2, <1>4, <1>5, <1>7, <1>8

LEMMA ArriveKeeps ==
  ASSUME GInv, Observe, NEW r \in Requests, NEW b \in Bearers, Arrive(r, b)
  PROVE  RequestsTypeOK' /\ Passes'
<1> DEFINE new == [at |-> "key", bearer |-> {b}, view |-> Admin!Got]
<1>1. /\ new \in [at : Stages, bearer : SUBSET Bearers, view : Admin!Copy]
      /\ req' = [req EXCEPT ![r] = new] /\ HasPassed(r, b)'
  BY ArriveBegins
<1>2. new.at # "idle"
  OBVIOUS
<1> HIDE DEF new
<1> QED
  BY <1>1, <1>2, OneRequest DEF GInv

\* While the gates stay as they are, a request that stays where it is finds no other gate open.
LEMMA NothingNewIsSeen ==
  ASSUME GInv, Observe, \A c : OpenTo(c)' = OpenTo(c), NEW q \in Requests, req'[q] = req[q]
  PROVE  passed'[q] = passed[q]
<1>1. CASE req[q].at = "idle"
  BY <1>1, IdleObserved DEF GInv, RequestsTypeOK
<1>2. CASE req[q].at # "idle"
  <2>1. PICK c \in Bearers : HasPassed(q, c)
    BY <1>2 DEF GInv, Passes
  <2>2. passed'[q] = passed[q] \cup OpenTo(c)'
    BY <1>2, <2>1, Observed DEF HasPassed, GInv
  <2> QED
    BY <2>1, <2>2 DEF HasPassed
<1> QED
  BY <1>1, <1>2

\* A check that a request has passed leaves it one stage on, with the gate of that check seen open.
LEMMA MovesOn ==
  ASSUME GInv, Observe, UNCHANGED <<adminVars, eventVars>>, NEW r \in Requests, req[r].at # "idle",
         NEW stage \in Stages \ {"idle"}, req' = [req EXCEPT ![r].at = stage],
         NEW b \in Bearers, HasPassed(r, b),
         stage # "key" => "status" \in passed[r],
         stage \notin {"key", "ask"} => "switch" \in passed[r]
  PROVE  /\ RequestsTypeOK' /\ Passes'
         /\ passed' = passed
<1> DEFINE new == [req[r] EXCEPT !.at = stage]
<1>1. req[r] \in [at : Stages, bearer : SUBSET Bearers, view : Admin!Copy]
  BY DEF GInv, RequestsTypeOK
<1>2. /\ new \in [at : Stages, bearer : SUBSET Bearers, view : Admin!Copy]
      /\ new.at = stage /\ new.bearer = req[r].bearer /\ new.view = req[r].view
  BY <1>1
<1>3. req' = [req EXCEPT ![r] = new] /\ req'[r] = new
  BY DEF GInv, RequestsTypeOK
<1> HIDE DEF new
<1>4. \A c : OpenTo(c)' = OpenTo(c)
  BY GatesUntouched DEF GInv
<1>5. passed'[r] = passed[r]
  <2>1. passed'[r] = passed[r] \cup OpenTo(b)'
    BY <1>2, <1>3, Observed DEF HasPassed, GInv
  <2> QED
    BY <1>4, <2>1 DEF HasPassed
<1>6. Permits(req[r].view.cfg, b)' <=> Permits(req[r].view.cfg, b)
  BY <1>2, <1>3 DEF Permits, Admin!Spellings
<1>7. HasPassed(r, b)'
  BY <1>2, <1>3, <1>4, <1>5, <1>6 DEF HasPassed
<1>8. RequestsTypeOK' /\ Passes'
  BY <1>2, <1>3, <1>7, OneRequest DEF GInv
<1>9. ASSUME NEW q \in Requests \ {r} PROVE passed'[q] = passed[q]
  <2>1. req'[q] = req[q]
    BY <1>3 DEF GInv, RequestsTypeOK
  <2> QED
    BY <1>4, <2>1, NothingNewIsSeen
<1>10. passed' = passed
  BY <1>5, <1>8, <1>9 DEF GInv, RequestsTypeOK
<1> QED
  BY <1>8, <1>10

\* The four steps of a request that is let on.
Progress(r) == Verify(r) \/ Authorize(r) \/ TakeCredential(r) \/ Forward(r)

LEMMA ProgressMovesOn ==
  ASSUME GInv, Observe, UNCHANGED <<adminVars, eventVars>>, NEW r \in Requests, Progress(r)
  PROVE  /\ RequestsTypeOK' /\ Passes'
         /\ passed' = passed
<1>1. req[r].at # "idle"
  BY DEF Progress, Verify, Authorize, TakeCredential, Forward
<1>2. PICK b \in Bearers : HasPassed(r, b)
  BY <1>1 DEF GInv, Passes
<1>3. CASE Verify(r)
  <2>1. "status" \in passed[r]
    BY <1>2, <1>3 DEF Verify, HasPassed, OpenTo
  <2> QED
    BY <1>1, <1>2, <1>3, <2>1, MovesOn DEF Verify, Stages
<1>4. CASE Authorize(r)
  <2>1. "status" \in passed[r] /\ "switch" \in passed[r]
    BY <1>2, <1>4 DEF Authorize, HasPassed
  <2> QED
    BY <1>1, <1>2, <1>4, <2>1, MovesOn DEF Authorize, Stages
<1>5. CASE TakeCredential(r) \/ Forward(r)
  <2>1. "status" \in passed[r] /\ "switch" \in passed[r]
    BY <1>2, <1>5 DEF TakeCredential, Forward, HasPassed
  <2> QED
    BY <1>1, <1>2, <1>5, <2>1, MovesOn DEF TakeCredential, Forward, Stages
<1> QED
  BY <1>3, <1>4, <1>5 DEF Progress

LEMMA FinishEnds ==
  ASSUME GInv, Observe, NEW r \in Requests, Finish(r)
  PROVE  RequestsTypeOK' /\ Passes'
<1>1. req' = [req EXCEPT ![r] = NoRequest] /\ NoRequest.at = "idle"
  BY DEF Finish, NoRequest
<1> QED
  BY <1>1, NoRequestIsOne, OneRequest DEF GInv

LEMMA RestartEnds ==
  ASSUME GInv, Observe, Restart
  PROVE  RequestsTypeOK' /\ Passes'
<1>1. \A r \in Requests : req'[r] = NoRequest /\ req'[r].at = "idle"
  BY DEF Restart, NoRequest
<1>2. \A r \in Requests : passed'[r] = {}
  BY <1>1, IdleObserved
<1>3. req' \in [Requests -> [at : Stages, bearer : SUBSET Bearers, view : Admin!Copy]]
  BY NoRequestIsOne DEF Restart
<1> QED
  BY <1>1, <1>2, <1>3, PassedIsTyped DEF RequestsTypeOK, Passes, GInv

----------------------------------------------------------------------------
(* The invariant *)

LEMMA GInit == ASSUME Init PROVE GInv
<1>1. \A r \in Requests : req[r] = NoRequest /\ req[r].at = "idle" /\ passed[r] = {}
  BY DEF Init, NoRequest
<1>2. RequestsTypeOK
  BY <1>1, NoRequestIsOne DEF Init, RequestsTypeOK
<1> QED
  BY <1>1, <1>2, PartsInit DEF GInv, Passes

LEMMA GStep == ASSUME GInv, [Next]_vars PROVE GInv'
<1>1. PartsInv'
  BY PartsStep DEF GInv
<1>2. RequestsTypeOK' /\ Passes'
  <2>1. CASE UNCHANGED vars
    <3>1. UNCHANGED <<adminVars, eventVars, req, passed>>
      BY <2>1 DEF vars, requestVars
    <3>2. RequestsTypeOK'
      BY <3>1 DEF GInv, RequestsTypeOK, Admin!Copy, Admin!Config, Admin!SwitchesOf, Admin!Switches
    <3>3. \A r \in Requests, b \in Bearers : HasPassed(r, b) => HasPassed(r, b)'
      BY <3>1, GatesUntouched DEF GInv, HasPassed, Permits, Admin!Spellings
    <3> QED
      BY <3>1, <3>2, <3>3 DEF GInv, Passes
  <2>2. ASSUME Observe, NEW r \in Requests, NEW b \in Bearers, Arrive(r, b) PROVE RequestsTypeOK' /\ Passes'
    BY <2>2, ArriveKeeps
  <2>3. ASSUME Observe, NEW r \in Requests, Handle(r) PROVE RequestsTypeOK' /\ Passes'
    <3>1. CASE Finish(r)
      BY <2>3, <3>1, FinishEnds
    <3>2. CASE Progress(r)
      BY <2>3, <3>2, ProgressMovesOn DEF Handle
    <3> QED
      BY <2>3, <3>1, <3>2 DEF Handle, Progress
  <2>4. ASSUME Observe, AdminStep \/ CliStep \/ EventStep PROVE RequestsTypeOK' /\ Passes'
    BY <2>4, RequestsStay DEF AdminStep, CliStep, EventStep, GInv
  <2>5. ASSUME Observe, Restart PROVE RequestsTypeOK' /\ Passes'
    BY <2>5, RestartEnds
  <2> QED
    BY <2>1, <2>2, <2>3, <2>4, <2>5 DEF Next, RequestStep
<1> QED
  BY <1>1, <1>2 DEF GInv

LEMMA Always == Spec => []GInv
  BY GInit, GStep, PTL DEF Spec

\* Every variable of the gateway keeps its type: the configuration, the list of the suspended, and the
\* requests in progress with the gates they have passed.
THEOREM TypeCorrect == Spec => []TypeOK
<1>1. GInv => TypeOK
  BY SameAdmin, SameStatus DEF GInv, PartsInv, EventFacts!IInv, TypeOK
<1> QED
  BY <1>1, Always, PTL

----------------------------------------------------------------------------
(* The refinement *)

\* What the gate sees of the gateway.
GateOpen == [g \in {"switch", "status"} |-> {b \in Bearers : g \in OpenTo(b)}]

Phase(r) ==
  IF req[r].at = "idle" THEN "idle" ELSE IF req[r].at = "upstream" THEN "sent" ELSE "waiting"

CallOf(r) == [at |-> Phase(r), bearer |-> req[r].bearer, passed |-> passed[r]]

GateCall == [r \in Requests |-> CallOf(r)]

LEMMA PassingOne == \A b \in Bearers : Gate!Passing(GateOpen, {b}) = OpenTo(b)
  BY DEF Gate!Passing, GateOpen, OpenTo

LEMMA GateStays ==
  ASSUME \A c : OpenTo(c)' = OpenTo(c)
  PROVE  GateOpen' = GateOpen
  BY DEF GateOpen

LEMMA InitIsGated == ASSUME Init PROVE Gate!Init
<1>1. GateCall = [r \in Requests |-> Gate!NoCall]
  BY DEF Init, NoRequest, GateCall, CallOf, Phase, Gate!NoCall
<1>2. GateOpen \in [{"switch", "status"} -> SUBSET Bearers]
  BY DEF GateOpen
<1> QED
  BY <1>1, <1>2 DEF Gate!Init, GateOpen, GateCall, CallOf, Phase

\* A request that arrives finds the gates of that moment.
LEMMA ArriveIsBegin ==
  ASSUME GInv, Observe, NEW r \in Requests, NEW b \in Bearers, Arrive(r, b)
  PROVE  Gate!Begin(r, b)
<1>1. /\ req[r] = NoRequest /\ passed[r] = {}
      /\ req' = [req EXCEPT ![r] = [at |-> "key", bearer |-> {b}, view |-> Admin!Got]]
      /\ \A c : OpenTo(c)' = OpenTo(c)
      /\ passed'[r] = OpenTo(b)
  BY ArriveBegins
<1>2. GateCall[r].at = "idle"
  BY <1>1 DEF GateCall, CallOf, Phase, NoRequest
<1>3. CallOf(r)' = [at |-> "waiting", bearer |-> {b}, passed |-> Gate!Passing(GateOpen, {b})]
  BY <1>1, PassingOne DEF CallOf, Phase, GInv, RequestsTypeOK
<1>4. ASSUME NEW q \in Requests \ {r} PROVE CallOf(q)' = CallOf(q)
  <2>1. req'[q] = req[q]
    BY <1>1 DEF GInv, RequestsTypeOK
  <2>2. passed'[q] = passed[q]
    BY <1>1, <2>1, NothingNewIsSeen
  <2> QED
    BY <2>1, <2>2 DEF CallOf, Phase
<1>5. GateCall' = [GateCall EXCEPT ![r] =
                     [at |-> "waiting", bearer |-> {b}, passed |-> Gate!Passing(GateOpen, {b})]]
  BY <1>3, <1>4 DEF GateCall
<1>6. GateOpen' = GateOpen
  BY <1>1, GateStays
<1> QED
  BY <1>2, <1>5, <1>6 DEF Gate!Begin, GateOpen, GateCall, CallOf, Phase

\* What is sent has passed both gates; the steps before it are not seen by the gate.
LEMMA ProgressIsSend ==
  ASSUME GInv, Observe, NEW r \in Requests, Progress(r), UNCHANGED <<adminVars, eventVars>>
  PROVE  Gate!Send(r) \/ UNCHANGED Gate!vars
<1>1. passed' = passed
  BY ProgressMovesOn
<1>2. GateOpen' = GateOpen
  BY GatesUntouched, GateStays DEF GInv
<1>3. CASE Forward(r)
  <2>1. req[r].at = "token" /\ req' = [req EXCEPT ![r].at = "upstream"]
    BY <1>3 DEF Forward
  <2>2. PICK b \in Bearers : HasPassed(r, b)
    BY <2>1 DEF GInv, Passes
  <2>3. passed[r] = {"switch", "status"}
    BY <2>1, <2>2 DEF HasPassed, GInv, RequestsTypeOK
  <2>4. req'[r].at = "upstream" /\ req'[r].bearer = req[r].bearer /\ \A q \in Requests \ {r} : req'[q] = req[q]
    BY <2>1 DEF GInv, RequestsTypeOK
  <2>5. CallOf(r)' = [CallOf(r) EXCEPT !.at = "sent"]
    BY <1>1, <2>4 DEF CallOf, Phase
  <2>6. \A q \in Requests \ {r} : CallOf(q)' = CallOf(q)
    BY <1>1, <2>4 DEF CallOf, Phase
  <2>7. GateCall' = [GateCall EXCEPT ![r].at = "sent"]
    BY <2>5, <2>6 DEF GateCall
  <2>8. GateCall[r].at = "waiting" /\ GateCall[r].passed = {"switch", "status"}
    BY <2>1, <2>3 DEF GateCall, CallOf, Phase
  <2> QED
    BY <1>2, <2>7, <2>8 DEF Gate!Send, GateOpen, GateCall, CallOf, Phase
<1>4. CASE Verify(r) \/ Authorize(r) \/ TakeCredential(r)
  <2>1. /\ req[r].at \notin {"idle", "upstream"} /\ req'[r].at \notin {"idle", "upstream"}
        /\ req'[r].bearer = req[r].bearer
        /\ \A q \in Requests \ {r} : req'[q] = req[q]
    BY <1>4 DEF Verify, Authorize, TakeCredential, GInv, RequestsTypeOK
  <2>2. \A q \in Requests : CallOf(q)' = CallOf(q)
    BY <1>1, <2>1 DEF CallOf, Phase
  <2>3. GateCall' = GateCall
    BY <2>2 DEF GateCall
  <2> QED
    BY <1>2, <2>3 DEF Gate!vars, GateOpen, GateCall, CallOf, Phase
<1> QED
  BY <1>3, <1>4 DEF Progress

LEMMA NoRequestIsNoCall ==
  ASSUME Observe, NEW r \in Requests, req'[r] = NoRequest
  PROVE  CallOf(r)' = Gate!NoCall
<1>1. NoRequest.at = "idle" /\ NoRequest.bearer = {}
  BY DEF NoRequest
<1>2. passed'[r] = {}
  BY <1>1, IdleObserved
<1>3. Phase(r)' = "idle"
  BY <1>1 DEF Phase
<1>4. CallOf(r)' = [at |-> Phase(r)', bearer |-> req'[r].bearer, passed |-> passed'[r]]
  BY DEF CallOf
<1> QED
  BY <1>1, <1>2, <1>3, <1>4 DEF Gate!NoCall

LEMMA FinishIsEnd ==
  ASSUME GInv, Observe, NEW r \in Requests, Finish(r), UNCHANGED <<adminVars, eventVars>>
  PROVE  Gate!End(r)
<1>1. /\ req[r].at # "idle" /\ req'[r] = NoRequest /\ NoRequest.at = "idle"
      /\ \A q \in Requests \ {r} : req'[q] = req[q]
  BY DEF Finish, NoRequest, GInv, RequestsTypeOK
<1>2. \A c : OpenTo(c)' = OpenTo(c)
  BY GatesUntouched DEF GInv
<1>3. CallOf(r)' = Gate!NoCall
  BY <1>1, NoRequestIsNoCall
<1>4. \A q \in Requests \ {r} : CallOf(q)' = CallOf(q)
  BY <1>1, <1>2, NothingNewIsSeen DEF CallOf, Phase
<1>5. GateCall' = [GateCall EXCEPT ![r] = Gate!NoCall]
  BY <1>3, <1>4 DEF GateCall
<1>6. GateCall[r].at # "idle"
  BY <1>1 DEF GateCall, CallOf, Phase
<1>7. GateOpen' = GateOpen
  BY <1>2, GateStays
<1> QED
  BY <1>5, <1>6, <1>7 DEF Gate!End, GateOpen, GateCall, CallOf, Phase

\* Whatever an administrator, the command line tool or an issuer does is a change of the gates.
LEMMA OthersAreChanges ==
  ASSUME GInv, Observe, UNCHANGED req
  PROVE  Gate!Change
<1>1. GateOpen' \in [{"switch", "status"} -> SUBSET Bearers]
  BY DEF GateOpen
<1>2. ASSUME NEW r \in Requests
      PROVE  CallOf(r)' = IF CallOf(r).at = "idle" THEN CallOf(r)
                          ELSE [CallOf(r) EXCEPT !.passed = @ \cup Gate!Passing(GateOpen', CallOf(r).bearer)]
  <2>1. CASE req[r].at = "idle"
    BY <2>1, IdleObserved DEF CallOf, Phase, GInv, RequestsTypeOK
  <2>2. CASE req[r].at # "idle"
    <3>1. PICK b \in Bearers : HasPassed(r, b)
      BY <2>2 DEF GInv, Passes
    <3>2. req[r].bearer = {b} /\ passed'[r] = passed[r] \cup OpenTo(b)'
      BY <2>2, <3>1, Observed DEF HasPassed, GInv
    <3>3. Gate!Passing(GateOpen', {b}) = OpenTo(b)'
      BY DEF Gate!Passing, GateOpen, OpenTo
    <3>4. CallOf(r).at # "idle" /\ CallOf(r).bearer = {b}
      BY <2>2, <3>2 DEF CallOf, Phase
    <3>5. CallOf(r)' = [CallOf(r) EXCEPT !.passed = @ \cup OpenTo(b)']
      BY <3>2 DEF CallOf, Phase
    <3> QED
      BY <3>3, <3>4, <3>5
  <2> QED
    BY <2>1, <2>2
<1>3. GateCall' = [r \in Requests |->
                     IF GateCall[r].at = "idle" THEN GateCall[r]
                     ELSE [GateCall[r] EXCEPT !.passed = @ \cup Gate!Passing(GateOpen', GateCall[r].bearer)]]
  BY <1>2, Zenon DEF GateCall
<1> QED
  BY <1>1, <1>3 DEF Gate!Change, GateOpen, GateCall, CallOf, Phase

LEMMA RestartIsCrash ==
  ASSUME GInv, Observe, Restart
  PROVE  Gate!Crash
<1>1. \A r \in Requests : req'[r] = NoRequest
  BY DEF Restart
<1>2. \A r \in Requests : CallOf(r)' = Gate!NoCall
  BY <1>1, NoRequestIsNoCall
<1>3. GateCall' = [r \in Requests |-> Gate!NoCall]
  BY <1>2 DEF GateCall
<1>4. GateOpen' \in [{"switch", "status"} -> SUBSET Bearers]
  BY DEF GateOpen
<1> QED
  BY <1>3, <1>4 DEF Gate!Crash, GateOpen, GateCall, CallOf, Phase

LEMMA StepIsGated == ASSUME GInv, [Next]_vars PROVE [Gate!Next]_(Gate!vars)
<1>1. CASE UNCHANGED vars
  <2>1. UNCHANGED <<adminVars, eventVars, req, passed>>
    BY <1>1 DEF vars, requestVars
  <2>2. GateOpen' = GateOpen
    BY <2>1, GatesUntouched, GateStays DEF GInv
  <2>3. GateCall' = GateCall
    BY <2>1 DEF GateCall, CallOf, Phase
  <2> QED
    BY <2>2, <2>3 DEF Gate!vars, GateOpen, GateCall, CallOf, Phase
<1>2. ASSUME Observe, NEW r \in Requests, NEW b \in Bearers, Arrive(r, b) PROVE Gate!Next
  BY <1>2, ArriveIsBegin DEF Gate!Next
<1>3. ASSUME Observe, NEW r \in Requests, Handle(r) PROVE [Gate!Next]_(Gate!vars)
  <2>1. CASE Finish(r)
    BY <1>3, <2>1, FinishIsEnd DEF Handle, Gate!Next
  <2>2. CASE Progress(r)
    BY <1>3, <2>2, ProgressIsSend DEF Handle, Gate!Next
  <2> QED
    BY <1>3, <2>1, <2>2 DEF Handle, Progress
<1>4. ASSUME Observe, AdminStep \/ CliStep \/ EventStep PROVE Gate!Next
  BY <1>4, OthersAreChanges DEF AdminStep, CliStep, EventStep, Gate!Next
<1>5. ASSUME Observe, Restart PROVE Gate!Next
  BY <1>5, RestartIsCrash DEF Gate!Next
<1> QED
  BY <1>1, <1>2, <1>3, <1>4, <1>5 DEF Next, RequestStep

\* The gateway implements AccessGate: whatever the administrators, the command line tool and the issuers
\* do while a request waits, it goes to the upstream only if the switches and the status list were both
\* open to its bearer at some moment since it arrived, and one that arrives while a gate is closed is not
\* sent unless that gate opens.
THEOREM Gated == Spec => AccessIsGated
  BY InitIsGated, StepIsGated, Always, PTL DEF Spec, AccessIsGated, Gate!Spec

----------------------------------------------------------------------------
(* What follows from the gates *)

\* The request is not one that has seen the gate open to the bearer.
Unseen(r, g, b) == req[r].at = "idle" \/ req[r].bearer # {b} \/ g \notin passed[r]

\* A request has the same bearer as long as it is in progress.
LEMMA BearerStays ==
  ASSUME GInv, [Next]_vars, NEW r \in Requests, req[r].at # "idle", req'[r].at # "idle"
  PROVE  req'[r].bearer = req[r].bearer
<1>0. req \in [Requests -> [at : Stages, bearer : SUBSET Bearers, view : Admin!Copy]]
  BY DEF GInv, RequestsTypeOK
<1>1. CASE req' = req
  BY <1>1
<1>2. ASSUME NEW q \in Requests, NEW b \in Bearers, Arrive(q, b) PROVE req'[r].bearer = req[r].bearer
  BY <1>0, <1>2 DEF Arrive
<1>3. ASSUME NEW q \in Requests, NEW stage, req' = [req EXCEPT ![q].at = stage]
      PROVE  req'[r].bearer = req[r].bearer
  <2>1. CASE q = r
    BY <1>0, <1>3, <2>1
  <2>2. CASE q # r
    BY <1>0, <1>3, <2>2
  <2> QED
    BY <2>1, <2>2
<1>4. ASSUME NEW q \in Requests, Progress(q) PROVE req'[r].bearer = req[r].bearer
  BY <1>3, <1>4 DEF Progress, Verify, Authorize, TakeCredential, Forward
<1>5. ASSUME NEW q \in Requests, Finish(q) PROVE req'[r].bearer = req[r].bearer
  BY <1>0, <1>5 DEF Finish, NoRequest
<1>6. ASSUME NEW q \in Requests, Handle(q) PROVE req'[r].bearer = req[r].bearer
  BY <1>4, <1>5, <1>6 DEF Handle, Progress
<1>7. ~ Restart
  BY DEF Restart, NoRequest
<1>8. CASE RequestStep
  BY <1>2, <1>6, <1>8 DEF RequestStep
<1>9. CASE AdminStep \/ CliStep \/ EventStep
  BY <1>1, <1>9 DEF AdminStep, CliStep, EventStep
<1>10. CASE UNCHANGED vars
  BY <1>1, <1>10 DEF vars, requestVars
<1> QED
  BY <1>7, <1>8, <1>9, <1>10 DEF Next

LEMMA UnseenStays ==
  ASSUME GInv, [Next]_vars, NEW r \in Requests, NEW g, NEW b, Unseen(r, g, b), g \notin OpenTo(b)'
  PROVE  Unseen(r, g, b)'
<1> SUFFICES ASSUME req'[r].at # "idle", req'[r].bearer = {b} PROVE g \notin passed'[r]
  BY DEF Unseen
<1>1. g \notin passed[r]
  BY BearerStays DEF Unseen, GInv, RequestsTypeOK
<1>2. CASE Next
  <2>1. passed'[r] = passed[r] \cup OpenTo(b)'
    BY <1>2, Observed DEF Next, GInv
  <2> QED
    BY <1>1, <2>1
<1>3. CASE UNCHANGED vars
  BY <1>1, <1>3 DEF vars, requestVars
<1> QED
  BY <1>2, <1>3

LEMMA UnseenIsNotSent ==
  ASSUME GInv, NEW r \in Requests, NEW g \in {"switch", "status"}, NEW b, Unseen(r, g, b), req[r].bearer = {b}
  PROVE  req[r].at # "upstream"
<1> SUFFICES ASSUME req[r].at = "upstream" PROVE FALSE
  OBVIOUS
<1>1. PICK c \in Bearers : HasPassed(r, c)
  BY DEF GInv, Passes
<1>2. g \in passed[r]
  BY <1>1 DEF HasPassed
<1> QED
  BY <1>2 DEF Unseen

\* "The next request is refused": while the file of the tenant has the agent, one of its keys or the tenant
\* switched off, no request with a token of that agent that arrives reaches the upstream, whatever else the
\* administrators, the tool and the issuers do, across restarts; unless a write of the tool has raced with
\* one of the gateway's own (the exception of ServesFileUnlessRaced).
THEOREM SwitchedOffStayOut ==
  ASSUME NEW r \in Requests, NEW b \in Bearers
  PROVE  Spec => [](req[r].at = "idle" /\ [](~ raced /\ ~ Permits(file.cfg, b))
                      => [](req[r].bearer = {b} => req[r].at # "upstream"))
<1> DEFINE Off == ~ raced /\ ~ Permits(file.cfg, b)
           Shut == "switch" \notin OpenTo(b)
<1>0. Off => Shut
  BY DEF OpenTo, Effective
<1>1. req[r].at = "idle" => Unseen(r, "switch", b)
  BY DEF Unseen
<1>2. GInv /\ [Next]_vars /\ Unseen(r, "switch", b) /\ Shut' => Unseen(r, "switch", b)'
  BY UnseenStays
<1>3. GInv /\ Unseen(r, "switch", b) => (req[r].bearer = {b} => req[r].at # "upstream")
  BY UnseenIsNotSent
<1> QED
  BY <1>0, <1>1, <1>2, <1>3, Always, PTL DEF Spec

\* A bearer whose agent or token an issuer has revoked by a status event gets no further request to the
\* upstream until another event restores it; a restart of the gateway on the way changes nothing unless
\* the revocation itself is lost.
THEOREM RevokedStayOut ==
  ASSUME NEW r \in Requests, NEW b \in Bearers
  PROVE  Spec => [](req[r].at = "idle" /\ []Revoked(b)
                      => [](req[r].bearer = {b} => req[r].at # "upstream"))
<1> DEFINE Shut == "status" \notin OpenTo(b)
<1>0. Revoked(b) => Shut
  BY DEF OpenTo
<1>1. req[r].at = "idle" => Unseen(r, "status", b)
  BY DEF Unseen
<1>2. GInv /\ [Next]_vars /\ Unseen(r, "status", b) /\ Shut' => Unseen(r, "status", b)'
  BY UnseenStays
<1>3. GInv /\ Unseen(r, "status", b) => (req[r].bearer = {b} => req[r].at # "upstream")
  BY UnseenIsNotSent
<1> QED
  BY <1>0, <1>1, <1>2, <1>3, Always, PTL DEF Spec
=============================================================================
