------------------------------ MODULE Gateway -------------------------------
(***************************************************************************)
(* One tenant of the gateway (gateway/src/gateway.js): the requests of its *)
(* agents, while its administrators change its configuration (TenantAdmin) *)
(* and its issuers send status events (SecurityEvents).                    *)
(*                                                                         *)
(* A request captures the configuration when it arrives and then awaits,   *)
(* in this order: the issuer's key, the issuer's introspection answer, its *)
(* own body and credential, the access token, and the upstream.  Anything  *)
(* else may happen at each await.                                          *)
(***************************************************************************)
EXTENDS Naturals, Sequences

CONSTANTS
  Keys, AgentOf, Tenant, AdminOps, CliRuns, MaxWrites,
  Subjects, Tokens, Iat, Events, Posts, MaxAge, Skew, TicksPerSec,
  MaxTime, MaxLog, MaxFails, MaxRestarts,
  Requests,   \* requests that may be in progress
  Bearers     \* the AID tokens agents hold: [agent, jti]

VARIABLES
  file, cache, statting, flip, op, cli, vault, silent, served, raced,
  now, revoked, seen, post, log, torn, fails, restarts, lost, taken, again,
  req,        \* the requests in progress
  passed      \* history: the gates each request has found open since it arrived

Admin == INSTANCE TenantAdmin

Status == INSTANCE SecurityEvents

adminVars == <<file, cache, statting, flip, op, cli, vault, silent, served, raced>>

eventVars == <<now, revoked, seen, post, log, torn, fails, restarts, lost, taken, again>>

requestVars == <<req, passed>>

vars == <<adminVars, eventVars, requestVars>>

ASSUME BearersAssumption == Bearers \subseteq [agent : Subjects, jti : Subjects]

\* What the parts assume.
ASSUME AdminAssumption ==
  /\ Tenant \notin Keys /\ \A k \in Keys : AgentOf[k] # Tenant
  /\ MaxWrites \in Nat

ASSUME StatusAssumption ==
  /\ MaxAge \in Nat /\ Skew \in Nat /\ MaxTime \in Nat /\ MaxLog \in Nat
  /\ MaxFails \in Nat /\ MaxRestarts \in Nat
  /\ TicksPerSec \in Nat \ {0}
  /\ Iat \in [Tokens -> Nat]
  /\ Events \in [Tokens -> Seq(Status!Event)]

----------------------------------------------------------------------------

Stages == {"idle", "key", "ask", "body", "token", "upstream"}

NoRequest == [at |-> "idle", bearer |-> {}, view |-> Admin!NoCopy]

RequestsTypeOK ==
  /\ req \in [Requests -> [at : Stages, bearer : SUBSET Bearers, view : Admin!Copy]]
  /\ passed \in [Requests -> SUBSET {"switch", "status"}]
  /\ \A r \in Requests : req[r].at = "idle" => req[r] = NoRequest /\ passed[r] = {}

TypeOK == Admin!TypeOK /\ Status!TypeOK /\ RequestsTypeOK

\* The one event loop is free: no store.put is between its rename and its stat, no disable or enable
\* between its read and its put, and nobody is in the middle of applying events.
Loop == Admin!Idle /\ Status!Quiet

\* findAgent, and the tenant's switch: some key of the configuration names the agent, and neither any
\* such key nor the tenant is off.
Permits(cfg, bearer) ==
  LET hits == Admin!Spellings(cfg, CHOOSE k \in Keys : AgentOf[k] = bearer.agent)
  IN  Tenant \notin cfg.off /\ hits # {} /\ hits \cap cfg.off = {}

\* RevocationList.isRevoked: of the agent, or of this one token.
Revoked(bearer) == bearer.agent \in revoked \/ bearer.jti \in revoked

Init ==
  /\ Admin!Init
  /\ Status!Init
  /\ req = [r \in Requests |-> NoRequest]
  /\ passed = [r \in Requests |-> {}]

----------------------------------------------------------------------------
(* A request.  Every refusal, and the answer, ends it with one audit record. *)

\* The configuration the gateway goes by: the file, except while a racing write of the command line
\* tool is hidden behind the gateway's own.
Effective == IF ~ raced THEN file ELSE IF statting = Admin!NoCopy THEN Admin!Got ELSE statting

\* The gates open to a bearer: its switches, and what the issuers have said of it.
OpenTo(bearer) ==
  {g \in {"switch", "status"} :
     \/ g = "switch" /\ Permits(Effective.cfg, bearer)
     \/ g = "status" /\ ~ Revoked(bearer)}

\* The gates each request has found open, after a step.
Observe ==
  passed' = [r \in Requests |->
    IF req'[r].at = "idle" THEN {}
    ELSE passed[r] \cup UNION {OpenTo(b)' : b \in req'[r].bearer}]

\* The handler's start: the configuration is read (a tenant that does not exist, or is off, is refused
\* at once) and the verifier asks for the key of the token's issuer.
Arrive(r, b) ==
  /\ Loop
  /\ req[r].at = "idle"
  /\ Admin!Get
  /\ Admin!Got.ver # 0
  /\ Tenant \notin Admin!Got.cfg.off
  /\ req' = [req EXCEPT ![r] = [at |-> "key", bearer |-> {b}, view |-> Admin!Got]]
  /\ UNCHANGED <<file, statting, flip, op, cli, vault, silent, raced, eventVars>>

\* The key has arrived and the token is good: signature, times, audience, grant, and not revoked.
Verify(r) ==
  /\ req[r].at = "key"
  /\ \E b \in req[r].bearer : ~ Revoked(b)
  /\ req' = [req EXCEPT ![r].at = "ask"]

SkipAgentCheck(r) ==
  /\ req[r].at = "ask"
  /\ req' = [req EXCEPT ![r].at = "body"]

\* The issuer's answer, if it has to be asked, is that the agent is active; the captured configuration
\* lists the agent and it is not off; the rate limit, the catalog and the permission allow the request.
Authorize(r) ==
  /\ req[r].at = "ask"
  /\ \E b \in req[r].bearer : Permits(req[r].view.cfg, b)
  /\ req' = [req EXCEPT ![r].at = "body"]

\* The body is complete and the vault has the agent's own credential.
TakeCredential(r) ==
  /\ req[r].at = "body"
  /\ \E b \in req[r].bearer : b.agent \in vault
  /\ req' = [req EXCEPT ![r].at = "token"]

\* With the access token, if the credential needs one, the request goes to the upstream.
Forward(r) ==
  /\ req[r].at = "token"
  /\ req' = [req EXCEPT ![r].at = "upstream"]

FinishWithoutReset(r) ==
  /\ req[r].at # "idle"
  /\ req' = [req EXCEPT ![r].at = "idle"]

\* The answer of the upstream, or a refusal or an error at any await: every wait has a deadline.
Finish(r) ==
  /\ req[r].at # "idle"
  /\ req' = [req EXCEPT ![r] = NoRequest]

Handle(r) ==
  /\ Loop
  /\ Verify(r) \/ Authorize(r) \/ TakeCredential(r) \/ Forward(r) \/ Finish(r)
  /\ UNCHANGED <<adminVars, eventVars>>

----------------------------------------------------------------------------
(* The system *)

\* POST /<tenant>/_events reads the configuration too; a tenant that is off still accepts events.
Deliver(p, t) ==
  /\ Loop
  /\ Admin!Got.ver # 0
  /\ Admin!Get
  /\ UNCHANGED <<file, statting, flip, op, cli, vault, silent, raced>>
  /\ Status!Receive(p, t)

RequestStep ==
  \E r \in Requests : (\E b \in Bearers : Arrive(r, b)) \/ Handle(r)

AdminStep ==
  /\ Status!Quiet /\ Admin!AdminNext
  /\ UNCHANGED <<eventVars, req>>

CliStep ==
  /\ Admin!CliNext
  /\ UNCHANGED <<eventVars, req>>

EventStep ==
  /\ Admin!Idle
  /\ \/ Status!EventsNext /\ UNCHANGED adminVars
     \/ Status!Tick /\ UNCHANGED adminVars
     \/ \E p \in Posts, t \in Tokens : Deliver(p, t)
  /\ UNCHANGED req

Restart ==
  /\ Admin!Restart
  /\ Status!Restart
  /\ req' = [r \in Requests |-> NoRequest]

Next == (RequestStep \/ AdminStep \/ CliStep \/ EventStep \/ Restart) /\ Observe

Spec == Init /\ [][Next]_vars

----------------------------------------------------------------------------
(* Properties *)

\* The gateway keeps AccessGate's promise, with two gates: the switches in the tenant's file, and the
\* status events received.  "The next request is refused; there is no cache to wait for."
Gate == INSTANCE AccessGate WITH
  Calls <- Requests,
  Gates <- {"switch", "status"},
  open <- [g \in {"switch", "status"} |-> {b \in Bearers : g \in OpenTo(b)}],
  call <- [r \in Requests |->
             [at |-> IF req[r].at = "idle" THEN "idle"
                     ELSE IF req[r].at = "upstream" THEN "sent" ELSE "waiting",
              bearer |-> req[r].bearer,
              passed |-> passed[r]]]

AccessIsGated == Gate!Spec
=============================================================================
