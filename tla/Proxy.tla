-------------------------------- MODULE Proxy -------------------------------
(***************************************************************************)
(* A request from the token to the audit record: what the verifier decides *)
(* (verifier/src/verifier.js), what the gateway makes of it (handleProxy   *)
(* and handler in gateway/src/gateway.js), and the exchange with the       *)
(* upstream (gateway/src/outbound.js).  The tenant's configuration stays   *)
(* as it is; Gateway is about its changes.                                 *)
(*                                                                         *)
(* A configuration is [policy, catalog, agents, asks]: agents are the      *)
(* entries [key, issuer, ref, off] in their order, and asks lists the      *)
(* requests that may meet it.  A request is [token, needs, route]: route   *)
(* is {[method, raw]} for one to the gateway, and {} for one to an         *)
(* application behind aidMiddleware, which needs some permissions.  The    *)
(* clock counts seconds.                                                   *)
(***************************************************************************)
EXTENDS VerifierPolicy, Catalog, FiniteSets

CONSTANTS
  Configs,    \* stored configurations of tenants, valid or not
  Requests,   \* requests that may be in progress
  MaxBytes,   \* limits.maxResponseBytes
  Size,       \* records the audit ring holds
  MaxFails,   \* bound: audit lines that are lost
  MaxTime,    \* bound: last second
  MaxRecords  \* bound: audit records

ASSUME LimitsAssumption ==
  /\ IsFiniteSet(Requests)
  /\ MaxBytes \in Nat /\ MaxFails \in Nat /\ MaxTime \in Nat /\ MaxRecords \in Nat
  /\ Size \in Nat \ {0}

\* What a stored configuration, valid or not, and the requests that meet it look like.
ASSUME ConfigsAssumption ==
  \A t \in DOMAIN Configs :
    LET policy == Configs[t].policy
        asks   == Configs[t].asks
    IN  /\ IsFiniteSet(DOMAIN policy.issuers)
        /\ \A id \in DOMAIN policy.issuers :
             policy.issuers[id].introspect \subseteq {"always", "for-permissions", "never"}
        /\ Len(policy.grants) \in Nat /\ DOMAIN policy.grants = 1 .. Len(policy.grants)
        /\ Configs[t].catalog \in Seq(Entries)
        /\ \A a \in DOMAIN asks :
             /\ \A token, other \in asks[a].token : token = other
             /\ \A route, other \in asks[a].route : route = other
             /\ \A route \in asks[a].route : route.raw \in Seq(Segments)

VARIABLES
  now,
  tenant,     \* the tenant the requests are for
  vault,      \* for each name the agents entry, as a set of at most one, whose credential was last stored under it
  revoked,    \* agents and token ids the issuers have revoked by a status event
  inactive,   \* agents that are suspended at their issuer
  req,        \* the requests in progress
  open,       \* history: the requests each gate is open to
  passed,     \* history: the gates each request has found open since it arrived
  ring, queue, file, failed, \* the audit log
  count       \* records so far

Audit == INSTANCE AuditLog

auditVars == <<ring, queue, file, failed, count>>

worldVars == <<now, tenant, vault, revoked, inactive, open>>

vars == <<worldVars, req, passed, auditVars>>

----------------------------------------------------------------------------
(* The tenant *)

cfg == Configs[tenant]

ValidWithoutIssuers(config) == WellFormedPolicy(config.policy) /\ ValidCatalog(config.catalog)

\* What validateTenantConfig asks of the parts that are modelled: with several issuers every entry names one.
ValidConfig(config) ==
  /\ WellFormedPolicy(config.policy)
  /\ ValidCatalog(config.catalog)
  /\ \A i \in DOMAIN config.agents :
       /\ config.agents[i].issuer \subseteq DOMAIN config.policy.issuers
       /\ Cardinality(DOMAIN config.policy.issuers) > 1 => config.agents[i].issuer # {}

\* credentialName, without the tenant
VaultName(entry) == Lower[IF entry.ref # {} THEN CHOOSE n \in entry.ref : TRUE ELSE entry.key]

VaultNames == {VaultName(cfg.agents[i]) : i \in DOMAIN cfg.agents}

\* The entries findAgent finds for a token: those of its issuer, or of none, with its address or id.
AgentHits(token) ==
  {i \in DOMAIN cfg.agents :
     LET entry == cfg.agents[i]
     IN  /\ entry.issuer \subseteq {token.issuer}
         /\ entry.key = token.agent \/ \E a \in token.address : Lower[entry.key] = Lower[a]}

\* The entry that counts is the first; none does if any of them is off.
FindAgent(token) ==
  LET hits == AgentHits(token)
  IN  {i \in hits : \A j \in hits : i <= j /\ ~ cfg.agents[j].off}

\* RevocationList.isRevoked
Revoked(token) == token.agent \in revoked \/ token.jti \in revoked

----------------------------------------------------------------------------
(* The gates: what has to be true of a request before it is sent on, in no order, and said without    *)
(* "first": of grants, of agents entries and of catalog entries.                                      *)

GateNames == {"token", "grant", "status", "issuer", "permission", "agent"}

\* The path of a request to the gateway, if its target is acceptable and not the event receiver's.
Paths(ask) ==
  {path \in UNION {ParseTarget(route.raw) : route \in ask.route} : path # <<>> => path[1] # Reserved}

\* The permissions each request needs: those of the middleware, or the one of its catalog entry.
Wanted ==
  [t \in DOMAIN Configs |-> [a \in DOMAIN Configs[t].asks |->
     LET ask == Configs[t].asks[a]
     IN  IF ask.route = {} THEN ask.needs
         ELSE {e.permission : e \in UNION {Descent(Configs[t].catalog, route.method, path) :
                                              route \in ask.route, path \in Paths(ask)}}]]

GrantsFor(token) == {g \in {cfg.policy.grants[n] : n \in DOMAIN cfg.policy.grants} : Names(g, token)}

\* A permission is had here if a scope stands for it, and a grant in force that names the agent covers it;
\* an agent of an open issuer that no grant in force names is under no ceiling.
Has(token, p) ==
  LET issuer  == cfg.policy.issuers[token.issuer]
      inForce == {g \in GrantsFor(token) : ~ Expired(g, now)}
  IN  /\ p \in MapScopes(ScopesOf(token), issuer.scopeMap)
      /\ \/ \E g \in inForce : \A ceiling \in g.ceiling : p \in ceiling
         \/ issuer.open /\ inForce = {}

\* No grant that may end stands before another one that names the same agent of an open issuer.  Where one
\* does, the verifier looks no further once the first has ended, and the ceiling of the other is not applied.
NoHiddenCeiling(config) ==
  LET grants == config.policy.grants
  IN  \A m, n \in DOMAIN grants, a \in DOMAIN config.asks : \A token \in config.asks[a].token :
        /\ m < n
        /\ Names(grants[m], token) /\ Names(grants[n], token)
        /\ config.policy.issuers[grants[m].issuer].open
        => grants[m].until = {}

\* The entry is that of the agent, at its own issuer.
IsFor(entry, token) ==
  /\ entry.issuer = {token.issuer} \/ (entry.issuer = {} /\ DOMAIN cfg.policy.issuers = {token.issuer})
  /\ entry.key = token.agent \/ \E a \in token.address : Lower[entry.key] = Lower[a]

GateOpen(g, a, token) ==
  LET issuer  == cfg.policy.issuers[token.issuer]
      gateway == cfg.asks[a].route # {}
      wanted  == Wanted[tenant][a]
      mine    == {i \in DOMAIN cfg.agents : IsFor(cfg.agents[i], token)}
  IN  CASE g = "token" -> Acceptable(cfg.policy, token, now)
        [] g = "grant" -> issuer.open \/ \E grant \in GrantsFor(token) : ~ Expired(grant, now)
        [] g = "status" -> ~ Revoked(token)
        [] g = "issuer" -> \/ token.agent \notin inactive
                           \/ "never" \in Modes(issuer)
                           \/ "for-permissions" \in Modes(issuer) /\ wanted \cap issuer.sensitive = {}
        [] g = "permission" -> (gateway => wanted # {}) /\ \A p \in wanted : Has(token, p)
        [] g = "agent" -> gateway => mine # {} /\ \A i \in mine : ~ cfg.agents[i].off

\* The requests each gate is open to.
Opened ==
  [g \in GateNames |-> {a \in DOMAIN cfg.asks : \E token \in cfg.asks[a].token :
     token.issuer \in DOMAIN cfg.policy.issuers /\ GateOpen(g, a, token)}]

\* The gates each request has found open, after a step.
Observe ==
  passed' = [r \in Requests |->
    IF req'[r].at = "idle" THEN {} ELSE passed[r] \cup {g \in GateNames : req'[r].ask \subseteq open'[g]}]

----------------------------------------------------------------------------

Stages == {"idle", "key", "ask", "body", "head", "answer", "app"}

NoAnswer == [framing |-> "counted", meant |-> 0, got |-> 0, echo |-> FALSE]

NoRequest == [at |-> "idle", ask |-> {}, held |-> {}, told |-> {}, cred |-> {}, answer |-> NoAnswer]

Records == [id : 1 .. MaxRecords, decision : {"allow", "deny", "error"}, named : BOOLEAN]

TypeOK ==
  /\ now \in 0 .. MaxTime
  /\ tenant \in DOMAIN Configs
  /\ vault \in [VaultNames -> SUBSET DOMAIN cfg.agents]
  /\ passed \in [Requests -> SUBSET GateNames]
  /\ \A r \in Requests :
       /\ req[r].at \in Stages
       /\ req[r].ask \subseteq DOMAIN cfg.asks
       /\ req[r].at = "idle" => req[r] = NoRequest /\ passed[r] = {}
       /\ req[r].at \in {"head", "answer"} <=> req[r].cred # {}
       /\ req[r].answer.got <= MaxBytes
  /\ count \in 0 .. MaxRecords
  /\ \A log \in {ring, queue, file, failed} : log \in Seq(Records)
  /\ Len(ring) <= Size

Init ==
  /\ now = 0
  /\ tenant \in {t \in DOMAIN Configs : ValidConfig(Configs[t])}
  /\ vault \in [VaultNames -> {{}} \cup {{i} : i \in DOMAIN cfg.agents}]
  /\ \A n \in VaultNames : \A i \in vault[n] : VaultName(cfg.agents[i]) = n
  /\ revoked = {}
  /\ inactive = {}
  /\ open = Opened
  /\ req = [r \in Requests |-> NoRequest]
  /\ passed = [r \in Requests |-> {}]
  /\ Audit!Init
  /\ count = 0

----------------------------------------------------------------------------
(* The end of a request: at the gateway, with its one audit record. *)

Record(ask, decision, named) ==
  IF ask.route = {} THEN UNCHANGED auditVars
  ELSE /\ count' = count + 1
       /\ Audit!Record([id |-> count + 1, decision |-> decision, named |-> named])

AsksOf(r) == {cfg.asks[a] : a \in req[r].ask}

Close(r, decision, named) ==
  /\ \A ask \in AsksOf(r) : Record(ask, decision, named)
  /\ req' = [req EXCEPT ![r] = NoRequest]

UpstreamDenied(r) == Close(r, "deny", TRUE)

\* Whatever goes wrong once the credential has been used is an error and no denial.
UpstreamError(r) == Close(r, "error", TRUE)

Advance(r, stage) == req' = [req EXCEPT ![r].at = stage] /\ UNCHANGED auditVars

----------------------------------------------------------------------------
(* The verifier *)

\* handleEvents, of which only the audit record is modelled here (SecurityEvents models the rest): an event
\* is accepted or denied, or its line cannot be written.
Decisions(ask) ==
  IF \E route \in ask.route : <<Reserved>> \in ParseTarget(route.raw) THEN {"allow", "deny", "error"} ELSE {"deny"}

\* The handler up to its first await: no good target, no token, an unreadable one, or one of an
\* unknown issuer is refused at once; for all others the issuer's key is fetched.
Arrive(r, a) ==
  LET ask == cfg.asks[a]
  IN  /\ req[r].at = "idle"
      /\ count + Cardinality({q \in Requests : req[q].at # "idle"}) < MaxRecords
      /\ IF /\ ask.route # {} => Paths(ask) # {}
            /\ \E token \in ask.token : Readable(token) /\ token.issuer \in DOMAIN cfg.policy.issuers
         THEN /\ req' = [req EXCEPT ![r] = [NoRequest EXCEPT !.at = "key", !.ask = {a}]]
              /\ UNCHANGED auditVars
         ELSE /\ \E decision \in Decisions(ask) : Record(ask, decision, FALSE)
              /\ UNCHANGED req

\* The permissions a request needs: those of the middleware, or the one its catalog entry names.
Needed(ask) ==
  IF ask.route = {} THEN {ask.needs}
  ELSE {{e.permission} : e \in UNION {Match(cfg.catalog, route.method, path) : route \in ask.route, path \in Paths(ask)}}

\* Steps 2 to 4 of handleProxy, or the end of aidMiddleware: the agent is configured and on, within its
\* rate, and holds what the request needs; or it is refused, by name.
Admit(r, ask, token, held) ==
  \/ /\ ask.route # {} => FindAgent(token) # {}
     /\ \E needed \in Needed(ask) : needed \subseteq held
     /\ Advance(r, IF ask.route = {} THEN "app" ELSE "body")
  \/ Close(r, "deny", TRUE)

\* The key has arrived: the token is good, its agent is let in and has not been revoked.
Verify(r) ==
  /\ req[r].at = "key"
  /\ \E ask \in AsksOf(r) : \E token \in ask.token :
       LET held == PermissionsOf(cfg.policy, token, now)
       IN  /\ Acceptable(cfg.policy, token, now)
           /\ Authorized(cfg.policy, token, now)
           /\ ~ Revoked(token)
           /\ IF NeedAsk(cfg.policy, token, ask.needs, held)
              THEN req' = [req EXCEPT ![r].at = "ask", ![r].held = held] /\ UNCHANGED auditVars
              ELSE Admit(r, ask, token, held)

\* The issuer reads the standing of the agent for its answer.
IssuerReads(r) ==
  /\ req[r].at = "ask" /\ req[r].told = {}
  /\ \E ask \in AsksOf(r) : \E token \in ask.token :
       req' = [req EXCEPT ![r].told = {token.agent \notin inactive}]
  /\ UNCHANGED auditVars

\* Its answer arrives, and it is that the agent is active.
Told(r) ==
  /\ req[r].at = "ask" /\ req[r].told = {TRUE}
  /\ \E ask \in AsksOf(r) : \E token \in ask.token : Admit(r, ask, token, req[r].held)

\* No key, no good token, no grant, no answer or a wrong one, or the verifier itself throws (internal_error):
\* refused, and by no name.
Refuse(r) ==
  /\ req[r].at \in {"key", "ask"}
  /\ \E decision \in {"deny", "error"} : Close(r, decision, FALSE)

----------------------------------------------------------------------------
(* The exchange with the upstream *)

\* The body is complete, and the request goes on with the credential found under the name of the agent's entry.
Forward(r) ==
  /\ req[r].at = "body"
  /\ \E ask \in AsksOf(r) : \E token \in ask.token : \E i \in FindAgent(token) :
       LET stored == vault[VaultName(cfg.agents[i])]
       IN  stored # {} /\ req' = [req EXCEPT ![r].at = "head", ![r].cred = stored]
  /\ UNCHANGED auditVars

\* A body that is too large or not expected is denied; a missing credential, or an access token that
\* cannot be had, is an error.
NotForwarded(r) ==
  /\ req[r].at = "body"
  /\ \E decision \in {"deny", "error"} : Close(r, decision, TRUE)

\* The head of the answer; its length is counted, or its end is marked, or is the end of the connection.
AnswerHead(r) ==
  /\ req[r].at = "head"
  /\ \E framing \in {"counted", "marked", "closed"}, meant \in 0 .. MaxBytes + 1, echo \in BOOLEAN :
       IF framing = "counted" /\ meant > MaxBytes
       THEN UpstreamError(r)
       ELSE /\ req' = [req EXCEPT ![r].at = "answer",
                                  ![r].answer = [framing |-> framing, meant |-> meant, got |-> 0, echo |-> echo]]
            /\ UNCHANGED auditVars

Data(r) ==
  /\ req[r].at = "answer"
  /\ req[r].answer.got < req[r].answer.meant
  /\ IF req[r].answer.got = MaxBytes
     THEN UpstreamError(r)
     ELSE req' = [req EXCEPT ![r].answer.got = @ + 1] /\ UNCHANGED auditVars

\* An answer that holds the credential is blocked; any other one is passed back.
PassBack(r) ==
  IF req[r].answer.echo THEN UpstreamError(r) ELSE Close(r, "allow", TRUE)

End(r) ==
  /\ req[r].at = "answer"
  /\ req[r].answer.got = req[r].answer.meant
  /\ PassBack(r)

CutIsTheEnd(r) ==
  /\ req[r].at = "answer"
  /\ req[r].answer.got < req[r].answer.meant
  /\ PassBack(r)

\* The connection ends early: that is noticed, unless it is what marks the end.
Cut(r) ==
  /\ req[r].at = "answer"
  /\ req[r].answer.got < req[r].answer.meant
  /\ IF req[r].answer.framing = "closed" THEN PassBack(r) ELSE UpstreamError(r)

DeadlineUntilHead(r) ==
  \/ Refuse(r)
  \/ req[r].at = "body" /\ Close(r, "error", TRUE)
  \/ req[r].at = "head" /\ UpstreamError(r)

\* Every wait has a deadline; that of the upstream is for the whole exchange.
Deadline(r) ==
  \/ Refuse(r)
  \/ req[r].at = "body" /\ Close(r, "error", TRUE)
  \/ req[r].at \in {"head", "answer"} /\ UpstreamError(r)

\* The application is done.
Finish(r) == req[r].at = "app" /\ Close(r, "allow", TRUE)

Handle(r) ==
  \/ \E a \in DOMAIN cfg.asks : Arrive(r, a)
  \/ Verify(r) \/ IssuerReads(r) \/ Told(r) \/ Forward(r) \/ NotForwarded(r)
  \/ AnswerHead(r)
  \/ Data(r) \/ End(r) \/ Cut(r) \/ Deadline(r) \/ Finish(r)

----------------------------------------------------------------------------
(* The system *)

Tick ==
  /\ now < MaxTime
  /\ now' = now + 1
  /\ UNCHANGED <<tenant, vault, revoked, inactive>>

Tokens == UNION {cfg.asks[a].token : a \in DOMAIN cfg.asks}

\* A status event revokes an agent or a token, or restores it.
StatusEvent ==
  /\ \E t \in Tokens : \E s \in {t.agent, t.jti} :
       revoked' = IF s \in revoked THEN revoked \ {s} ELSE revoked \cup {s}
  /\ UNCHANGED <<now, tenant, vault, inactive>>

\* An agent is suspended or reactivated at its issuer; it matters only if the issuer may be asked.
Suspend ==
  /\ \E t \in Tokens :
       /\ \E issuer \in {cfg.policy.issuers[id] : id \in DOMAIN cfg.policy.issuers} : "never" \notin Modes(issuer)
       /\ inactive' = IF t.agent \in inactive THEN inactive \ {t.agent} ELSE inactive \cup {t.agent}
  /\ UNCHANGED <<now, tenant, vault, revoked>>

AuditStep == (Audit!WriteLine \/ Audit!WriteFails) /\ UNCHANGED count

\* The process dies and starts again; revoked agents are remembered (SecurityEvents).
Restart ==
  /\ Audit!Crash
  /\ UNCHANGED count
  /\ req' = [r \in Requests |-> NoRequest]

Next ==
  /\ \/ \E r \in Requests : Handle(r) /\ UNCHANGED worldVars
     \/ (Tick \/ StatusEvent \/ Suspend) /\ open' = Opened' /\ UNCHANGED <<req, auditVars>>
     \/ AuditStep /\ UNCHANGED <<worldVars, req>>
     \/ Restart /\ UNCHANGED worldVars
  /\ Observe

\* Timers fire: nothing is asked of the caller, of the issuer or of the upstream.
Fairness == \A r \in Requests : WF_req(Deadline(r))

Spec == Init /\ [][Next]_vars /\ Fairness

----------------------------------------------------------------------------
(* Properties *)

\* AccessGate's promise with six gates: a request reaches the upstream, or the application, only if since
\* it arrived its token was good, a grant let its agent in, no status event spoke against it, its issuer
\* called it active where it had to be asked, its permission was had here, and an entry of its own issuer
\* was on.  What arrives after any of these has ended, and while it stays so, is refused.
Gate == INSTANCE AccessGate WITH
  Calls <- Requests,
  Bearers <- UNION {DOMAIN Configs[t].asks : t \in DOMAIN Configs},
  Gates <- GateNames,
  call <- [r \in Requests |->
             [at |-> IF req[r].at = "idle" THEN "idle"
                     ELSE IF req[r].at \in {"head", "answer", "app"} THEN "sent" ELSE "waiting",
              bearer |-> req[r].ask,
              passed |-> passed[r]]]

AccessIsGated == Gate!Spec

\* "With several issuers the same address from another issuer must not reach this credential": the
\* credential sent was stored for an entry of the agent at its own issuer.
OwnCredential ==
  \A r \in Requests : \A i \in req[r].cred, ask \in AsksOf(r) : \A token \in ask.token :
    IsFor(cfg.agents[i], token)

\* A request ends with a record of a decision.
Ends(r, decision) ==
  /\ req[r].at # "idle" /\ req'[r].at = "idle"
  /\ count' > count /\ ring'[Len(ring')].decision = decision

\* An answer the gateway passes back is all the upstream meant to send, unless only the end of the
\* connection marks its end; it is within the limit, and does not hold the credential.
AnswerIsFit ==
  [][\A r \in Requests : Ends(r, "allow") =>
       LET answer == req[r].answer
       IN  /\ answer.got = answer.meant \/ answer.framing = "closed"
           /\ answer.got <= MaxBytes
           /\ ~ answer.echo]_vars

\* The audit log tells the truth: what it calls denied never reached the upstream, what it calls allowed
\* did, and an agent it names has shown a good token and was let in and not revoked.
AuditTellsTheTruth ==
  [][\A r \in Requests :
       /\ Ends(r, "deny") => req[r].cred = {}
       /\ Ends(r, "allow") => req[r].cred # {}
       /\ count' > count /\ req[r].at # "idle" /\ req'[r].at = "idle" /\ ring'[Len(ring')].named =>
            {"token", "grant", "status"} \subseteq passed[r]]_vars

\* The file and the lines on their way to it are the records in their order, and lack only those whose
\* own append failed or that a crash caught; the ring ends with the last record.
AuditIsInOrder ==
  LET lines == file \o queue
      ids(log) == {log[i].id : i \in DOMAIN log}
  IN  /\ \A i, j \in DOMAIN lines : i < j => lines[i].id < lines[j].id
      /\ ids(lines) \cup ids(failed) = 1 .. count
      /\ \A i \in DOMAIN ring : ring[i].id = count - Len(ring) + i

\* Every request is answered, or handed to the application, whoever stalls: the caller with its body,
\* the issuer with its key or answer, the upstream in the middle of its own.
RequestsAnswered ==
  \A r \in Requests : req[r].at # "idle" ~> req[r].at \in {"idle", "app"}
=============================================================================
