--------------------------- MODULE VerifierPolicy ---------------------------
(***************************************************************************)
(* What a relying party decides for itself (verifier/src/policy.js, and    *)
(* the rules of verifier/src/verifier.js that read no state): which grant  *)
(* lets an agent in, what its scopes are worth here, whether its issuer    *)
(* has to be asked, and whether a token is in time.                        *)
(*                                                                         *)
(* A field that may be absent is a set of at most one value.               *)
(***************************************************************************)
EXTENDS Naturals, Sequences

CONSTANTS
  Lower       \* each address or agent key, in lower case

(***************************************************************************)
(* An issuer  [kind : {"own", "external"}, open (allowAllActiveAgents),    *)
(*             introspect, endpoint : BOOLEAN, audience, sensitive,        *)
(*             scopeMap, maxAge]                                           *)
(* A grant    [issuer, agent, address, ceiling, until]                     *)
(* A policy   [issuers : [ids -> issuers], grants : Seq(grants), skew]     *)
(* A token    [form : {"good", "malformed", "algorithm", "key",            *)
(*             "signature"}, issuer, audience, agents (is of the kind for  *)
(*             agents), agent, address, jti, scope, scopes, exp, nbf, iat] *)
(***************************************************************************)

\* decodeJwt and assertAlgorithm: what can be refused before anything is fetched.
Readable(token) == token.form \notin {"malformed", "algorithm"}

\* The key of the issuer fits and is long enough, and the signature is made with it.
Signed(token) == token.form = "good"

\* How often the issuer is asked; the default depends on whether it can be.
Modes(issuer) ==
  IF issuer.introspect # {} THEN issuer.introspect
  ELSE IF issuer.endpoint THEN {"always"} ELSE {"never"}

\* What normalizeConfig accepts.
WellFormedPolicy(policy) ==
  /\ \A id \in DOMAIN policy.issuers :
       LET issuer == policy.issuers[id]
       IN  /\ issuer.audience # {}
           /\ issuer.open => issuer.kind = "own"
           /\ "never" \in Modes(issuer) \/ issuer.endpoint
  /\ \A n \in DOMAIN policy.grants :
       /\ policy.grants[n].issuer \in DOMAIN policy.issuers
       /\ policy.grants[n].agent \cup policy.grants[n].address # {}

\* A grant names an agent of its issuer by id, or by address ignoring case.
Names(grant, token) ==
  /\ grant.issuer = token.issuer
  /\ \/ token.agent \in grant.agent
     \/ \E a \in grant.address, b \in token.address : Lower[a] = Lower[b]

Expired(grant, now) == \E end \in grant.until : end <= now

\* findGrant: the first grant that names the agent, expired or not; later ones are not looked at.
FirstGrant(grants, token) ==
  {grants[n] : n \in {m \in DOMAIN grants :
     Names(grants[m], token) /\ \A l \in 1 .. m - 1 : ~ Names(grants[l], token)}}

\* The grant that counts, if there is one.
GrantOf(policy, token, now) ==
  {g \in FirstGrant(policy.grants, token) : ~ Expired(g, now)}

\* Every active agent of an own tenant may be let in; all others need a grant.
Authorized(policy, token, now) ==
  \/ policy.issuers[token.issuer].kind = "own" /\ policy.issuers[token.issuer].open
  \/ GrantOf(policy, token, now) # {}

\* scopesOf: the scope string goes before the array.
ScopesOf(token) == IF token.scope # {} THEN UNION token.scope ELSE UNION token.scopes

\* Without a scope map the scopes are the permissions; a scope the map does not name grants nothing.
MapScopes(scopes, scopeMap) ==
  IF scopeMap = {} THEN scopes
  ELSE UNION {map[s] : map \in scopeMap, s \in scopes \cap UNION {DOMAIN map : map \in scopeMap}}

\* The ceiling of a grant, if it has one, only narrows.
EffectivePermissions(mapped, grants) ==
  {p \in mapped : \A g \in grants : \A ceiling \in g.ceiling : p \in ceiling}

\* What the agent may do here, now.
PermissionsOf(policy, token, now) ==
  EffectivePermissions(MapScopes(ScopesOf(token), policy.issuers[token.issuer].scopeMap),
                       GrantOf(policy, token, now))

NeedAskIfNeeded(policy, token, needs, held) ==
  LET issuer == policy.issuers[token.issuer]
  IN  \/ "always" \in Modes(issuer)
      \/ "for-permissions" \in Modes(issuer) /\ needs \cap issuer.sensitive # {}

\* The issuer has to be asked, for a request that needs some permissions from an agent that holds some.
NeedAsk(policy, token, needs, held) ==
  LET issuer == policy.issuers[token.issuer]
  IN  \/ "always" \in Modes(issuer)
      \/ "for-permissions" \in Modes(issuer) /\ (needs \cup held) \cap issuer.sensitive # {}

\* exp is required; nbf and iat are not in the future; iat is not older than this service accepts.
InTime(policy, token, now) ==
  /\ now < token.exp + policy.skew
  /\ \A start \in token.nbf \cup token.iat : start <= now + policy.skew
  /\ \A start \in token.iat, age \in policy.issuers[token.issuer].maxAge : now <= start + age

\* A token for this service, in time, and for an agent.
Acceptable(policy, token, now) ==
  /\ Signed(token)
  /\ InTime(policy, token, now)
  /\ token.audience \cap policy.issuers[token.issuer].audience # {}
  /\ token.agents
=============================================================================
