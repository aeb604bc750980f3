------------------------------- MODULE MCProxy ------------------------------
(* One agent, lola, in several tenants, each about one kind of decision, and  *)
(* a tenant whose configuration is not valid.  addrU is addr in upper case.   *)
EXTENDS Proxy

CONSTANTS own, ext, lola, addr, addrU, j1, crm, read, send, edit, get, contacts, dots

MCLower == [a \in {lola, addr, addrU} |-> IF a = addrU THEN addr ELSE a]

Issuer(kind, all, introspect, scopeMap, maxAge) ==
  [kind |-> kind, open |-> all, introspect |-> introspect, endpoint |-> introspect # {},
   audience |-> {crm}, sensitive |-> {send}, scopeMap |-> scopeMap, maxAge |-> maxAge]

Open == Issuer("own", TRUE, {}, {}, {})

Policy(issuers, grants) == [issuers |-> issuers, grants |-> grants, skew |-> 0]

Token(issuer, scopes) ==
  [form |-> "good", issuer |-> issuer, audience |-> {crm}, agents |-> TRUE, agent |-> lola,
   address |-> {addr}, jti |-> j1, scope |-> {scopes}, scopes |-> {}, exp |-> 2, nbf |-> {}, iat |-> {0}]

Path == [read |-> <<contacts, lola>>, send |-> <<contacts, contacts>>]

ToGateway(token, raw) == [token |-> {token}, needs |-> {}, route |-> {[method |-> get, raw |-> raw]}]

Entry(key, issuer, off) == [key |-> key, issuer |-> issuer, ref |-> {}, off |-> off]

\* contacts/{id} is read, and contacts/contacts is send although an earlier entry fits it too.
MCCatalog ==
  << [method |-> get, template |-> <<{contacts}, {}>>, permission |-> read],
     [method |-> get, template |-> <<{}, {contacts}>>, permission |-> read],
     [method |-> get, template |-> <<{contacts}, {contacts}>>, permission |-> send] >>

Config(policy, agents, asks) == [policy |-> policy, catalog |-> MCCatalog, agents |-> agents, asks |-> asks]

\* Grants that end, one that hides a later one, ceilings, and a token that is too old before it ends.
Granted ==
  Config(Policy([i \in {ext} |-> Issuer("external", FALSE, {}, {}, {1})],
                << [issuer |-> ext, agent |-> {}, address |-> {addrU}, ceiling |-> {{read}}, until |-> {1}],
                   [issuer |-> ext, agent |-> {lola}, address |-> {}, ceiling |-> {{edit}}, until |-> {}] >>),
         << Entry(addr, {}, FALSE) >>,
         << ToGateway(Token(ext, {read, send}), Path.read), ToGateway(Token(ext, {read, send}), Path.send) >>)

\* An issuer that is asked when a sensitive permission is needed or held, and a scope map; it is open, and
\* its agent is under a ceiling until a grant ends.
Asked ==
  Config(Policy([i \in {own} |-> Issuer("own", TRUE, {"for-permissions"},
                                        {[s \in {crm} |-> {send, read}]}, {})],
                << [issuer |-> own, agent |-> {lola}, address |-> {}, ceiling |-> {{read}}, until |-> {1}] >>),
         << Entry(lola, {own}, FALSE) >>,
         << ToGateway(Token(own, {crm, lola}), Path.send), ToGateway(Token(own, {send}), Path.send),
           [token |-> {Token(own, {crm})}, needs |-> {read}, route |-> {}] >>)

\* Two issuers that name an agent by the same address, each with an entry of its own.  The entries differ in
\* case only, and credentialRef keeps their vault names apart.
TwoIssuers ==
  Config(Policy([i \in {own, ext} |-> Open], <<>>),
         << Entry(addr, {ext}, FALSE), [Entry(addrU, {own}, FALSE) EXCEPT !.ref = {lola}] >>,
         << ToGateway([Token(own, {read}) EXCEPT !.exp = 1], Path.read) >>)

\* The same without credentialRef: the entries share a vault name.
SharedName ==
  Config(Policy([i \in {own, ext} |-> Open], <<>>),
         << Entry(addr, {ext}, FALSE), Entry(addrU, {own}, FALSE) >>,
         << ToGateway([Token(own, {read}) EXCEPT !.exp = 1], Path.read) >>)

\* An entry that is off beside one that is on; targets and tokens that are refused out of hand.
SwitchedOff ==
  Config(Policy([i \in {own} |-> Open], <<>>), << Entry(addr, {}, FALSE), Entry(lola, {}, TRUE) >>,
         << ToGateway(Token(own, {read}), Path.read), ToGateway(Token(own, {read}), <<dots>>),
           ToGateway(Token(own, {read}), <<Reserved>>),
           ToGateway([Token(own, {read}) EXCEPT !.form = "signature"], Path.read),
           ToGateway(Token(ext, {read}), Path.read) >>)

\* Not valid: an entry of no issuer beside two issuers.
Unnamed ==
  Config(Policy([i \in {own, ext} |-> Open], <<>>), << Entry(addr, {}, FALSE) >>,
         << ToGateway(Token(own, {read}), Path.read) >>)

MCConfigs == << Granted, Asked, TwoIssuers, SwitchedOff, Unnamed >>

MCSharedName == << SharedName >>

\* Of no tenant here does the verifier hide a ceiling.
ASSUME CeilingsAssumption == \A t \in DOMAIN Configs : NoHiddenCeiling(Configs[t])
=============================================================================
