-------------------------- MODULE OAuthTokenCache ---------------------------
(***************************************************************************)
(* The access tokens of gateway/src/oauth.js, for one vault entry.  The    *)
(* entry's credential may be replaced while requests are in progress; the  *)
(* fingerprint of a credential (with the tenant's token URL) tells them    *)
(* apart.  A fetch is named by the caller that started it, and may be      *)
(* awaited by several.                                                     *)
(***************************************************************************)
EXTENDS Integers

CONSTANTS
  Callers,      \* requests that may be in progress
  Credentials,  \* fingerprints the entry's credential may have
  Lifetimes,    \* how long a token may live, which expires_in says or does not say
  MaxLifetime,  \* what expires_in is cut down to
  Default,      \* what is believed if expires_in is absent or no number
  Early,        \* how long before its expiry a token is no longer served: earlyMs
  Timeout,      \* timeoutMs of a fetch
  MaxTime       \* bound: last tick of the clock

ASSUME TimesAssumption ==
  /\ Lifetimes \subseteq Int
  /\ MaxLifetime \in Nat /\ Early \in Nat /\ Timeout \in Nat /\ MaxTime \in Nat
  /\ Timeout <= Early
  /\ Default \in 0 .. MaxLifetime

VARIABLES
  now,       \* the clock
  current,   \* the credential the vault holds
  tokens,    \* the cached token, as a set of at most one
  inflight,  \* the fetch later callers may share, as a set of at most one
  fetch,     \* the fetches in progress, by the caller that started each
  caller,    \* the callers: what each asked with, and the fetch it awaits or the token it was given
  overtaken  \* history: fetches whose place in `inflight` a fetch with another credential took

vars == <<now, current, tokens, inflight, fetch, caller, overtaken>>

----------------------------------------------------------------------------

NoFetch == [out |-> FALSE, with |-> {}, since |-> 0]

\* A caller waits for the fetches in `on`, or uses a token issued for the credential in `given`.
NoCaller == [at |-> "idle", with |-> {}, on |-> {}, given |-> {}]

\* A cached token: the credential it was issued for, until when it is good, and until when the cache
\* thinks so, never longer than MaxLifetime; `short` notes one that does not live for the Default the cache
\* gives it because the endpoint said nothing.
Token == [with : Credentials, good : Int, until : 0 .. MaxTime + MaxLifetime, short : BOOLEAN]

TypeOK ==
  /\ now \in 0 .. MaxTime
  /\ current \in Credentials
  /\ tokens \in SUBSET Token
  /\ inflight \in SUBSET Callers
  /\ fetch \in [Callers -> [out : BOOLEAN, with : SUBSET Credentials, since : Nat]]
  /\ caller \in [Callers -> [at : {"idle", "wait", "use"}, with : SUBSET Credentials,
                             on : SUBSET Callers, given : SUBSET Credentials]]
  /\ overtaken \in SUBSET Callers

Init ==
  /\ now = 0
  /\ current \in Credentials
  /\ tokens = {}
  /\ inflight = {}
  /\ fetch = [c \in Callers |-> NoFetch]
  /\ caller = [c \in Callers |-> NoCaller]
  /\ overtaken = {}

\* Time does not pass the deadline of a fetch in progress: outboundRequest settles by then.
Tick ==
  /\ now < MaxTime
  /\ \A c \in Callers : fetch[c].out => now < fetch[c].since + Timeout
  /\ now' = now + 1
  /\ UNCHANGED <<current, tokens, inflight, fetch, caller, overtaken>>

\* An administrator replaces the credential, or the tenant's token URL.
Replace ==
  /\ current' \in Credentials \ {current}
  /\ UNCHANGED <<now, tokens, inflight, fetch, caller, overtaken>>

----------------------------------------------------------------------------

FreshOfAny(cred) == {t \in tokens : t.until - Early > now}

FreshToTheEnd(cred) == {t \in tokens : t.with = cred /\ t.until > now}

\* The cached token, if it is this credential's and not about to expire.
Fresh(cred) == {t \in tokens : t.with = cred /\ t.until - Early > now}

\* The fetch in progress that a caller with this credential shares.
Shared(cred) == {d \in inflight : cred \in fetch[d].with}

Hit(c, cred) ==
  /\ Fresh(cred) # {}
  /\ caller' = [caller EXCEPT ![c] = [at |-> "use", with |-> {cred}, on |-> {},
                                      given |-> {t.with : t \in Fresh(cred)}]]
  /\ UNCHANGED <<inflight, fetch, overtaken>>

Share(c, cred) ==
  /\ Fresh(cred) = {}
  /\ Shared(cred) # {}
  /\ caller' = [caller EXCEPT ![c] = [at |-> "wait", with |-> {cred}, on |-> Shared(cred),
                                      given |-> {}]]
  /\ UNCHANGED <<inflight, fetch, overtaken>>

\* A fetch of its own, which takes the place of one with another credential.
StartFetch(c, cred) ==
  /\ Fresh(cred) = {}
  /\ Shared(cred) = {}
  /\ ~ fetch[c].out
  /\ fetch' = [fetch EXCEPT ![c] = [out |-> TRUE, with |-> {cred}, since |-> now]]
  /\ overtaken' = (overtaken \cup {d \in inflight : fetch[d].with # {cred}}) \ {c}
  /\ inflight' = {c}
  /\ caller' = [caller EXCEPT ![c] = [at |-> "wait", with |-> {cred}, on |-> {c},
                                      given |-> {}]]

\* get, with the credential the vault holds at this moment.
Get(c) ==
  /\ caller[c].at = "idle"
  /\ Hit(c, current) \/ Share(c, current) \/ StartFetch(c, current)
  /\ UNCHANGED <<now, current, tokens>>

SettledForStarter(d, given) ==
  [caller EXCEPT ![d] = IF @.on # {d} THEN @
                        ELSE IF given = {} THEN NoCaller
                        ELSE [@ EXCEPT !.at = "use", !.on = {}, !.given = given]]

\* A fetch settles: those awaiting it are given its token, or rejected if there is none.
Settled(d, given) ==
  [c \in Callers |->
     IF d \notin caller[c].on THEN caller[c]
     ELSE IF given = {} THEN NoCaller
     ELSE [caller[c] EXCEPT !.at = "use", !.on = {}, !.given = given]]

ClearAny(d) == {}

\* `finally`: a fetch removes its own promise and no other's.
Cleared(d) == inflight \ {d}

NotCapped(lifetime) == lifetime

\* expires_in, cut to what the cache believes.
Capped(lifetime) == IF lifetime < 0 THEN 0 ELSE IF lifetime < MaxLifetime THEN lifetime ELSE MaxLifetime

\* The token endpoint answers 200 with a token it issued at some moment since the fetch began.
Answer(d) ==
  /\ fetch[d].out
  /\ fetch' = [fetch EXCEPT ![d] = NoFetch]
  /\ inflight' = Cleared(d)
  /\ \E issued \in fetch[d].since .. now, lifetime \in Lifetimes, stated \in BOOLEAN, cred \in fetch[d].with :
       LET believed == IF stated THEN Capped(lifetime) ELSE Default
           t == [with |-> cred, good |-> issued + lifetime, until |-> now + believed,
                 short |-> ~ stated /\ lifetime < Default]
       IN  /\ tokens' = IF believed > Early THEN {t} ELSE tokens
           /\ caller' = Settled(d, {cred})
  /\ UNCHANGED <<now, current, overtaken>>

\* It answers otherwise, or not in time.
Fail(d) ==
  /\ fetch[d].out
  /\ fetch' = [fetch EXCEPT ![d] = NoFetch]
  /\ inflight' = Cleared(d)
  /\ caller' = Settled(d, {})
  /\ UNCHANGED <<now, current, tokens, overtaken>>

\* The upstream has answered the request; a 401 invalidates whatever token is cached by now.
Done(c) ==
  /\ caller[c].at = "use"
  /\ caller' = [caller EXCEPT ![c] = NoCaller]
  /\ tokens' \in {tokens, {}}
  /\ UNCHANGED <<now, current, inflight, fetch, overtaken>>

Next ==
  \/ Tick
  \/ Replace
  \/ \E c \in Callers : Get(c) \/ Answer(c) \/ Fail(c) \/ Done(c)

\* outboundRequest settles every fetch, at its deadline if not before.
Fairness == \A d \in Callers : WF_vars(Answer(d) \/ Fail(d))

Spec == Init /\ [][Next]_vars /\ Fairness

----------------------------------------------------------------------------
(* Properties *)

\* A caller is only ever given a token that was fetched with the credential it asked with, also when the
\* credential is replaced under a fetch in progress and the late answer fills the cache.
OwnCredentialOnly ==
  \A c \in Callers : caller[c].given \subseteq caller[c].with

\* "Kept until shortly before it expires": a token served from the cache is good at the moment it is
\* served, although its expiry is counted from the answer and not from when it was issued.  What the code
\* cannot keep is that promise for a token whose endpoint does not say how long it lives and which lives
\* less than the five minutes the code then assumes (oauth.js:45): that one is served after its end.
CachedTokenIsGood ==
  \A cred \in Credentials : \A t \in Fresh(cred) : t.good > now \/ t.short

\* "Concurrent requests share one fetch": a fetch in progress is the one later callers share, unless a
\* fetch with another credential has taken its place.
FetchIsShared ==
  \A d \in Callers : fetch[d].out => d \in inflight \cup overtaken

\* Every caller that awaits a fetch is answered, whoever started it and whatever has replaced it.
WaitersSettle == \A c \in Callers : caller[c].at = "wait" ~> caller[c].at # "wait"
=============================================================================
