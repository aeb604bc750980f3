----------------------- MODULE OAuthTokenCacheProofs ------------------------
(***************************************************************************)
(* What OAuthTokenCache promises, for any number of callers, any           *)
(* credentials and any lifetimes, early margin and deadline with           *)
(* Timeout <= Early and Default <= MaxLifetime.                            *)
(***************************************************************************)
EXTENDS OAuthTokenCache, TLAPS

----------------------------------------------------------------------------
(* The inductive invariant *)

\* A fetch in progress is for one credential, and not past its deadline.
FetchesInTime ==
  \A d \in Callers : fetch[d].out =>
    /\ \E cred \in Credentials : fetch[d].with = {cred}
    /\ fetch[d].since <= now /\ now <= fetch[d].since + Timeout

\* Only a fetch in progress can be shared, and it is awaited by callers that asked with its credential.
OnlyOwnAwaited ==
  /\ \A d \in inflight : fetch[d].out
  /\ \A c \in Callers : \A d \in caller[c].on : fetch[d].out /\ fetch[d].with = caller[c].with

\* The cache believes in a token at most one deadline longer than its issuer does, but for one that lives
\* less than it assumes.
BelievedInTime == \A t \in tokens : t.until <= t.good + Timeout \/ t.short

IInv ==
  /\ TypeOK
  /\ FetchesInTime
  /\ OnlyOwnAwaited
  /\ BelievedInTime
  /\ OwnCredentialOnly
  /\ FetchIsShared

----------------------------------------------------------------------------
(* Helpers *)

LEMMA CappedBounds ==
  ASSUME NEW l \in Lifetimes
  PROVE  /\ Capped(l) \in 0 .. MaxLifetime
         /\ Capped(l) > 0 => Capped(l) <= l
  BY TimesAssumption DEF Capped

\* What a settled fetch leaves of the callers: those that awaited it have a token of their own
\* credential or are gone, the others are as they were.
LEMMA SettledCallers ==
  ASSUME IInv, NEW d \in Callers, fetch[d].out,
         NEW given \in SUBSET Credentials, given \subseteq fetch[d].with,
         caller' = Settled(d, given), fetch' = [fetch EXCEPT ![d] = NoFetch]
  PROVE  /\ caller' \in [Callers -> [at : {"idle", "wait", "use"}, with : SUBSET Credentials,
                                     on : SUBSET Callers, given : SUBSET Credentials]]
         /\ \A c \in Callers : \A e \in caller'[c].on :
              fetch'[e].out /\ fetch'[e].with = caller'[c].with
         /\ OwnCredentialOnly'
<1>1. ASSUME NEW c \in Callers, d \notin caller[c].on
      PROVE  caller'[c] = caller[c]
  BY <1>1 DEF Settled
<1>2. ASSUME NEW c \in Callers, d \in caller[c].on
      PROVE  /\ caller'[c] \in [at : {"idle", "wait", "use"}, with : SUBSET Credentials,
                                on : SUBSET Callers, given : SUBSET Credentials]
             /\ caller'[c].on = {} /\ caller'[c].given \subseteq caller'[c].with
  <2>1. caller[c] \in [at : {"idle", "wait", "use"}, with : SUBSET Credentials,
                       on : SUBSET Callers, given : SUBSET Credentials]
    BY DEF IInv, TypeOK
  <2>2. fetch[d].with = caller[c].with
    BY <1>2 DEF IInv, OnlyOwnAwaited
  <2>3. CASE given = {}
    BY <1>2, <2>3 DEF Settled, NoCaller
  <2>4. CASE given # {}
    BY <1>2, <2>1, <2>2, <2>4 DEF Settled
  <2> QED
    BY <2>3, <2>4
<1>3. \A c \in Callers : \A e \in caller[c].on : e # d => fetch'[e] = fetch[e]
  BY DEF IInv, TypeOK
<1>4. DOMAIN caller' = Callers /\ caller' = [c \in Callers |-> caller'[c]]
  BY DEF Settled
<1>5. \A c \in Callers : caller'[c] \in [at : {"idle", "wait", "use"}, with : SUBSET Credentials,
                                         on : SUBSET Callers, given : SUBSET Credentials]
  BY <1>1, <1>2 DEF IInv, TypeOK
<1>6. ASSUME NEW c \in Callers, NEW e \in caller'[c].on
      PROVE  fetch'[e].out /\ fetch'[e].with = caller'[c].with
  <2>1. d \notin caller[c].on
    BY <1>2, <1>6
  <2>2. caller'[c] = caller[c] /\ e # d
    BY <1>1, <1>6, <2>1
  <2> QED
    BY <1>3, <1>6, <2>2 DEF IInv, OnlyOwnAwaited
<1>7. OwnCredentialOnly'
  BY <1>1, <1>2 DEF IInv, OwnCredentialOnly
<1> QED
  BY <1>4, <1>5, <1>6, <1>7

\* What a settled fetch leaves of the fetches.
LEMMA SettledFetches ==
  ASSUME IInv, NEW d \in Callers, fetch' = [fetch EXCEPT ![d] = NoFetch], inflight' = Cleared(d),
         UNCHANGED <<now, overtaken>>
  PROVE  /\ fetch' \in [Callers -> [out : BOOLEAN, with : SUBSET Credentials, since : Nat]]
         /\ inflight' \in SUBSET Callers
         /\ FetchesInTime'
         /\ \A e \in inflight' : fetch'[e].out
         /\ FetchIsShared'
<1>1. fetch'[d] = NoFetch /\ \A e \in Callers \ {d} : fetch'[e] = fetch[e]
  BY DEF IInv, TypeOK
<1>2. ~ fetch'[d].out
  BY <1>1 DEF NoFetch
<1>3. NoFetch \in [out : BOOLEAN, with : SUBSET Credentials, since : Nat]
  BY DEF NoFetch
<1>4. fetch' \in [Callers -> [out : BOOLEAN, with : SUBSET Credentials, since : Nat]]
  BY <1>3 DEF IInv, TypeOK
<1>5. inflight' \in SUBSET Callers /\ \A e \in inflight' : fetch'[e].out
  BY <1>1 DEF IInv, TypeOK, Cleared, OnlyOwnAwaited
<1>6. FetchesInTime'
  BY <1>1, <1>2 DEF IInv, FetchesInTime
<1>7. FetchIsShared'
  BY <1>1, <1>2 DEF IInv, FetchIsShared, Cleared
<1> QED
  BY <1>4, <1>5, <1>6, <1>7

----------------------------------------------------------------------------
(* One lemma an action *)

LEMMA TickKeeps == ASSUME IInv, Tick PROVE IInv'
<1>1. TypeOK'
  BY TimesAssumption DEF IInv, TypeOK, Tick, Token
<1>2. FetchesInTime'
  <2> SUFFICES ASSUME NEW d \in Callers, fetch[d].out
               PROVE  /\ \E cred \in Credentials : fetch[d].with = {cred}
                      /\ fetch[d].since <= now + 1 /\ now + 1 <= fetch[d].since + Timeout
    BY DEF FetchesInTime, Tick
  <2>1. fetch[d].since \in Nat /\ now \in Nat /\ now < fetch[d].since + Timeout
    BY DEF IInv, TypeOK, Tick
  <2> QED
    BY <2>1, TimesAssumption DEF IInv, FetchesInTime
<1>3. OnlyOwnAwaited' /\ BelievedInTime' /\ OwnCredentialOnly' /\ FetchIsShared'
  BY DEF IInv, Tick, OnlyOwnAwaited, BelievedInTime, OwnCredentialOnly, FetchIsShared
<1> QED
  BY <1>1, <1>2, <1>3 DEF IInv

LEMMA ReplaceKeeps == ASSUME IInv, Replace PROVE IInv'
  BY DEF IInv, Replace, TypeOK, FetchesInTime, OnlyOwnAwaited, BelievedInTime, OwnCredentialOnly,
         FetchIsShared

LEMMA HitKeeps ==
  ASSUME IInv, NEW c \in Callers, Hit(c, current), UNCHANGED <<now, current, tokens>>
  PROVE  IInv'
<1> DEFINE given == {t.with : t \in Fresh(current)}
<1>1. given \subseteq {current} /\ current \in Credentials
  BY DEF Fresh, IInv, TypeOK
<1>2. /\ caller' = [caller EXCEPT ![c] = [at |-> "use", with |-> {current}, on |-> {}, given |-> given]]
      /\ UNCHANGED <<inflight, fetch, overtaken>>
  BY DEF Hit
<1> HIDE DEF given
<1>3. TypeOK'
  BY <1>1, <1>2 DEF IInv, TypeOK
<1>4. OnlyOwnAwaited' /\ OwnCredentialOnly'
  BY <1>1, <1>2 DEF IInv, TypeOK, OnlyOwnAwaited, OwnCredentialOnly
<1>5. FetchesInTime' /\ BelievedInTime' /\ FetchIsShared'
  BY <1>2 DEF IInv, FetchesInTime, BelievedInTime, FetchIsShared
<1> QED
  BY <1>3, <1>4, <1>5 DEF IInv

LEMMA ShareKeeps ==
  ASSUME IInv, NEW c \in Callers, Share(c, current), UNCHANGED <<now, current, tokens>>
  PROVE  IInv'
<1>1. current \in Credentials /\ Shared(current) \in SUBSET Callers
  BY DEF Shared, IInv, TypeOK
<1>2. \A d \in Shared(current) : fetch[d].out /\ fetch[d].with = {current}
  BY <1>1 DEF Shared, IInv, OnlyOwnAwaited, FetchesInTime
<1>3. /\ caller' = [caller EXCEPT ![c] = [at |-> "wait", with |-> {current}, on |-> Shared(current),
                                          given |-> {}]]
      /\ UNCHANGED <<inflight, fetch, overtaken>>
  BY DEF Share
<1>4. TypeOK'
  BY <1>1, <1>3 DEF IInv, TypeOK
<1>5. OnlyOwnAwaited' /\ OwnCredentialOnly'
  BY <1>2, <1>3 DEF IInv, TypeOK, OnlyOwnAwaited, OwnCredentialOnly
<1>6. FetchesInTime' /\ BelievedInTime' /\ FetchIsShared'
  BY <1>3 DEF IInv, FetchesInTime, BelievedInTime, FetchIsShared
<1> QED
  BY <1>4, <1>5, <1>6 DEF IInv

LEMMA StartFetchKeeps ==
  ASSUME IInv, NEW c \in Callers, StartFetch(c, current), UNCHANGED <<now, current, tokens>>
  PROVE  IInv'
<1>1. current \in Credentials /\ now \in Nat
  BY DEF IInv, TypeOK
<1>2. /\ fetch'[c] = [out |-> TRUE, with |-> {current}, since |-> now]
      /\ \A d \in Callers \ {c} : fetch'[d] = fetch[d]
      /\ ~ fetch[c].out
  BY DEF IInv, TypeOK, StartFetch
<1>3. \A b \in Callers : c \notin caller[b].on
  BY <1>2 DEF IInv, OnlyOwnAwaited
<1>4. TypeOK'
  BY <1>1 DEF IInv, TypeOK, StartFetch
<1>5. FetchesInTime'
  BY <1>1, <1>2, TimesAssumption DEF IInv, FetchesInTime
<1>6. OnlyOwnAwaited'
  <2>1. inflight' = {c} /\ fetch'[c].out
    BY <1>2 DEF StartFetch
  <2>2. \A b \in Callers \ {c} : caller'[b] = caller[b]
    BY DEF IInv, TypeOK, StartFetch
  <2>3. caller'[c].on = {c} /\ caller'[c].with = {current}
    BY DEF IInv, TypeOK, StartFetch
  <2>4. \A b \in Callers \ {c} : \A d \in caller[b].on : fetch'[d] = fetch[d]
    BY <1>2, <1>3 DEF IInv, TypeOK
  <2>5. \A b \in Callers \ {c} : \A d \in caller'[b].on : fetch'[d].out /\ fetch'[d].with = caller'[b].with
    BY <2>2, <2>4 DEF IInv, OnlyOwnAwaited
  <2>6. \A d \in caller'[c].on : fetch'[d].out /\ fetch'[d].with = caller'[c].with
    BY <1>2, <2>3
  <2>7. \A b \in Callers : \A d \in caller'[b].on : fetch'[d].out /\ fetch'[d].with = caller'[b].with
    BY <2>5, <2>6
  <2> QED
    BY <2>1, <2>7 DEF OnlyOwnAwaited
<1>7. OwnCredentialOnly'
  BY DEF IInv, TypeOK, StartFetch, OwnCredentialOnly
<1>8. FetchIsShared'
  <2> SUFFICES ASSUME NEW d \in Callers, fetch'[d].out, d # c
               PROVE  d \in overtaken'
    BY DEF FetchIsShared, StartFetch
  <2>1. CASE d \in overtaken
    BY <2>1 DEF StartFetch
  <2>2. CASE d \in inflight
    BY <2>2 DEF StartFetch, Shared
  <2> QED
    BY <1>2, <2>1, <2>2 DEF IInv, FetchIsShared
<1>9. BelievedInTime'
  BY DEF IInv, BelievedInTime
<1> QED
  BY <1>4, <1>5, <1>6, <1>7, <1>8, <1>9 DEF IInv

LEMMA AnswerKeeps == ASSUME IInv, NEW d \in Callers, Answer(d) PROVE IInv'
<1> DEFINE Believed(l, stated) == IF stated THEN Capped(l) ELSE Default
           Issued(i, l, stated, cred) == [with |-> cred, good |-> i + l, until |-> now + Believed(l, stated),
                                          short |-> ~ stated /\ l < Default]
<1>1. PICK issued \in fetch[d].since .. now, l \in Lifetimes, stated \in BOOLEAN, cred \in fetch[d].with :
        /\ tokens' = IF Believed(l, stated) > Early THEN {Issued(issued, l, stated, cred)} ELSE tokens
        /\ caller' = Settled(d, {cred})
  BY DEF Answer
<1>2. /\ fetch[d].out /\ fetch' = [fetch EXCEPT ![d] = NoFetch]
      /\ inflight' = Cleared(d) /\ UNCHANGED <<now, current, overtaken>>
  BY DEF Answer
<1>3. now \in 0 .. MaxTime /\ fetch[d].since \in Nat /\ now <= fetch[d].since + Timeout
  BY <1>2 DEF IInv, TypeOK, FetchesInTime
<1>4. cred \in Credentials
  BY DEF IInv, TypeOK
<1>5. /\ Believed(l, stated) \in 0 .. MaxLifetime /\ l \in Int
      /\ Believed(l, stated) > Early => Believed(l, stated) <= l \/ (~ stated /\ l < Default)
  BY CappedBounds, TimesAssumption
<1> HIDE DEF Believed
<1>6. ASSUME NEW t \in tokens' \ tokens
      PROVE  t \in Token /\ (t.until <= t.good + Timeout \/ t.short)
  <2>1. Believed(l, stated) > Early /\ t = Issued(issued, l, stated, cred)
    BY <1>1, <1>6
  <2>2. issued \in Int /\ now <= issued + Timeout
    BY <1>3, TimesAssumption
  <2>3. /\ now + Believed(l, stated) \in 0 .. MaxTime + MaxLifetime
        /\ now + Believed(l, stated) <= issued + l + Timeout \/ (~ stated /\ l < Default)
    BY <1>3, <1>5, <2>1, <2>2, TimesAssumption
  <2>4. t \in Token
    BY <1>4, <1>5, <2>1, <2>2, <2>3 DEF Token
  <2> QED
    BY <2>1, <2>3, <2>4
<1>7. tokens' \in SUBSET Token /\ BelievedInTime'
  BY <1>6 DEF IInv, TypeOK, BelievedInTime
<1>8. /\ caller' \in [Callers -> [at : {"idle", "wait", "use"}, with : SUBSET Credentials,
                                  on : SUBSET Callers, given : SUBSET Credentials]]
      /\ \A c \in Callers : \A e \in caller'[c].on : fetch'[e].out /\ fetch'[e].with = caller'[c].with
      /\ OwnCredentialOnly'
  BY <1>1, <1>2, <1>4, SettledCallers
<1> QED
  BY <1>2, <1>7, <1>8, SettledFetches DEF IInv, TypeOK, OnlyOwnAwaited

LEMMA FailKeeps == ASSUME IInv, NEW d \in Callers, Fail(d) PROVE IInv'
<1>1. /\ fetch[d].out /\ caller' = Settled(d, {}) /\ fetch' = [fetch EXCEPT ![d] = NoFetch]
      /\ inflight' = Cleared(d) /\ UNCHANGED <<now, current, tokens, overtaken>>
  BY DEF Fail
<1>2. /\ caller' \in [Callers -> [at : {"idle", "wait", "use"}, with : SUBSET Credentials,
                                  on : SUBSET Callers, given : SUBSET Credentials]]
      /\ \A c \in Callers : \A e \in caller'[c].on : fetch'[e].out /\ fetch'[e].with = caller'[c].with
      /\ OwnCredentialOnly'
  <2>1. {} \in SUBSET Credentials /\ {} \subseteq fetch[d].with
    OBVIOUS
  <2> QED
    BY <1>1, <2>1, SettledCallers
<1>3. BelievedInTime'
  BY <1>1 DEF IInv, BelievedInTime
<1> QED
  BY <1>1, <1>2, <1>3, SettledFetches DEF IInv, TypeOK, OnlyOwnAwaited

LEMMA DoneKeeps == ASSUME IInv, NEW c \in Callers, Done(c) PROVE IInv'
<1>1. /\ caller' = [caller EXCEPT ![c] = NoCaller] /\ tokens' \subseteq tokens
      /\ UNCHANGED <<now, current, inflight, fetch, overtaken>>
  BY DEF Done
<1>2. TypeOK'
  BY <1>1 DEF IInv, TypeOK, NoCaller
<1>3. OnlyOwnAwaited' /\ OwnCredentialOnly'
  BY <1>1 DEF IInv, TypeOK, OnlyOwnAwaited, OwnCredentialOnly, NoCaller
<1>4. FetchesInTime' /\ BelievedInTime' /\ FetchIsShared'
  BY <1>1 DEF IInv, FetchesInTime, BelievedInTime, FetchIsShared
<1> QED
  BY <1>2, <1>3, <1>4 DEF IInv

----------------------------------------------------------------------------

LEMMA InitHolds == ASSUME Init PROVE IInv
<1>1. TypeOK
  BY TimesAssumption DEF Init, TypeOK, NoFetch, NoCaller
<1>2. FetchesInTime /\ OnlyOwnAwaited /\ BelievedInTime /\ OwnCredentialOnly /\ FetchIsShared
  BY DEF Init, FetchesInTime, OnlyOwnAwaited, BelievedInTime, OwnCredentialOnly, FetchIsShared, NoFetch,
         NoCaller
<1> QED
  BY <1>1, <1>2 DEF IInv

LEMMA StepKeeps == ASSUME IInv, [Next]_vars PROVE IInv'
<1>1. CASE Tick
  BY <1>1, TickKeeps
<1>2. CASE Replace
  BY <1>2, ReplaceKeeps
<1>3. ASSUME NEW c \in Callers, Get(c) PROVE IInv'
  BY <1>3, HitKeeps, ShareKeeps, StartFetchKeeps DEF Get
<1>4. ASSUME NEW c \in Callers, Answer(c) \/ Fail(c) \/ Done(c) PROVE IInv'
  BY <1>4, AnswerKeeps, FailKeeps, DoneKeeps
<1>5. CASE UNCHANGED vars
  BY <1>5 DEF vars, IInv, TypeOK, FetchesInTime, OnlyOwnAwaited, BelievedInTime, OwnCredentialOnly,
              FetchIsShared
<1> QED
  BY <1>1, <1>2, <1>3, <1>4, <1>5 DEF Next

LEMMA Inductive == Spec => []IInv
  BY InitHolds, StepKeeps, PTL DEF Spec

----------------------------------------------------------------------------
(* Theorems *)

\* Fetches, callers and cached tokens are well-formed, and what the cache believes of a token stays
\* within its longest lifetime.
THEOREM TypeCorrect == Spec => []TypeOK
<1>1. IInv => TypeOK
  BY DEF IInv
<1> QED
  BY <1>1, Inductive, PTL

\* A caller is given only a token fetched with its own credential (oauth.js:22-28).
THEOREM OwnCredentialCorrect == Spec => []OwnCredentialOnly
<1>1. IInv => OwnCredentialOnly
  BY DEF IInv
<1> QED
  BY <1>1, Inductive, PTL

\* Where the early margin covers the deadline of a fetch, a token served from the cache has not expired;
\* the only ones of which this cannot be said are those whose endpoint left their lifetime unsaid and gave
\* them less than Default (oauth.js:45).
THEOREM CachedTokenCorrect == Spec => []CachedTokenIsGood
<1>1. ASSUME IInv PROVE CachedTokenIsGood
  <2> SUFFICES ASSUME NEW cred \in Credentials, NEW t \in Fresh(cred), ~ t.short
               PROVE  t.good > now
    BY DEF CachedTokenIsGood
  <2>1. t \in Token /\ t.until <= t.good + Timeout /\ t.until - Early > now /\ now \in Nat
    BY <1>1 DEF Fresh, IInv, TypeOK, BelievedInTime
  <2>2. t.good \in Int /\ t.until \in Int
    BY <2>1, TimesAssumption DEF Token
  <2> QED
    BY <2>1, <2>2, TimesAssumption
<1> QED
  BY <1>1, Inductive, PTL

\* A fetch in progress is shared, unless one with another credential has taken its place.
THEOREM SharingCorrect == Spec => []FetchIsShared
<1>1. IInv => FetchIsShared
  BY DEF IInv
<1> QED
  BY <1>1, Inductive, PTL
=============================================================================
