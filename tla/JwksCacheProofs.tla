--------------------------- MODULE JwksCacheProofs ---------------------------
(***************************************************************************)
(* What the key cache promises, for any lifetimes, intervals and deadlines *)
(* (also absurd ones), any number of rotations and of concurrent lookups.  *)
(***************************************************************************)
EXTENDS JwksCache, TLAPS

----------------------------------------------------------------------------
(* The inductive invariant *)

Loads == [at : {"idle", "first", "second"}, kid : Kids, start : 0 .. now]

\* Keys are published one after another.
InOrder == \A i, j \in 1 .. Len(since) : i <= j => since[i] <= since[j]

\* There is one cached key set, or none.
OneKeySet == \A e, d \in cache : e = d

\* No load outlives its deadline.
LoadsEnd == \A c \in Callers : caller[c].at # "idle" => now <= caller[c].start + Timeout

\* The key of a cached answer was the issuer's one at most a deadline before the answer arrived.
AnswersAreRecent == \A e \in cache : e.kid < Len(since) => e.at <= since[e.kid + 1] + Timeout

\* The last load that was started is under way, has failed, or what is cached came after it was started.
LastLoadHasAFate ==
  \/ \E c \in Callers : caller[c].at # "idle"
  \/ lastRefresh <= failed
  \/ \E e \in cache : lastRefresh <= e.at

IInv ==
  /\ TypeOK
  /\ InOrder /\ OneKeySet /\ LoadsEnd /\ AnswersAreRecent
  /\ LastLoadHasAFate

LEMMA Members == ASSUME NEW S, NEW s \in Seq(S) PROVE \A i \in 1 .. Len(s) : s[i] \in S
  OBVIOUS

LEMMA Widened == ASSUME NEW S, NEW T, S \subseteq T, NEW s \in Seq(S) PROVE s \in Seq(T)
  OBVIOUS

\* The facts about numbers the steps rest on.
LEMMA Times ==
  ASSUME TypeOK
  PROVE  /\ now \in Nat /\ now <= MaxTime /\ Timeout \in Nat /\ MinRefresh \in Nat /\ Ttl \in Nat /\ StaleIfError \in Nat
         /\ Len(since) \in Nat /\ 1 <= Len(since) /\ DOMAIN since = 1 .. Len(since)
         /\ \A i \in 1 .. Len(since) : since[i] \in Nat /\ since[i] <= now
         /\ \A e \in cache : e.kid \in 1 .. Len(since) /\ e.at \in Nat /\ e.at <= now
         /\ \A c \in Callers : caller[c].start \in Nat /\ caller[c].start <= now
         /\ lastRefresh \in Int /\ lastRefresh <= now /\ failed \in Int /\ failed <= now
<1>1. now \in Nat /\ now <= MaxTime /\ Timeout \in Nat /\ MinRefresh \in Nat /\ Ttl \in Nat /\ StaleIfError \in Nat
  BY TimesAssumption DEF TypeOK
<1>2. since \in Seq(0 .. now) /\ Len(since) \in 1 .. MaxKid
  BY DEF TypeOK
<1>3. Len(since) \in Nat /\ 1 <= Len(since) /\ DOMAIN since = 1 .. Len(since)
  BY <1>2
<1>4. \A i \in 1 .. Len(since) : since[i] \in 0 .. now
  BY <1>2, Members
<1>5. \A e \in cache : e.kid \in 1 .. Len(since) /\ e.at \in 0 .. now
  BY DEF TypeOK
<1>6. \A c \in Callers : caller[c].start \in 0 .. now
  BY DEF TypeOK
<1>7. lastRefresh \in -MinRefresh .. now /\ failed \in -MinRefresh .. now
  BY DEF TypeOK
<1> QED
  BY <1>1, <1>3, <1>4, <1>5, <1>6, <1>7

----------------------------------------------------------------------------
(* Starting a load *)

LEMMA LoadStarts ==
  ASSUME IInv, NEW c \in Callers, NEW k \in Kids, NEW stage \in {"first", "second"}, StartLoad(c, k, stage),
         now' = now
  PROVE  /\ lastRefresh' \in -MinRefresh .. now
         /\ caller' \in [Callers -> Loads] /\ caller'[c].at # "idle"
         /\ LoadsEnd'
<1>1. now \in Nat /\ Timeout \in Nat /\ MinRefresh \in Nat
  BY Times DEF IInv
<1>2. caller \in [Callers -> Loads]
  BY DEF IInv, TypeOK, Loads
<1>3. caller' = [caller EXCEPT ![c] = [at |-> stage, kid |-> k, start |-> now]] /\ lastRefresh' = now
  BY DEF StartLoad
<1>4. [at |-> stage, kid |-> k, start |-> now] \in Loads
  BY <1>1 DEF Loads
<1>5. caller' \in [Callers -> Loads] /\ caller'[c].at = stage /\ caller'[c].start = now
  BY <1>2, <1>3, <1>4
<1>6. \A d \in Callers \ {c} : caller'[d] = caller[d]
  BY <1>2, <1>3
<1>7. LoadsEnd'
  BY <1>1, <1>5, <1>6 DEF IInv, LoadsEnd
<1>8. now \in -MinRefresh .. now
  BY <1>1
<1> QED
  BY <1>3, <1>5, <1>7, <1>8

\* A load that ends is followed by another one, or by nothing.
LEMMA LoadEnds ==
  ASSUME IInv, NEW c \in Callers, NEW kids, Continue(c, kids), now' = now
  PROVE  /\ lastRefresh' \in -MinRefresh .. now
         /\ caller' \in [Callers -> Loads]
         /\ LoadsEnd'
         /\ caller'[c].at # "idle" \/ lastRefresh' = lastRefresh
<1>1. CASE caller[c].at = "first" /\ kids # {} /\ caller[c].kid \notin kids /\ MayRefresh
  <2>1. StartLoad(c, caller[c].kid, "second")
    BY <1>1 DEF Continue
  <2>2. caller[c].kid \in Kids
    BY DEF IInv, TypeOK
  <2> QED
    BY <1>1, <2>1, <2>2, LoadStarts
<1>2. CASE ~ (caller[c].at = "first" /\ kids # {} /\ caller[c].kid \notin kids /\ MayRefresh)
  <2>1. caller' = [caller EXCEPT ![c] = NoLookup] /\ UNCHANGED lastRefresh
    BY <1>2 DEF Continue
  <2>2. NoLookup \in Loads
    <3>1. now \in Nat /\ MaxKid \in Nat
      BY Times, TimesAssumption DEF IInv
    <3> QED
      BY <3>1 DEF NoLookup, Loads, Kids
  <2>3. caller \in [Callers -> Loads]
    BY DEF IInv, TypeOK, Loads
  <2>4. caller' \in [Callers -> Loads]
    BY <2>1, <2>2, <2>3
  <2>5. \A d \in Callers : caller'[d] = caller[d] \/ caller'[d].at = "idle"
    BY <2>1, <2>3 DEF NoLookup
  <2>6. LoadsEnd'
    BY <2>5 DEF IInv, LoadsEnd
  <2> QED
    BY <2>1, <2>4, <2>6 DEF IInv, TypeOK
<1> QED
  BY <1>1, <1>2

----------------------------------------------------------------------------
(* One lemma an action *)

LEMMA TickKeeps == ASSUME IInv, Tick PROVE IInv'
<1>1. now' = now + 1 /\ UNCHANGED <<since, cache, lastRefresh, caller, failed>>
  BY DEF Tick
<1>2. now \in Nat /\ now < MaxTime /\ MaxTime \in Nat /\ MinRefresh \in Nat
  BY Times, TimesAssumption DEF IInv, Tick
<1>3. 0 .. now \subseteq 0 .. now' /\ -MinRefresh .. now \subseteq -MinRefresh .. now'
  BY <1>1, <1>2
<1>4. TypeOK'
  <2>1. now' \in 0 .. MaxTime
    BY <1>1, <1>2
  <2>2. since' \in Seq(0 .. now') /\ Len(since') \in 1 .. MaxKid
    BY <1>1, <1>3, Widened DEF IInv, TypeOK
  <2>3. cache' \in SUBSET [kid : 1 .. Len(since'), at : 0 .. now']
    BY <1>1, <1>3 DEF IInv, TypeOK
  <2>4. caller' \in [Callers -> [at : {"idle", "first", "second"}, kid : Kids, start : 0 .. now']]
    BY <1>1, <1>3 DEF IInv, TypeOK
  <2>5. lastRefresh' \in -MinRefresh .. now' /\ failed' \in -MinRefresh .. now'
    BY <1>1, <1>3 DEF IInv, TypeOK
  <2> QED
    BY <2>1, <2>2, <2>3, <2>4, <2>5 DEF TypeOK
<1>5. LoadsEnd'
  <2> SUFFICES ASSUME NEW c \in Callers, caller[c].at # "idle" PROVE now + 1 <= caller[c].start + Timeout
    BY <1>1 DEF LoadsEnd
  <2>1. now < caller[c].start + Timeout
    BY DEF Tick
  <2> QED
    BY <1>2, <2>1, Times DEF IInv
<1> QED
  BY <1>1, <1>4, <1>5 DEF IInv, InOrder, OneKeySet, AnswersAreRecent, LastLoadHasAFate

LEMMA RotateKeeps == ASSUME IInv, Rotate PROVE IInv'
<1>1. since' = Append(since, now) /\ UNCHANGED <<now, cache, lastRefresh, caller, failed>>
  BY DEF Rotate
<1>2. now \in Nat /\ Len(since) \in Nat /\ Len(since) < MaxKid /\ MaxKid \in Nat /\ Timeout \in Nat
  BY Times, TimesAssumption DEF IInv, Rotate
<1>3. since \in Seq(0 .. now) /\ now \in 0 .. now
  BY <1>2 DEF IInv, TypeOK
<1>4. /\ since' \in Seq(0 .. now) /\ Len(since') = Len(since) + 1 /\ since'[Len(since) + 1] = now
      /\ \A i \in 1 .. Len(since) : since'[i] = since[i]
  BY <1>1, <1>3
<1>5. TypeOK'
  <2>1. Len(since') \in 1 .. MaxKid /\ 1 .. Len(since) \subseteq 1 .. Len(since')
    BY <1>2, <1>4
  <2>2. cache' \in SUBSET [kid : 1 .. Len(since'), at : 0 .. now']
    BY <1>1, <2>1 DEF IInv, TypeOK
  <2> QED
    BY <1>1, <1>4, <2>1, <2>2 DEF IInv, TypeOK
<1>6. InOrder'
  <2> SUFFICES ASSUME NEW i \in 1 .. Len(since) + 1, NEW j \in 1 .. Len(since) + 1, i <= j
               PROVE  since'[i] <= since'[j]
    BY <1>4 DEF InOrder
  <2>1. CASE j \in 1 .. Len(since)
    <3>1. i \in 1 .. Len(since)
      BY <1>2, <2>1
    <3>2. since[i] <= since[j]
      BY <2>1, <3>1 DEF IInv, InOrder
    <3> QED
      BY <1>4, <2>1, <3>1, <3>2
  <2>2. CASE j = Len(since) + 1
    <3>1. \A k \in 1 .. Len(since) : since[k] \in Nat /\ since[k] <= now
      BY Times DEF IInv
    <3>2. CASE i \in 1 .. Len(since)
      BY <1>4, <2>2, <3>1, <3>2
    <3>3. CASE i = Len(since) + 1
      BY <1>2, <1>4, <2>2, <3>3
    <3> QED
      BY <1>2, <3>2, <3>3
  <2> QED
    BY <1>2, <2>1, <2>2
<1>7. AnswersAreRecent'
  <2> SUFFICES ASSUME NEW e \in cache, e.kid < Len(since) + 1
               PROVE  e.at <= since'[e.kid + 1] + Timeout
    BY <1>1, <1>4 DEF AnswersAreRecent
  <2>1. e.kid \in 1 .. Len(since) /\ e.at \in Nat /\ e.at <= now
    BY Times DEF IInv
  <2>2. CASE e.kid < Len(since)
    <3>1. e.at <= since[e.kid + 1] + Timeout
      BY <2>2 DEF IInv, AnswersAreRecent
    <3>2. e.kid + 1 \in 1 .. Len(since)
      BY <1>2, <2>1, <2>2
    <3> QED
      BY <1>4, <3>1, <3>2
  <2>3. CASE e.kid = Len(since)
    BY <1>2, <1>4, <2>1, <2>3
  <2> QED
    BY <1>2, <2>1, <2>2, <2>3
<1> QED
  BY <1>1, <1>5, <1>6, <1>7 DEF IInv, OneKeySet, LoadsEnd, LastLoadHasAFate

LEMMA LookupKeeps == ASSUME IInv, NEW c \in Callers, NEW k \in Kids, Lookup(c, k) PROVE IInv'
<1>1. UNCHANGED <<now, since, cache, failed>>
  BY DEF Lookup
<1>2. PICK stage \in {"first", "second"} : StartLoad(c, k, stage)
  BY DEF Lookup
<1>3. /\ lastRefresh' \in -MinRefresh .. now
      /\ caller' \in [Callers -> Loads] /\ caller'[c].at # "idle"
      /\ LoadsEnd'
  BY <1>1, <1>2, LoadStarts
<1>4. TypeOK'
  BY <1>1, <1>3 DEF IInv, TypeOK, Loads
<1>5. LastLoadHasAFate'
  BY <1>3 DEF LastLoadHasAFate
<1> QED
  BY <1>1, <1>3, <1>4, <1>5 DEF IInv, InOrder, OneKeySet, AnswersAreRecent

LEMMA AnswerKeeps == ASSUME IInv, NEW c \in Callers, Answer(c) PROVE IInv'
<1>1. UNCHANGED <<now, since, failed>> /\ caller[c].at # "idle"
  BY DEF Answer
<1>2. PICK v \in PublishedDuring(c) : cache' = {[kid |-> v, at |-> now]} /\ Continue(c, {v})
  BY DEF Answer
<1>3. /\ lastRefresh' \in -MinRefresh .. now
      /\ caller' \in [Callers -> Loads]
      /\ LoadsEnd'
      /\ caller'[c].at # "idle" \/ lastRefresh' = lastRefresh
  BY <1>1, <1>2, LoadEnds
<1>4. v \in 1 .. Len(since) /\ (v < Len(since) => since[v + 1] >= caller[c].start)
  BY Times DEF IInv, PublishedDuring
<1>5. now \in Nat /\ Timeout \in Nat /\ lastRefresh <= now /\ Len(since) \in Nat /\ caller[c].start \in Nat
  BY Times DEF IInv
<1>6. TypeOK'
  <2>1. [kid |-> v, at |-> now] \in [kid : 1 .. Len(since), at : 0 .. now]
    BY <1>4, <1>5
  <2> QED
    BY <1>1, <1>2, <1>3, <2>1 DEF IInv, TypeOK, Loads
<1>7. AnswersAreRecent'
  <2> SUFFICES ASSUME v < Len(since) PROVE now <= since[v + 1] + Timeout
    BY <1>1, <1>2 DEF AnswersAreRecent
  <2>1. now <= caller[c].start + Timeout
    BY <1>1 DEF IInv, LoadsEnd
  <2>2. v + 1 \in 1 .. Len(since)
    BY <1>4, <1>5
  <2>3. since[v + 1] \in Nat
    BY <2>2, Times DEF IInv
  <2> QED
    BY <1>4, <1>5, <2>1, <2>3
<1>8. LastLoadHasAFate'
  <2>1. CASE caller'[c].at # "idle"
    BY <2>1 DEF LastLoadHasAFate
  <2>2. CASE lastRefresh' = lastRefresh
    BY <1>2, <1>5, <2>2 DEF LastLoadHasAFate
  <2> QED
    BY <1>3, <2>1, <2>2
<1>9. OneKeySet' /\ InOrder'
  BY <1>1, <1>2 DEF IInv, OneKeySet, InOrder
<1> QED
  BY <1>3, <1>6, <1>7, <1>8, <1>9 DEF IInv

LEMMA FailKeeps == ASSUME IInv, NEW c \in Callers, Fail(c) PROVE IInv'
<1>1. UNCHANGED <<now, since, cache>> /\ failed' = now /\ Continue(c, {e.kid : e \in StaleUsable})
  BY DEF Fail, CacheAfterError
<1>2. /\ lastRefresh' \in -MinRefresh .. now
      /\ caller' \in [Callers -> Loads]
      /\ LoadsEnd'
  BY <1>1, LoadEnds
<1>3. now \in Nat /\ MinRefresh \in Nat
  BY Times DEF IInv
<1>4. now \in -MinRefresh .. now /\ lastRefresh' <= now
  BY <1>2, <1>3
<1>5. TypeOK'
  BY <1>1, <1>2, <1>4 DEF IInv, TypeOK, Loads
<1> QED
  BY <1>1, <1>2, <1>4, <1>5 DEF IInv, InOrder, OneKeySet, AnswersAreRecent, LastLoadHasAFate

----------------------------------------------------------------------------

LEMMA InitHolds == ASSUME Init PROVE IInv
<1>1. now = 0 /\ since = <<0>> /\ cache = {} /\ caller = [c \in Callers |-> NoLookup]
  BY DEF Init
<1>2. MinRefresh \in Nat /\ MaxKid \in Nat \ {0} /\ MaxTime \in Nat /\ Timeout \in Nat
  BY TimesAssumption
<1>3. since \in Seq(0 .. now) /\ Len(since) = 1 /\ since[1] = 0
  BY <1>1
<1>4. -MinRefresh \in -MinRefresh .. now /\ 0 \in 0 .. now
  BY <1>1, <1>2
<1>5. NoLookup \in [at : {"idle", "first", "second"}, kid : Kids, start : 0 .. now]
  BY <1>1, <1>2 DEF NoLookup, Kids
<1>6. TypeOK
  <2>1. caller \in [Callers -> [at : {"idle", "first", "second"}, kid : Kids, start : 0 .. now]]
    BY <1>1, <1>5
  <2>2. lastRefresh \in -MinRefresh .. now /\ failed \in -MinRefresh .. now
    BY <1>4 DEF Init
  <2>3. now \in 0 .. MaxTime /\ Len(since) \in 1 .. MaxKid
    BY <1>1, <1>2, <1>3
  <2> QED
    BY <1>1, <1>3, <2>1, <2>2, <2>3 DEF Init, TypeOK
<1>7. InOrder
  BY <1>3 DEF InOrder
<1>8. OneKeySet /\ AnswersAreRecent /\ LoadsEnd
  BY <1>1 DEF OneKeySet, AnswersAreRecent, LoadsEnd, NoLookup
<1>9. LastLoadHasAFate
  BY <1>2 DEF Init, LastLoadHasAFate
<1> QED
  BY <1>6, <1>7, <1>8, <1>9 DEF IInv

LEMMA StepKeeps == ASSUME IInv, [Next]_vars PROVE IInv'
<1>1. CASE Tick \/ Rotate
  BY <1>1, TickKeeps, RotateKeeps
<1>2. ASSUME NEW c \in Callers, (\E k \in Kids : Lookup(c, k)) \/ Answer(c) \/ Fail(c) PROVE IInv'
  BY <1>2, LookupKeeps, AnswerKeeps, FailKeeps
<1>3. CASE UNCHANGED vars
  BY <1>3 DEF vars, IInv, TypeOK, InOrder, OneKeySet, LoadsEnd, AnswersAreRecent, LastLoadHasAFate
<1> QED
  BY <1>1, <1>2, <1>3 DEF Next

LEMMA Inductive == Spec => []IInv
  BY InitHolds, StepKeeps, PTL DEF Spec

----------------------------------------------------------------------------
(* What the invariant says of keys that are old, and of keys that are new *)

LEMMA OldKeys == ASSUME IInv PROVE WithdrawnKeyExpires
<1> SUFFICES ASSUME NEW e \in Fresh \cup StaleUsable, e.kid < Len(since)
             PROVE  now - since[e.kid + 1] - Timeout < Ttl \/ now - since[e.kid + 1] - Timeout <= StaleIfError
  BY DEF WithdrawnKeyExpires
<1>1. e \in cache /\ (now - e.at < Ttl \/ now - e.at <= StaleIfError)
  BY DEF Fresh, StaleUsable
<1>2. e.at \in Nat /\ e.kid \in 1 .. Len(since) /\ e.kid + 1 \in 1 .. Len(since)
  <2>1. e.at \in Nat /\ e.kid \in 1 .. Len(since) /\ Len(since) \in Nat
    BY <1>1, Times DEF IInv
  <2> QED
    BY <2>1
<1>3. since[e.kid + 1] \in Nat /\ e.at <= since[e.kid + 1] + Timeout
  BY <1>1, <1>2, Times DEF IInv, AnswersAreRecent
<1>4. now \in Nat /\ Timeout \in Nat /\ Ttl \in Nat /\ StaleIfError \in Nat
  BY Times DEF IInv
<1> DEFINE out == since[e.kid + 1]  at == e.at
<1>5. out \in Nat /\ at \in Nat /\ at <= out + Timeout /\ (now - at < Ttl \/ now - at <= StaleIfError)
  BY <1>1, <1>2, <1>3
<1> HIDE DEF out, at
<1>6. now - out - Timeout < Ttl \/ now - out - Timeout <= StaleIfError
  BY <1>4, <1>5
<1> QED
  BY <1>6 DEF out

LEMMA NewKeys == ASSUME IInv PROVE NewKeyIsAccepted
<1> SUFFICES ASSUME NEW e \in Fresh, e.kid # Len(since), ~ MayRefresh,
                    \A c \in Callers : caller[c].at = "idle", ~ (now < failed + MinRefresh)
             PROVE  now < since[Len(since)] + Timeout + MinRefresh
  BY DEF NewKeyIsAccepted
<1>1. /\ now \in Nat /\ Timeout \in Nat /\ MinRefresh \in Nat /\ lastRefresh \in Int /\ failed \in Int
      /\ Len(since) \in Nat
  BY Times DEF IInv
<1>2. now - lastRefresh < MinRefresh
  BY <1>1 DEF MayRefresh
<1>3. ~ (lastRefresh <= failed)
  BY <1>1, <1>2
<1>4. e \in cache /\ e.at \in Nat /\ e.kid \in 1 .. Len(since)
  BY Times DEF IInv, Fresh
<1>5. lastRefresh <= e.at
  BY <1>3, <1>4 DEF IInv, LastLoadHasAFate, OneKeySet
<1>6. e.kid < Len(since) /\ e.kid + 1 \in 1 .. Len(since) /\ Len(since) \in 1 .. Len(since)
  BY <1>1, <1>4
<1>7. e.at <= since[e.kid + 1] + Timeout /\ since[e.kid + 1] <= since[Len(since)]
  BY <1>4, <1>6 DEF IInv, AnswersAreRecent, InOrder
<1>8. since[e.kid + 1] \in Nat /\ since[Len(since)] \in Nat
  BY <1>6, Times DEF IInv
<1>9. now < e.at + MinRefresh
  BY <1>1, <1>2, <1>4, <1>5
<1> DEFINE withdrawn == since[e.kid + 1]
<1> DEFINE newest == since[Len(since)]
<1>10. withdrawn \in Nat /\ newest \in Nat /\ e.at <= withdrawn + Timeout /\ withdrawn <= newest
  BY <1>7, <1>8
<1> HIDE DEF withdrawn, newest
<1>11. now < newest + Timeout + MinRefresh
  BY <1>1, <1>4, <1>9, <1>10
<1> QED
  BY <1>11 DEF newest

----------------------------------------------------------------------------
(* Theorems *)

\* The cache, the lookups and the clock are well-formed whatever the order of answers and failures.
THEOREM TypeCorrect == Spec => []TypeOK
<1>1. IInv => TypeOK
  BY DEF IInv
<1> QED
  BY <1>1, Inductive, PTL

\* A withdrawn key is not usable beyond its time, whatever answers arrive late (jwks.js:46-66).
THEOREM WithdrawnKeysExpire == Spec => []WithdrawnKeyExpires
  BY OldKeys, Inductive, PTL

\* A new key is refused for a bounded time only, whatever made-up kids are sent (jwks.js:57-63).
THEOREM NewKeysAreAccepted == Spec => []NewKeyIsAccepted
  BY NewKeys, Inductive, PTL
=============================================================================
