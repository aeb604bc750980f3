----------------------------- MODULE JwksCache ------------------------------
(***************************************************************************)
(* The keys of one issuer as verifier/src/jwks.js caches them, while the   *)
(* issuer rotates its key and its JWKS address answers late or not at all. *)
(*                                                                         *)
(* Keys are numbered in the order the issuer publishes them, and its key   *)
(* set holds only the last one (docs/federation.md, R5).  Requests share   *)
(* the cache but not the loads: each awaits a load of its own.  A lookup   *)
(* that is answered from the cache, with a key or with a refusal, changes  *)
(* nothing and is no step of the model.                                    *)
(***************************************************************************)
EXTENDS Integers, Sequences

CONSTANTS
  Callers,        \* lookups that may be awaiting a load
  Ttl,            \* ttlMs
  MinRefresh,     \* minRefreshMs
  StaleIfError,   \* staleIfErrorMs
  Timeout,        \* the deadline of a load
  MaxKid,         \* bound: keys the issuer publishes
  MaxTime         \* bound: last tick of the clock

ASSUME TimesAssumption ==
  /\ Ttl \in Nat /\ MinRefresh \in Nat /\ StaleIfError \in Nat
  /\ Timeout \in Nat /\ MaxKid \in Nat \ {0} /\ MaxTime \in Nat

VARIABLES
  now,          \* the clock
  since,        \* when the issuer published each of its keys so far
  cache,        \* the cached key set, as a set of at most one: its key, and when it arrived
  lastRefresh,  \* when a load was last started
  caller,       \* the lookups awaiting a load: the first one, or the one for an unknown kid
  failed        \* history: when a load last failed

vars == <<now, since, cache, lastRefresh, caller, failed>>

----------------------------------------------------------------------------

\* The kids of tokens; 0 is made up.
Kids == 0 .. MaxKid

NoLookup == [at |-> "idle", kid |-> 0, start |-> 0]

TypeOK ==
  /\ now \in 0 .. MaxTime
  /\ since \in Seq(0 .. now) /\ Len(since) \in 1 .. MaxKid
  /\ cache \in SUBSET [kid : 1 .. Len(since), at : 0 .. now]
  /\ lastRefresh \in -MinRefresh .. now
  /\ caller \in [Callers -> [at : {"idle", "first", "second"}, kid : Kids, start : 0 .. now]]
  /\ failed \in -MinRefresh .. now

Init ==
  /\ now = 0
  /\ since = <<0>>
  /\ cache = {}
  /\ lastRefresh = -MinRefresh
  /\ caller = [c \in Callers |-> NoLookup]
  /\ failed = -MinRefresh

\* Time does not pass the deadline of a load.
Tick ==
  /\ now < MaxTime
  /\ \A c \in Callers : caller[c].at # "idle" => now < caller[c].start + Timeout
  /\ now' = now + 1
  /\ UNCHANGED <<since, cache, lastRefresh, caller, failed>>

Rotate ==
  /\ Len(since) < MaxKid
  /\ since' = Append(since, now)
  /\ UNCHANGED <<now, cache, lastRefresh, caller, failed>>

----------------------------------------------------------------------------

\* The cached key set, if it is young enough to be used without asking the issuer.
Fresh == {e \in cache : now - e.at < Ttl}

\* The cached key set, if it is young enough to be used although a load failed.
StaleUsable == {e \in cache : now - e.at <= StaleIfError}

SharedInterval == now - lastRefresh >= Ttl

\* An unknown kid may start a load.
MayRefresh == now - lastRefresh >= MinRefresh

StartLoadReserved(c, k, stage) ==
  /\ lastRefresh' = now + MinRefresh
  /\ caller' = [caller EXCEPT ![c] = [at |-> stage, kid |-> k, start |-> now]]

\* The start of #refresh: noted before the answer is awaited.
StartLoad(c, k, stage) ==
  /\ lastRefresh' = now
  /\ caller' = [caller EXCEPT ![c] = [at |-> stage, kid |-> k, start |-> now]]

\* keyFor, when it cannot be answered from the cache: there is no fresh key set, or it lacks the kid.
Lookup(c, k) ==
  /\ caller[c].at = "idle"
  /\ \/ Fresh = {} /\ StartLoad(c, k, "first")
     \/ /\ Fresh # {}
        /\ \A e \in Fresh : e.kid # k
        /\ MayRefresh
        /\ StartLoad(c, k, "second")
  /\ UNCHANGED <<now, since, cache, failed>>

\* What becomes of a lookup whose load has yielded the keys in `kids`: a first load that did not bring
\* its kid is followed by a second one if it may be; otherwise it has its key, or is refused.
Continue(c, kids) ==
  IF caller[c].at = "first" /\ kids # {} /\ caller[c].kid \notin kids /\ MayRefresh
  THEN StartLoad(c, caller[c].kid, "second")
  ELSE /\ caller' = [caller EXCEPT ![c] = NoLookup]
       /\ UNCHANGED lastRefresh

\* The keys that were the published one at some moment of a load.
PublishedDuring(c) ==
  {v \in DOMAIN since : v < Len(since) => since[v + 1] >= caller[c].start}

\* The load of c succeeds; its answer replaces whatever has been cached meanwhile.
Answer(c) ==
  /\ caller[c].at # "idle"
  /\ \E v \in PublishedDuring(c) :
       /\ cache' = {[kid |-> v, at |-> now]}
       /\ Continue(c, {v})
  /\ UNCHANGED <<now, since, failed>>

RenewedAfterError == {[e EXCEPT !.at = now] : e \in StaleUsable} \cup (cache \ StaleUsable)

\* A load that fails leaves the cache alone.
CacheAfterError == cache

\* The load of c fails or times out: the cached keys are used if they may be, else the lookup throws.
Fail(c) ==
  /\ caller[c].at # "idle"
  /\ cache' = CacheAfterError
  /\ Continue(c, {e.kid : e \in StaleUsable})
  /\ failed' = now
  /\ UNCHANGED <<now, since>>

Next ==
  \/ Tick
  \/ Rotate
  \/ \E c \in Callers : (\E k \in Kids : Lookup(c, k)) \/ Answer(c) \/ Fail(c)

Spec == Init /\ [][Next]_vars

----------------------------------------------------------------------------
(* Properties *)

\* A key the issuer has withdrawn is usable no longer than the cache's lifetime, or the grace the
\* configuration gives to errors, after the answer that could last hold it; concurrent loads whose
\* answers arrive out of order, and failing ones, do not prolong that.
WithdrawnKeyExpires ==
  \A e \in Fresh \cup StaleUsable : e.kid < Len(since) =>
    LET age == now - since[e.kid + 1] - Timeout
    IN  age < Ttl \/ age <= StaleIfError

\* A token signed with the issuer's new key is refused out of hand ("key_not_found" from a fresh cache)
\* only while a load is under way, and otherwise only for so long after a rotation: MinRefresh and a
\* load that began before it, or MinRefresh after a load that failed.  Made-up kids, which use up the
\* one refresh, and answers out of order do not prolong that.
NewKeyIsAccepted ==
  (\E e \in Fresh : e.kid # Len(since)) /\ ~ MayRefresh =>
    \/ \E c \in Callers : caller[c].at # "idle"
    \/ now < since[Len(since)] + Timeout + MinRefresh
    \/ now < failed + MinRefresh

\* "An unknown kid triggers one refresh, no more often than minRefreshMs, so a stream of tokens with made-up
\* kids cannot make the verifier hammer the issuer" (jwks.js:4-6): a lookup for a made-up kid starts a load
\* only MinRefresh after the last one.  Without fresh keys every lookup starts one (jwks.js:54), above all
\* while the issuer fails, and the property does not hold.
NoHammering ==
  [][\A c \in Callers :
       caller'[c] # caller[c] /\ caller'[c].at # "idle" /\ caller'[c].kid = 0 => MayRefresh]_vars
=============================================================================
