---------------------------- MODULE RateLimiter -----------------------------
(***************************************************************************)
(* The token buckets of gateway/src/ratelimit.js.  A key is one agent of   *)
(* one tenant, with its tenant's limits.                                   *)
(*                                                                         *)
(* The code keeps a fractional number of tokens.  Here everything is a     *)
(* whole number of shares: a request costs Cost shares and a bucket gains  *)
(* Rate shares in a tick of the clock, so that Cost / Rate ticks bring     *)
(* one token, and with a tick of a millisecond Cost is 60000.              *)
(***************************************************************************)
EXTENDS Integers, FiniteSets

CONSTANTS
  Keys,         \* the agents that make requests
  Rate,         \* limits.ratePerMinute of each
  Burst,        \* limits.burst of each
  TicksPerSec,
  MaxBuckets,   \* buckets kept before the full ones are swept (20000 in the code)
  MaxTime       \* bound: last tick of the clock

ASSUME LimitsAssumption ==
  /\ Rate \in [Keys -> Nat \ {0}]
  /\ Burst \in [Keys -> Nat \ {0}]
  /\ TicksPerSec \in Nat \ {0}
  /\ MaxBuckets \in Nat
  /\ MaxTime \in Nat

VARIABLES
  now,      \* the clock, in ticks
  bucket,   \* the bucket of each key, as a set of at most one
  mark,     \* history: the start of the stretch of time that is being counted
  count,    \* history: the requests of each key allowed since then
  robbed,   \* history: the keys a sweep by other limits has since taken a bucket from too early
  retry,    \* history: when each key was told to come back, 0 if it was not
  early     \* history: the keys refused although they came back no earlier

vars == <<now, bucket, mark, count, robbed, retry, early>>

----------------------------------------------------------------------------

Cost == 60 * TicksPerSec

Full(k) == Burst[k] * Cost

TypeOK ==
  /\ now \in Nat
  /\ DOMAIN bucket = Keys
  /\ \A k \in Keys : bucket[k] \in SUBSET [tokens : 0 .. Full(k), at : 0 .. now]
  /\ mark \in 0 .. now
  /\ count \in [Keys -> Nat]
  /\ robbed \in SUBSET Keys
  /\ retry \in [Keys -> Nat]
  /\ early \in SUBSET Keys

Init ==
  /\ now = 0
  /\ bucket = [k \in Keys |-> {}]
  /\ mark = 0
  /\ count = [k \in Keys |-> 0]
  /\ robbed = {}
  /\ retry = [k \in Keys |-> 0]
  /\ early = {}

Tick ==
  /\ now < MaxTime
  /\ now' = now + 1
  /\ UNCHANGED <<bucket, mark, count, robbed, retry, early>>

\* Counting may start over at any moment.
Mark ==
  /\ mark' = now
  /\ count' = [k \in Keys |-> 0]
  /\ robbed' = {}
  /\ UNCHANGED <<now, bucket, retry, early>>

\* The shares a bucket holds now, with the limits of key k.
Refilled(b, k) ==
  LET shares == b.tokens + (now - b.at) * Rate[k]
  IN  IF shares < Full(k) THEN shares ELSE Full(k)

Held == {k \in Keys : bucket[k] # {}}

SweptWhatever(caller) == Held

\* The buckets a sweep drops: every one that the CALLER's limits say is full.
Swept(caller) ==
  {k \in Held : \E b \in bucket[k] : b.tokens + (now - b.at) * Rate[caller] >= Full(caller)}

\* The buckets as take(k) finds them: with no bucket of its own, it sweeps if there are too many, and
\* starts with a full one.
Buckets(k) ==
  IF bucket[k] # {} THEN bucket
  ELSE LET kept == IF Cardinality(Held) > MaxBuckets THEN Held \ Swept(k) ELSE Held
       IN  [j \in Keys |-> IF j = k THEN {[tokens |-> Full(k), at |-> now]}
                           ELSE IF j \in kept THEN bucket[j] ELSE {}]

SameLimits(j, k) == Rate[j] = Rate[k] /\ Burst[j] = Burst[k]

\* The keys that lose, to the limits of another tenant, a bucket that is not full by their own.
Robbed(k) ==
  {j \in Keys : /\ ~ SameLimits(j, k)
                /\ Buckets(k)[j] = {}
                /\ \E b \in bucket[j] : Refilled(b, j) < Full(j)}

RoundedDown(k, shares) == TicksPerSec * ((Cost - shares) \div (Rate[k] * TicksPerSec))

\* How long a refused caller is told to wait: whole seconds, rounded up.
RetryAfter(k, shares) ==
  TicksPerSec * ((Cost - shares + Rate[k] * TicksPerSec - 1) \div (Rate[k] * TicksPerSec))

AllowOnAnyShare(k, shares) ==
  /\ shares > 0
  /\ bucket' = [Buckets(k) EXCEPT ![k] = {[tokens |-> shares - Cost, at |-> now]}]
  /\ count' = [count EXCEPT ![k] = @ + 1]
  /\ retry' = [retry EXCEPT ![k] = 0]
  /\ UNCHANGED early

Allow(k, shares) ==
  /\ shares >= Cost
  /\ bucket' = [Buckets(k) EXCEPT ![k] = {[tokens |-> shares - Cost, at |-> now]}]
  /\ count' = [count EXCEPT ![k] = @ + 1]
  /\ retry' = [retry EXCEPT ![k] = 0]
  /\ UNCHANGED early

Refuse(k, shares) ==
  /\ shares < Cost
  /\ bucket' = [Buckets(k) EXCEPT ![k] = {[tokens |-> shares, at |-> now]}]
  /\ retry' = [retry EXCEPT ![k] = now + RetryAfter(k, shares)]
  /\ early' = IF retry[k] # 0 /\ now >= retry[k] THEN early \cup {k} ELSE early
  /\ UNCHANGED count

Take(k) ==
  /\ \E b \in Buckets(k)[k] :
       LET shares == Refilled(b, k) IN Allow(k, shares) \/ Refuse(k, shares)
  /\ robbed' = robbed \cup Robbed(k)
  /\ UNCHANGED <<now, mark>>

Next == Tick \/ Mark \/ \E k \in Keys : Take(k)

Spec == Init /\ [][Next]_vars

----------------------------------------------------------------------------
(* Properties *)

\* "`burst` at once, refilled at `ratePerMinute`": over any stretch of time a key gets through no more
\* than its burst and what its rate brings in that time, however buckets are swept and made anew.  The one
\* exception is what the sweep does (ratelimit.js:21): it judges every bucket by the limits of the caller
\* that set it off, and a key of another tenant whose bucket it drops too early starts over with a full
\* burst.
WithinBudget ==
  \A k \in Keys \ robbed : Cost * count[k] <= Full(k) + Rate[k] * (now - mark)

\* A caller that waits as long as its 429 said is not refused again.
RetryAfterIsEnough == early = {}
=============================================================================
