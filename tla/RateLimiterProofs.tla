------------------------- MODULE RateLimiterProofs --------------------------
(***************************************************************************)
(* What RateLimiter promises, for every set of keys, every limits and      *)
(* every resolution of the clock.                                          *)
(***************************************************************************)
EXTENDS RateLimiter, TLAPS

----------------------------------------------------------------------------
(* Arithmetic *)

LEMMA ProductIsNat == \A x, y \in Nat : x * y \in Nat
  OBVIOUS

LEMMA Distributes == \A r, x, y \in Int : r * (x + y) = r * x + r * y
  OBVIOUS

LEMMA Associates == \A r, x, y \in Int : r * (x * y) = (r * x) * y
  OBVIOUS

LEMMA ProductIsMonotone == \A r, x, y \in Nat : x <= y => r * x <= r * y
  OBVIOUS

\* A bucket gains in two stretches of time what it gains in both together.
LEMMA GainAddsUp ==
  \A r \in Nat : \A s, t, u \in Int : r * (t - s) + r * (u - t) = r * (u - s)
  OBVIOUS

\* Rounding up to a multiple of d gives no less.
LEMMA RoundedUp ==
  ASSUME NEW x \in Nat, NEW d \in Nat \ {0}
  PROVE  /\ (x + d - 1) \div d \in Nat
         /\ d * ((x + d - 1) \div d) >= x
<1> DEFINE y == x + d - 1
<1> DEFINE q == y \div d
<1>1. y \in Nat
  OBVIOUS
<1>2. q \in Nat
  BY <1>1
<1>3. y = d * q + (y % d) /\ y % d \in 0 .. (d - 1)
  BY <1>1
<1>4. d * q \in Nat
  BY <1>2, ProductIsNat
<1>5. d * q >= x
  BY <1>3, <1>4
<1> QED
  BY <1>2, <1>5

----------------------------------------------------------------------------
(* The limits *)

LEMMA CostIsPositive == Cost \in Nat \ {0}
  BY LimitsAssumption DEF Cost

\* A bucket holds at least one request when it is full.
LEMMA LimitsOfKey ==
  ASSUME NEW k \in Keys
  PROVE  /\ Rate[k] \in Nat \ {0}
         /\ Full(k) \in Nat
         /\ Cost <= Full(k)
<1>1. Rate[k] \in Nat \ {0} /\ Burst[k] \in Nat \ {0}
  BY LimitsAssumption
<1>2. Burst[k] * Cost = Cost * Burst[k] /\ Cost * 1 = Cost
  BY <1>1, CostIsPositive
<1>3. Cost * 1 <= Cost * Burst[k]
  BY <1>1, CostIsPositive, ProductIsMonotone
<1> QED
  BY <1>1, <1>2, <1>3, CostIsPositive, ProductIsNat DEF Full

\* A bucket of key k, as TypeOK describes it.
Bucket(k) == [tokens : 0 .. Full(k), at : 0 .. now]

\* What a bucket has gained by now.
LEMMA GainIsNat ==
  ASSUME TypeOK, NEW k \in Keys, NEW b \in Bucket(k)
  PROVE  /\ b.tokens \in Nat /\ b.at \in Nat /\ b.at <= now /\ b.tokens <= Full(k)
         /\ (now - b.at) * Rate[k] \in Nat
         /\ (now - b.at) * Rate[k] = Rate[k] * (now - b.at)
<1>1. b.tokens \in 0 .. Full(k) /\ b.at \in 0 .. now /\ now \in Nat
  BY DEF Bucket, TypeOK
<1>2. now - b.at \in Nat
  BY <1>1
<1>3. Rate[k] \in Nat /\ Full(k) \in Nat
  BY LimitsOfKey
<1> QED
  BY <1>1, <1>2, <1>3, ProductIsNat

\* However long it has stood, a bucket holds no more than it can.
LEMMA RefilledFits ==
  ASSUME TypeOK, NEW k \in Keys, NEW b \in Bucket(k)
  PROVE  Refilled(b, k) \in 0 .. Full(k)
<1>1. Full(k) \in Nat
  BY LimitsOfKey
<1> QED
  BY <1>1, GainIsNat DEF Refilled

\* take(k) finds a bucket of its own, and leaves every other key its bucket or none.
LEMMA BucketsFound ==
  ASSUME TypeOK, NEW k \in Keys
  PROVE  /\ DOMAIN Buckets(k) = Keys
         /\ \A j \in Keys : Buckets(k)[j] \in SUBSET Bucket(j)
         /\ \A j \in Keys \ {k} : Buckets(k)[j] \in {bucket[j], {}}
         /\ Buckets(k)[k] \in {bucket[k], {[tokens |-> Full(k), at |-> now]}}
<1>1. Full(k) \in Nat /\ now \in Nat
  BY LimitsOfKey DEF TypeOK
<1>2. [tokens |-> Full(k), at |-> now] \in Bucket(k)
  BY <1>1 DEF Bucket
<1>3. \A j \in Keys : bucket[j] \in SUBSET Bucket(j)
  BY DEF TypeOK, Bucket
<1>4. CASE bucket[k] # {}
  BY <1>3, <1>4 DEF Buckets, TypeOK
<1>5. CASE bucket[k] = {}
  <2> DEFINE kept == IF Cardinality(Held) > MaxBuckets THEN Held \ Swept(k) ELSE Held
  <2>1. Buckets(k) = [j \in Keys |-> IF j = k THEN {[tokens |-> Full(k), at |-> now]}
                                     ELSE IF j \in kept THEN bucket[j] ELSE {}]
    BY <1>5 DEF Buckets
  <2> HIDE DEF kept
  <2> QED
    BY <2>1, <1>2, <1>3
<1> QED
  BY <1>4, <1>5

\* A step of take(k) that leaves its bucket with `shares` in it, or one request less.
LEMMA TakeKeepsBuckets ==
  ASSUME TypeOK, NEW k \in Keys, NEW left \in 0 .. Full(k),
         bucket' = [Buckets(k) EXCEPT ![k] = {[tokens |-> left, at |-> now]}], now' = now
  PROVE  /\ DOMAIN bucket' = Keys
         /\ \A j \in Keys : bucket'[j] \in SUBSET [tokens : 0 .. Full(j), at : 0 .. now']
<1>1. now \in Nat
  BY DEF TypeOK
<1>2. [tokens |-> left, at |-> now] \in Bucket(k)
  BY <1>1 DEF Bucket
<1>3. \A j \in Keys : bucket'[j] = IF j = k THEN {[tokens |-> left, at |-> now]} ELSE Buckets(k)[j]
  BY BucketsFound
<1>4. \A j \in Keys : bucket'[j] \in SUBSET Bucket(j)
  BY <1>2, <1>3, BucketsFound
<1> QED
  BY <1>4, BucketsFound DEF Bucket

\* The wait a refused caller is told, and what it is good for.
LEMMA RetryAfterSuffices ==
  ASSUME NEW k \in Keys, NEW shares \in Nat, shares < Cost
  PROVE  /\ RetryAfter(k, shares) \in Nat
         /\ shares + Rate[k] * RetryAfter(k, shares) >= Cost
<1> DEFINE d == Rate[k] * TicksPerSec
<1> DEFINE q == (Cost - shares + d - 1) \div d
<1>1. Rate[k] \in Nat \ {0} /\ TicksPerSec \in Nat \ {0} /\ Cost \in Nat
  BY LimitsOfKey, LimitsAssumption, CostIsPositive
<1>2. d \in Nat \ {0}
  BY <1>1
<1>3. Cost - shares \in Nat
  BY <1>1
<1>4. q \in Nat /\ d * q >= Cost - shares
  BY <1>2, <1>3, RoundedUp
<1>5. RetryAfter(k, shares) = TicksPerSec * q
  BY DEF RetryAfter
<1>6. Rate[k] * (TicksPerSec * q) = d * q
  BY <1>1, <1>4, Associates
<1>7. TicksPerSec * q \in Nat
  BY <1>1, <1>4, ProductIsNat
<1>8. d * q \in Nat
  BY <1>2, <1>4, ProductIsNat
<1> HIDE DEF d, q
<1> QED
  BY <1>1, <1>4, <1>5, <1>6, <1>7, <1>8

----------------------------------------------------------------------------
(* Type correctness *)

\* A bucket never holds less than nothing or more than its burst, and never lies in the future.
THEOREM TypeCorrect == Spec => []TypeOK
<1>1. Init => TypeOK
  BY DEF Init, TypeOK
<1>2. TypeOK /\ [Next]_vars => TypeOK'
  <2> SUFFICES ASSUME TypeOK, [Next]_vars PROVE TypeOK'
    OBVIOUS
  <2> USE DEF TypeOK
  <2>1. CASE Tick
    <3>1. now \in Nat /\ now' = now + 1 /\ UNCHANGED <<bucket, mark, count, robbed, retry, early>>
      BY <2>1 DEF Tick
    <3>2. 0 .. now \subseteq 0 .. now'
      BY <3>1
    <3>3. \A k \in Keys : bucket'[k] \in SUBSET [tokens : 0 .. Full(k), at : 0 .. now']
      BY <3>1, <3>2
    <3> QED
      BY <3>1, <3>2, <3>3
  <2>2. CASE Mark
    BY <2>2 DEF Mark
  <2>3. ASSUME NEW k \in Keys, Take(k) PROVE TypeOK'
    <3>1. PICK b \in Buckets(k)[k] : Allow(k, Refilled(b, k)) \/ Refuse(k, Refilled(b, k))
      BY <2>3 DEF Take
    <3> DEFINE shares == Refilled(b, k)
    <3>2. UNCHANGED <<now, mark>> /\ robbed' \in SUBSET Keys
      BY <2>3 DEF Take, Robbed
    <3>3. b \in Bucket(k)
      BY BucketsFound
    <3>4. shares \in 0 .. Full(k) /\ Full(k) \in Nat /\ Cost \in Nat
      BY <3>3, RefilledFits, LimitsOfKey, CostIsPositive
    <3> HIDE DEF shares
    <3>5. CASE Allow(k, shares)
      <4>1. shares - Cost \in 0 .. Full(k)
        BY <3>4, <3>5 DEF Allow
      <4>2. /\ DOMAIN bucket' = Keys
            /\ \A j \in Keys : bucket'[j] \in SUBSET [tokens : 0 .. Full(j), at : 0 .. now']
        BY <3>2, <3>5, <4>1, TakeKeepsBuckets DEF Allow
      <4>3. count' \in [Keys -> Nat] /\ retry' \in [Keys -> Nat] /\ early' = early
        BY <3>5 DEF Allow
      <4> QED
        BY <3>2, <4>2, <4>3
    <3>6. CASE Refuse(k, shares)
      <4>1. /\ DOMAIN bucket' = Keys
            /\ \A j \in Keys : bucket'[j] \in SUBSET [tokens : 0 .. Full(j), at : 0 .. now']
        BY <3>2, <3>4, <3>6, TakeKeepsBuckets DEF Refuse
      <4>2. now + RetryAfter(k, shares) \in Nat
        BY <3>4, <3>6, RetryAfterSuffices DEF Refuse
      <4>3. count' = count /\ retry' \in [Keys -> Nat] /\ early' \in SUBSET Keys
        BY <3>6, <4>2 DEF Refuse
      <4> QED
        BY <3>2, <4>1, <4>3
    <3> QED
      BY <3>1, <3>5, <3>6 DEF shares
  <2>4. CASE UNCHANGED vars
    BY <2>4 DEF vars
  <2> QED
    BY <2>1, <2>2, <2>3, <2>4 DEF Next
<1> QED
  BY <1>1, <1>2, PTL DEF Spec

----------------------------------------------------------------------------
(* Retry-After *)

\* By the time a refused key was told, its bucket will hold a request.
RetryKept ==
  \A k \in Keys : retry[k] # 0 =>
    \A b \in bucket[k] : b.tokens + Rate[k] * (retry[k] - b.at) >= Cost

RetryInv == early = {} /\ RetryKept

\* A key that comes back no earlier than it was told finds enough in its bucket.
LEMMA EnoughByThen ==
  ASSUME TypeOK, RetryKept, NEW k \in Keys, retry[k] # 0, now >= retry[k],
         NEW b \in Buckets(k)[k]
  PROVE  Refilled(b, k) >= Cost
<1>1. b \in Bucket(k) /\ (b \in bucket[k] \/ b = [tokens |-> Full(k), at |-> now])
  BY BucketsFound
<1>2. Full(k) \in Nat /\ Rate[k] \in Nat /\ Cost \in Nat /\ Cost <= Full(k)
  BY LimitsOfKey, CostIsPositive
<1>3. /\ b.tokens \in Nat /\ b.at \in Nat /\ b.tokens <= Full(k) /\ now \in Nat /\ retry[k] \in Nat
      /\ (now - b.at) * Rate[k] \in Nat
      /\ (now - b.at) * Rate[k] = Rate[k] * (now - b.at)
  BY <1>1, GainIsNat DEF TypeOK
<1> DEFINE gain == (now - b.at) * Rate[k]
<1>4. CASE b \in bucket[k]
  <2>1. b.tokens + Rate[k] * (retry[k] - b.at) >= Cost
    BY <1>4 DEF RetryKept
  <2>2. Rate[k] * (retry[k] - b.at) + Rate[k] * (now - retry[k]) = Rate[k] * (now - b.at)
    <3>1. b.at \in Int /\ retry[k] \in Int /\ now \in Int
      BY <1>3
    <3> QED
      BY <3>1, <1>2, GainAddsUp
  <2>3. Rate[k] * (now - retry[k]) \in Nat
    <3>1. now - retry[k] \in Nat
      BY <1>3
    <3> QED
      BY <3>1, <1>2, ProductIsNat
  <2>4. Rate[k] * (retry[k] - b.at) \in Int
    BY <1>2, <1>3
  <2>5. b.tokens + gain >= Cost
    BY <1>2, <1>3, <2>1, <2>2, <2>3, <2>4
  <2> HIDE DEF gain
  <2> QED
    BY <1>2, <2>5 DEF Refilled, gain
<1>5. CASE b = [tokens |-> Full(k), at |-> now]
  <2>1. b.tokens + gain >= Full(k)
    BY <1>2, <1>3, <1>5
  <2> HIDE DEF gain
  <2> QED
    BY <1>2, <1>3, <2>1 DEF Refilled, gain
<1> QED
  BY <1>1, <1>4, <1>5

\* A caller that waits as long as its 429 said is not refused again, whatever the limits are and
\* whoever's sweep removes its bucket meanwhile.
THEOREM RetryAfterCorrect == Spec => []RetryAfterIsEnough
<1>1. Init => RetryInv
  BY DEF Init, RetryInv, RetryKept
<1>2. TypeOK /\ RetryInv /\ [Next]_vars => RetryInv'
  <2> SUFFICES ASSUME TypeOK, RetryInv, [Next]_vars PROVE RetryInv'
    OBVIOUS
  <2>1. CASE Tick
    BY <2>1 DEF Tick, RetryInv, RetryKept
  <2>2. CASE Mark
    BY <2>2 DEF Mark, RetryInv, RetryKept
  <2>3. ASSUME NEW k \in Keys, Take(k) PROVE RetryInv'
    <3>1. PICK b \in Buckets(k)[k] : Allow(k, Refilled(b, k)) \/ Refuse(k, Refilled(b, k))
      BY <2>3 DEF Take
    <3> DEFINE shares == Refilled(b, k)
    <3>2. shares \in Nat /\ Cost \in Nat /\ now \in Nat
      BY BucketsFound, RefilledFits, LimitsOfKey, CostIsPositive DEF TypeOK
    <3>3. retry[k] # 0 /\ now >= retry[k] => shares >= Cost
      BY EnoughByThen DEF RetryInv
    <3> HIDE DEF shares
    <3>4. CASE Allow(k, shares)
      <4>1. \A j \in Keys \ {k} : bucket'[j] \in {bucket[j], {}} /\ retry'[j] = retry[j]
        BY <3>4, BucketsFound DEF Allow, TypeOK
      <4>2. retry'[k] = 0 /\ early' = early
        BY <3>4 DEF Allow, TypeOK
      <4> QED
        BY <4>1, <4>2 DEF RetryInv, RetryKept
    <3>5. CASE Refuse(k, shares)
      <4>1. \A j \in Keys \ {k} : bucket'[j] \in {bucket[j], {}} /\ retry'[j] = retry[j]
        BY <3>5, BucketsFound DEF Refuse, TypeOK
      <4>2. bucket'[k] = {[tokens |-> shares, at |-> now]} /\ retry'[k] = now + RetryAfter(k, shares)
        BY <3>5, BucketsFound DEF Refuse, TypeOK
      <4>3. /\ RetryAfter(k, shares) \in Nat
            /\ shares + Rate[k] * RetryAfter(k, shares) >= Cost
        BY <3>2, <3>5, RetryAfterSuffices DEF Refuse
      <4>4. retry'[k] - now = RetryAfter(k, shares)
        BY <3>2, <4>2, <4>3
      <4>5. \A c \in bucket'[k] : c.tokens + Rate[k] * (retry'[k] - c.at) >= Cost
        BY <4>2, <4>3, <4>4
      <4>6. RetryKept'
        BY <4>1, <4>5 DEF RetryInv, RetryKept
      <4>7. early' = {}
        BY <3>2, <3>3, <3>5 DEF Refuse, RetryInv
      <4> QED
        BY <4>6, <4>7 DEF RetryInv
    <3> QED
      BY <3>1, <3>4, <3>5 DEF shares
  <2>4. CASE UNCHANGED vars
    BY <2>4 DEF vars, RetryInv, RetryKept
  <2> QED
    BY <2>1, <2>2, <2>3, <2>4 DEF Next
<1>3. RetryInv => RetryAfterIsEnough
  BY DEF RetryInv, RetryAfterIsEnough
<1> QED
  BY <1>1, <1>2, <1>3, TypeCorrect, PTL DEF Spec

----------------------------------------------------------------------------
(* The budget *)

\* What a key has spent since the mark, together with what its bucket still holds, is no more than its
\* burst and what it has gained; a key with no bucket could have a full one, and so has spent no more
\* than it has gained.  A bucket not touched since the mark has spent nothing.
BudgetOf(k) ==
  /\ bucket[k] = {} => Cost * count[k] <= Rate[k] * (now - mark)
  /\ \A b \in bucket[k] :
       IF b.at < mark THEN count[k] = 0
       ELSE Cost * count[k] + b.tokens <= Full(k) + Rate[k] * (b.at - mark)

BudgetKept == \A k \in Keys \ robbed : BudgetOf(k)

\* The products that occur in the budget of a key.
LEMMA BudgetIsNat ==
  ASSUME TypeOK, NEW k \in Keys
  PROVE  /\ now \in Nat /\ mark \in Nat /\ mark <= now /\ count[k] \in Nat
         /\ Cost * count[k] \in Nat /\ Rate[k] * (now - mark) \in Nat
         /\ count[k] = 0 => Cost * count[k] = 0
<1>1. now \in Nat /\ mark \in Nat /\ mark <= now /\ count[k] \in Nat
  BY DEF TypeOK
<1>2. now - mark \in Nat /\ Rate[k] \in Nat /\ Cost \in Nat
  BY <1>1, LimitsOfKey, CostIsPositive
<1> QED
  BY <1>1, <1>2, ProductIsNat

\* What a bucket of key k has gained, split at the mark.
LEMMA GainSinceMark ==
  ASSUME TypeOK, NEW k \in Keys, NEW b \in Bucket(k), b.at >= mark
  PROVE  /\ Rate[k] * (b.at - mark) \in Nat
         /\ Rate[k] * (b.at - mark) + (now - b.at) * Rate[k] = Rate[k] * (now - mark)
<1>1. b.at \in Nat /\ now \in Nat /\ mark \in Nat /\ Rate[k] \in Nat
  BY GainIsNat, BudgetIsNat, LimitsOfKey
<1>2. b.at - mark \in Nat
  BY <1>1
<1>3. Rate[k] * (b.at - mark) \in Nat
  BY <1>1, <1>2, ProductIsNat
<1>4. b.at \in Int /\ now \in Int /\ mark \in Int
  BY <1>1
<1>5. Rate[k] * (b.at - mark) + Rate[k] * (now - b.at) = Rate[k] * (now - mark)
  BY <1>1, <1>4, GainAddsUp
<1> QED
  BY <1>3, <1>5, GainIsNat

\* A bucket within its budget is within it however much of its gain it is given.
LEMMA BudgetNow ==
  ASSUME TypeOK, NEW k \in Keys, NEW b \in Bucket(k), b \in bucket[k], BudgetOf(k)
  PROVE  /\ Cost * count[k] + Refilled(b, k) <= Full(k) + Rate[k] * (now - mark)
         /\ b.tokens + (now - b.at) * Rate[k] >= Full(k) => Cost * count[k] <= Rate[k] * (now - mark)
<1>1. Full(k) \in Nat
  BY LimitsOfKey
<1>2. CASE b.at < mark
  BY <1>1, <1>2, BudgetIsNat, RefilledFits DEF BudgetOf
<1>3. CASE b.at >= mark
  <2> DEFINE gain == (now - b.at) * Rate[k]
  <2> DEFINE before == Rate[k] * (b.at - mark)
  <2>1. before \in Nat /\ before + gain = Rate[k] * (now - mark)
    BY <1>3, GainSinceMark
  <2>2. Cost * count[k] + b.tokens <= Full(k) + before
    BY <1>3, BudgetIsNat, GainIsNat DEF BudgetOf
  <2>3. gain \in Nat /\ b.tokens \in Nat
    BY GainIsNat
  <2>4. Refilled(b, k) <= b.tokens + gain /\ Refilled(b, k) \in Nat
    BY <1>1, <2>3, RefilledFits DEF Refilled
  <2>5. Cost * count[k] \in Nat /\ Rate[k] * (now - mark) \in Nat
    BY BudgetIsNat
  <2> HIDE DEF gain, before
  <2>6. Cost * count[k] + Refilled(b, k) <= Full(k) + Rate[k] * (now - mark)
    BY <1>1, <2>1, <2>2, <2>3, <2>4, <2>5
  <2>7. b.tokens + gain >= Full(k) => Cost * count[k] <= Rate[k] * (now - mark)
    BY <1>1, <2>1, <2>2, <2>3, <2>5
  <2> QED
    BY <2>6, <2>7 DEF gain
<1> QED
  BY <1>2, <1>3, GainIsNat, BudgetIsNat

\* A key that is not robbed loses a bucket only when it is full by the key's own limits.
LEMMA SweptAreFull ==
  ASSUME TypeOK, NEW k \in Keys, NEW j \in Keys \ {k}, BudgetOf(j), j \notin Robbed(k),
         Buckets(k)[j] = {}, bucket[j] # {}
  PROVE  Cost * count[j] <= Rate[j] * (now - mark)
<1> DEFINE Shares(b) == b.tokens + (now - b.at) * Rate[j]
<1>1. \E b \in bucket[j] : Shares(b) >= Full(j)
  <2>1. CASE SameLimits(j, k)
    <3>1. j \in Held /\ bucket[k] = {}
      BY DEF Held, Buckets
    <3>2. j \in Swept(k)
      <4> DEFINE kept == IF Cardinality(Held) > MaxBuckets THEN Held \ Swept(k) ELSE Held
      <4>1. Buckets(k) = [i \in Keys |-> IF i = k THEN {[tokens |-> Full(k), at |-> now]}
                                         ELSE IF i \in kept THEN bucket[i] ELSE {}]
        BY <3>1 DEF Buckets
      <4>2. j \notin kept
        BY <4>1
      <4> QED
        BY <3>1, <4>2
    <3>3. PICK b \in bucket[j] : b.tokens + (now - b.at) * Rate[k] >= Full(k)
      BY <3>2 DEF Swept
    <3>4. Rate[k] = Rate[j] /\ Full(k) = Full(j)
      BY <2>1 DEF SameLimits, Full
    <3> QED
      BY <3>3, <3>4
  <2>2. CASE ~ SameLimits(j, k)
    <3>1. PICK b \in bucket[j] : TRUE
      OBVIOUS
    <3>2. ~ (Refilled(b, j) < Full(j))
      BY <2>2 DEF Robbed
    <3>3. b \in Bucket(j)
      BY DEF TypeOK, Bucket
    <3>4. Shares(b) \in Nat /\ Full(j) \in Nat
      BY <3>3, GainIsNat, LimitsOfKey
    <3>5. Refilled(b, j) = IF Shares(b) < Full(j) THEN Shares(b) ELSE Full(j)
      BY DEF Refilled
    <3> HIDE DEF Shares
    <3> QED
      BY <3>2, <3>4, <3>5
  <2> QED
    BY <2>1, <2>2
<1>2. PICK b \in bucket[j] : Shares(b) >= Full(j)
  BY <1>1
<1>3. b \in Bucket(j)
  BY DEF TypeOK, Bucket
<1> QED
  BY <1>2, <1>3, BudgetNow

\* Over any stretch of time, a key gets through no more than its burst and what its rate brings,
\* however many keys there are, whatever the limits of each, and however buckets are swept and made anew;
\* only a key whose bucket a sweep by a caller with other limits took before it was full gets more.
THEOREM BudgetCorrect == Spec => []WithinBudget
<1>1. Init => BudgetKept
  <2> SUFFICES ASSUME Init, NEW k \in Keys \ robbed PROVE BudgetOf(k)
    BY DEF BudgetKept
  <2>1. Rate[k] \in Nat /\ Cost \in Nat
    BY LimitsOfKey, CostIsPositive
  <2>2. bucket[k] = {} /\ count[k] = 0 /\ now - mark = 0
    BY DEF Init
  <2> QED
    BY <2>1, <2>2 DEF BudgetOf
<1>2. TypeOK /\ BudgetKept /\ [Next]_vars => BudgetKept'
  <2> SUFFICES ASSUME TypeOK, BudgetKept, [Next]_vars, NEW j \in Keys \ robbed' PROVE BudgetOf(j)'
    BY DEF BudgetKept
  <2>1. CASE Tick
    <3>1. now' = now + 1 /\ UNCHANGED <<bucket, mark, count, robbed>>
      BY <2>1 DEF Tick
    <3>2. now - mark \in Nat /\ now' - mark' \in Nat /\ now - mark <= now' - mark'
      BY <3>1, BudgetIsNat
    <3>3. Rate[j] * (now - mark) <= Rate[j] * (now' - mark')
      BY <3>2, LimitsOfKey, ProductIsMonotone
    <3>4. /\ Cost * count[j] \in Nat
          /\ Rate[j] * (now - mark) \in Nat
          /\ Rate[j] * (now' - mark') \in Nat
      BY <3>2, LimitsOfKey, ProductIsNat, BudgetIsNat
    <3>5. BudgetOf(j)
      BY <3>1 DEF BudgetKept
    <3>6. bucket'[j] = {} => Cost * count'[j] <= Rate[j] * (now' - mark')
      BY <3>1, <3>3, <3>4, <3>5 DEF BudgetOf
    <3> QED
      BY <3>1, <3>5, <3>6 DEF BudgetOf, Full, Cost
  <2>2. CASE Mark
    <3>1. mark' = now /\ now' = now /\ count'[j] = 0 /\ bucket' = bucket
      BY <2>2 DEF Mark
    <3>2. Rate[j] \in Nat /\ Cost \in Nat /\ now \in Nat /\ Full(j) \in Nat
      BY LimitsOfKey, CostIsPositive, BudgetIsNat
    <3>3. Cost * count'[j] = 0 /\ Rate[j] * (now' - mark') = 0
      BY <3>1, <3>2
    <3>4. ASSUME NEW b \in bucket'[j], ~ (b.at < mark')
          PROVE  Cost * count'[j] + b.tokens <= Full(j) + Rate[j] * (b.at - mark')
      <4>1. b \in Bucket(j)
        BY <3>1, <3>4 DEF TypeOK, Bucket
      <4>2. b.at = mark' /\ b.tokens \in Nat /\ b.tokens <= Full(j)
        BY <3>1, <3>2, <3>4, <4>1, GainIsNat
      <4>3. Rate[j] * (b.at - mark') = 0
        BY <3>1, <3>2, <4>2
      <4> QED
        BY <3>2, <3>3, <4>2, <4>3
    <3> QED
      BY <3>1, <3>3, <3>4 DEF BudgetOf, Full, Cost
  <2>3. ASSUME NEW k \in Keys, Take(k) PROVE BudgetOf(j)'
    <3>1. PICK b \in Buckets(k)[k] : Allow(k, Refilled(b, k)) \/ Refuse(k, Refilled(b, k))
      BY <2>3 DEF Take
    <3>2. now' = now /\ mark' = mark /\ j \notin robbed /\ j \notin Robbed(k)
      BY <2>3 DEF Take
    <3>3. CASE j # k
      <4>1. bucket'[j] = Buckets(k)[j] /\ count'[j] = count[j]
        BY <3>1, <3>3, BucketsFound DEF Allow, Refuse, TypeOK
      <4>2. CASE bucket'[j] = bucket[j]
        BY <3>2, <4>1, <4>2 DEF BudgetKept, BudgetOf, Full, Cost
      <4>3. CASE bucket[j] # {} /\ bucket'[j] = {}
        <5>1. Cost * count[j] <= Rate[j] * (now - mark)
          BY <3>2, <3>3, <4>1, <4>3, SweptAreFull DEF BudgetKept
        <5> QED
          BY <3>2, <4>1, <4>3, <5>1 DEF BudgetOf, Cost
      <4> QED
        BY <3>3, <4>1, <4>2, <4>3, BucketsFound
    <3>4. CASE j = k
      <4> DEFINE shares == Refilled(b, k)
      <4> DEFINE spent == Cost * count[k]
      <4> DEFINE gained == Rate[k] * (now - mark)
      <4>1. b \in Bucket(k) /\ (b \in bucket[k] \/ (bucket[k] = {} /\ b = [tokens |-> Full(k), at |-> now]))
        <5>1. CASE bucket[k] = {}
          BY <5>1, BucketsFound
        <5>2. CASE bucket[k] # {}
          BY <5>2, BucketsFound DEF Buckets
        <5> QED
          BY <5>1, <5>2
      <4>2. /\ shares \in 0 .. Full(k) /\ Full(k) \in Nat /\ Cost \in Nat /\ count[k] \in Nat
            /\ spent \in Nat /\ gained \in Nat
        BY <4>1, RefilledFits, LimitsOfKey, CostIsPositive, BudgetIsNat
      <4>3. spent + shares <= Full(k) + gained
        <5>1. CASE b \in bucket[k]
          BY <3>2, <3>4, <4>1, <5>1, BudgetNow DEF BudgetKept
        <5>2. CASE bucket[k] = {}
          <6>1. spent <= gained
            BY <3>2, <3>4, <5>2 DEF BudgetKept, BudgetOf
          <6> HIDE DEF shares, spent, gained
          <6> QED
            BY <4>2, <6>1
        <5> QED
          BY <4>1, <5>1, <5>2
      <4>4. \E left \in 0 .. Full(k) :
              /\ bucket'[k] = {[tokens |-> left, at |-> now]}
              /\ Cost * count'[k] + left = spent + shares
        <5>1. CASE Allow(k, shares)
          <6>1. shares - Cost \in 0 .. Full(k)
            BY <4>2, <5>1 DEF Allow
          <6>2. bucket'[k] = {[tokens |-> shares - Cost, at |-> now]}
            BY <5>1, BucketsFound DEF Allow
          <6>3. Cost * count'[k] = Cost * (count[k] + 1)
            BY <5>1 DEF Allow, TypeOK
          <6>4. Cost * (count[k] + 1) = spent + Cost
            BY <4>2
          <6> HIDE DEF shares, spent
          <6>5. Cost * count'[k] + (shares - Cost) = spent + shares
            BY <4>2, <6>3, <6>4
          <6> QED
            BY <6>1, <6>2, <6>5
        <5>2. CASE Refuse(k, shares)
          BY <4>2, <5>2, BucketsFound DEF Refuse
        <5> QED
          BY <3>1, <5>1, <5>2
      <4>5. PICK left \in 0 .. Full(k) :
              /\ bucket'[k] = {[tokens |-> left, at |-> now]}
              /\ Cost * count'[k] + left = spent + shares
        BY <4>4
      <4>6. Cost * count'[k] + left <= Full(k) + gained
        BY <4>3, <4>5
      <4>7. ~ (now < mark)
        BY BudgetIsNat
      <4>8. bucket'[k] # {}
        BY <4>5
      <4>9. \A d \in bucket'[k] :
              ~ (d.at < mark') /\ Cost * count'[k] + d.tokens <= Full(k) + Rate[k] * (d.at - mark')
        BY <3>2, <4>5, <4>6, <4>7
      <4> QED
        BY <3>4, <4>8, <4>9 DEF BudgetOf, Full, Cost
    <3> QED
      BY <3>3, <3>4
  <2>4. CASE UNCHANGED vars
    BY <2>4 DEF vars, BudgetKept, BudgetOf, Full, Cost
  <2> QED
    BY <2>1, <2>2, <2>3, <2>4 DEF Next
<1>3. TypeOK /\ BudgetKept => WithinBudget
  <2> SUFFICES ASSUME TypeOK, BudgetKept, NEW k \in Keys \ robbed
               PROVE  Cost * count[k] <= Full(k) + Rate[k] * (now - mark)
    BY DEF WithinBudget
  <2>1. Full(k) \in Nat /\ Cost * count[k] \in Nat /\ Rate[k] * (now - mark) \in Nat
    BY LimitsOfKey, BudgetIsNat
  <2>2. CASE bucket[k] = {}
    BY <2>1, <2>2 DEF BudgetKept, BudgetOf
  <2>3. ASSUME NEW b \in bucket[k] PROVE Cost * count[k] <= Full(k) + Rate[k] * (now - mark)
    <3>1. b \in Bucket(k)
      BY DEF TypeOK, Bucket
    <3>2. Cost * count[k] + Refilled(b, k) <= Full(k) + Rate[k] * (now - mark)
      BY <3>1, BudgetNow DEF BudgetKept
    <3>3. Refilled(b, k) \in Nat
      BY <3>1, RefilledFits
    <3> QED
      BY <2>1, <3>2, <3>3
  <2> QED
    BY <2>2, <2>3
<1> QED
  BY <1>1, <1>2, <1>3, TypeCorrect, PTL DEF Spec
=============================================================================
