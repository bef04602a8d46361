--------------------------- MODULE Limiter_proofs ---------------------------
(***************************************************************************)
(* Proofs about Limiter, for every set of devices and rates, every length  *)
(* of the minute and every timing.                                         *)
(***************************************************************************)
EXTENDS Limiter, TLAPS

LEMMA MinOfPair ==
    ASSUME NEW x \in Int, NEW y \in Int
    PROVE  Min({x, y}) = IF x <= y THEN x ELSE y
<1> DEFINE m == IF x <= y THEN x ELSE y
<1>1. m \in {x, y} /\ \A z \in {x, y} : m <= z
  OBVIOUS
<1>2. \A n \in {x, y} : (\A z \in {x, y} : n <= z) => n = m
  OBVIOUS
<1> QED
  BY <1>1, <1>2 DEF Min

LEMMA TimesMonotone ==
    ASSUME NEW p \in Nat, NEW q \in Nat, NEW k \in Nat, p <= q
    PROVE  p * k \in Nat /\ p * k <= q * k
OBVIOUS

\* What one refill can add, and what it cannot take away.
LEMMA RefillBounds ==
    ASSUME NEW t \in Nat, NEW l \in Nat, NEW n \in Nat, l <= n,
           NEW p \in Rates \ {0}, t <= Burst(MaxRate)
    PROVE  LET r == Refill([tokens |-> t, last |-> l], p, n)
           IN  /\ r \in Buckets
               /\ r.last = n
               /\ r.tokens <= Burst(MaxRate)
               /\ r.tokens <= t + MaxRate * (n - l)
               /\ \/ r.tokens >= t + MinRate * (n - l)
                  \/ r.tokens >= Burst(MinRate)
<1> DEFINE e == n - l
           x == t + e * p
           y == p * Minute
<1>1. /\ p \in Nat /\ MinRate \in Nat /\ MaxRate \in Nat /\ Minute \in Nat
      /\ MinRate <= p /\ p <= MaxRate /\ e \in Nat
  BY RatesAssumption, MinuteAssumption
<1>2. /\ MinRate * Minute <= p * Minute /\ p * Minute <= MaxRate * Minute
      /\ MinRate * e <= p * e /\ p * e <= MaxRate * e
      /\ p * Minute \in Nat /\ p * e \in Nat
      /\ MinRate * e \in Nat /\ MinRate * Minute \in Nat
      /\ MaxRate * e \in Nat /\ MaxRate * Minute \in Nat
  BY <1>1, TimesMonotone
<1>3. e * p = p * e
  BY <1>1
<1>4. CASE n > l
  <2>1. Refill([tokens |-> t, last |-> l], p, n) = [tokens |-> Min({x, y}), last |-> n]
    BY <1>4 DEF Refill, Burst
  <2>2. x \in Nat /\ y \in Nat /\ x = t + p * e
    BY <1>2, <1>3
  <2>3. Min({x, y}) = IF x <= y THEN x ELSE y
    BY <2>2, MinOfPair
  <2> QED
    BY <1>2, <2>1, <2>2, <2>3 DEF Buckets, Burst
<1>5. CASE n = l
  <2>1. Refill([tokens |-> t, last |-> l], p, n) = [tokens |-> t, last |-> l]
    BY <1>5 DEF Refill
  <2>2. MaxRate * (n - l) = 0 /\ MinRate * (n - l) = 0
    BY <1>1, <1>5
  <2> QED
    BY <1>5, <2>1, <2>2 DEF Buckets
<1> QED
  BY <1>4, <1>5

\* The bucket a request finds, after its refill.
LEMMA FoundBucket ==
    ASSUME TypeOK, NEW d \in Devices, NEW p \in Rates \ {0}
    PROVE  LET r == Refill(BucketOf(d, p), p, now)
               b == bucket[d]
           IN  /\ r \in Buckets
               /\ r.last = now
               /\ r.tokens <= Burst(MaxRate)
               /\ b = None => r.tokens >= Burst(MinRate)
               /\ b # None => /\ r.tokens <= b.tokens + MaxRate * (now - b.last)
                              /\ \/ r.tokens >= b.tokens + MinRate * (now - b.last)
                                 \/ r.tokens >= Burst(MinRate)
<1>1. /\ p \in Nat /\ MinRate \in Nat /\ MaxRate \in Nat /\ Minute \in Nat
      /\ MinRate <= p /\ p <= MaxRate /\ now \in Nat
  BY RatesAssumption, MinuteAssumption DEF TypeOK
<1>2. CASE bucket[d] = None
  <2>1. BucketOf(d, p) = [tokens |-> Burst(p), last |-> now]
    BY <1>2 DEF BucketOf, FullBucket
  <2>2. Refill(BucketOf(d, p), p, now) = [tokens |-> Burst(p), last |-> now]
    BY <1>1, <2>1 DEF Refill
  <2>3. Burst(p) \in Nat /\ Burst(MinRate) <= Burst(p) /\ Burst(p) <= Burst(MaxRate)
    BY <1>1, TimesMonotone DEF Burst
  <2> QED
    BY <1>1, <1>2, <2>2, <2>3 DEF Buckets
<1>3. CASE bucket[d] # None
  <2>1. bucket[d] \in Buckets /\ bucket[d].last <= now
        /\ bucket[d].tokens <= Burst(MaxRate)
    BY <1>3 DEF TypeOK
  <2>2. PICK t \in Nat, l \in Nat : bucket[d] = [tokens |-> t, last |-> l]
    BY <2>1 DEF Buckets
  <2>3. BucketOf(d, p) = bucket[d]
    BY <1>3 DEF BucketOf
  <2> QED
    BY <1>1, <1>3, <2>1, <2>2, <2>3, RefillBounds
<1> QED
  BY <1>2, <1>3

-----------------------------------------------------------------------------
\* The limiter's state has the shapes of TypeOK: no bucket is overdrawn or
\* holds more than a burst.
THEOREM TypeCorrect == Spec => []TypeOK
<1>1. Init => TypeOK
  BY DEF Init, TypeOK, None
<1>2. TypeOK /\ [Next]_vars => TypeOK'
  <2> SUFFICES ASSUME TypeOK, [Next]_vars PROVE TypeOK'
    OBVIOUS
  <2>1. ASSUME NEW d \in Devices, NEW p \in Rates \ {0}, Admit(d, p) \/ Refuse(d, p)
        PROVE  TypeOK'
    <3> DEFINE r == Refill(BucketOf(d, p), p, now)
    <3>1. r \in Buckets /\ r.last = now /\ r.tokens <= Burst(MaxRate)
      BY FoundBucket
    <3>2. PICK nb \in Buckets :
             /\ bucket' = [bucket EXCEPT ![d] = nb]
             /\ nb.last = now /\ nb.tokens <= Burst(MaxRate)
      <4>1. CASE Admit(d, p)
        <5>1. r.tokens \in Nat /\ r.tokens - Minute \in Nat /\ Minute \in Nat
          BY <3>1, <4>1, MinuteAssumption DEF Admit, HasToken, Buckets
        <5>2. Take(r) = [tokens |-> r.tokens - Minute, last |-> now]
          BY <3>1 DEF Take, Buckets
        <5>3. r.tokens - Minute <= Burst(MaxRate)
          BY <3>1, <5>1, RatesAssumption, MinuteAssumption DEF Burst
        <5>4. now \in Nat
          BY DEF TypeOK
        <5>5. Take(r) \in Buckets
          BY <5>1, <5>2, <5>4 DEF Buckets
        <5>6. bucket' = [bucket EXCEPT ![d] = Take(r)]
          BY <4>1 DEF Admit
        <5>7. Take(r).last = now /\ Take(r).tokens <= Burst(MaxRate)
          BY <5>2, <5>3
        <5> QED
          BY <5>5, <5>6, <5>7
      <4>2. CASE Refuse(d, p)
        BY <3>1, <4>2 DEF Refuse
      <4> QED
        BY <2>1, <4>1, <4>2
    <3>3. now' = now
      BY <2>1 DEF Admit, Refuse
    <3>4. window' \in [device : Devices, since : Nat, count : Nat] /\ window'.since = window.since
      <4>1. window \in [device : Devices, since : Nat, count : Nat]
        BY DEF TypeOK
      <4>2. window' = window \/ window' = Counted(d)
        BY <2>1 DEF Admit, Refuse
      <4> QED
        BY <4>1, <4>2 DEF Counted
    <3> QED
      BY <3>2, <3>3, <3>4 DEF TypeOK
  <2>2. CASE Tick
    <3>1. now' = now + 1 /\ bucket' = bucket /\ window' = window
      BY <2>2 DEF Tick
    <3>2. \A d \in Devices : bucket[d].last \in Nat /\ bucket[d].last <= now
      BY DEF TypeOK, Buckets, None
    <3>3. now \in Nat /\ now' \in Nat /\ window.since \in Nat /\ window.since <= now
      BY <3>1 DEF TypeOK
    <3>4. (\A d \in Devices : bucket[d].last <= now') /\ window.since <= now'
      BY <3>1, <3>2, <3>3
    <3> QED
      BY <3>1, <3>3, <3>4 DEF TypeOK
  <2>3. CASE OpenWindow
    BY <2>3 DEF OpenWindow, TypeOK
  <2>4. CASE Unlimited \/ UNCHANGED vars
    BY <2>4 DEF Unlimited, vars, TypeOK
  <2> QED
    BY <2>1, <2>2, <2>3, <2>4 DEF Next
<1> QED
  BY <1>1, <1>2, PTL DEF Spec
-----------------------------------------------------------------------------
(* Both window properties follow from what the observed bucket holds: the  *)
(* tokens left and the tokens admitted since the window was opened lie     *)
(* between what the time since then must have refilled and what it can at  *)
(* most have added to a full bucket.                                       *)

Spent == window.count * Minute           \* the cost of what was admitted

Since(b) == b.last - window.since        \* ticks of the window the bucket has seen

Ledger ==
    LET b == bucket[window.device]
    IN  /\ b = None => window.count = 0
        /\ b # None /\ b.last < window.since => window.count = 0
        /\ b # None /\ window.since <= b.last =>
              /\ Spent + b.tokens <= Burst(MaxRate) + MaxRate * Since(b)
              /\ \/ Spent + b.tokens >= MinRate * Since(b)
                 \/ Spent + b.tokens >= Burst(MinRate)

\* Distributivity, over the amounts Ledger relates.
LEMMA SplitTime ==
    ASSUME NEW q \in Nat, NEW n \in Nat, NEW l \in Nat, NEW s \in Nat
    PROVE  q * (n - s) = q * (n - l) + q * (l - s)
OBVIOUS

\* A step that admits or refuses a request of the observed device keeps the
\* ledger of the refilled bucket.
LEMMA RefilledLedger ==
    ASSUME TypeOK, Ledger, NEW p \in Rates \ {0}
    PROVE  LET r == Refill(BucketOf(window.device, p), p, now)
           IN  /\ Spent + r.tokens <= Burst(MaxRate) + MaxRate * (now - window.since)
               /\ \/ Spent + r.tokens >= MinRate * (now - window.since)
                  \/ Spent + r.tokens >= Burst(MinRate)
<1> DEFINE d == window.device
           b == bucket[d]
           r == Refill(BucketOf(d, p), p, now)
<1>1. /\ d \in Devices /\ now \in Nat /\ window.since \in Nat
      /\ window.count \in Nat /\ window.since <= now
      /\ MinRate \in Nat /\ MaxRate \in Nat /\ Minute \in Nat
  BY RatesAssumption, MinuteAssumption DEF TypeOK
<1>2. /\ r.tokens \in Nat /\ r.tokens <= Burst(MaxRate)
      /\ b = None => r.tokens >= Burst(MinRate)
      /\ b # None => /\ r.tokens <= b.tokens + MaxRate * (now - b.last)
                     /\ \/ r.tokens >= b.tokens + MinRate * (now - b.last)
                        \/ r.tokens >= Burst(MinRate)
  BY <1>1, FoundBucket DEF Buckets
<1>3. /\ Spent \in Nat /\ Burst(MinRate) \in Nat /\ Burst(MaxRate) \in Nat
      /\ MaxRate * (now - window.since) \in Nat
      /\ MinRate * (now - window.since) \in Nat
  BY <1>1 DEF Spent, Burst
<1>4. CASE b = None
  <2>1. Spent = 0
    BY <1>1, <1>4 DEF Ledger, Spent
  <2> QED
    BY <1>2, <1>3, <1>4, <2>1
<1>5. CASE b # None /\ b.last < window.since
  <2>1. Spent = 0
    BY <1>1, <1>5 DEF Ledger, Spent
  <2>2. b.last \in Nat /\ b.tokens \in Nat
    BY <1>1, <1>5 DEF TypeOK, Buckets
  <2>3. MinRate * (now - window.since) <= MinRate * (now - b.last)
    BY <1>1, <1>5, <2>2, SplitTime
  <2>4. MinRate * (now - b.last) \in Nat
    BY <1>1, <1>5, <2>2
  <2> QED
    BY <1>2, <1>3, <1>5, <2>1, <2>2, <2>3, <2>4
<1>6. CASE b # None /\ window.since <= b.last
  <2>1. b.last \in Nat /\ b.tokens \in Nat /\ b.last <= now
    BY <1>1, <1>6 DEF TypeOK, Buckets
  <2>2. /\ Spent + b.tokens <= Burst(MaxRate) + MaxRate * (b.last - window.since)
        /\ \/ Spent + b.tokens >= MinRate * (b.last - window.since)
           \/ Spent + b.tokens >= Burst(MinRate)
    BY <1>6 DEF Ledger, Since
  <2>3. /\ MaxRate * (now - window.since)
               = MaxRate * (now - b.last) + MaxRate * (b.last - window.since)
        /\ MinRate * (now - window.since)
               = MinRate * (now - b.last) + MinRate * (b.last - window.since)
    BY <1>1, <2>1, SplitTime
  <2>4. /\ MaxRate * (now - b.last) \in Nat /\ MaxRate * (b.last - window.since) \in Nat
        /\ MinRate * (now - b.last) \in Nat /\ MinRate * (b.last - window.since) \in Nat
    BY <1>1, <1>6, <2>1
  <2> HIDE DEF r, b
  <2> QED
    BY <1>2, <1>3, <1>6, <2>1, <2>2, <2>3, <2>4 DEF r
<1>7. b # None => b.last \in Nat
  BY <1>1 DEF TypeOK, Buckets
<1> QED
  BY <1>1, <1>4, <1>5, <1>6, <1>7

\* The same, once the bucket is written back with s units spent on n requests.
LEMMA WrittenBack ==
    ASSUME TypeOK, TypeOK', Ledger, NEW p \in Rates \ {0}, NEW n \in {0, 1},
           window' = [window EXCEPT !.count = @ + n],
           LET r == Refill(BucketOf(window.device, p), p, now)
           IN  /\ bucket'[window.device].last = now
               /\ bucket'[window.device].tokens = r.tokens - n * Minute
               /\ r.tokens - n * Minute \in Nat
    PROVE  Ledger'
<1> DEFINE d == window.device
           b == bucket'[d]
           r == Refill(BucketOf(d, p), p, now)
<1>1. /\ d \in Devices /\ now \in Nat /\ window.since \in Nat
      /\ window.count \in Nat /\ window.since <= now /\ Minute \in Nat
  BY MinuteAssumption DEF TypeOK
<1>2. /\ window'.device = d /\ window'.since = window.since
      /\ window'.count = window.count + n
  BY DEF TypeOK
<1>3. Spent' = Spent + n * Minute /\ Spent \in Nat
  BY <1>1, <1>2 DEF Spent
<1>4. r.tokens \in Nat /\ r \in Buckets
  BY <1>1, FoundBucket DEF Buckets
<1>5. b.tokens = r.tokens - n * Minute /\ b.last = now
  OBVIOUS
<1>6. Spent' + b.tokens = Spent + r.tokens
  BY <1>1, <1>3, <1>4, <1>5
<1>7. /\ Spent' + b.tokens <= Burst(MaxRate) + MaxRate * (now - window.since)
      /\ \/ Spent' + b.tokens >= MinRate * (now - window.since)
         \/ Spent' + b.tokens >= Burst(MinRate)
  BY <1>6, RefilledLedger
<1>8. b.tokens \in Nat
  BY <1>5
<1>9. b # None
  BY <1>8 DEF None
<1>10. /\ bucket'[window'.device] = b
       /\ b.last - window'.since = now - window.since
       /\ ~(b.last < window'.since)
  BY <1>1, <1>2, <1>5
<1> HIDE DEF b, r
<1> QED
  BY <1>7, <1>9, <1>10 DEF Ledger, Since

\* The ledger of the observed bucket is kept by every step.
THEOREM LedgerInvariant == Spec => []Ledger
<1>1. Init => Ledger
  BY DEF Init, Ledger
<1>2. TypeOK /\ TypeOK' /\ Ledger /\ [Next]_vars => Ledger'
  <2> SUFFICES ASSUME TypeOK, TypeOK', Ledger, [Next]_vars PROVE Ledger'
    OBVIOUS
  <2>1. ASSUME NEW d \in Devices, NEW p \in Rates \ {0}, Admit(d, p) \/ Refuse(d, p)
        PROVE  Ledger'
    <3>1. CASE d # window.device
      BY <2>1, <3>1 DEF Admit, Refuse, Counted, Ledger, Spent, Since, TypeOK
    <3>2. CASE d = window.device
      <4> DEFINE r == Refill(BucketOf(d, p), p, now)
      <4>1. r \in Buckets /\ r.last = now /\ Minute \in Nat
        BY FoundBucket, MinuteAssumption
      <4>2. d \in DOMAIN bucket /\ window.count \in Nat
            /\ window \in [device : Devices, since : Nat, count : Nat]
        BY DEF TypeOK
      <4>3. CASE Admit(d, p)
        <5>1. r.tokens - Minute \in Nat /\ 1 * Minute = Minute
          BY <4>1, <4>3 DEF Admit, HasToken, Buckets
        <5>2. bucket'[d] = Take(r) /\ window' = [window EXCEPT !.count = @ + 1]
          BY <3>2, <4>2, <4>3 DEF Admit, Counted
        <5>3. Take(r).last = now /\ Take(r).tokens = r.tokens - Minute
          BY <4>1 DEF Take, Buckets
        <5> HIDE DEF r
        <5> QED
          BY <3>2, <5>1, <5>2, <5>3, WrittenBack DEF r
      <4>4. CASE Refuse(d, p)
        <5>1. r.tokens - 0 * Minute = r.tokens /\ r.tokens \in Nat
          BY <4>1 DEF Buckets
        <5>2. bucket'[d] = r /\ window' = [window EXCEPT !.count = @ + 0]
          BY <4>2, <4>4 DEF Refuse
        <5> HIDE DEF r
        <5> QED
          BY <3>2, <4>1, <5>1, <5>2, WrittenBack DEF r
      <4> QED
        BY <2>1, <4>3, <4>4
    <3> QED
      BY <3>1, <3>2
  <2>2. CASE Tick \/ Unlimited \/ UNCHANGED vars
    BY <2>2 DEF Tick, Unlimited, vars, Ledger, Spent, Since
  <2>3. CASE OpenWindow
    <3> DEFINE b == bucket[window'.device]
    <3>1. /\ window'.count = 0 /\ window'.since = now /\ bucket' = bucket
          /\ window'.device \in Devices
      BY <2>3 DEF OpenWindow
    <3>2. /\ now \in Nat /\ b.last <= now
          /\ b # None => b \in Buckets /\ b.tokens <= Burst(MaxRate)
      BY <3>1 DEF TypeOK
    <3>3. Spent' = 0 /\ MaxRate * 0 = 0 /\ MinRate * 0 = 0 /\ Burst(MaxRate) \in Nat
      BY <3>1, MinuteAssumption, RatesAssumption DEF Spent, Burst
    <3>4. b # None /\ window'.since <= b.last
             => b.tokens \in Nat /\ b.last - window'.since = 0
      BY <3>1, <3>2 DEF Buckets
    <3>5. bucket'[window'.device] = b
      BY <3>1
    <3> HIDE DEF b
    <3> QED
      BY <3>1, <3>2, <3>3, <3>4, <3>5 DEF Ledger, Since
  <2> QED
    BY <2>1, <2>2, <2>3 DEF Next
<1> QED
  BY <1>1, <1>2, TypeCorrect, PTL DEF Spec

\* Arithmetic of the bound: a minute costs at most two full bursts.
LEMMA TwoBursts ==
    ASSUME NEW q \in Nat, NEW m \in Nat \ {0}, NEW k \in Nat, NEW e \in 0 .. m,
           k * m <= q * m + q * e
    PROVE  k <= 2 * q
<1>1. q * e <= q * m /\ q * e \in Nat /\ q * m \in Nat
  BY TimesMonotone
<1>2. k * m <= (2 * q) * m
  BY <1>1
<1>3. k > 2 * q => (2 * q + 1) * m <= k * m
  BY TimesMonotone
<1>4. (2 * q + 1) * m = (2 * q) * m + m
  OBVIOUS
<1> QED
  BY <1>1, <1>2, <1>3, <1>4

\* In no window of one minute does the limiter admit more than twice the
\* largest rate, for every rate, minute and timing.
THEOREM QuotaHolds == Spec => []QuotaBound
<1>1. TypeOK /\ Ledger => QuotaBound
  <2> SUFFICES ASSUME TypeOK, Ledger, now <= window.since + Minute
               PROVE  window.count <= 2 * MaxRate
    BY DEF QuotaBound
  <2> DEFINE b == bucket[window.device]
  <2>1. /\ window.count \in Nat /\ window.since \in Nat /\ now \in Nat
        /\ Minute \in Nat \ {0} /\ MaxRate \in Nat /\ window.device \in Devices
    BY MinuteAssumption, RatesAssumption DEF TypeOK
  <2>2. b # None => b.tokens \in Nat /\ b.last \in Nat /\ b.last <= now
    BY <2>1 DEF TypeOK, Buckets
  <2>3. CASE b # None /\ window.since <= b.last
    <3>1. b.last - window.since \in 0 .. Minute
      BY <2>1, <2>2, <2>3
    <3>2. Spent + b.tokens <= Burst(MaxRate) + MaxRate * (b.last - window.since)
      BY <2>3 DEF Ledger, Since
    <3>3. /\ Spent \in Nat /\ Burst(MaxRate) \in Nat
          /\ MaxRate * (b.last - window.since) \in Nat
      BY <2>1, <3>1 DEF Spent, Burst
    <3>4. window.count * Minute <= MaxRate * Minute + MaxRate * (b.last - window.since)
      BY <2>2, <2>3, <3>2, <3>3 DEF Spent, Burst
    <3> QED
      BY <2>1, <3>1, <3>4, TwoBursts
  <2>4. CASE b = None \/ b.last < window.since
    <3>1. window.count = 0
      BY <2>4 DEF Ledger
    <3> QED
      BY <2>1, <3>1
  <2> QED
    BY <2>1, <2>2, <2>3, <2>4
<1> QED
  BY <1>1, TypeCorrect, LedgerInvariant, PTL

\* A bucket that cannot pay has admitted a minute's quota in every window
\* that has been open for a minute or more.
THEOREM NoRefusalWithinRate == Spec => []NoEarlyRefusal
<1>1. TypeOK /\ Ledger => NoEarlyRefusal
  <2> DEFINE b == bucket[window.device]
  <2> SUFFICES ASSUME TypeOK, Ledger, b # None, b.last = now,
                      window.since + Minute <= now, ~HasToken(b)
               PROVE  window.count >= MinRate
    BY DEF NoEarlyRefusal
  <2>1. /\ window.count \in Nat /\ window.since \in Nat /\ now \in Nat
        /\ Minute \in Nat \ {0} /\ MinRate \in Nat \ {0} /\ window.device \in Devices
    BY MinuteAssumption, RatesAssumption DEF TypeOK
  <2>2. b.tokens \in Nat /\ b.tokens < Minute
    BY <2>1 DEF TypeOK, Buckets, HasToken
  <2>3. Spent + b.tokens >= MinRate * Minute
    <3>1. MinRate * Minute <= MinRate * (now - window.since)
      <4>1. now - window.since \in Nat /\ Minute <= now - window.since
        BY <2>1
      <4>2. /\ Minute * MinRate <= (now - window.since) * MinRate
        BY <2>1, <4>1, TimesMonotone
      <4> QED
        BY <2>1, <4>1, <4>2
    <3>2. \/ Spent + b.tokens >= MinRate * (now - window.since)
          \/ Spent + b.tokens >= MinRate * Minute
      BY <2>1 DEF Ledger, Since, Burst
    <3>3. /\ Spent \in Nat /\ MinRate * Minute \in Nat
          /\ MinRate * (now - window.since) \in Int
      BY <2>1 DEF Spent
    <3> QED
      BY <2>2, <3>1, <3>2, <3>3
  <2>4. window.count < MinRate => window.count * Minute + Minute <= MinRate * Minute
    <3>1. window.count < MinRate => (window.count + 1) * Minute <= MinRate * Minute
      BY <2>1, TimesMonotone
    <3>2. (window.count + 1) * Minute = window.count * Minute + Minute
      BY <2>1
    <3> QED
      BY <3>1, <3>2
  <2>5. window.count * Minute \in Nat /\ MinRate * Minute \in Nat
    BY <2>1
  <2> HIDE DEF b
  <2> QED
    BY <2>1, <2>2, <2>3, <2>4, <2>5 DEF Spent
<1> QED
  BY <1>1, TypeCorrect, LedgerInvariant, PTL
=============================================================================
