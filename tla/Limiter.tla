------------------------------- MODULE Limiter -------------------------------
(***************************************************************************)
(* internal/ratelimit/bucket.go: the limiter as its callers see it.        *)
(* Requests of any device ask for a token at any time; Allow runs under    *)
(* the limiter's lock and reads the clock inside it, so it is one step.    *)
(* The rate comes with each request: a reload of the device table may      *)
(* change it while the bucket lives on.                                    *)
(*                                                                         *)
(* An observer opens a window on one device at any moment and counts what  *)
(* the limiter admits from there on.                                       *)
(***************************************************************************)
EXTENDS Bucket

CONSTANTS
    Devices,          \* the labels buckets are keyed by
    Rates,            \* the perMinute values requests come with
    MinRate, MaxRate, \* the limits of the positive ones
    Horizon           \* bound: ticks of a behaviour

ASSUME RatesAssumption ==
    /\ Rates \subseteq Nat
    /\ MinRate \in Nat \ {0} /\ MaxRate \in Nat
    /\ \A p \in Rates \ {0} : MinRate <= p /\ p <= MaxRate

VARIABLES
    now,              \* l.now()
    bucket,           \* l.m: the buckets made so far
    window            \* the observer: device, start, requests admitted since

vars == <<now, bucket, window>>

None == [tokens |-> -1, last |-> 0]      \* no entry in l.m

Init == /\ now = 0
        /\ bucket = [d \in Devices |-> None]
        /\ window \in [device : Devices, since : {0}, count : {0}]

BucketOfEmpty(d, p) ==                   \* a new bucket starts empty
    IF bucket[d] = None THEN EmptyBucket(p, now) ELSE bucket[d]

\* The bucket of d as Allow finds it: made full on the first request.
BucketOf(d, p) ==
    IF bucket[d] = None THEN FullBucket(p, now) ELSE bucket[d]

Counted(d) == [window EXCEPT !.count = IF d = window.device THEN @ + 1 ELSE @]

\* Allow with perMinute <= 0: no limit, and no bucket.
Unlimited ==
    /\ 0 \in Rates
    /\ UNCHANGED vars

Admit(d, p) ==
    LET b == Refill(BucketOf(d, p), p, now)
    IN  /\ HasToken(b)
        /\ bucket' = [bucket EXCEPT ![d] = Take(b)]
        /\ window' = Counted(d)
        /\ UNCHANGED now

Refuse(d, p) ==
    LET b == Refill(BucketOf(d, p), p, now)
    IN  /\ ~HasToken(b)
        /\ bucket' = [bucket EXCEPT ![d] = b]
        /\ UNCHANGED <<now, window>>

Tick == /\ now < Horizon
        /\ now' = now + 1
        /\ UNCHANGED <<bucket, window>>

OpenWindow == /\ window' \in [device : Devices, since : {now}, count : {0}]
              /\ UNCHANGED <<now, bucket>>

Next == \/ \E d \in Devices, p \in Rates \ {0} : Admit(d, p) \/ Refuse(d, p)
        \/ Unlimited
        \/ Tick
        \/ OpenWindow

Spec == Init /\ [][Next]_vars

-----------------------------------------------------------------------------
(* Properties *)

Buckets == [tokens : Nat, last : Nat]

\* Token counts never go negative and no bucket is refilled from the future.
TypeOK ==
    /\ now \in Nat
    /\ bucket \in [Devices -> Buckets \cup {None}]
    /\ \A d \in Devices : bucket[d].last <= now
    /\ \A d \in Devices : bucket[d] # None => bucket[d].tokens <= Burst(MaxRate)
    /\ window \in [device : Devices, since : Nat, count : Nat]
    /\ window.since <= now

\* Whatever the timing and however the rate changes on the way, no window of
\* one minute admits more than twice the largest rate: a full bucket and
\* what a minute refills (the burst cap, and last moving with each refill).
QuotaBound ==
    now <= window.since + Minute => window.count <= 2 * MaxRate

\* A bucket that cannot pay for a request has admitted, in any window that
\* has been open for a minute or more, at least a minute's quota: a device
\* that stays within its rate is never answered 429 (a bucket starts full
\* and is refilled for all the time that passed).
NoEarlyRefusal ==
    LET b == bucket[window.device]
    IN  b # None /\ b.last = now /\ window.since + Minute <= now /\ ~HasToken(b)
        => window.count >= MinRate
=============================================================================
