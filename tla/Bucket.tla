------------------------------- MODULE Bucket -------------------------------
(***************************************************************************)
(* internal/ratelimit/bucket.go: what Limiter.Allow does to one bucket.    *)
(*                                                                         *)
(* The code counts tokens in a float64 and refills perMinute/60 a second.  *)
(* Here a minute has Minute ticks and a token Minute units, so that a tick *)
(* refills perMinute units and every amount is an integer.  Rounding of    *)
(* the float64 is not modelled.                                            *)
(***************************************************************************)
EXTENDS Integers, FiniteSetsExt

CONSTANT Minute      \* ticks of the limiter's clock in a minute

ASSUME MinuteAssumption == Minute \in Nat \ {0}

Burst(perMinute) == perMinute * Minute

FullBucket(perMinute, now) == [tokens |-> Burst(perMinute), last |-> now]

EmptyBucket(perMinute, now) == [tokens |-> 0, last |-> now]

RefillUncapped(b, perMinute, now) ==
    IF now > b.last
    THEN [tokens |-> b.tokens + (now - b.last) * perMinute, last |-> now]
    ELSE b

\* Refill for the time passed since the last refill, up to the burst.
Refill(b, perMinute, now) ==
    IF now > b.last
    THEN [tokens |-> Min({b.tokens + (now - b.last) * perMinute, Burst(perMinute)}),
          last |-> now]
    ELSE b

HasToken(b) == b.tokens >= Minute

Take(b) == [b EXCEPT !.tokens = @ - Minute]
=============================================================================
