---------------------------- MODULE Chain_proofs ----------------------------
(***************************************************************************)
(* Proofs about Chain, for any tunnels, devices, token pools, requests and *)
(* numbers of attempts: what is sent upstream, how often and in whose name,*)
(* and that a request whose client has gone comes to its end.              *)
(***************************************************************************)
EXTENDS Chain, TLAPS, SequenceTheorems, FiniteSetTheorems

\* The token in a request's context is its device's, or there is none and the
\* request has no credential.
RealRight(c) ==
    /\ pc[c] = "auth" => real[c] = NoToken
    /\ pc[c] \in {"limit", "send", "wait", "sleep", "copy"} =>
          IF HasInboundCredential(req[c])
          THEN real[c] \in TokensFor(device[c]) \ {NoToken}
          ELSE real[c] = NoToken

\* An attempt is due only where one is left, and only the first with a body.
SendsRight(c) ==
    /\ pc[c] \in {"auth", "limit"} => sends[c] = 0
    /\ pc[c] \in {"send", "sleep"} =>
          sends[c] < MaxSends /\ (req[c].body => sends[c] = 0)

Inv == DOMAIN out = Conns /\ \A c \in Conns : RealRight(c) /\ SendsRight(c)

IInv == TypeOK /\ Inv /\ SwapSound /\ BodySentOnce

-----------------------------------------------------------------------------
\* What PickToken returns is a token of the pool or the legacy one, and if it
\* returns one it is the device's.
LEMMA PickedIsDevices ==
    ASSUME NEW d
    PROVE  /\ PickToken(d.upstream) \in Tokens
           /\ PickToken(d.upstream) # NoToken => PickToken(d.upstream) \in TokensFor(d)
<1>1. CASE Pool = <<>>
  BY <1>1 DEF PickToken, Tokens, TokensFor
<1>2. CASE Pool # <<>> /\ d.upstream = ""
  <2>1. 1 \in DOMAIN Pool
    <3>1. Pool \in Seq({Pool[i] : i \in DOMAIN Pool})
      BY UpstreamAssumption
    <3>2. Len(Pool) \in Nat \ {0} /\ DOMAIN Pool = 1 .. Len(Pool)
      BY <1>2, <3>1, EmptySeq, LenProperties
    <3> QED BY <3>2
  <2> QED BY <1>2, <2>1 DEF PickToken, Tokens, TokensFor
<1>3. CASE Pool # <<>> /\ d.upstream # ""
  <2>1. CASE \E i \in DOMAIN Pool : Pool[i].id = d.upstream
    <3> DEFINE k == CHOOSE i \in DOMAIN Pool : Pool[i].id = d.upstream
    <3>1. k \in DOMAIN Pool /\ Pool[k].id = d.upstream
      BY <2>1
    <3>2. PickToken(d.upstream) = Pool[k].token
      BY <1>3, <2>1 DEF PickToken
    <3> HIDE DEF k
    <3> QED BY <1>3, <3>1, <3>2 DEF Tokens, TokensFor
  <2>2. CASE ~\E i \in DOMAIN Pool : Pool[i].id = d.upstream
    BY <1>3, <2>2 DEF PickToken, Tokens
  <2> QED BY <2>1, <2>2
<1> QED BY <1>1, <1>2, <1>3

LEMMA InitIInv == Init => IInv
<1> SUFFICES ASSUME Init PROVE IInv
  OBVIOUS
<1>1. TypeOK
  BY BoundsAssumption DEF Init, TypeOK, PCs, Tokens
<1>2. Inv /\ SwapSound /\ BodySentOnce
  BY DEF Init, Inv, RealRight, SendsRight, SwapSound, BodySentOnce
<1> QED BY <1>1, <1>2 DEF IInv

LEMMA NextIInv == IInv /\ [Next]_vars => IInv'
<1> SUFFICES ASSUME IInv, [Next]_vars PROVE IInv'
  OBVIOUS
<1> USE BoundsAssumption
    DEF IInv, TypeOK, Inv, RealRight, SendsRight, SwapSound, BodySentOnce, limitVars, PCs
<1>1. CASE Tick \/ OpenWindow \/ UNCHANGED vars
  BY <1>1 DEF Tick, OpenWindow, connVars, vars
<1>2. ASSUME NEW c \in Conns, Ask(c) PROVE IInv'
  <2>1. TypeOK'
    BY <1>2, RequestsAssumption DEF Ask, Tokens
  <2>2. Inv'
    BY <1>2 DEF Ask
  <2>3. SwapSound' /\ BodySentOnce'
    BY <1>2 DEF Ask
  <2> QED BY <2>1, <2>2, <2>3
<1>3. ASSUME NEW c \in Conns, ClientLeaves(c) PROVE IInv'
  <2>1. TypeOK'
    BY <1>3 DEF ClientLeaves
  <2>2. Inv'
    BY <1>3 DEF ClientLeaves
  <2>3. SwapSound' /\ BodySentOnce'
    BY <1>3 DEF ClientLeaves
  <2> QED BY <2>1, <2>2, <2>3
<1>4. ASSUME NEW c \in Conns, Hangup(c) PROVE IInv'
  <2>1. TypeOK'
    BY <1>4 DEF Hangup
  <2>2. Inv'
    BY <1>4 DEF Hangup
  <2>3. SwapSound' /\ BodySentOnce'
    BY <1>4 DEF Hangup
  <2> QED BY <2>1, <2>2, <2>3
<1>5. ASSUME NEW c \in Conns, Anonymous(c) PROVE IInv'
  <2>1. TypeOK'
    BY <1>5 DEF Anonymous
  <2>2. Inv'
    BY <1>5 DEF Anonymous
  <2>3. SwapSound' /\ BodySentOnce'
    BY <1>5 DEF Anonymous
  <2> QED BY <2>1, <2>2, <2>3
<1>6. ASSUME NEW c \in Conns, Authenticated(c) PROVE IInv'
  <2>1. TypeOK'
    BY <1>6, PickedIsDevices DEF Authenticated
  <2>2. Inv'
    BY <1>6, PickedIsDevices DEF Authenticated
  <2>3. SwapSound' /\ BodySentOnce'
    BY <1>6 DEF Authenticated
  <2> QED BY <2>1, <2>2, <2>3
<1>7. ASSUME NEW c \in Conns, Unauthenticated(c) PROVE IInv'
  <2>1. TypeOK'
    BY <1>7 DEF Unauthenticated, Finish
  <2>2. Inv'
    BY <1>7 DEF Unauthenticated, Finish
  <2>3. SwapSound' /\ BodySentOnce'
    BY <1>7 DEF Unauthenticated, Finish
  <2> QED BY <2>1, <2>2, <2>3
<1>8. ASSUME NEW c \in Conns, Exempt(c) PROVE IInv'
  <2>1. TypeOK'
    BY <1>8 DEF Exempt
  <2>2. Inv'
    BY <1>8 DEF Exempt
  <2>3. SwapSound' /\ BodySentOnce'
    BY <1>8 DEF Exempt
  <2> QED BY <2>1, <2>2, <2>3
<1>9. ASSUME NEW c \in Conns, Admit(c) PROVE IInv'
  <2>1. TypeOK'
    BY <1>9 DEF Admit
  <2>2. Inv'
    BY <1>9 DEF Admit
  <2>3. SwapSound' /\ BodySentOnce'
    BY <1>9 DEF Admit
  <2> QED BY <2>1, <2>2, <2>3
<1>10. ASSUME NEW c \in Conns, Refuse(c) PROVE IInv'
  <2>1. TypeOK'
    BY <1>10 DEF Refuse, Finish
  <2>2. Inv'
    BY <1>10 DEF Refuse, Finish
  <2>3. SwapSound' /\ BodySentOnce'
    BY <1>10 DEF Refuse, Finish
  <2> QED BY <2>1, <2>2, <2>3
<1>11. ASSUME NEW c \in Conns, Send(c) PROVE IInv'
  <2>1. TypeOK'
    BY <1>11 DEF Send
  <2>2. Inv'
    BY <1>11 DEF Send
  <2>3. /\ \A e \in Conns : e # c => /\ out'[e] = out[e] /\ pc'[e] = pc[e]
                                     /\ sends'[e] = sends[e]
        /\ out'[c] = Rewritten(req[c], real[c]) /\ sends'[c] = sends[c] + 1
        /\ UNCHANGED <<req, real, device>> /\ pc[c] = "send"
    BY <1>11 DEF Send
  <2>4. BodySentOnce'
    BY <2>3
  <2>5. IF HasInboundCredential(req[c])
        THEN out'[c].auth \in TokensFor(device[c]) \ {NoToken} /\ ~out'[c].key
        ELSE out'[c] = [auth |-> req[c].auth, key |-> req[c].key]
    BY <2>3 DEF Rewritten
  <2>6. SwapSound'
    BY <2>3, <2>5
  <2> QED BY <2>1, <2>2, <2>4, <2>6
<1>12. ASSUME NEW c \in Conns, Response(c) PROVE IInv'
  <2>1. TypeOK'
    BY <1>12 DEF Response
  <2>2. Inv'
    BY <1>12 DEF Response
  <2>3. SwapSound' /\ BodySentOnce'
    BY <1>12 DEF Response
  <2> QED BY <2>1, <2>2, <2>3
<1>13. ASSUME NEW c \in Conns, AttemptFails(c) PROVE IInv'
  <2>1. TypeOK'
    <3>1. CASE CanRetry(c)
      <4>1. pc' = [pc EXCEPT ![c] = "sleep"]
            /\ UNCHANGED <<limitVars, reached, req, real, sends, out, answer, logged, gone,
                           unread, asked, device>>
        BY <1>13, <3>1 DEF AttemptFails
      <4> QED BY <4>1
    <3>2. CASE ~CanRetry(c)
      <4>1. /\ pc' = [pc EXCEPT ![c] = "idle"]
            /\ answer' = [answer EXCEPT ![c] = "502"]
            /\ UNCHANGED <<limitVars, reached, req, real, sends, gone, asked, device>>
        BY <1>13, <3>2 DEF AttemptFails, Finish
      <4>2. logged' \in [Conns -> BOOLEAN] /\ unread' \in [Conns -> BOOLEAN]
        BY <1>13, <3>2 DEF AttemptFails, Finish
      <4> QED BY <4>1, <4>2
    <3> QED BY <3>1, <3>2
  <2>2. Inv'
    <3>1. CASE CanRetry(c)
      <4>1. pc' = [pc EXCEPT ![c] = "sleep"] /\ sends[c] < MaxSends /\ ~req[c].body
        BY <1>13, <3>1 DEF AttemptFails, CanRetry
      <4>2. pc[c] = "wait" /\ UNCHANGED <<req, real, sends, out, device>>
        BY <1>13 DEF AttemptFails
      <4> QED BY <4>1, <4>2
    <3>2. CASE ~CanRetry(c)
      BY <1>13, <3>2 DEF AttemptFails, Finish
    <3> QED BY <3>1, <3>2
  <2>3. SwapSound' /\ BodySentOnce'
    BY <1>13 DEF AttemptFails, Finish, CanRetry
  <2> QED BY <2>1, <2>2, <2>3
<1>14. ASSUME NEW c \in Conns, Wake(c) PROVE IInv'
  <2>1. TypeOK'
    BY <1>14 DEF Wake
  <2>2. Inv'
    BY <1>14 DEF Wake
  <2>3. SwapSound' /\ BodySentOnce'
    BY <1>14 DEF Wake
  <2> QED BY <2>1, <2>2, <2>3
<1>15. ASSUME NEW c \in Conns, CopyDone(c) PROVE IInv'
  <2>1. TypeOK'
    BY <1>15 DEF CopyDone, Finish
  <2>2. Inv'
    BY <1>15 DEF CopyDone, Finish
  <2>3. SwapSound' /\ BodySentOnce'
    BY <1>15 DEF CopyDone, Finish
  <2> QED BY <2>1, <2>2, <2>3
<1>16. ASSUME NEW c \in Conns, CopyAborts(c) PROVE IInv'
  <2>1. TypeOK'
    BY <1>16 DEF CopyAborts
  <2>2. Inv'
    BY <1>16 DEF CopyAborts
  <2>3. SwapSound' /\ BodySentOnce'
    BY <1>16 DEF CopyAborts
  <2> QED BY <2>1, <2>2, <2>3
<1>17. ASSUME NEW c \in Conns, BodyRead(c) PROVE IInv'
  <2>1. TypeOK'
    BY <1>17 DEF BodyRead
  <2>2. Inv'
    BY <1>17 DEF BodyRead
  <2>3. SwapSound' /\ BodySentOnce'
    BY <1>17 DEF BodyRead
  <2> QED BY <2>1, <2>2, <2>3
<1> QED BY <1>1, <1>2, <1>3, <1>4, <1>5, <1>6, <1>7, <1>8, <1>9, <1>10, <1>11, <1>12,
           <1>13, <1>14, <1>15, <1>16, <1>17
        DEF Next, Client, Auth, Limit, Forward

LEMMA Invariance == Spec => []IInv
  BY InitIInv, NextIInv, PTL DEF Spec

-----------------------------------------------------------------------------
\* The states keep the shapes the code gives them: no request is sent more
\* often than retryTransport has delays for.
THEOREM TypeCorrect == Spec => []TypeOK
  BY Invariance, PTL DEF IInv

\* Every attempt of every request carries its own device's token in place of
\* what the client sent, or is untouched and without any.
THEOREM SwapIsSound == Spec => []SwapSound
  BY Invariance, PTL DEF IInv

\* A body is sent at most once, over all attempts.
THEOREM BodyGoesOnce == Spec => []BodySentOnce
  BY Invariance, PTL DEF IInv

\* The rates requests come with are positive.
LEMMA RatesPositive ==
    ASSUME NEW c \in Conns, device \in DeviceMaps
    PROVE  RateOf(device[c]) \in Rates \ {0} /\ device[c].label \in Labels
  BY RateAssumption DEF RateOf, Rates, Labels

\* The requests of all tunnels together use the limiter as Limiter says.
THEOREM ChainUsesLimiter == Spec => UsesLimiter
<1>1. Init => L!Init
  BY DEF Init, L!Init, None, L!None
<1>2. TypeOK /\ [Next]_vars => [L!Next]_L!vars
  <2> SUFFICES ASSUME TypeOK, Next PROVE L!Next \/ UNCHANGED L!vars
    BY DEF vars, limitVars, L!vars
  <2>1. ASSUME NEW c \in Conns PROVE BucketFor(c) =
            L!Refill(L!BucketOf(device[c].label, RateOf(device[c])), RateOf(device[c]), now)
    <3>1. BucketFor(c) =
            Refill(L!BucketOf(device[c].label, RateOf(device[c])), RateOf(device[c]), now)
      BY DEF BucketFor, L!BucketOf, None, L!None, FullBucket, L!FullBucket, Burst, L!Burst
    <3>2. ASSUME NEW b, NEW p, NEW n PROVE Refill(b, p, n) = L!Refill(b, p, n)
      BY DEF Refill, L!Refill, Min, L!Min, Burst, L!Burst
    <3> QED BY <3>1, <3>2
  <2>2. ASSUME NEW c \in Conns, Admit(c)
        PROVE  L!Admit(device[c].label, RateOf(device[c]))
    <3> DEFINE b == L!Refill(L!BucketOf(device[c].label, RateOf(device[c])), RateOf(device[c]), now)
    <3>1. HasToken(b) /\ bucket' = [bucket EXCEPT ![device[c].label] = Take(b)] /\ UNCHANGED now
      BY <2>1, <2>2 DEF Admit
    <3>2. window' = L!Counted(device[c].label)
      BY <2>2 DEF Admit, L!Counted
    <3>3. L!HasToken(b) /\ bucket' = [bucket EXCEPT ![device[c].label] = L!Take(b)]
      <4> HIDE DEF b
      <4> QED BY <3>1 DEF HasToken, L!HasToken, Take, L!Take
    <3> HIDE DEF b
    <3> QED BY <3>1, <3>2, <3>3 DEF L!Admit, b
  <2>3. ASSUME NEW c \in Conns, Refuse(c)
        PROVE  L!Refuse(device[c].label, RateOf(device[c]))
    BY <2>1, <2>3 DEF Refuse, L!Refuse, HasToken, L!HasToken
  <2>4. ASSUME NEW c \in Conns, Admit(c) \/ Refuse(c) PROVE L!Next
    <3>1. RateOf(device[c]) \in Rates \ {0} /\ device[c].label \in Labels
      BY RatesPositive DEF TypeOK
    <3> QED BY <2>2, <2>3, <2>4, <3>1 DEF L!Next
  <2>5. CASE Tick \/ OpenWindow
    BY <2>5 DEF Tick, OpenWindow, L!Next, L!Tick, L!OpenWindow
  <2>6. ASSUME NEW c \in Conns, Client(c) \/ Auth(c) \/ Exempt(c) \/ Forward(c)
        PROVE  UNCHANGED L!vars
    BY <2>6 DEF Client, Ask, ClientLeaves, Hangup, Auth, Anonymous, Authenticated,
                Unauthenticated, Exempt, Forward, Send, BodyRead, Response, AttemptFails, Wake,
                CopyDone, CopyAborts, limitVars, L!vars
  <2> QED BY <2>4, <2>5, <2>6 DEF Next, Limit
<1> QED BY <1>1, <1>2, TypeCorrect, PTL DEF Spec, UsesLimiter, L!Spec
-----------------------------------------------------------------------------
(* UpstreamQuota.  What the observed bucket holds and what was admitted     *)
(* since the window opened are together at most a burst and the refill of  *)
(* the time passed, by any rate none of the device's tunnels exceeds       *)
(* (Ledger); and what was admitted or was on its way when the window       *)
(* opened bounds what was sent (Account).                                  *)

Buckets == [tokens : Nat, last : Nat]

\* No tunnel of l has a rate above T.
AtMost(l, T) == \A e \in TunnelsOf(l) : RateOf(device[e]) <= T

LimitTypes ==
    /\ now \in Nat
    /\ bucket \in [Labels -> Buckets \cup {None}]
    /\ \A l \in Labels : bucket[l].last <= now
    /\ window \in [device : Labels, since : Nat, count : Nat]
    /\ window.since <= now

Held == \A l \in Labels, T \in Nat :
           AtMost(l, T) /\ bucket[l] # None => bucket[l].tokens <= Burst(T)

Ledger ==
    LET b == bucket[window.device]
    IN  /\ b = None \/ b.last < window.since => window.count = 0
        /\ b # None /\ window.since <= b.last =>
              \A T \in Nat : AtMost(window.device, T) =>
                 window.count * Minute + b.tokens <= Burst(T) + T * (b.last - window.since)

\* Admitted by the limiter, charged to the observed device and not yet sent.
Due == {c \in Conns : /\ pc[c] = "send" /\ sends[c] = 0 /\ ~req[c].exempt
                      /\ device[c].label = window.device}

Account ==
    /\ reached + Cardinality(Due) <= window.count + Cardinality(TunnelsOf(window.device))
    /\ \A c \in Conns : pc[c] \in {"wait", "sleep"} => sends[c] > 0

QuotaInv == LimitTypes /\ Held /\ Ledger /\ Account

\* What the limit of a device comes to.
LEMMA DeviceRates ==
    ASSUME NEW c \in Conns, device \in DeviceMaps
    PROVE  RateOf(device[c]) \in Nat \ {0} /\ device[c].label \in Labels
  BY RateAssumption DEF RateOf, Labels

LEMMA MinOfPair ==
    ASSUME NEW x \in Int, NEW y \in Int
    PROVE  Min({x, y}) = IF x <= y THEN x ELSE y
<1> DEFINE m == IF x <= y THEN x ELSE y
<1>1. m \in {x, y} /\ \A z \in {x, y} : m <= z
  OBVIOUS
<1>2. \A n \in {x, y} : (\A z \in {x, y} : n <= z) => n = m
  OBVIOUS
<1> QED
  BY <1>1, <1>2 DEF Min

LEMMA TimesMonotone ==
    ASSUME NEW p \in Nat, NEW q \in Nat, NEW k \in Nat, p <= q
    PROVE  p * k \in Nat /\ q * k \in Nat /\ p * k <= q * k
OBVIOUS

LEMMA SplitTime ==
    ASSUME NEW q \in Nat, NEW n \in Nat, NEW l \in Nat, NEW s \in Nat
    PROVE  q * (n - s) = q * (n - l) + q * (l - s)
OBVIOUS

\* A refill adds at most what any larger rate would, up to its burst.
LEMMA RefillBounds ==
    ASSUME NEW t \in Nat, NEW l \in Nat, NEW n \in Nat, l <= n, NEW p \in Nat
    PROVE  LET r == Refill([tokens |-> t, last |-> l], p, n)
           IN  /\ r \in Buckets /\ r.last = n
               /\ \A T \in Nat : p <= T /\ t <= Burst(T) =>
                     r.tokens <= Burst(T) /\ r.tokens <= t + T * (n - l)
<1> DEFINE e == n - l
           x == t + e * p
           y == p * Minute
<1>1. Minute \in Nat /\ e \in Nat
  BY MinuteAssumption
<1>2. e * p = p * e /\ p * e \in Nat /\ p * Minute \in Nat
  BY <1>1
<1>3. CASE n > l
  <2>1. Refill([tokens |-> t, last |-> l], p, n) = [tokens |-> Min({x, y}), last |-> n]
    BY <1>3 DEF Refill, Burst
  <2>2. x \in Nat /\ y \in Nat /\ x = t + p * e
    BY <1>2
  <2>3. Min({x, y}) = IF x <= y THEN x ELSE y
    BY <2>2, MinOfPair
  <2>4. ASSUME NEW T \in Nat, p <= T PROVE y <= Burst(T) /\ x <= t + T * (n - l)
    <3>1. p * Minute <= T * Minute /\ p * e <= T * e /\ T * e \in Nat
      BY <1>1, <2>4, TimesMonotone
    <3> QED
      BY <1>2, <2>2, <3>1 DEF Burst
  <2>5. ASSUME NEW T \in Nat PROVE Burst(T) \in Nat /\ T * (n - l) \in Nat
    BY <1>1 DEF Burst
  <2> HIDE DEF x, y
  <2> QED
    BY <2>1, <2>2, <2>3, <2>4, <2>5 DEF Buckets
<1>4. CASE n = l
  <2>1. Refill([tokens |-> t, last |-> l], p, n) = [tokens |-> t, last |-> l]
    BY <1>4 DEF Refill
  <2>2. \A T \in Nat : T * (n - l) = 0
    BY <1>4
  <2> QED
    BY <1>4, <2>1, <2>2 DEF Buckets
<1> QED
  BY <1>3, <1>4

\* The bucket a request finds, after its refill.
LEMMA FoundBucket ==
    ASSUME TypeOK, LimitTypes, Held, NEW c \in Conns
    PROVE  LET l == device[c].label
               r == BucketFor(c)
               b == bucket[l]
           IN  /\ l \in Labels /\ r \in Buckets /\ r.last = now
               /\ \A T \in Nat : AtMost(l, T) =>
                     /\ r.tokens <= Burst(T)
                     /\ b # None => r.tokens <= b.tokens + T * (now - b.last)
<1> DEFINE l == device[c].label
           p == RateOf(device[c])
           b == bucket[l]
<1>1. l \in Labels /\ p \in Nat /\ now \in Nat /\ Minute \in Nat
  BY RateAssumption, MinuteAssumption, DeviceRates DEF TypeOK, LimitTypes
<1>2. \A T \in Nat : AtMost(l, T) => p <= T
  BY DEF AtMost, TunnelsOf
<1>3. \A T \in Nat : AtMost(l, T) => p * Minute <= T * Minute
  BY <1>1, <1>2, TimesMonotone
<1>4. CASE b = None
  <2>1. BucketFor(c) = [tokens |-> p * Minute, last |-> now]
    BY <1>1, <1>4 DEF BucketFor, FullBucket, Refill, Burst
  <2>2. p * Minute \in Nat
    BY <1>1
  <2> QED
    BY <1>1, <1>3, <1>4, <2>1, <2>2 DEF Buckets, Burst
<1>5. CASE b # None
  <2>1. b \in Buckets /\ b.last <= now
    BY <1>1, <1>5 DEF LimitTypes
  <2>2. PICK t \in Nat, k \in Nat : b = [tokens |-> t, last |-> k]
    BY <2>1 DEF Buckets
  <2>3. BucketFor(c) = Refill([tokens |-> t, last |-> k], p, now) /\ k <= now
    BY <1>5, <2>1, <2>2 DEF BucketFor
  <2>4. \A T \in Nat : AtMost(l, T) => t <= Burst(T)
    BY <1>1, <1>5, <2>2 DEF Held
  <2> HIDE DEF b, l, p
  <2>5. /\ BucketFor(c) \in Buckets /\ BucketFor(c).last = now
        /\ \A T \in Nat : p <= T /\ t <= Burst(T) =>
              BucketFor(c).tokens <= Burst(T) /\ BucketFor(c).tokens <= t + T * (now - k)
    BY <1>1, <2>3, RefillBounds
  <2>6. b.tokens = t /\ b.last = k
    BY <2>2
  <2> QED
    BY <1>1, <1>2, <2>4, <2>5, <2>6 DEF b, l
<1> QED
  BY <1>4, <1>5

\* With the refilled bucket in place of the one before, the ledger still holds.
LEMMA RefilledLedger ==
    ASSUME TypeOK, LimitTypes, Held, Ledger, NEW c \in Conns,
           device[c].label = window.device, NEW T \in Nat, AtMost(window.device, T)
    PROVE  window.count * Minute + BucketFor(c).tokens
              <= Burst(T) + T * (now - window.since)
<1> DEFINE b == bucket[window.device]
           spent == window.count * Minute
<1>1. /\ window.device \in Labels /\ now \in Nat /\ window.since \in Nat
      /\ window.count \in Nat /\ window.since <= now /\ Minute \in Nat
  BY MinuteAssumption DEF LimitTypes
<1>2. /\ BucketFor(c).tokens \in Nat /\ BucketFor(c).tokens <= Burst(T)
      /\ b # None => BucketFor(c).tokens <= b.tokens + T * (now - b.last)
  BY FoundBucket DEF Buckets
<1>3. spent \in Nat /\ Burst(T) \in Nat /\ T * (now - window.since) \in Nat
  BY <1>1 DEF Burst
<1>4. CASE b = None \/ b.last < window.since
  <2>1. spent = 0
    BY <1>1, <1>4 DEF Ledger
  <2> HIDE DEF spent
  <2> QED
    BY <1>2, <1>3, <2>1 DEF spent
<1>5. CASE b # None /\ window.since <= b.last
  <2>1. b.last \in Nat /\ b.tokens \in Nat /\ b.last <= now
    BY <1>1, <1>5 DEF LimitTypes, Buckets
  <2>2. spent + b.tokens <= Burst(T) + T * (b.last - window.since)
    BY <1>5 DEF Ledger
  <2>3. T * (now - window.since) = T * (now - b.last) + T * (b.last - window.since)
    <3>1. ASSUME NEW l \in Nat
          PROVE  T * (now - window.since) = T * (now - l) + T * (l - window.since)
      BY <1>1, SplitTime
    <3> QED
      BY <2>1, <3>1, Zenon
  <2>4. T * (now - b.last) \in Nat /\ T * (b.last - window.since) \in Nat
    BY <1>1, <1>5, <2>1
  <2>5. BucketFor(c).tokens <= b.tokens + T * (now - b.last)
    BY <1>2, <1>5
  <2> HIDE DEF spent, b
  <2>6. spent + BucketFor(c).tokens <= Burst(T) + T * (now - window.since)
    BY <1>2, <1>3, <2>1, <2>2, <2>3, <2>4, <2>5
  <2> QED
    BY <2>6 DEF spent
<1>6. b # None => b.last \in Nat
  BY <1>1 DEF LimitTypes, Buckets
<1> QED
  BY <1>1, <1>4, <1>5, <1>6

\* Steps that leave the limiter alone.
LEMMA LimitKept ==
    ASSUME LimitTypes, Held, Ledger, UNCHANGED <<limitVars, device>>
    PROVE  LimitTypes' /\ Held' /\ Ledger'
BY DEF LimitTypes, Held, Ledger, AtMost, TunnelsOf, limitVars

\* A request is admitted (n = 1) or refused (n = 0).
LEMMA LimitCharged ==
    ASSUME TypeOK, LimitTypes, Held, Ledger, NEW c \in Conns, Admit(c) \/ Refuse(c)
    PROVE  LimitTypes' /\ Held' /\ Ledger'
<1> DEFINE l == device[c].label
           r == BucketFor(c)
<1>1. /\ l \in Labels /\ r \in Buckets /\ r.last = now /\ Minute \in Nat \ {0}
      /\ r.tokens \in Nat
      /\ \A T \in Nat : AtMost(l, T) => r.tokens <= Burst(T)
  BY FoundBucket, MinuteAssumption DEF Buckets
<1> HIDE DEF r
<1>2. PICK n \in {0, 1} :
        /\ n * Minute <= r.tokens
        /\ bucket' = [bucket EXCEPT ![l] = [tokens |-> r.tokens - n * Minute, last |-> now]]
        /\ window' = [window EXCEPT !.count = IF l = window.device THEN @ + n ELSE @]
        /\ UNCHANGED <<now, device>>
  <2>1. r = [tokens |-> r.tokens, last |-> now]
    BY <1>1 DEF Buckets
  <2>2. CASE Admit(c)
    <3>1. 1 * Minute = Minute
      BY <1>1
    <3>2. Take(r) = [tokens |-> r.tokens - 1 * Minute, last |-> now]
      BY <2>1, <3>1 DEF Take
    <3>3. 1 * Minute <= r.tokens
      BY <1>1, <2>2, <3>1 DEF Admit, HasToken, r
    <3>4. /\ bucket' = [bucket EXCEPT ![l] = Take(r)]
          /\ window' = [window EXCEPT !.count = IF l = window.device THEN @ + 1 ELSE @]
          /\ UNCHANGED <<now, device>>
      BY <2>2 DEF Admit, r
    <3> QED
      BY <3>2, <3>3, <3>4
  <2>3. CASE Refuse(c)
    <3>1. 0 * Minute = 0 /\ r.tokens - 0 * Minute = r.tokens
      BY <1>1
    <3>2. bucket' = [bucket EXCEPT ![l] = r] /\ UNCHANGED <<now, window, device>>
      BY <2>3 DEF Refuse, r
    <3>3. window \in [device : Labels, since : Nat, count : Nat]
      BY DEF LimitTypes
    <3>4. window = [window EXCEPT !.count = IF l = window.device THEN @ + 0 ELSE @]
      BY <3>3
    <3>5. r = [tokens |-> r.tokens - 0 * Minute, last |-> now] /\ 0 * Minute <= r.tokens
      BY <1>1, <2>1, <3>1
    <3>6. /\ bucket' = [bucket EXCEPT ![l] = [tokens |-> r.tokens - 0 * Minute, last |-> now]]
          /\ window' = [window EXCEPT !.count = IF l = window.device THEN @ + 0 ELSE @]
      BY <3>2, <3>4, <3>5
    <3> QED
      BY <3>2, <3>5, <3>6
  <2> QED
    BY <2>2, <2>3
<1> DEFINE w == r.tokens - n * Minute
           nb == [tokens |-> w, last |-> now]
<1>3. w \in Nat /\ w <= r.tokens /\ n * Minute \in Nat
  BY <1>1, <1>2
<1>4. now \in Nat /\ nb \in Buckets /\ nb # None
  BY <1>3 DEF LimitTypes, Buckets, None
<1>5. \A k \in Labels : bucket'[k] = IF k = l THEN nb ELSE bucket[k]
  BY <1>1, <1>2 DEF LimitTypes
<1>6. /\ window' \in [device : Labels, since : Nat, count : Nat]
      /\ window'.device = window.device /\ window'.since = window.since
      /\ window'.count = IF l = window.device THEN window.count + n ELSE window.count
      /\ window.count \in Nat /\ window.since \in Nat /\ window.device \in Labels
  BY <1>2 DEF LimitTypes
<1>7. \A k, T : AtMost(k, T)' <=> AtMost(k, T)
  BY <1>2 DEF AtMost, TunnelsOf
<1>8. LimitTypes'
  <2>1. bucket' \in [Labels -> Buckets \cup {None}]
    BY <1>2, <1>4 DEF LimitTypes
  <2>2. \A k \in Labels : bucket'[k].last <= now'
    BY <1>2, <1>4, <1>5 DEF LimitTypes
  <2> QED
    BY <1>2, <1>6, <2>1, <2>2 DEF LimitTypes
<1>9. Held'
  <2> SUFFICES ASSUME NEW k \in Labels, NEW T \in Nat, AtMost(k, T), bucket'[k] # None
               PROVE  bucket'[k].tokens <= Burst(T)
    BY <1>7 DEF Held
  <2>1. CASE k = l
    <3>1. r.tokens <= Burst(T) /\ Burst(T) \in Nat
      BY <1>1, <2>1 DEF Burst
    <3> QED
      BY <1>1, <1>3, <1>5, <2>1, <3>1
  <2>2. CASE k # l
    BY <1>5, <2>2 DEF Held
  <2> QED
    BY <2>1, <2>2
<1>10. Ledger'
  <2>1. CASE l # window.device
    BY <1>2, <1>5, <1>6, <1>7, <2>1 DEF Ledger
  <2>2. CASE l = window.device
    <3>1. bucket'[window'.device] = nb /\ nb.tokens = w /\ nb.last = now
      BY <1>5, <1>6, <2>2
    <3>2. window'.count * Minute + w = window.count * Minute + r.tokens
      <4>1. window'.count * Minute = window.count * Minute + n * Minute
        BY <1>1, <1>2, <1>6, <2>2
      <4>2. window.count * Minute \in Nat
        BY <1>1, <1>6
      <4> QED
        BY <1>1, <1>3, <4>1, <4>2
    <3>3. ASSUME NEW T \in Nat, AtMost(window.device, T)
          PROVE  window'.count * Minute + w <= Burst(T) + T * (now - window.since)
      BY <2>2, <3>2, <3>3, RefilledLedger DEF r
    <3>4. ~(now < window.since)
      BY <1>4, <1>6 DEF LimitTypes
    <3> HIDE DEF nb, w
    <3> QED
      BY <1>4, <1>6, <1>7, <3>1, <3>3, <3>4 DEF Ledger
  <2> QED
    BY <2>1, <2>2
<1> QED
  BY <1>8, <1>9, <1>10

\* Time passes, or the observer starts again.
LEMMA LimitWatched ==
    ASSUME LimitTypes, Held, Ledger, Tick \/ OpenWindow
    PROVE  LimitTypes' /\ Held' /\ Ledger'
<1>1. UNCHANGED <<bucket, device>>
  BY DEF Tick, OpenWindow, connVars
<1>2. Held' /\ \A k, T : AtMost(k, T)' <=> AtMost(k, T)
  BY <1>1 DEF Held, AtMost, TunnelsOf
<1>3. now \in Nat /\ \A k \in Labels : bucket[k].last \in Int /\ bucket[k].last <= now
  BY DEF LimitTypes, Buckets, None
<1>4. CASE Tick
  <2>1. now' = now + 1 /\ window' = window
    BY <1>4 DEF Tick
  <2> QED
    BY <1>1, <1>2, <1>3, <2>1 DEF LimitTypes, Ledger
<1>5. CASE OpenWindow
  <2>1. /\ window' \in [device : Labels, since : {now}, count : {0}] /\ now' = now
    BY <1>5 DEF OpenWindow
  <2>2. LimitTypes'
    BY <1>1, <1>3, <2>1 DEF LimitTypes
  <2> DEFINE d == window'.device
             b == bucket[d]
  <2>3. d \in Labels /\ window'.since = now /\ window'.count = 0 /\ b.last <= now
        /\ b.last \in Int
    BY <1>3, <2>1
  <2>4. ASSUME b # None, window'.since <= b.last, NEW T \in Nat, AtMost(d, T)
        PROVE  window'.count * Minute + b.tokens <= Burst(T) + T * (b.last - window'.since)
    <3>1. b.tokens \in Nat /\ b.tokens <= Burst(T) /\ Burst(T) \in Nat
      BY <2>3, <2>4, MinuteAssumption DEF Held, LimitTypes, Buckets, Burst
    <3>2. b.last - window'.since = 0
      BY <1>3, <2>3, <2>4
    <3>3. T * 0 = 0 /\ 0 * Minute = 0
      BY MinuteAssumption
    <3> HIDE DEF b
    <3> QED
      BY <2>3, <3>1, <3>2, <3>3
  <2>5. Ledger'
    BY <1>1, <1>2, <2>3, <2>4 DEF Ledger
  <2> QED
    BY <1>2, <2>2, <2>5
<1> QED
  BY <1>4, <1>5

-----------------------------------------------------------------------------
LEMMA Fewer ==
    ASSUME NEW S, IsFiniteSet(S), NEW T, T \subseteq S
    PROVE  /\ Cardinality(T) <= Cardinality(S)
           /\ Cardinality(S) \in Nat /\ Cardinality(T) \in Nat /\ IsFiniteSet(T)
BY FS_Subset, FS_CardinalityType

\* Every tunnel that was charged and not sent is one of the device's.
LEMMA DueWithin ==
    /\ Due \subseteq TunnelsOf(window.device)
    /\ (Due \subseteq TunnelsOf(window.device))'
    /\ TunnelsOf(window.device) \subseteq Conns
    /\ (TunnelsOf(window.device) \subseteq Conns)'
BY DEF Due, TunnelsOf

LEMMA AccountStep ==
    ASSUME IInv, LimitTypes, Account, [Next]_vars
    PROVE  Account'
<1> DEFINE ours == TunnelsOf(window.device)
           first == \A c \in Conns : pc[c] \in {"wait", "sleep"} => sends[c] > 0
<1>1. /\ reached \in Nat /\ sends \in [Conns -> Nat] /\ pc \in [Conns -> PCs]
      /\ window \in [device : Labels, since : Nat, count : Nat] /\ window.count \in Nat
  BY BoundsAssumption DEF IInv, TypeOK, LimitTypes
<1>2. /\ IsFiniteSet(ours) /\ IsFiniteSet(ours') /\ IsFiniteSet(Due)
      /\ Cardinality(Due) \in Nat /\ Cardinality(ours) \in Nat
      /\ Cardinality(Due') \in Nat /\ Cardinality(ours') \in Nat
      /\ Cardinality(Due') <= Cardinality(ours')
  <2> HIDE DEF ours
  <2>1. ours \subseteq Conns /\ ours' \subseteq Conns /\ Due \subseteq ours /\ Due' \subseteq ours'
    BY DueWithin DEF ours
  <2>2. IsFiniteSet(ours) /\ IsFiniteSet(ours')
    BY <2>1, ConnsFinite, Fewer
  <2> QED
    BY <2>1, <2>2, Fewer
<1>3. reached + Cardinality(Due) <= window.count + Cardinality(ours) /\ first
  BY DEF Account
<1>4. device' = device
  BY DEF Next, vars, connVars, Tick, OpenWindow, Client, Ask, ClientLeaves, Hangup, Auth,
     Anonymous, Authenticated, Unauthenticated, Limit, Exempt, Admit, Refuse, Forward, Send,
     BodyRead, Response, AttemptFails, Wake, CopyDone, CopyAborts
<1>5. window'.device = window.device => ours' = ours
  BY <1>4 DEF TunnelsOf
\* Steps after which nothing more is due and nothing more was sent.
<1>6. ASSUME Due' \subseteq Due, UNCHANGED <<window, reached>>, first' PROVE Account'
  <2>1. Cardinality(Due') <= Cardinality(Due)
    BY <1>2, <1>6, Fewer
  <2>2. reached' + Cardinality(Due') <= window'.count + Cardinality(ours')
    BY <1>1, <1>2, <1>3, <1>5, <1>6, <2>1
  <2> QED
    BY <1>6, <2>2 DEF Account
<1>7. CASE OpenWindow
  <2>1. reached' = 0 /\ window'.count = 0 /\ UNCHANGED <<pc, sends>>
    BY <1>7 DEF OpenWindow, connVars
  <2>2. reached' + Cardinality(Due') <= window'.count + Cardinality(ours')
    BY <1>2, <2>1
  <2> QED
    BY <1>3, <2>1, <2>2 DEF Account
<1>8. CASE Tick \/ UNCHANGED vars \/ \E c \in Conns : BodyRead(c)
  <2>1. UNCHANGED <<window, reached, pc, sends, req, device>>
    BY <1>8 DEF Tick, BodyRead, vars, limitVars, connVars
  <2> QED
    BY <1>3, <1>6, <2>1 DEF Due
\* Steps of one tunnel, to a place where nothing of it is due.
<1>9. ASSUME NEW c \in Conns, UNCHANGED <<window, reached, device>>,
             \A e \in Conns : e # c => pc'[e] = pc[e] /\ sends'[e] = sends[e] /\ req'[e] = req[e],
             pc'[c] # "send" \/ sends'[c] # 0 \/ req'[c].exempt,
             pc'[c] \in {"wait", "sleep"} => sends'[c] > 0
      PROVE  Account'
  <2>1. Due' \subseteq Due
    BY <1>9 DEF Due
  <2>2. first'
    BY <1>3, <1>9
  <2> QED
    BY <1>6, <1>9, <2>1, <2>2
<1>10. ASSUME NEW c \in Conns, Ask(c) \/ ClientLeaves(c) \/ Hangup(c) \/ Auth(c) \/ Refuse(c)
       PROVE  Account'
  <2>1. /\ UNCHANGED <<window, reached, device>>
        /\ \A e \in Conns : e # c => pc'[e] = pc[e] /\ sends'[e] = sends[e] /\ req'[e] = req[e]
    BY <1>1, <1>10 DEF Ask, ClientLeaves, Hangup, Auth, Anonymous, Authenticated,
       Unauthenticated, Refuse, Finish, limitVars, IInv, TypeOK
  <2>2. CASE ClientLeaves(c)
    <3>1. UNCHANGED <<pc, sends, req>>
      BY <2>2 DEF ClientLeaves
    <3> QED
      BY <1>3, <1>6, <2>1, <3>1 DEF Due
  <2>3. CASE ~ClientLeaves(c)
    <3>1. pc'[c] \notin {"send", "wait", "sleep"}
      BY <1>1, <1>10, <2>3 DEF Ask, Hangup, Auth, Anonymous, Authenticated, Unauthenticated,
         Refuse, Finish
    <3> QED
      BY <1>9, <2>1, <3>1
  <2> QED
    BY <2>2, <2>3
<1>11. ASSUME NEW c \in Conns, Exempt(c) \/ Response(c) \/ AttemptFails(c) \/ Wake(c)
                               \/ CopyDone(c) \/ CopyAborts(c)
       PROVE  Account'
  <2>1. /\ UNCHANGED <<window, reached, device, sends, req>>
        /\ \A e \in Conns : e # c => pc'[e] = pc[e]
    BY <1>1, <1>11 DEF Exempt, Response, AttemptFails, Wake, CopyDone, CopyAborts, Finish,
       limitVars
  <2>2. CASE Exempt(c)
    <3>1. pc'[c] = "send" /\ req[c].exempt
      BY <1>1, <2>2 DEF Exempt
    <3> QED
      BY <1>9, <2>1, <3>1
  <2>3. CASE AttemptFails(c) \/ Wake(c)
    <3>1. sends[c] > 0 /\ sends[c] \in Nat
      BY <1>1, <1>3, <2>3 DEF AttemptFails, Wake
    <3> QED
      BY <1>9, <2>1, <3>1
  <2>4. CASE Response(c) \/ CopyDone(c) \/ CopyAborts(c)
    <3>1. pc'[c] \notin {"send", "wait", "sleep"}
      BY <1>1, <2>4 DEF Response, CopyDone, CopyAborts, Finish
    <3> QED
      BY <1>9, <2>1, <3>1
  <2> QED
    BY <1>11, <2>2, <2>3, <2>4
\* A charged request of the device: one more is due, and one more counted.
<1>12. ASSUME NEW c \in Conns, Admit(c) PROVE Account'
  <2>1. /\ UNCHANGED <<reached, device, sends, req>> /\ pc' = [pc EXCEPT ![c] = "send"]
        /\ window' = [window EXCEPT !.count = IF device[c].label = window.device
                                              THEN @ + 1 ELSE @]
        /\ pc[c] = "limit"
    BY <1>12 DEF Admit
  <2>2. first' /\ window'.device = window.device
    BY <1>1, <1>3, <2>1
  <2>3. CASE device[c].label = window.device
    <3>1. Due' \subseteq Due \cup {c} /\ c \notin Due
      BY <1>1, <2>1, <2>2 DEF Due
    <3>2. Cardinality(Due \cup {c}) = Cardinality(Due) + 1 /\ IsFiniteSet(Due \cup {c})
      BY <1>2, <3>1, FS_AddElement
    <3>3. Cardinality(Due') <= Cardinality(Due) + 1
      BY <3>1, <3>2, Fewer
    <3>4. window'.count = window.count + 1
      BY <1>1, <2>1, <2>3
    <3>5. reached' + Cardinality(Due') <= window'.count + Cardinality(ours')
      BY <1>1, <1>2, <1>3, <1>5, <2>1, <2>2, <3>3, <3>4
    <3> QED
      BY <2>2, <3>5 DEF Account
  <2>4. CASE device[c].label # window.device
    <3>1. Due' \subseteq Due /\ window' = window
      BY <1>1, <2>1, <2>4 DEF Due
    <3> QED
      BY <1>6, <2>1, <2>2, <3>1
  <2> QED
    BY <2>3, <2>4
\* A first attempt of the device: one less is due, and one more was sent.
<1>13. ASSUME NEW c \in Conns, Send(c) PROVE Account'
  <2>1. /\ UNCHANGED <<window, device, req>> /\ pc' = [pc EXCEPT ![c] = "wait"]
        /\ sends' = [sends EXCEPT ![c] = @ + 1] /\ pc[c] = "send"
        /\ reached' = IF c \in Due THEN reached + 1 ELSE reached
    BY <1>13 DEF Send, Due, limitVars
  <2>2. /\ pc'[c] = "wait" /\ sends'[c] = sends[c] + 1 /\ sends[c] \in Nat
        /\ \A e \in Conns : e # c => pc'[e] = pc[e] /\ sends'[e] = sends[e]
    BY <1>1, <2>1
  <2>3. first'
    BY <1>3, <2>2
  <2>4. Due' \subseteq Due \ {c}
    BY <2>1, <2>2 DEF Due
  <2>5. CASE c \in Due
    <3>1. Cardinality(Due \ {c}) = Cardinality(Due) - 1 /\ IsFiniteSet(Due \ {c})
      BY <1>2, <2>5, FS_RemoveElement
    <3>2. Cardinality(Due') <= Cardinality(Due) - 1
      BY <2>4, <3>1, Fewer
    <3>3. reached' + Cardinality(Due') <= window'.count + Cardinality(ours')
      BY <1>1, <1>2, <1>3, <1>5, <2>1, <2>5, <3>2
    <3> QED
      BY <2>3, <3>3 DEF Account
  <2>6. CASE c \notin Due
    BY <1>6, <2>1, <2>3, <2>4, <2>6
  <2> QED
    BY <2>5, <2>6
<1> QED
  BY <1>7, <1>8, <1>10, <1>11, <1>12, <1>13 DEF Next, Client, Limit, Forward

LEMMA InitQuota == Init => QuotaInv
<1> SUFFICES ASSUME Init PROVE QuotaInv
  OBVIOUS
<1>1. LimitTypes /\ Held /\ Ledger
  BY DEF Init, LimitTypes, Held, Ledger, None
<1>2. Due = {}
  BY DEF Init, Due
<1>3. Cardinality(Due) = 0
  BY <1>2, FS_EmptySet
<1>4. Cardinality(TunnelsOf(window.device)) \in Nat
  BY DueWithin, ConnsFinite, Fewer
<1>5. window.count = 0 /\ reached = 0 /\ \A c \in Conns : pc[c] = "idle"
  BY DEF Init
<1> QED
  BY <1>1, <1>3, <1>4, <1>5 DEF QuotaInv, Account

LEMMA NextQuota == IInv /\ QuotaInv /\ [Next]_vars => QuotaInv'
<1> SUFFICES ASSUME IInv, QuotaInv, [Next]_vars PROVE QuotaInv'
  OBVIOUS
<1>1. Account'
  BY AccountStep DEF QuotaInv
<1>2. CASE Tick \/ OpenWindow
  BY <1>1, <1>2, LimitWatched DEF QuotaInv
<1>3. ASSUME NEW c \in Conns, Admit(c) \/ Refuse(c) PROVE QuotaInv'
  BY <1>1, <1>3, LimitCharged DEF QuotaInv, IInv
<1>4. ASSUME NEW c \in Conns, Client(c) \/ Auth(c) \/ Exempt(c) \/ Forward(c)
      PROVE  UNCHANGED <<limitVars, device>>
  BY <1>4 DEF Client, Ask, ClientLeaves, Hangup, Auth, Anonymous, Authenticated,
     Unauthenticated, Exempt, Forward, Send, BodyRead, Response, AttemptFails, Wake, CopyDone,
     CopyAborts
<1>5. UNCHANGED vars => UNCHANGED <<limitVars, device>>
  BY DEF vars, connVars
<1>6. UNCHANGED <<limitVars, device>> => QuotaInv'
  BY <1>1, LimitKept DEF QuotaInv
<1> QED
  BY <1>2, <1>3, <1>4, <1>5, <1>6 DEF Next, Limit

\* Requests of one device on all its tunnels reach the upstream no faster than
\* RateLimitByDevice lets them, by the largest limit a reload left any of the
\* tunnels with, whatever the number of tunnels, the rates and the timing; but
\* for one request a tunnel that was admitted before the window.
THEOREM QuotaReachesUpstream == Spec => []UpstreamQuota
<1>1. IInv /\ QuotaInv => UpstreamQuota
  <2> SUFFICES ASSUME IInv, QuotaInv, NEW c \in TunnelsOf(window.device), Fastest(c),
                      now <= window.since + Minute
               PROVE  reached <= 2 * RateOf(device[c])
                                   + Cardinality(TunnelsOf(window.device))
    BY DEF UpstreamQuota
  <2> DEFINE T == RateOf(device[c])
             b == bucket[window.device]
  <2>1. c \in Conns /\ device[c].label = window.device
    BY DEF TunnelsOf
  <2>2. T \in Nat /\ AtMost(window.device, T)
    BY <2>1, DeviceRates DEF IInv, TypeOK, Fastest, AtMost
  <2>3. /\ now \in Nat /\ window.since \in Nat /\ window.count \in Nat
        /\ window.device \in Labels /\ Minute \in Nat \ {0} /\ reached \in Nat
    BY MinuteAssumption DEF QuotaInv, LimitTypes, IInv, TypeOK
  <2> HIDE DEF T
  <2>4. window.count <= 2 * T
    <3>1. CASE b = None \/ b.last < window.since
      BY <2>2, <2>3, <3>1 DEF QuotaInv, Ledger
    <3>2. CASE b # None /\ window.since <= b.last
      <4>1. b.last \in Nat /\ b.tokens \in Nat /\ b.last <= now
        BY <2>3, <3>2 DEF QuotaInv, LimitTypes, Buckets
      <4>2. window.count * Minute + b.tokens <= T * Minute + T * (b.last - window.since)
        BY <2>2, <3>2 DEF QuotaInv, Ledger, Burst
      <4>3. b.last - window.since \in Nat /\ b.last - window.since <= Minute
        BY <2>3, <3>2, <4>1
      <4>4. T * (b.last - window.since) <= T * Minute /\ T * Minute \in Nat
            /\ T * (b.last - window.since) \in Nat
        <5>1. PICK e \in Nat : e = b.last - window.since
          BY <4>3
        <5>2. e * T <= Minute * T /\ e * T \in Nat /\ Minute * T \in Nat
          BY <2>2, <2>3, <4>3, <5>1, TimesMonotone
        <5>3. e * T = T * e /\ Minute * T = T * Minute
          BY <2>2, <2>3
        <5> QED
          BY <5>1, <5>2, <5>3
      <4>5. window.count * Minute \in Nat
        BY <2>3
      <4> HIDE DEF b
      <4>6. window.count * Minute <= T * Minute + T * Minute
        BY <4>1, <4>2, <4>4, <4>5
      <4>7. window.count > 2 * T => (2 * T + 1) * Minute <= window.count * Minute
        BY <2>2, <2>3, TimesMonotone
      <4>8. (2 * T + 1) * Minute = T * Minute + T * Minute + Minute
        BY <2>2, <2>3
      <4> QED
        BY <2>2, <2>3, <4>4, <4>5, <4>6, <4>7, <4>8
    <3>3. b # None => b.last \in Int
      BY <2>3 DEF QuotaInv, LimitTypes, Buckets
    <3> QED
      BY <2>3, <3>1, <3>2, <3>3
  <2>5. reached + Cardinality(Due) <= window.count + Cardinality(TunnelsOf(window.device))
    BY DEF QuotaInv, Account
  <2>6. Cardinality(Due) \in Nat /\ Cardinality(TunnelsOf(window.device)) \in Nat
    BY DueWithin, ConnsFinite, Fewer
  <2>7. reached <= 2 * T + Cardinality(TunnelsOf(window.device))
    BY <2>2, <2>3, <2>4, <2>5, <2>6
  <2> QED
    BY <2>7 DEF T
<1>2. Spec => []QuotaInv
  BY Invariance, InitQuota, NextQuota, PTL DEF Spec
<1> QED
  BY <1>1, <1>2, Invariance, PTL
-----------------------------------------------------------------------------
(* Liveness.  The prover cannot expand ENABLED, so the fairness of FairSpec *)
(* is written out with the guards of the steps in its place: a step whose   *)
(* guard holds from some moment on is taken again and again.                *)
ScheduledConn(c) ==
    /\ <>[](pc[c] = "auth") => []<><<Auth(c)>>_vars
    /\ <>[](pc[c] = "limit") => []<><<Limit(c)>>_vars
    /\ <>[](pc[c] = "send") => []<><<Send(c)>>_vars
    /\ <>[](pc[c] = "sleep") => []<><<Wake(c)>>_vars
    /\ <>[](pc[c] = "wait" /\ gone[c] /\ ~unread[c])
         => []<><<gone[c] /\ ~unread[c] /\ AttemptFails(c)>>_vars
    /\ <>[](pc[c] = "copy" /\ gone[c] /\ ~unread[c])
         => []<><<gone[c] /\ ~unread[c] /\ CopyAborts(c)>>_vars
    /\ <>[](pc[c] = "idle" /\ gone[c]) => []<><<Hangup(c)>>_vars

Scheduled == \A c \in Conns : ScheduledConn(c)

\* A request whose client is gone, at l; and one with k attempts made.
Left(c, l)     == gone[c] /\ pc[c] = l
LeftAt(c, l, k) == gone[c] /\ pc[c] = l /\ sends[c] = k

\* After k attempts the next one is made, or the last of them answered or
\* given up, or the pause before the next is over.
MakesNext(c, k) == LeftAt(c, "send", k) ~> LeftAt(c, "wait", k + 1)
GivesUp(c, k)   ==
    LeftAt(c, "wait", k) ~> LeftAt(c, "sleep", k) \/ Left(c, "copy") \/ Left(c, "idle")
WakesUp(c, k)   == LeftAt(c, "sleep", k) ~> LeftAt(c, "send", k)

LocalVars(c) == <<pc[c], sends[c], gone[c], unread[c]>>

\* Other connections, the clock and the observed window leave it alone.
LEMMA OthersLeaveItAlone ==
    ASSUME TypeOK, NEW c \in Conns,
           \/ Tick \/ OpenWindow \/ UNCHANGED vars
           \/ \E d \in Conns \ {c} : Client(d) \/ Auth(d) \/ Limit(d) \/ Forward(d)
    PROVE  UNCHANGED LocalVars(c)
<1> USE DEF LocalVars
<1>1. CASE Tick \/ OpenWindow \/ UNCHANGED vars
  BY <1>1 DEF Tick, OpenWindow, connVars, vars
<1>2. ASSUME NEW d \in Conns \ {c}, Client(d) PROVE UNCHANGED LocalVars(c)
  BY <1>2 DEF Client, Ask, ClientLeaves, Hangup, TypeOK
<1>3. ASSUME NEW d \in Conns \ {c}, Auth(d) PROVE UNCHANGED LocalVars(c)
  BY <1>3 DEF Auth, Anonymous, Authenticated, Unauthenticated, Finish, TypeOK
<1>4. ASSUME NEW d \in Conns \ {c}, Limit(d) PROVE UNCHANGED LocalVars(c)
  BY <1>4 DEF Limit, Exempt, Admit, Refuse, Finish, TypeOK
<1>5. ASSUME NEW d \in Conns \ {c}, Forward(d) PROVE UNCHANGED LocalVars(c)
  BY <1>5 DEF Forward, Send, BodyRead, Response, AttemptFails, Wake, CopyDone, CopyAborts, Finish, TypeOK
<1> QED
  BY <1>1, <1>2, <1>3, <1>4, <1>5

\* The steps of a request whose client is gone: a further attempt is made only
\* while the attempts are not used up, and no further request is read.
\* A body that was read to its end stays so.
Moves(c) ==
    /\ gone[c] => (gone[c])'
    /\ gone[c] /\ ~unread[c] => ~(unread[c])'
    /\ Left(c, "auth") => Left(c, "auth")' \/ Left(c, "limit")' \/ Left(c, "idle")'
    /\ Left(c, "limit")
         => Left(c, "limit")' \/ LeftAt(c, "send", 0)' \/ Left(c, "idle")'
    /\ \A k \in 0 .. MaxSends - 1 :
          /\ LeftAt(c, "send", k) => LeftAt(c, "send", k)' \/ LeftAt(c, "wait", k + 1)'
          /\ LeftAt(c, "wait", k)
               => \/ LeftAt(c, "wait", k)' \/ LeftAt(c, "sleep", k)'
                  \/ Left(c, "copy")' \/ Left(c, "idle")'
          /\ LeftAt(c, "sleep", k) => LeftAt(c, "sleep", k)' \/ LeftAt(c, "send", k)'
    /\ LeftAt(c, "wait", MaxSends)
         => LeftAt(c, "wait", MaxSends)' \/ Left(c, "copy")' \/ Left(c, "idle")'
    /\ Left(c, "copy") => Left(c, "copy")' \/ Left(c, "idle")' \/ Left(c, "closed")'
    /\ Left(c, "idle") => Left(c, "idle")' \/ Left(c, "closed")'

\* Every step is such a move.
LEMMA GoneMovesOn ==
    ASSUME TypeOK, Inv, NEW c \in Conns, [Next]_vars
    PROVE  Moves(c)
<1> USE BoundsAssumption DEF Left, LeftAt, Moves
<1>1. ASSUME UNCHANGED LocalVars(c) PROVE Moves(c)
  BY <1>1 DEF LocalVars
<1>2. CASE Client(c)
  BY <1>2 DEF Client, Ask, ClientLeaves, Hangup, TypeOK
<1>3. CASE Auth(c)
  BY <1>3 DEF Auth, Anonymous, Authenticated, Unauthenticated, Finish, TypeOK
<1>4. CASE Limit(c)
  BY <1>4 DEF Limit, Exempt, Admit, Refuse, Finish, TypeOK, Inv, SendsRight
<1>5. CASE Send(c)
  BY <1>5 DEF Send, TypeOK
<1>6. CASE AttemptFails(c)
  BY <1>6 DEF AttemptFails, CanRetry, Finish, TypeOK
<1>7. CASE BodyRead(c) \/ Response(c) \/ Wake(c) \/ CopyDone(c) \/ CopyAborts(c)
  BY <1>7 DEF BodyRead, Response, Wake, CopyDone, CopyAborts, Finish, TypeOK
<1> QED
  BY <1>1, <1>2, <1>3, <1>4, <1>5, <1>6, <1>7, OthersLeaveItAlone DEF Next, Forward

\* A request whose client is gone leaves the chain, with the three attempts of
\* the program (forward.go:63): wherever it is, the cancelled context ends the
\* attempt it is waiting for, and there are at most two more.  A request whose
\* body the upstream does not read to its end is left out.
THEOREM HangupsEnd ==
    ASSUME MaxSends = 3
    PROVE  Spec /\ Scheduled => HangupEnds
<1> SUFFICES ASSUME NEW c \in Conns
             PROVE  Spec /\ Scheduled /\ []<>(~unread[c])
                      => (gone[c] ~> (pc[c] = "closed"))
  BY DEF HangupEnds
<1> DEFINE Fair == Spec /\ Scheduled /\ []<>(~unread[c])
<1>1. Fair => [][Next]_vars /\ []IInv /\ ScheduledConn(c) /\ []<>(~unread[c])
  <2>1. Scheduled => ScheduledConn(c)
    BY DEF Scheduled
  <2> QED
    BY <2>1, Invariance, PTL DEF Spec
<1>2. IInv /\ [Next]_vars => Moves(c)
  BY GoneMovesOn DEF IInv
<1> HIDE DEF Fair
<1>3. Fair => [](gone[c] => <>[](~unread[c]))
  <2>1. Moves(c) => /\ gone[c] => (gone[c])'
                    /\ gone[c] /\ ~unread[c] => ~(unread[c])'
    BY DEF Moves
  <2> QED
    BY <1>1, <1>2, <2>1, PTL
<1>4. Fair => (Left(c, "auth") ~> Left(c, "limit") \/ Left(c, "idle"))
  <2>1. Moves(c) => (Left(c, "auth") => Left(c, "auth")' \/ Left(c, "limit")' \/ Left(c, "idle")')
    BY DEF Moves
  <2>2. IInv /\ <<Auth(c)>>_vars => ~Left(c, "auth")'
    BY DEF IInv, TypeOK, Left, Auth, Anonymous, Authenticated, Unauthenticated, Finish
  <2>3. Left(c, "auth") => pc[c] = "auth"
    BY DEF Left
  <2> QED
    BY <1>1, <1>2, <2>1, <2>2, <2>3, PTL DEF ScheduledConn
<1>5. Fair => (Left(c, "limit") ~> LeftAt(c, "send", 0) \/ Left(c, "idle"))
  <2>1. Moves(c) => (Left(c, "limit")
                       => Left(c, "limit")' \/ LeftAt(c, "send", 0)' \/ Left(c, "idle")')
    BY DEF Moves
  <2>2. IInv /\ <<Limit(c)>>_vars => ~Left(c, "limit")'
    BY DEF IInv, TypeOK, Left, Limit, Exempt, Admit, Refuse, Finish
  <2>3. Left(c, "limit") => pc[c] = "limit"
    BY DEF Left
  <2> QED
    BY <1>1, <1>2, <2>1, <2>2, <2>3, PTL DEF ScheduledConn
<1>6. ASSUME NEW k \in 0 .. MaxSends - 1
      PROVE  Fair => MakesNext(c, k)
  <2>1. Moves(c) => (LeftAt(c, "send", k)
                       => LeftAt(c, "send", k)' \/ LeftAt(c, "wait", k + 1)')
    BY DEF Moves
  <2>2. IInv /\ <<Send(c)>>_vars => ~LeftAt(c, "send", k)'
    BY DEF IInv, TypeOK, LeftAt, Send
  <2>3. LeftAt(c, "send", k) => pc[c] = "send"
    BY DEF LeftAt
  <2> QED
    BY <1>1, <1>2, <2>1, <2>2, <2>3, PTL DEF ScheduledConn, MakesNext
<1>7. ASSUME NEW k \in 0 .. MaxSends - 1
      PROVE  Fair => GivesUp(c, k)
  <2>1. Moves(c) => (LeftAt(c, "wait", k)
                       => \/ LeftAt(c, "wait", k)' \/ LeftAt(c, "sleep", k)'
                          \/ Left(c, "copy")' \/ Left(c, "idle")')
    BY DEF Moves
  <2>2. IInv /\ <<gone[c] /\ ~unread[c] /\ AttemptFails(c)>>_vars => ~LeftAt(c, "wait", k)'
    BY DEF IInv, TypeOK, LeftAt, AttemptFails, Finish
  <2>3. LeftAt(c, "wait", k) => pc[c] = "wait" /\ gone[c]
    BY DEF LeftAt
  <2> QED
    BY <1>1, <1>2, <1>3, <2>1, <2>2, <2>3, PTL DEF ScheduledConn, GivesUp
<1>8. ASSUME NEW k \in 0 .. MaxSends - 1
      PROVE  Fair => WakesUp(c, k)
  <2>1. Moves(c) => (LeftAt(c, "sleep", k)
                       => LeftAt(c, "sleep", k)' \/ LeftAt(c, "send", k)')
    BY DEF Moves
  <2>2. IInv /\ <<Wake(c)>>_vars => ~LeftAt(c, "sleep", k)'
    BY DEF IInv, TypeOK, LeftAt, Wake
  <2>3. LeftAt(c, "sleep", k) => pc[c] = "sleep"
    BY DEF LeftAt
  <2> QED
    BY <1>1, <1>2, <2>1, <2>2, <2>3, PTL DEF ScheduledConn, WakesUp
<1>9. Fair => (LeftAt(c, "wait", MaxSends) ~> Left(c, "copy") \/ Left(c, "idle"))
  <2>1. Moves(c) => (LeftAt(c, "wait", MaxSends)
                       => LeftAt(c, "wait", MaxSends)' \/ Left(c, "copy")' \/ Left(c, "idle")')
    BY DEF Moves
  <2>2. IInv /\ <<gone[c] /\ ~unread[c] /\ AttemptFails(c)>>_vars => ~LeftAt(c, "wait", MaxSends)'
    BY DEF IInv, TypeOK, LeftAt, AttemptFails, Finish
  <2>3. LeftAt(c, "wait", MaxSends) => pc[c] = "wait" /\ gone[c]
    BY DEF LeftAt
  <2> QED
    BY <1>1, <1>2, <1>3, <2>1, <2>2, <2>3, PTL DEF ScheduledConn
<1>10. Fair => (Left(c, "copy") \/ Left(c, "idle") ~> Left(c, "closed"))
  <2>1. Moves(c) => /\ Left(c, "copy")
                         => Left(c, "copy")' \/ Left(c, "idle")' \/ Left(c, "closed")'
                    /\ Left(c, "idle") => Left(c, "idle")' \/ Left(c, "closed")'
    BY DEF Moves
  <2>2. IInv => /\ <<gone[c] /\ ~unread[c] /\ CopyAborts(c)>>_vars => ~Left(c, "copy")'
                /\ <<Hangup(c)>>_vars => ~Left(c, "idle")'
    BY DEF IInv, TypeOK, Left, CopyAborts, Hangup
  <2>3. /\ Left(c, "copy") => pc[c] = "copy" /\ gone[c]
        /\ Left(c, "idle") => pc[c] = "idle" /\ gone[c]
    BY DEF Left
  <2> QED
    BY <1>1, <1>2, <1>3, <2>1, <2>2, <2>3, PTL DEF ScheduledConn
<1>11. IInv /\ gone[c]
        => \/ Left(c, "auth") \/ Left(c, "limit")
           \/ Left(c, "copy") \/ Left(c, "idle") \/ Left(c, "closed")
           \/ LeftAt(c, "send", 0) \/ LeftAt(c, "send", 1) \/ LeftAt(c, "send", 2)
           \/ LeftAt(c, "wait", 0) \/ LeftAt(c, "wait", 1) \/ LeftAt(c, "wait", 2)
           \/ LeftAt(c, "wait", 3)
           \/ LeftAt(c, "sleep", 0) \/ LeftAt(c, "sleep", 1) \/ LeftAt(c, "sleep", 2)
  <2> SUFFICES ASSUME IInv
               PROVE  \/ pc[c] \in {"auth", "limit", "copy", "idle", "closed"}
                      \/ pc[c] = "send" /\ sends[c] \in 0 .. 2
                      \/ pc[c] = "wait" /\ sends[c] \in 0 .. 3
                      \/ pc[c] = "sleep" /\ sends[c] \in 0 .. 2
    BY DEF Left, LeftAt
  <2> QED
    BY DEF IInv, TypeOK, Inv, SendsRight, PCs
<1>12. Fair => \A k \in {0, 1, 2} : MakesNext(c, k) /\ GivesUp(c, k) /\ WakesUp(c, k)
  <2>1. \A k \in {0, 1, 2} : k \in 0 .. MaxSends - 1
    OBVIOUS
  <2> QED
    BY <1>6, <1>7, <1>8, <2>1
<1>13. Fair => /\ MakesNext(c, 0) /\ GivesUp(c, 0) /\ WakesUp(c, 0)
               /\ MakesNext(c, 1) /\ GivesUp(c, 1) /\ WakesUp(c, 1)
               /\ MakesNext(c, 2) /\ GivesUp(c, 2) /\ WakesUp(c, 2)
  BY <1>12
<1>14. Left(c, "closed") => pc[c] = "closed"
  BY DEF Left
<1>15. /\ LeftAt(c, "wait", 0 + 1) => LeftAt(c, "wait", 1)
       /\ LeftAt(c, "wait", 1 + 1) => LeftAt(c, "wait", 2)
       /\ LeftAt(c, "wait", 2 + 1) => LeftAt(c, "wait", 3)
       /\ LeftAt(c, "wait", 3) => LeftAt(c, "wait", MaxSends)
  BY DEF LeftAt
<1>16. Fair => (gone[c] ~> (pc[c] = "closed"))
  BY <1>1, <1>4, <1>5, <1>9, <1>10, <1>11, <1>13, <1>14, <1>15, PTL
     DEF MakesNext, GivesUp, WakesUp
<1> QED
  BY <1>16 DEF Fair
=============================================================================
