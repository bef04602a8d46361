-------------------------------- MODULE Chain --------------------------------
(***************************************************************************)
(* The serving chain of a tunnel (NewForwardProxy): conditionalAuth, then  *)
(* RateLimitByDevice, then AccessLog, then forwardSwap with its            *)
(* retryTransport.  A connection has one request in the chain at a time;   *)
(* the connections run concurrently and share the limiter and the token    *)
(* pool.  The device of a connection is fixed (Tunnel!DeviceFixed).        *)
(*                                                                         *)
(* The request's Host, method and path do not matter beyond the exemption  *)
(* from the limit; of its headers only the two that carry credentials.     *)
(***************************************************************************)
EXTENDS Bucket, Sequences

CONSTANTS
    Conns,           \* tunnels
    DeviceMaps,      \* which devices they may be of: each a function from
                     \* Conns to [label, rateLimit, upstream]
    DefaultRate,     \* defaultPerMin
    Pool,            \* u.OAuthTokens: a sequence of [id, token]
    Legacy,          \* u.OAuthToken
    NoToken,         \* the empty string, as a token
    Requests,        \* the requests that come: [auth, key, exempt, body]
    MaxSends,        \* Len(delays) of retryTransport
    MaxRequests,     \* bound: requests of a connection
    Horizon          \* bound: ticks of a behaviour

\* What parseUpstream lets through.
ASSUME UpstreamAssumption ==
    /\ Legacy # NoToken \/ Pool # <<>>
    /\ \A i \in DOMAIN Pool : Pool[i].id # "" /\ Pool[i].token # NoToken
    /\ \A i, j \in DOMAIN Pool : Pool[i].id = Pool[j].id => i = j
    /\ Pool \in Seq({Pool[i] : i \in DOMAIN Pool})

\* A limit that is not positive stands for the default, which is.
ASSUME RateAssumption ==
    /\ DefaultRate \in Nat \ {0}
    /\ \A m \in DeviceMaps, c \in Conns : m[c].rateLimit \in Int
ASSUME RequestsAssumption == \A r \in Requests : r.body \in BOOLEAN
ASSUME ConnsFinite == IsFiniteSet(Conns)     \* maxInFlight of them, at most
ASSUME BoundsAssumption == MaxSends \in Nat \ {0} /\ MaxRequests \in Nat

Labels == {m[c].label : m \in DeviceMaps, c \in Conns}

VARIABLES
    now, bucket,     \* the limiter, as in Limiter
    window,          \* an observer of the limiter, as in Limiter
    reached,         \* requests of window's device first sent upstream since
    pc,              \* of each connection: where its request is
    req,             \* the request
    real,            \* realTokenKey in its context
    sends,           \* attempts made upstream
    out,             \* credential headers of the last attempt
    answer,          \* what the client was answered
    logged,          \* the request has an access record
    gone,            \* the client is gone
    unread,          \* the request has a body that was not yet read to its end
    asked,           \* requests so far
    device           \* connDevice of each connection, fixed by its handshake

limitVars == <<now, bucket, window>>
connVars  == <<pc, req, real, sends, out, answer, logged, gone, unread, asked, device>>
vars      == <<limitVars, reached, connVars>>

PCs == {"idle", "auth", "limit", "send", "wait", "sleep", "copy", "closed"}

NoHeaders == [auth |-> "none", key |-> FALSE]
NoRequest == [auth |-> "none", key |-> FALSE, exempt |-> FALSE, body |-> FALSE]

-----------------------------------------------------------------------------
HasInboundCredential(r) == r.auth = "bearer" \/ r.key

PickTokenOrDefault(id) ==                \* an unknown id falls back to the first token
    IF Pool = <<>>
    THEN IF id = "" THEN Legacy ELSE NoToken
    ELSE IF \E i \in DOMAIN Pool : Pool[i].id = id
         THEN Pool[CHOOSE i \in DOMAIN Pool : Pool[i].id = id].token
         ELSE Pool[1].token

PickToken(id) ==
    IF Pool = <<>>
    THEN IF id = "" THEN Legacy ELSE NoToken
    ELSE IF id = "" THEN Pool[1].token
    ELSE IF \E i \in DOMAIN Pool : Pool[i].id = id
         THEN Pool[CHOOSE i \in DOMAIN Pool : Pool[i].id = id].token
         ELSE NoToken

RateOf(d) == IF d.rateLimit > 0 THEN d.rateLimit ELSE DefaultRate

None == [tokens |-> -1, last |-> 0]      \* no bucket yet, as in Limiter

\* forwardSwap's Rewrite.
Rewritten(r, token) ==
    IF token = NoToken THEN [auth |-> r.auth, key |-> r.key]
    ELSE [auth |-> token, key |-> FALSE]

Init ==
    /\ now = 0
    /\ bucket = [l \in Labels |-> None]
    /\ window \in [device : Labels, since : {0}, count : {0}]
    /\ reached = 0
    /\ pc = [c \in Conns |-> "idle"]
    /\ req = [c \in Conns |-> NoRequest]
    /\ real = [c \in Conns |-> NoToken]
    /\ sends = [c \in Conns |-> 0]
    /\ out = [c \in Conns |-> NoHeaders]
    /\ answer = [c \in Conns |-> "none"]
    /\ logged = [c \in Conns |-> FALSE]
    /\ gone = [c \in Conns |-> FALSE]
    /\ unread = [c \in Conns |-> FALSE]
    /\ asked = [c \in Conns |-> 0]
    /\ device \in DeviceMaps

-----------------------------------------------------------------------------
(* Around the chain *)

Tick == /\ now < Horizon
        /\ now' = now + 1
        /\ UNCHANGED <<bucket, window, reached, connVars>>

OpenWindow == /\ window' \in [device : Labels, since : {now}, count : {0}]
              /\ reached' = 0
              /\ UNCHANGED <<now, bucket, connVars>>

\* The next request of a tunnel.
Ask(c) ==
    /\ pc[c] = "idle" /\ ~gone[c] /\ asked[c] < MaxRequests
    /\ pc' = [pc EXCEPT ![c] = "auth"]
    /\ \E r \in Requests : /\ req' = [req EXCEPT ![c] = r]
                            /\ unread' = [unread EXCEPT ![c] = r.body]
    /\ asked' = [asked EXCEPT ![c] = @ + 1]
    /\ real' = [real EXCEPT ![c] = NoToken]
    /\ sends' = [sends EXCEPT ![c] = 0]
    /\ answer' = [answer EXCEPT ![c] = "none"]
    /\ logged' = [logged EXCEPT ![c] = FALSE]
    /\ UNCHANGED <<limitVars, reached, out, gone, device>>

ClientLeaves(c) ==
    /\ ~gone[c] /\ pc[c] # "closed"
    /\ gone' = [gone EXCEPT ![c] = TRUE]
    /\ UNCHANGED <<limitVars, reached, pc, req, real, sends, out, answer, logged, unread, asked, device>>

\* An idle tunnel whose client is gone is closed.
Hangup(c) ==
    /\ pc[c] = "idle" /\ gone[c]
    /\ pc' = [pc EXCEPT ![c] = "closed"]
    /\ UNCHANGED <<limitVars, reached, req, real, sends, out, answer, logged, gone, unread, asked, device>>

\* The handler returns with an answer, and the server with what is left of
\* the body; l tells whether through AccessLog.
Finish(c, status, l) ==
    /\ pc' = [pc EXCEPT ![c] = "idle"]
    /\ answer' = [answer EXCEPT ![c] = status]
    /\ logged' = [logged EXCEPT ![c] = l]
    /\ unread' = [unread EXCEPT ![c] = FALSE]

-----------------------------------------------------------------------------
(* conditionalAuth *)

Anonymous(c) ==
    /\ pc[c] = "auth" /\ ~HasInboundCredential(req[c])
    /\ pc' = [pc EXCEPT ![c] = "limit"]
    /\ UNCHANGED <<limitVars, reached, req, real, sends, out, answer, logged, gone, unread, asked, device>>

Authenticated(c) ==
    LET d == device[c]
    IN  /\ pc[c] = "auth" /\ HasInboundCredential(req[c])
        /\ d.label # "" /\ PickToken(d.upstream) # NoToken
        /\ real' = [real EXCEPT ![c] = PickToken(d.upstream)]
        /\ pc' = [pc EXCEPT ![c] = "limit"]
        /\ UNCHANGED <<limitVars, reached, req, sends, out, answer, logged, gone, unread, asked, device>>

\* no_device, no_upstream_token
Unauthenticated(c) ==
    LET d == device[c]
    IN  /\ pc[c] = "auth" /\ HasInboundCredential(req[c])
        /\ d.label = "" \/ PickToken(d.upstream) = NoToken
        /\ Finish(c, "502", FALSE)
        /\ UNCHANGED <<limitVars, reached, req, real, sends, out, gone, asked, device>>

-----------------------------------------------------------------------------
(* RateLimitByDevice *)

Exempt(c) ==
    /\ pc[c] = "limit" /\ req[c].exempt
    /\ pc' = [pc EXCEPT ![c] = "send"]
    /\ UNCHANGED <<limitVars, reached, req, real, sends, out, answer, logged, gone, unread, asked, device>>

BucketFor(c) ==
    LET d == device[c]
        b == bucket[d.label]
    IN  Refill(IF b = None THEN FullBucket(RateOf(d), now) ELSE b, RateOf(d), now)

AdmitUncharged(c) ==                     \* the token is looked at, not taken
    /\ pc[c] = "limit" /\ ~req[c].exempt
    /\ HasToken(BucketFor(c))
    /\ bucket' = [bucket EXCEPT ![device[c].label] = BucketFor(c)]
    /\ window' = [window EXCEPT !.count = IF device[c].label = window.device
                                          THEN @ + 1 ELSE @]
    /\ pc' = [pc EXCEPT ![c] = "send"]
    /\ UNCHANGED <<now, reached, req, real, sends, out, answer, logged, gone, unread, asked, device>>

Admit(c) ==
    /\ pc[c] = "limit" /\ ~req[c].exempt
    /\ HasToken(BucketFor(c))
    /\ bucket' = [bucket EXCEPT ![device[c].label] = Take(BucketFor(c))]
    /\ window' = [window EXCEPT !.count = IF device[c].label = window.device
                                          THEN @ + 1 ELSE @]
    /\ pc' = [pc EXCEPT ![c] = "send"]
    /\ UNCHANGED <<now, reached, req, real, sends, out, answer, logged, gone, unread, asked, device>>

Refuse(c) ==
    /\ pc[c] = "limit" /\ ~req[c].exempt
    /\ ~HasToken(BucketFor(c))
    /\ bucket' = [bucket EXCEPT ![device[c].label] = BucketFor(c)]
    /\ Finish(c, "429", FALSE)
    /\ UNCHANGED <<now, window, reached, req, real, sends, out, gone, asked, device>>

-----------------------------------------------------------------------------
(* forwardSwap and retryTransport *)

\* The base RoundTrip sends the request, ...
Send(c) ==
    /\ pc[c] = "send"
    /\ sends' = [sends EXCEPT ![c] = @ + 1]
    /\ out' = [out EXCEPT ![c] = Rewritten(req[c], real[c])]
    /\ reached' = IF /\ sends[c] = 0 /\ ~req[c].exempt
                     /\ device[c].label = window.device
                  THEN reached + 1 ELSE reached
    /\ pc' = [pc EXCEPT ![c] = "wait"]
    /\ UNCHANGED <<limitVars, req, real, answer, logged, gone, unread, asked, device>>

\* The body has gone to the upstream, to its end.
BodyRead(c) ==
    /\ pc[c] \in {"wait", "copy"} /\ unread[c]
    /\ unread' = [unread EXCEPT ![c] = FALSE]
    /\ UNCHANGED <<limitVars, reached, pc, req, real, sends, out, answer, logged, gone, asked, device>>

\* ... and gets a response, whatever its status, ...
Response(c) ==
    /\ pc[c] = "wait"
    /\ pc' = [pc EXCEPT ![c] = "copy"]
    /\ UNCHANGED <<limitVars, reached, req, real, sends, out, answer, logged, gone, unread, asked, device>>

\* A further attempt is left, and the body can be sent again: the body of an
\* inbound request has no GetBody, so only a request without one can.
CanRetryAnyBody(c) == sends[c] < MaxSends

CanRetryForEver(c) == ~req[c].body        \* the delays start over

CanRetry(c) == sends[c] < MaxSends /\ ~req[c].body

\* ... or fails.
AttemptFails(c) ==
    /\ pc[c] = "wait"
    /\ \/ /\ CanRetry(c)
          /\ pc' = [pc EXCEPT ![c] = "sleep"]
          /\ UNCHANGED <<answer, logged, unread>>
       \/ /\ ~CanRetry(c)
          /\ Finish(c, "502", TRUE)                \* ErrorHandler
    /\ UNCHANGED <<limitVars, reached, req, real, sends, out, gone, asked, device>>

WakeUnlessGone(c) ==                     \* a sleep cut short by the client never returns
    /\ pc[c] = "sleep" /\ ~gone[c]
    /\ pc' = [pc EXCEPT ![c] = "send"]
    /\ UNCHANGED <<limitVars, reached, req, real, sends, out, answer, logged, gone, unread, asked, device>>

Wake(c) ==
    /\ pc[c] = "sleep"
    /\ pc' = [pc EXCEPT ![c] = "send"]
    /\ UNCHANGED <<limitVars, reached, req, real, sends, out, answer, logged, gone, unread, asked, device>>

CopyDone(c) ==
    /\ pc[c] = "copy"
    /\ Finish(c, "upstream", TRUE)
    /\ UNCHANGED <<limitVars, reached, req, real, sends, out, gone, asked, device>>

\* The response breaks off, or the client does: ReverseProxy panics with
\* ErrAbortHandler, the server closes the connection, AccessLog is skipped.
CopyAborts(c) ==
    /\ pc[c] = "copy"
    /\ pc' = [pc EXCEPT ![c] = "closed"]
    /\ answer' = [answer EXCEPT ![c] = "aborted"]
    /\ unread' = [unread EXCEPT ![c] = FALSE]
    /\ UNCHANGED <<limitVars, reached, req, real, sends, out, logged, gone, asked, device>>

-----------------------------------------------------------------------------
Client(c)  == Ask(c) \/ ClientLeaves(c) \/ Hangup(c)
Auth(c)    == Anonymous(c) \/ Authenticated(c) \/ Unauthenticated(c)
Limit(c)   == Exempt(c) \/ Admit(c) \/ Refuse(c)
Forward(c) == \/ Send(c) \/ BodyRead(c) \/ Response(c) \/ AttemptFails(c)
              \/ Wake(c) \/ CopyDone(c) \/ CopyAborts(c)

Next == \/ Tick \/ OpenWindow
        \/ \E c \in Conns : Client(c) \/ Auth(c) \/ Limit(c) \/ Forward(c)

Spec == Init /\ [][Next]_vars

\* The chain's own steps are taken.  The upstream need not answer, nor read what
\* it is sent: an attempt ends for sure only when the client is gone and the
\* context cancelled, and net/http looks for a client that left, and cancels
\* the context, only once the body has been read to its end.
Fairness ==
    \A c \in Conns :
       /\ WF_vars(Auth(c)) /\ WF_vars(Limit(c))
       /\ WF_vars(Send(c)) /\ WF_vars(Wake(c))
       /\ WF_vars(gone[c] /\ ~unread[c] /\ AttemptFails(c))
       /\ WF_vars(gone[c] /\ ~unread[c] /\ CopyAborts(c))
       /\ WF_vars(Hangup(c))

FairSpec == Spec /\ Fairness

-----------------------------------------------------------------------------
(* Properties *)

Tokens == {Legacy, NoToken} \cup {Pool[i].token : i \in DOMAIN Pool}

\* The states have the shapes the code gives them.
TypeOK ==
    /\ now \in Nat /\ reached \in Nat
    /\ pc \in [Conns -> PCs]
    /\ req \in [Conns -> Requests \cup {NoRequest}]
    /\ real \in [Conns -> Tokens]
    /\ sends \in [Conns -> 0 .. MaxSends]
    /\ answer \in [Conns -> {"none", "upstream", "429", "502", "aborted"}]
    /\ logged \in [Conns -> BOOLEAN] /\ gone \in [Conns -> BOOLEAN]
    /\ unread \in [Conns -> BOOLEAN]
    /\ asked \in [Conns -> 0 .. MaxRequests]
    /\ device \in DeviceMaps

\* The tokens a device may be given: the pool entry it names; without a
\* name, the first one or the legacy token.
TokensFor(d) ==
    IF d.upstream # "" THEN {Pool[i].token : i \in {j \in DOMAIN Pool : Pool[j].id = d.upstream}}
    ELSE IF Pool = <<>> THEN {Legacy} ELSE {Pool[1].token}

\* What goes upstream is either untouched and without a token of ours, or
\* carries the token of the connection's own device in place of everything
\* the client sent: no attempt of a device goes with another device's token,
\* and none with the client's credential (conditionalAuth and forwardSwap).
SwapSound ==
    \A c \in Conns : pc[c] \in {"wait", "copy"} =>
       IF HasInboundCredential(req[c])
       THEN out[c].auth \in TokensFor(device[c]) \ {NoToken} /\ ~out[c].key
       ELSE out[c] = [auth |-> req[c].auth, key |-> req[c].key]

\* A request body is sent at most once, over all retries: an attempt after
\* the first would send a truncated one (retryTransport's GetBody test).
BodySentOnce == \A c \in Conns : req[c].body => sends[c] <= 1

\* Requests of one device on all its tunnels reach the upstream no faster
\* than the limiter lets them, by the largest of the rates a reload may have
\* left its tunnels with, but for those already admitted on a tunnel
\* when the window opens; retries are not charged and do not count.
TunnelsOf(l) == {c \in Conns : device[c].label = l}
Fastest(c)   == \A e \in TunnelsOf(device[c].label) : RateOf(device[e]) <= RateOf(device[c])
UpstreamQuota ==
    \A c \in TunnelsOf(window.device) : Fastest(c) /\ now <= window.since + Minute
        => reached <= 2 * RateOf(device[c]) + Cardinality(TunnelsOf(window.device))

\* The requests of all tunnels together use the limiter as Limiter says:
\* one bucket per label, whatever tunnel a request comes from.
Rates == {RateOf(m[c]) : m \in DeviceMaps, c \in Conns}
L == INSTANCE Limiter WITH
        Devices <- Labels,
        MaxRate <- Max(Rates),
        MinRate <- Min(Rates)
UsesLimiter == L!Spec

\* A request whose client is gone leaves the chain, wherever it is (the
\* cancelled context ends the attempt, the sleeps are finite), unless an
\* upstream that stopped reading holds it with the rest of its body for ever.
HangupEnds ==
    \A c \in Conns : []<>(~unread[c]) => (gone[c] ~> (pc[c] = "closed"))
=============================================================================
