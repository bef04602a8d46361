------------------------------- MODULE Tunnel -------------------------------
(***************************************************************************)
(* internal/proxy/forward.go: Serve's accept loop and the life of a        *)
(* connection, from Accept to the release of its slot.  Two goroutines     *)
(* work for a connection: handle, which owns the slot, and, once the       *)
(* tunnel stands, the goroutine of the per-connection http.Server, which   *)
(* reads the requests and closes the connection.                           *)
(*                                                                         *)
(* A deadline is an event that may come at any moment of the phase it      *)
(* guards.  Writes are not: the few bytes handle writes fit the socket     *)
(* buffer.  What a request does on its way upstream is in Chain.           *)
(***************************************************************************)
EXTENDS Naturals, FiniteSets

CONSTANTS
    Conns,         \* the connections of a behaviour
    MaxInFlight,   \* capacity of fp.sema
    Fps,           \* client certificates, by fingerprint
    Tables,        \* what the device table may be: functions from fingerprints
    Hosts, Allow,  \* CONNECT targets; those of the allowlist
    Cap,           \* maxConnectHeaderBytes
    Lengths,       \* of the lines of a CONNECT, in bytes
    None           \* no certificate, no device, no host

ASSUME ConnsFinite == IsFiniteSet(Conns)
ASSUME MaxInFlightPositive == MaxInFlight \in Nat \ {0}
ASSUME CapNat == Cap \in Nat
ASSUME LengthsAssumption == Lengths \subseteq Nat \ {0}

Devices == UNION {{t[f] : f \in DOMAIN t} : t \in Tables}

ASSUME NoneAssumption == None \notin Hosts \cup Devices

VARIABLES
    table,         \* the device table behind Lookup
    listener,      \* "open" | "closed"
    serve,         \* Serve: "accepting" | "waiting" (wg.Wait) | "returned"
    sema, wg,      \* slots taken; goroutines waited for
    stage,         \* of each connection, see Stages
    routine,       \* of its handle goroutine, see Routines
    cert,          \* the certificate its peer presents
    peer,          \* "there" | "gone"
    bytes,         \* byteCount
    host,          \* the CONNECT target
    device,        \* connDevice
    minted         \* hosts a leaf certificate was made for

serveVars == <<listener, serve, sema, wg>>
connVars  == <<stage, routine, cert, peer, bytes, host, device>>
vars      == <<table, serveVars, connVars, minted>>

Stages == {"none",        \* not yet arrived
           "backlog",     \* in the listener's queue
           "handshake",   \* outer TLS, before the client certificate
           "finishing",   \* after VerifyPeerCertificate, before Finished
           "line",        \* reading the CONNECT line
           "headers",     \* reading the CONNECT headers
           "allowed",     \* about to write the 200
           "reading",     \* inner TLS and a request's header
           "idle",        \* kept alive between two requests
           "busy",        \* in the handler
           "closing",     \* notifyConn has announced the close
           "closed"}

Routines == {"none", "running", "serving", "returning", "released", "done"}

PreTunnel == {"handshake", "finishing", "line", "headers"}

\* The phases in which a CONNECT line has been accepted.
Connected == {"headers", "allowed", "reading", "idle", "busy"}

Init ==
    /\ table \in Tables
    /\ listener = "open" /\ serve = "accepting"
    /\ sema = 0 /\ wg = 0
    /\ stage = [c \in Conns |-> "none"]
    /\ routine = [c \in Conns |-> "none"]
    /\ cert \in [Conns -> Fps \cup {None}]
    /\ peer = [c \in Conns |-> "there"]
    /\ bytes = [c \in Conns |-> 0]
    /\ host = [c \in Conns |-> None]
    /\ device = [c \in Conns |-> None]
    /\ minted = {}

-----------------------------------------------------------------------------
(* The surroundings: the device table is reloaded, peers come and go *)

Reload == /\ table' \in Tables
          /\ UNCHANGED <<serveVars, connVars, minted>>

Arrive(c) ==
    /\ stage[c] = "none" /\ listener = "open"
    /\ stage' = [stage EXCEPT ![c] = "backlog"]
    /\ UNCHANGED <<table, serveVars, routine, cert, peer, bytes, host, device, minted>>

PeerLeaves(c) ==
    /\ stage[c] \notin {"none", "closed"} /\ peer[c] = "there"
    /\ peer' = [peer EXCEPT ![c] = "gone"]
    /\ UNCHANGED <<table, serveVars, stage, routine, cert, bytes, host, device, minted>>

CloseListener ==
    /\ listener = "open"
    /\ listener' = "closed"
    /\ stage' = [c \in Conns |-> IF stage[c] = "backlog" THEN "closed" ELSE stage[c]]
    /\ UNCHANGED <<table, serve, sema, wg, routine, cert, peer, bytes, host, device, minted>>

-----------------------------------------------------------------------------
(* Serve *)

Accept(c) ==
    /\ serve = "accepting" /\ stage[c] = "backlog"
    /\ sema < MaxInFlight
    /\ sema' = sema + 1
    /\ wg' = wg + 1
    /\ stage' = [stage EXCEPT ![c] = "handshake"]
    /\ routine' = [routine EXCEPT ![c] = "running"]
    /\ UNCHANGED <<table, listener, serve, cert, peer, bytes, host, device, minted>>

Shed(c) ==
    /\ serve = "accepting" /\ stage[c] = "backlog"
    /\ sema = MaxInFlight
    /\ stage' = [stage EXCEPT ![c] = "closed"]
    /\ UNCHANGED <<table, serveVars, routine, cert, peer, bytes, host, device, minted>>

\* Accept returns an error: the listener is closed, or the process is out of
\* descriptors for the moment.  Serve makes no difference between the two.
AcceptFails ==
    /\ serve = "accepting"
    /\ serve' = "waiting"
    /\ UNCHANGED <<table, listener, sema, wg, connVars, minted>>

ServeReturnsAtOnce ==                    \* without wg.Wait
    /\ serve = "waiting"
    /\ serve' = "returned"
    /\ UNCHANGED <<table, listener, sema, wg, connVars, minted>>

ServeReturns ==
    /\ serve = "waiting" /\ wg = 0
    /\ serve' = "returned"
    /\ UNCHANGED <<table, listener, sema, wg, connVars, minted>>

-----------------------------------------------------------------------------
(* handle, up to the 200 *)

\* outer.Close() and return.
Drop(c) ==
    /\ stage' = [stage EXCEPT ![c] = "closed"]
    /\ routine' = [routine EXCEPT ![c] = "returning"]

\* VerifyPeerCertificate: the one look at the device table.
Verify(c) ==
    /\ stage[c] = "handshake"
    /\ \/ /\ cert[c] \in DOMAIN table
          /\ device' = [device EXCEPT ![c] = table[cert[c]]]
          /\ stage' = [stage EXCEPT ![c] = "finishing"]
          /\ UNCHANGED routine
       \/ /\ cert[c] \notin DOMAIN table        \* None: RequireAnyClientCert
          /\ Drop(c)
          /\ UNCHANGED device
    /\ UNCHANGED <<table, serveVars, cert, peer, bytes, host, minted>>

FinishHandshakeLooksAgain(c) ==          \* a second Lookup once the handshake is done
    /\ stage[c] = "finishing"
    /\ stage' = [stage EXCEPT ![c] = "line"]
    /\ device' = [device EXCEPT ![c] =
                    IF cert[c] \in DOMAIN table THEN table[cert[c]] ELSE None]
    /\ UNCHANGED <<table, serveVars, routine, cert, peer, bytes, host, minted>>

FinishHandshake(c) ==
    /\ stage[c] = "finishing"
    /\ stage' = [stage EXCEPT ![c] = "line"]
    /\ UNCHANGED <<table, serveVars, routine, cert, peer, bytes, host, device, minted>>

\* The CONNECT line.  h = None stands for a line ParseConnect refuses.
ConnectLine(c) ==
    /\ stage[c] = "line"
    /\ \E n \in Lengths, h \in Hosts \cup {None} :
          /\ bytes' = [bytes EXCEPT ![c] = n]
          /\ \/ /\ n <= Cap /\ h # None
                /\ host' = [host EXCEPT ![c] = h]
                /\ stage' = [stage EXCEPT ![c] = "headers"]
                /\ UNCHANGED routine
             \/ /\ n > Cap \/ h = None                      \* 400
                /\ Drop(c)
                /\ UNCHANGED host
    /\ UNCHANGED <<table, serveVars, cert, peer, device, minted>>

HeaderLineLate(c) ==                     \* the cap is looked at before the line is counted in
    /\ stage[c] = "headers"
    /\ \E n \in Lengths :
          /\ bytes' = [bytes EXCEPT ![c] = @ + n]
          /\ \/ /\ bytes[c] <= Cap
                /\ UNCHANGED <<stage, routine>>
             \/ /\ bytes[c] > Cap
                /\ Drop(c)
    /\ UNCHANGED <<table, serveVars, cert, peer, host, device, minted>>

\* One more header line, read whole before it is counted, ...
HeaderLine(c) ==
    /\ stage[c] = "headers"
    /\ \E n \in Lengths :
          /\ bytes' = [bytes EXCEPT ![c] = @ + n]
          /\ \/ /\ bytes[c] + n <= Cap
                /\ UNCHANGED <<stage, routine>>
             \/ /\ bytes[c] + n > Cap                       \* 400
                /\ Drop(c)
    /\ UNCHANGED <<table, serveVars, cert, peer, host, device, minted>>

Ending == {1, 2}                         \* "\n", "\r\n"

BlankLineUnlisted(c) ==                  \* the allowlist is not asked
    /\ stage[c] = "headers"
    /\ \E n \in Ending :
          /\ bytes' = [bytes EXCEPT ![c] = @ + n]
          /\ \/ /\ bytes[c] + n <= Cap
                /\ stage' = [stage EXCEPT ![c] = "allowed"]
                /\ UNCHANGED routine
             \/ /\ bytes[c] + n > Cap
                /\ Drop(c)
    /\ UNCHANGED <<table, serveVars, cert, peer, host, device, minted>>

\* ... and the blank line that ends them.
BlankLine(c) ==
    /\ stage[c] = "headers"
    /\ \E n \in Ending :
          /\ bytes' = [bytes EXCEPT ![c] = @ + n]
          /\ \/ /\ bytes[c] + n <= Cap /\ host[c] \in Allow
                /\ stage' = [stage EXCEPT ![c] = "allowed"]
                /\ UNCHANGED routine
             \/ /\ bytes[c] + n > Cap \/ host[c] \notin Allow    \* 400, 403
                /\ Drop(c)
    /\ UNCHANGED <<table, serveVars, cert, peer, host, device, minted>>

\* The 200 is written, the deadline cleared and http.Serve entered.
Establish(c) ==
    /\ stage[c] = "allowed" /\ peer[c] = "there"
    /\ stage' = [stage EXCEPT ![c] = "reading"]
    /\ routine' = [routine EXCEPT ![c] = "serving"]
    /\ UNCHANGED <<table, serveVars, cert, peer, bytes, host, device, minted>>

EstablishFails(c) ==
    /\ stage[c] = "allowed" /\ peer[c] = "gone"
    /\ Drop(c)
    /\ UNCHANGED <<table, serveVars, cert, peer, bytes, host, device, minted>>

HandshakeTimeoutLine(c) ==               \* the deadline is cleared with the CONNECT line
    /\ stage[c] \in PreTunnel \ {"headers"}
    /\ Drop(c)
    /\ UNCHANGED <<table, serveVars, cert, peer, bytes, host, device, minted>>

\* handshakeReadTimeout, or the peer broke off the handshake.
HandshakeTimeout(c) ==
    /\ stage[c] \in PreTunnel
    /\ Drop(c)
    /\ UNCHANGED <<table, serveVars, cert, peer, bytes, host, device, minted>>

-----------------------------------------------------------------------------
(* The per-connection http.Server *)

\* The inner ClientHello asks for a certificate (minter.CertFor(host)).
Mint(c) ==
    /\ stage[c] = "reading"
    /\ minted' = minted \cup {host[c]}
    /\ UNCHANGED <<table, serveVars, connVars>>

Request(c) ==
    /\ stage[c] = "reading" /\ host[c] \in minted
    /\ stage' = [stage EXCEPT ![c] = "busy"]
    /\ UNCHANGED <<table, serveVars, routine, cert, peer, bytes, host, device, minted>>

\* The first bytes of the next request of a kept-alive tunnel.
NextRequest(c) ==
    /\ stage[c] = "idle" /\ peer[c] = "there"
    /\ stage' = [stage EXCEPT ![c] = "reading"]
    /\ UNCHANGED <<table, serveVars, routine, cert, peer, bytes, host, device, minted>>

Respond(c) ==
    /\ stage[c] = "busy"
    /\ stage' = [stage EXCEPT ![c] = "idle"]
    /\ UNCHANGED <<table, serveVars, routine, cert, peer, bytes, host, device, minted>>

\* notifyConn.Close: the announcement first, ...
CloseStarts(c) ==
    /\ stage' = [stage EXCEPT ![c] = "closing"]
    /\ UNCHANGED <<table, serveVars, routine, cert, peer, bytes, host, device, minted>>

\* Keep-alive ends with a response (Connection: close, an aborted copy).
RespondAndClose(c) == stage[c] = "busy" /\ CloseStarts(c)

\* ReadHeaderTimeout, or an inner handshake or a header that does not parse.
HeaderTimeout(c) == stage[c] = "reading" /\ CloseStarts(c)

\* The peer is gone: the read fails, and in the handler, once the body has been
\* read to its end, the request's context is cancelled (Chain).
Hangup(c) ==
    /\ stage[c] \in {"reading", "idle", "busy"} /\ peer[c] = "gone"
    /\ CloseStarts(c)

\* ... then the connection.
CloseEnds(c) ==
    /\ stage[c] = "closing"
    /\ stage' = [stage EXCEPT ![c] = "closed"]
    /\ UNCHANGED <<table, serveVars, routine, cert, peer, bytes, host, device, minted>>

-----------------------------------------------------------------------------
(* handle returns *)

InnerServeReturnsInTime(c) ==            \* the announcement is missed when it comes early
    /\ routine[c] = "serving" /\ stage[c] = "closing"
    /\ routine' = [routine EXCEPT ![c] = "returning"]
    /\ UNCHANGED <<table, serveVars, stage, cert, peer, bytes, host, device, minted>>

\* oneConnListener.Accept returns EOF once the close is announced.
InnerServeReturns(c) ==
    /\ routine[c] = "serving" /\ stage[c] \in {"closing", "closed"}
    /\ routine' = [routine EXCEPT ![c] = "returning"]
    /\ UNCHANGED <<table, serveVars, stage, cert, peer, bytes, host, device, minted>>

ReleaseUnlessUnverified(c) ==            \* the release is not deferred but follows Handshake
    /\ routine[c] = "returning"
    /\ routine' = [routine EXCEPT ![c] = "released"]
    /\ sema' = IF device[c] = None THEN sema ELSE sema - 1
    /\ UNCHANGED <<table, listener, serve, wg, stage, cert, peer, bytes, host, device, minted>>

\* The deferred calls, last registered first: the slot, ...
Release(c) ==
    /\ routine[c] = "returning"
    /\ routine' = [routine EXCEPT ![c] = "released"]
    /\ sema' = sema - 1
    /\ UNCHANGED <<table, listener, serve, wg, stage, cert, peer, bytes, host, device, minted>>

DoneUnlessUnverified(c) ==               \* wg.Done is not deferred but follows Handshake
    /\ routine[c] = "released"
    /\ routine' = [routine EXCEPT ![c] = "done"]
    /\ wg' = IF device[c] = None THEN wg ELSE wg - 1
    /\ UNCHANGED <<table, listener, serve, sema, stage, cert, peer, bytes, host, device, minted>>

\* ... then wg.Done.
Done(c) ==
    /\ routine[c] = "released"
    /\ routine' = [routine EXCEPT ![c] = "done"]
    /\ wg' = wg - 1
    /\ UNCHANGED <<table, listener, serve, sema, stage, cert, peer, bytes, host, device, minted>>

-----------------------------------------------------------------------------
Outside(c)  == Arrive(c) \/ PeerLeaves(c)
Loop(c)     == Accept(c) \/ Shed(c)
Connect(c)  == ConnectLine(c) \/ HeaderLine(c) \/ BlankLine(c)
Handle(c)   == \/ Verify(c) \/ FinishHandshake(c) \/ Connect(c)
               \/ Establish(c) \/ EstablishFails(c) \/ HandshakeTimeout(c)
Http(c)     == \/ Mint(c) \/ Request(c) \/ NextRequest(c)
               \/ Respond(c) \/ RespondAndClose(c)
               \/ HeaderTimeout(c) \/ Hangup(c) \/ CloseEnds(c)
Return(c)   == InnerServeReturns(c) \/ Release(c) \/ Done(c)

Next == \/ Reload \/ CloseListener \/ AcceptFails \/ ServeReturns
        \/ \E c \in Conns : Outside(c) \/ Loop(c) \/ Handle(c) \/ Http(c) \/ Return(c)

Spec == Init /\ [][Next]_vars

\* The accept loop runs, deadlines expire, goroutines that can go on do.
\* Peers need not send anything, upstreams need not answer, a kept-alive
\* tunnel may stay idle for ever (the inner server has no idle timeout), and
\* the handler need not notice that its peer is gone.
Fairness ==
    /\ WF_vars(listener = "closed" /\ AcceptFails)
    /\ WF_vars(ServeReturns)
    /\ \A c \in Conns :
          /\ WF_vars(Loop(c))
          /\ WF_vars(HandshakeTimeout(c))
          /\ WF_vars(Establish(c) \/ EstablishFails(c))
          /\ WF_vars(HeaderTimeout(c))
          /\ WF_vars(stage[c] # "busy" /\ Hangup(c))
          /\ WF_vars(CloseEnds(c))
          /\ WF_vars(Return(c))

FairSpec == Spec /\ Fairness

-----------------------------------------------------------------------------
(* Properties *)

\* The states have the shapes the code gives them, and no connection gets past
\* its CONNECT line, or stays at its headers, with more bytes than the cap.
TypeOK ==
    /\ table \in Tables
    /\ listener \in {"open", "closed"}
    /\ serve \in {"accepting", "waiting", "returned"}
    /\ sema \in Nat /\ wg \in Nat
    /\ stage \in [Conns -> Stages]
    /\ routine \in [Conns -> Routines]
    /\ cert \in [Conns -> Fps \cup {None}]
    /\ peer \in [Conns -> {"there", "gone"}]
    /\ bytes \in [Conns -> Nat]
    /\ \A c \in Conns : stage[c] \in Connected => bytes[c] <= Cap
    /\ host \in [Conns -> Hosts \cup {None}]
    /\ device \in [Conns -> Devices \cup {None}]
    /\ minted \subseteq Hosts

Holders == {c \in Conns : routine[c] \in {"running", "serving", "returning"}}
Waited  == {c \in Conns : routine[c] \in {"running", "serving", "returning", "released"}}

Accounted ==
    /\ sema = Cardinality(Holders)
    /\ sema <= MaxInFlight
    /\ wg = Cardinality(Waited)

\* Every slot taken is held by one handle goroutine, on whatever path that
\* goroutine is: none is lost, none is given back twice, and there are never
\* more than the capacity (the send before the spawn, the deferred receive).
\* When Serve has returned no handle goroutine is left (wg.Add before the
\* spawn, wg.Wait before the return).
SlotAccounting ==
    /\ Accounted
    /\ serve = "returned" => \A c \in Conns : routine[c] \in {"none", "done"}

\* The device of a connection is the one the table gave for its certificate
\* at the handshake; no reload before, during or after changes it, and no
\* connection gets past the handshake without one (VerifyPeerCertificate
\* captures connDevice).
DeviceFixed ==
    [][\A c \in Conns :
          /\ device[c] # None => device'[c] = device[c]
          /\ device'[c] # device[c] => device'[c] = table[cert[c]]
          /\ stage'[c] = "line" => device'[c] # None]_vars

\* Leaf certificates are made for hosts of the allowlist only, whatever was
\* asked for by connections that are refused or break off.
MintsOnlyAllowed == minted \subseteq Allow

\* A connection leaves the phase before the 200, however slowly its peer
\* sends (handshakeReadTimeout covers handshake, CONNECT line and headers).
PreTunnelEnds == \A c \in Conns : (stage[c] \in PreTunnel) ~> (stage[c] \notin PreTunnel)

\* No request stays in the handler for ever.  For one whose client is gone that
\* is what Chain!HangupEnds says; for one whose client waits nothing does.
RequestEnds(c) == []<>(stage[c] # "busy")

\* A tunnel whose peer is gone gives its slot back, in whatever phase it was:
\* by the deadline, the failed write of the 200, the failed read of the inner
\* server, or, when it was in the handler, after its request.
SlotComesBack ==
    \A c \in Conns :
       RequestEnds(c) =>
          ((c \in Holders /\ peer[c] = "gone") ~> (c \notin Holders))

\* Once the listener is closed and every peer is gone, Serve returns: no
\* connection, but one whose request never ends, keeps it in wg.Wait.
Drained == /\ listener = "closed"
           /\ \A c \in Conns : stage[c] \in {"none", "closed"} \/ peer[c] = "gone"
ServeEnds == (\A c \in Conns : RequestEnds(c)) => (Drained ~> (serve = "returned"))

\* What OPERATING.md says of a row taken out of devices.json: once that is
\* reloaded the device is cut off at once.  Here: no further request of it
\* gets into the handler.
RevokedIsCutOff ==
    [][\A c \in Conns :
          stage[c] # "busy" /\ stage'[c] = "busy" => cert[c] \in DOMAIN table]_vars
=============================================================================
