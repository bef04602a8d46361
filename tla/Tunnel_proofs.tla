---------------------------- MODULE Tunnel_proofs ----------------------------
(***************************************************************************)
(* Proofs about Tunnel, for every finite set of connections, every         *)
(* capacity, every device table and every allowlist: what the slots and    *)
(* the wait group count, who is admitted and when, and that a connection   *)
(* gives its slot back and keeps Serve waiting no longer.                  *)
(***************************************************************************)
EXTENDS Tunnel, FiniteSetTheorems, TLAPS

\* What TypeOK says, the counters apart: that they stay natural numbers
\* follows from the accounting.
Shape ==
    /\ table \in Tables
    /\ listener \in {"open", "closed"}
    /\ serve \in {"accepting", "waiting", "returned"}
    /\ stage \in [Conns -> Stages]
    /\ routine \in [Conns -> Routines]
    /\ cert \in [Conns -> Fps \cup {None}]
    /\ peer \in [Conns -> {"there", "gone"}]
    /\ bytes \in [Conns -> Nat]
    /\ host \in [Conns -> Hosts \cup {None}]
    /\ device \in [Conns -> Devices \cup {None}]
    /\ minted \subseteq Hosts
    /\ \A c \in Conns :
          /\ stage[c] \in Connected => bytes[c] <= Cap /\ host[c] \in Hosts

\* The phases of a connection before and after its handle goroutine runs.
Coherent ==
    \A c \in Conns :
       /\ stage[c] \in {"none", "backlog"} => routine[c] = "none"
       /\ stage[c] \in PreTunnel \cup {"allowed"} => routine[c] = "running"
       /\ stage[c] \in {"allowed", "reading", "idle", "busy"} => host[c] \in Allow
       /\ stage[c] \in {"none", "backlog", "handshake"} => device[c] = None
       /\ stage[c] \in {"finishing", "line"} => device[c] # None

\* Drop keeps the shapes.
LEMMA DropShape ==
    ASSUME Shape, NEW c \in Conns, Drop(c)
    PROVE  stage' \in [Conns -> Stages] /\ routine' \in [Conns -> Routines]
BY DEF Drop, Shape, Stages, Routines

\* The states keep the shapes the code gives them, whatever the peers do.
THEOREM ShapeInvariant == Spec => []Shape
<1>1. Init => Shape
  BY CapNat DEF Init, Connected, Shape, Stages, Routines
<1>2. Shape /\ [Next]_vars => Shape'
  <2> SUFFICES ASSUME Shape, [Next]_vars PROVE Shape'
    OBVIOUS
  <2>1. CASE Reload
    BY <2>1 DEF Reload, serveVars, connVars, Shape
  <2>2. CASE CloseListener
    BY <2>2 DEF CloseListener, Connected, Shape, Stages
  <2>3. CASE AcceptFails \/ ServeReturns
    BY <2>3 DEF AcceptFails, ServeReturns, connVars, Shape
  <2>4. ASSUME NEW c \in Conns, Outside(c) \/ Loop(c) PROVE Shape'
    <3>1. CASE Arrive(c) \/ Shed(c)
      BY <3>1 DEF Arrive, Shed, serveVars, Connected, Shape, Stages
    <3>2. CASE PeerLeaves(c)
      BY <3>2 DEF PeerLeaves, serveVars, Connected, Shape
    <3>3. CASE Accept(c)
      BY <3>3 DEF Accept, Connected, Shape, Stages, Routines
    <3> QED
      BY <2>4, <3>1, <3>2, <3>3 DEF Outside, Loop
  <2>5. ASSUME NEW c \in Conns, Handle(c) PROVE Shape'
    <3>1. CASE Verify(c)
      <4>1. device' \in [Conns -> Devices \cup {None}]
        BY <3>1 DEF Verify, Shape, Devices
      <4> QED
        BY <3>1, <4>1, DropShape DEF Verify, Drop, serveVars, Connected, Shape, Stages
    <3>2. CASE FinishHandshake(c) \/ HandshakeTimeout(c)
      BY <2>5, <3>2, DropShape
         DEF FinishHandshake, HandshakeTimeout, Drop, serveVars, Connected, Shape, Stages
    <3>3. CASE Establish(c) \/ EstablishFails(c)
      <4>1. stage' \in [Conns -> Stages] /\ routine' \in [Conns -> Routines]
        BY <3>3, DropShape DEF Establish, EstablishFails, Shape, Stages, Routines
      <4> QED
        BY <3>3, <4>1 DEF Establish, EstablishFails, Drop, serveVars, Connected, Shape
    <3>4. CASE ConnectLine(c)
      <4>1. bytes' \in [Conns -> Nat] /\ host' \in [Conns -> Hosts \cup {None}]
        BY <3>4, LengthsAssumption DEF ConnectLine, Shape
      <4>2. \A d \in Conns : stage'[d] \in Connected => bytes'[d] <= Cap /\ host'[d] \in Hosts
        BY <3>4, CapNat, LengthsAssumption DEF ConnectLine, Drop, Connected, Shape
      <4> QED
        BY <3>4, <4>1, <4>2, DropShape DEF ConnectLine, serveVars, Connected, Shape, Stages
    <3>5. CASE HeaderLine(c)
      <4>1. bytes' \in [Conns -> Nat]
        BY <3>5, LengthsAssumption DEF HeaderLine, Shape
      <4>2. \A d \in Conns : stage'[d] \in Connected => bytes'[d] <= Cap /\ host'[d] \in Hosts
        BY <3>5, CapNat, LengthsAssumption DEF HeaderLine, Drop, Connected, Shape
      <4> QED
        BY <3>5, <4>1, <4>2, DropShape DEF HeaderLine, serveVars, Connected, Shape
    <3>6. CASE BlankLine(c)
      <4>1. bytes' \in [Conns -> Nat]
        BY <3>6, LengthsAssumption DEF BlankLine, Ending, Shape
      <4>2. \A d \in Conns : stage'[d] \in Connected => bytes'[d] <= Cap /\ host'[d] \in Hosts
        BY <3>6, CapNat DEF BlankLine, Drop, Ending, Connected, Shape
      <4> QED
        BY <3>6, <4>1, <4>2, DropShape DEF BlankLine, serveVars, Connected, Shape, Stages
    <3> QED
      BY <2>5, <3>1, <3>2, <3>3, <3>4, <3>5, <3>6 DEF Handle, Connect
  <2>6. ASSUME NEW c \in Conns, Http(c) PROVE Shape'
    <3>1. CASE Mint(c)
      <4>1. host[c] \in Hosts /\ minted' = minted \cup {host[c]}
        BY <3>1 DEF Mint, Connected, Shape
      <4>2. minted' \subseteq Hosts
        BY <4>1 DEF Shape
      <4> QED
        BY <3>1, <4>2 DEF Mint, connVars, serveVars, Connected, Shape
    <3>2. CASE \/ Request(c) \/ NextRequest(c) \/ Respond(c) \/ CloseEnds(c)
               \/ RespondAndClose(c) \/ HeaderTimeout(c) \/ Hangup(c)
      <4>1. PICK s \in {"busy", "reading", "idle", "closing", "closed"} :
               /\ stage' = [stage EXCEPT ![c] = s]
               /\ s \in Connected => stage[c] \in Connected
        BY <3>2 DEF Request, NextRequest, Respond, CloseEnds, RespondAndClose,
                    HeaderTimeout, Hangup, CloseStarts, Connected
      <4>2. UNCHANGED <<table, serveVars, routine, cert, peer, bytes, host, device, minted>>
        BY <3>2 DEF Request, NextRequest, Respond, CloseEnds, RespondAndClose,
                    HeaderTimeout, Hangup, CloseStarts
      <4> QED
        BY <4>1, <4>2 DEF serveVars, Connected, Shape, Stages
    <3> QED
      BY <2>6, <3>1, <3>2 DEF Http
  <2>7. ASSUME NEW c \in Conns, Return(c) PROVE Shape'
    BY <2>7 DEF Return, InnerServeReturns, Release, Done, serveVars, Connected, Shape, Routines
  <2>8. CASE UNCHANGED vars
    BY <2>8 DEF vars, serveVars, connVars, Shape
  <2> QED
    BY <2>1, <2>2, <2>3, <2>4, <2>5, <2>6, <2>7, <2>8 DEF Next
<1> QED
  BY <1>1, <1>2, PTL DEF Spec

-----------------------------------------------------------------------------
\* The handle goroutine and the phase of its connection go together, and no
\* phase past the handshake or the allowlist is reached without them.
THEOREM CoherentInvariant == Spec => []Coherent
<1>1. Init => Coherent
  BY DEF Init, Coherent, PreTunnel
<1>2. Shape /\ Coherent /\ [Next]_vars => Coherent'
  <2> SUFFICES ASSUME Shape, Coherent, [Next]_vars PROVE Coherent'
    OBVIOUS
  <2> USE DEF PreTunnel
  <2>1. CASE Reload \/ CloseListener \/ AcceptFails \/ ServeReturns \/ UNCHANGED vars
    BY <2>1 DEF Reload, CloseListener, AcceptFails, ServeReturns, connVars,
                vars, Coherent, Shape
  <2>2. ASSUME NEW c \in Conns, Outside(c) \/ Loop(c) PROVE Coherent'
    <3>1. CASE Arrive(c) \/ Shed(c)
      BY <3>1 DEF Arrive, Shed, Coherent, Shape
    <3>2. CASE PeerLeaves(c)
      BY <3>2 DEF PeerLeaves, Coherent
    <3>3. CASE Accept(c)
      BY <3>3 DEF Accept, Coherent, Shape
    <3> QED
      BY <2>2, <3>1, <3>2, <3>3 DEF Outside, Loop
  <2>3. ASSUME NEW c \in Conns, Handle(c) PROVE Coherent'
    <3>1. CASE Verify(c)
      <4>1. cert[c] \in DOMAIN table => table[cert[c]] # None
        BY NoneAssumption DEF Devices, Shape
      <4> QED
        BY <3>1, <4>1 DEF Verify, Drop, Coherent, Shape
    <3>2. CASE FinishHandshake(c) \/ HandshakeTimeout(c)
      BY <3>2 DEF FinishHandshake, HandshakeTimeout, Drop, Coherent, Shape
    <3>3. CASE ConnectLine(c)
      BY <3>3 DEF ConnectLine, Drop, Coherent, Shape
    <3>4. CASE HeaderLine(c)
      BY <3>4 DEF HeaderLine, Drop, Coherent, Shape
    <3>5. CASE BlankLine(c)
      BY <3>5 DEF BlankLine, Drop, Coherent, Shape
    <3>6. CASE Establish(c) \/ EstablishFails(c)
      BY <3>6 DEF Establish, EstablishFails, Drop, Coherent, Shape
    <3> QED
      BY <2>3, <3>1, <3>2, <3>3, <3>4, <3>5, <3>6 DEF Handle, Connect
  <2>4. ASSUME NEW c \in Conns, Http(c) PROVE Coherent'
    <3>1. CASE Mint(c)
      BY <3>1 DEF Mint, connVars, Coherent
    <3>2. CASE Request(c) \/ NextRequest(c) \/ Respond(c) \/ CloseEnds(c)
      BY <3>2 DEF Request, NextRequest, Respond, CloseEnds, Coherent, Shape
    <3>3. CASE RespondAndClose(c) \/ HeaderTimeout(c) \/ Hangup(c)
      BY <3>3 DEF RespondAndClose, HeaderTimeout, Hangup, CloseStarts, Coherent, Shape
    <3> QED
      BY <2>4, <3>1, <3>2, <3>3 DEF Http
  <2>5. ASSUME NEW c \in Conns, Return(c) PROVE Coherent'
    BY <2>5 DEF Return, InnerServeReturns, Release, Done, Coherent, Shape
  <2> QED
    BY <2>1, <2>2, <2>3, <2>4, <2>5 DEF Next
<1> QED
  BY <1>1, <1>2, ShapeInvariant, PTL DEF Spec

-----------------------------------------------------------------------------
\* The counters count finite sets.
LEMMA FiniteSubsets == IsFiniteSet(Holders) /\ IsFiniteSet(Waited)
BY ConnsFinite, FS_Subset DEF Holders, Waited

\* A step that keeps both sets of goroutines and both counters.
LEMMA SameSets ==
    ASSUME Accounted, Holders' = Holders, Waited' = Waited, UNCHANGED <<sema, wg>>
    PROVE  Accounted'
BY DEF Accounted

\* A handle goroutine that moves on without returning keeps both sets.
LEMMA MovingOn ==
    ASSUME Shape, NEW c \in Conns, NEW r \in {"serving", "returning"},
           routine[c] \in {"running", "serving"},
           routine' = [routine EXCEPT ![c] = r]
    PROVE  Holders' = Holders /\ Waited' = Waited
BY DEF Holders, Waited, Shape

\* The slots taken are at all times the handle goroutines that hold one.
LEMMA Slots == Spec => []Accounted
<1>1. Init => Accounted
  <2> SUFFICES ASSUME Init PROVE Accounted
    OBVIOUS
  <2>1. Holders = {} /\ Waited = {}
    BY DEF Init, Holders, Waited
  <2> QED
    BY <2>1, FS_EmptySet, MaxInFlightPositive DEF Init, Accounted
<1>2. Shape /\ Coherent /\ Accounted /\ [Next]_vars => Accounted'
  <2> SUFFICES ASSUME Shape, Coherent, Accounted, [Next]_vars
               PROVE  Accounted'
    OBVIOUS
  <2>1. ASSUME UNCHANGED <<routine, sema, wg>> PROVE Accounted'
    BY <2>1, SameSets DEF Holders, Waited
  <2>2. CASE Reload \/ CloseListener \/ AcceptFails \/ ServeReturns \/ UNCHANGED vars
    BY <2>1, <2>2 DEF Reload, CloseListener, AcceptFails, ServeReturns, serveVars,
                connVars, vars
  <2>3. ASSUME NEW c \in Conns, Outside(c) \/ Shed(c) \/ Http(c) PROVE Accounted'
    <3>1. CASE Outside(c) \/ Shed(c)
      BY <2>1, <3>1 DEF Outside, Arrive, PeerLeaves, Shed, serveVars
    <3>2. CASE Http(c)
      BY <2>1, <3>2 DEF Http, Mint, Request, NextRequest, Respond, CloseEnds,
            RespondAndClose, HeaderTimeout, Hangup, CloseStarts, serveVars, connVars
    <3> QED
      BY <2>3, <3>1, <3>2
  <2>4. ASSUME NEW c \in Conns, Accept(c) PROVE Accounted'
    <3>1. c \notin Holders /\ c \notin Waited
      BY <2>4 DEF Accept, Coherent, Holders, Waited
    <3>2. Holders' = Holders \cup {c} /\ Waited' = Waited \cup {c}
      BY <2>4 DEF Accept, Holders, Waited, Shape
    <3>3. /\ Cardinality(Holders') = Cardinality(Holders) + 1
          /\ Cardinality(Waited') = Cardinality(Waited) + 1
      BY <3>1, <3>2, FiniteSubsets, FS_AddElement
    <3>4. Cardinality(Holders) \in Nat /\ Cardinality(Waited) \in Nat
      BY FiniteSubsets, FS_CardinalityType
    <3> QED
      BY <2>4, <3>3, <3>4, MaxInFlightPositive DEF Accept, Accounted
  <2>5. ASSUME NEW c \in Conns, Handle(c) PROVE Accounted'
    <3>1. /\ UNCHANGED <<sema, wg>>
          /\ \/ UNCHANGED routine
             \/ /\ routine[c] = "running"
                /\ \E r \in {"serving", "returning"} : routine' = [routine EXCEPT ![c] = r]
      <4>1. stage[c] \in PreTunnel \cup {"allowed"}
        BY <2>5 DEF Handle, Verify, FinishHandshake, Connect, ConnectLine, HeaderLine,
              BlankLine, Establish, EstablishFails, HandshakeTimeout, PreTunnel
      <4>2. routine[c] = "running"
        BY <4>1 DEF Coherent
      <4> QED
        BY <2>5, <4>2 DEF Handle, Verify, FinishHandshake, Connect, ConnectLine,
              HeaderLine, BlankLine, Establish, EstablishFails, HandshakeTimeout,
              Drop, serveVars
    <3> QED
      BY <2>1, <3>1, MovingOn, SameSets
  <2>6. ASSUME NEW c \in Conns, InnerServeReturns(c) PROVE Accounted'
    BY <2>6, MovingOn, SameSets DEF InnerServeReturns, serveVars
  <2>7. ASSUME NEW c \in Conns, Release(c) PROVE Accounted'
    <3>1. c \in Holders
      BY <2>7 DEF Release, Holders
    <3>2. Holders' = Holders \ {c} /\ Waited' = Waited
      BY <2>7 DEF Release, Holders, Waited, Shape
    <3>3. Cardinality(Holders') = Cardinality(Holders) - 1
      BY <3>1, <3>2, FiniteSubsets, FS_RemoveElement
    <3>4. Cardinality(Holders) \in Nat
      BY FiniteSubsets, FS_CardinalityType
    <3> QED
      BY <2>7, <3>2, <3>3, <3>4, MaxInFlightPositive DEF Release, Accounted
  <2>8. ASSUME NEW c \in Conns, Done(c) PROVE Accounted'
    <3>1. c \in Waited
      BY <2>8 DEF Done, Waited
    <3>2. Holders' = Holders /\ Waited' = Waited \ {c}
      BY <2>8 DEF Done, Holders, Waited, Shape
    <3>3. Cardinality(Waited') = Cardinality(Waited) - 1
      BY <3>1, <3>2, FiniteSubsets, FS_RemoveElement
    <3> QED
      BY <2>8, <3>2, <3>3 DEF Done, Accounted
  <2> QED
    BY <2>2, <2>3, <2>4, <2>5, <2>6, <2>7, <2>8 DEF Next, Loop, Return
<1> QED
  BY <1>1, <1>2, ShapeInvariant, CoherentInvariant, PTL DEF Spec

\* The states have the shapes of TypeOK; the counters never fall below zero.
THEOREM TypeCorrect == Spec => []TypeOK
<1>1. Shape /\ Accounted => TypeOK
  BY FiniteSubsets, FS_CardinalityType DEF Connected, Shape, Accounted, TypeOK
<1> QED
  BY <1>1, ShapeInvariant, Slots, PTL

NoOrphanHandle ==
    serve = "returned" => \A c \in Conns : routine[c] \in {"none", "done"}

\* When Serve has returned, every handle goroutine has ended: wg counts them
\* all, and nothing is accepted once Serve waits.
LEMMA NoOrphans == Spec => []NoOrphanHandle
<1>1. Init => NoOrphanHandle
  BY DEF Init, NoOrphanHandle
<1>2. /\ Shape /\ Coherent /\ Accounted /\ NoOrphanHandle
      /\ [Next]_vars
      => NoOrphanHandle'
  <2> SUFFICES ASSUME Shape, Coherent, Accounted, NoOrphanHandle, [Next]_vars
               PROVE  NoOrphanHandle'
    OBVIOUS
  <2>1. ASSUME UNCHANGED <<serve, routine>> PROVE NoOrphanHandle'
    BY <2>1 DEF NoOrphanHandle
  <2>2. CASE Reload \/ CloseListener \/ UNCHANGED vars
    BY <2>1, <2>2 DEF Reload, CloseListener, serveVars, connVars, vars
  <2>3. CASE AcceptFails
    BY <2>3 DEF AcceptFails, NoOrphanHandle
  <2>4. CASE ServeReturns
    <3>1. Waited = {}
      BY <2>4, FiniteSubsets, FS_EmptySet DEF ServeReturns, Accounted
    <3>2. \A c \in Conns : routine[c] \in {"none", "done"}
      BY <3>1 DEF Waited, Shape, Routines
    <3> QED
      BY <2>4, <3>2 DEF ServeReturns, connVars, NoOrphanHandle
  <2>5. ASSUME NEW c \in Conns, Outside(c) \/ Loop(c) PROVE NoOrphanHandle'
    <3>1. CASE Outside(c) \/ Shed(c)
      BY <2>1, <3>1 DEF Outside, Arrive, PeerLeaves, Shed, serveVars
    <3>2. CASE Accept(c)
      BY <3>2 DEF Accept, NoOrphanHandle
    <3> QED
      BY <2>5, <3>1, <3>2 DEF Loop
  <2>6. ASSUME NEW c \in Conns, Handle(c) PROVE NoOrphanHandle'
    <3>1. stage[c] \in PreTunnel \cup {"allowed"} /\ serve' = serve
      BY <2>6 DEF Handle, Verify, FinishHandshake, Connect, ConnectLine, HeaderLine,
            BlankLine, Establish, EstablishFails, HandshakeTimeout, PreTunnel, serveVars
    <3>2. routine[c] = "running"
      BY <3>1 DEF Coherent
    <3> QED
      BY <3>1, <3>2 DEF NoOrphanHandle
  <2>7. ASSUME NEW c \in Conns, Http(c) PROVE NoOrphanHandle'
    BY <2>1, <2>7 DEF Http, Mint, Request, NextRequest, Respond, CloseEnds,
          RespondAndClose, HeaderTimeout, Hangup, CloseStarts, serveVars, connVars
  <2>8. ASSUME NEW c \in Conns, Return(c) PROVE NoOrphanHandle'
    BY <2>8 DEF Return, InnerServeReturns, Release, Done, serveVars, NoOrphanHandle
  <2> QED
    BY <2>2, <2>3, <2>4, <2>5, <2>6, <2>7, <2>8 DEF Next
<1> QED
  BY <1>1, <1>2, ShapeInvariant, CoherentInvariant, Slots, PTL DEF Spec

\* The slots taken are those held by handle goroutines, at most the capacity,
\* and Serve leaves no goroutine behind.
THEOREM SlotsAccountedFor == Spec => []SlotAccounting
<1>1. Accounted /\ NoOrphanHandle => SlotAccounting
  BY DEF SlotAccounting, NoOrphanHandle
<1> QED
  BY <1>1, Slots, NoOrphans, PTL

\* Leaf certificates are only made for hosts of the allowlist.
THEOREM MintsAllowed == Spec => []MintsOnlyAllowed
<1>1. Init => MintsOnlyAllowed
  BY DEF Init, MintsOnlyAllowed
<1>2. Coherent /\ MintsOnlyAllowed /\ [Next]_vars => MintsOnlyAllowed'
  <2> SUFFICES ASSUME Coherent, MintsOnlyAllowed, [Next]_vars PROVE MintsOnlyAllowed'
    OBVIOUS
  <2>1. ASSUME NEW c \in Conns, Mint(c) PROVE MintsOnlyAllowed'
    BY <2>1 DEF Mint, Coherent, MintsOnlyAllowed
  <2>2. ASSUME NEW c \in Conns, Outside(c) \/ Loop(c) \/ Handle(c) \/ Return(c)
        PROVE  UNCHANGED minted
    BY <2>2 DEF Outside, Arrive, PeerLeaves, Loop, Accept, Shed, Handle, Verify,
          FinishHandshake, Connect, ConnectLine, HeaderLine, BlankLine, Establish,
          EstablishFails, HandshakeTimeout, Return, InnerServeReturns, Release, Done
  <2>3. ASSUME NEW c \in Conns, Http(c) PROVE Mint(c) \/ UNCHANGED minted
    BY <2>3 DEF Http, Request, NextRequest, Respond, CloseEnds, RespondAndClose,
          HeaderTimeout, Hangup, CloseStarts
  <2>4. CASE Reload \/ CloseListener \/ AcceptFails \/ ServeReturns \/ UNCHANGED vars
    BY <2>4 DEF Reload, CloseListener, AcceptFails, ServeReturns, vars, MintsOnlyAllowed
  <2> QED
    BY <2>1, <2>2, <2>3, <2>4 DEF Next, MintsOnlyAllowed
<1> QED
  BY <1>1, <1>2, CoherentInvariant, PTL DEF Spec

\* A connection's device is what the table said of its certificate at the
\* handshake, and stays it.
THEOREM DeviceNeverChanges == Spec => DeviceFixed
<1> DEFINE Fixed(c) == /\ device[c] # None => device'[c] = device[c]
                       /\ device'[c] # device[c] => device'[c] = table[cert[c]]
                       /\ stage'[c] = "line" => device'[c] # None
<1>1. Shape /\ Coherent /\ Coherent' /\ [Next]_vars
        => [\A c \in Conns : Fixed(c)]_vars
  <2> SUFFICES ASSUME Shape, Coherent, Coherent', Next, NEW d \in Conns
               PROVE  Fixed(d)
    OBVIOUS
  <2>1. stage'[d] = "line" => device'[d] # None
    BY DEF Coherent
  <2>2. ASSUME UNCHANGED device PROVE Fixed(d)
    BY <2>1, <2>2
  <2>3. CASE Reload \/ CloseListener \/ AcceptFails \/ ServeReturns
    BY <2>2, <2>3 DEF Reload, CloseListener, AcceptFails, ServeReturns, connVars
  <2>4. ASSUME NEW c \in Conns, Outside(c) \/ Loop(c) \/ Http(c) \/ Return(c)
        PROVE  Fixed(d)
    <3>1. UNCHANGED device
      BY <2>4 DEF Outside, Arrive, PeerLeaves, Loop, Accept, Shed, Http, Mint, Request,
            NextRequest, Respond, CloseEnds, RespondAndClose, HeaderTimeout, Hangup,
            CloseStarts, Return, InnerServeReturns, Release, Done, connVars
    <3> QED
      BY <2>2, <3>1
  <2>5. ASSUME NEW c \in Conns, Handle(c) PROVE Fixed(d)
    <3>1. CASE Verify(c)
      <4>1. device[c] = None
        BY <3>1 DEF Verify, Coherent
      <4> QED
        BY <2>1, <3>1, <4>1 DEF Verify, Shape
    <3>2. CASE ~Verify(c)
      <4>1. UNCHANGED device
        BY <2>5, <3>2 DEF Handle, FinishHandshake, Connect, ConnectLine, HeaderLine,
              BlankLine, Establish, EstablishFails, HandshakeTimeout
      <4> QED
        BY <2>2, <4>1
    <3> QED
      BY <3>1, <3>2
  <2> QED
    BY <2>3, <2>4, <2>5 DEF Next
<1> QED
  BY <1>1, ShapeInvariant, CoherentInvariant, PTL DEF Spec, DeviceFixed
-----------------------------------------------------------------------------
(* Liveness.  The prover cannot expand ENABLED, so the fairness of FairSpec *)
(* is written out with the guards of the steps in its place: a step whose   *)
(* guard holds from some moment on is taken again and again.                *)
ReturnReady(c) ==
    \/ routine[c] = "serving" /\ stage[c] \in {"closing", "closed"}
    \/ routine[c] \in {"returning", "released"}

ScheduledConn(c) ==
    /\ <>[](stage[c] \in PreTunnel) => []<><<HandshakeTimeout(c)>>_vars
    /\ <>[](stage[c] = "allowed") => []<><<Establish(c) \/ EstablishFails(c)>>_vars
    /\ <>[](stage[c] = "reading") => []<><<HeaderTimeout(c)>>_vars
    /\ <>[](stage[c] \in {"reading", "idle"} /\ peer[c] = "gone")
         => []<><<stage[c] # "busy" /\ Hangup(c)>>_vars
    /\ <>[](stage[c] = "closing") => []<><<CloseEnds(c)>>_vars
    /\ <>[]ReturnReady(c) => []<><<Return(c)>>_vars

ScheduledServe ==
    /\ <>[](listener = "closed" /\ serve = "accepting")
         => []<><<listener = "closed" /\ AcceptFails>>_vars
    /\ <>[](serve = "waiting" /\ wg = 0) => []<><<ServeReturns>>_vars

Scheduled == ScheduledServe /\ \A c \in Conns : ScheduledConn(c)

\* A connection before its 200 leaves that phase, however slowly its peer
\* sends: the one deadline set before the handshake is not cleared until then.
THEOREM PreTunnelIsBounded == Spec /\ Scheduled => PreTunnelEnds
<1> SUFFICES ASSUME NEW c \in Conns
             PROVE  Spec /\ Scheduled => (stage[c] \in PreTunnel ~> stage[c] \notin PreTunnel)
  BY DEF PreTunnelEnds
<1>1. Scheduled => ScheduledConn(c)
  BY DEF Scheduled
<1>2. Shape /\ <<HandshakeTimeout(c)>>_vars => ~(stage[c] \in PreTunnel)'
  BY DEF Shape, HandshakeTimeout, Drop, PreTunnel
<1>3. stage[c] \notin PreTunnel <=> ~(stage[c] \in PreTunnel)
  OBVIOUS
<1> QED
  BY <1>1, <1>2, <1>3, ShapeInvariant, PTL DEF Spec, ScheduledConn

\* What a handle goroutine is at goes with the phase of its connection.
Paired ==
    \A c \in Conns :
       /\ routine[c] = "none" => stage[c] \in {"none", "backlog", "closed"}
       /\ routine[c] = "running" => stage[c] \in PreTunnel \cup {"allowed"}
       /\ routine[c] = "serving"
            => stage[c] \in {"reading", "idle", "busy", "closing", "closed"}

\* The goroutine and its connection move together.
LEMMA RoutinesFollowStages == Spec => []Paired
<1>1. Init => Paired
  BY DEF Init, Paired
<1>2. Shape /\ Coherent /\ Paired /\ [Next]_vars => Paired'
  <2> SUFFICES ASSUME Shape, Coherent, Paired, [Next]_vars PROVE Paired'
    OBVIOUS
  <2> USE DEF PreTunnel
  <2>1. CASE Reload \/ CloseListener \/ AcceptFails \/ ServeReturns \/ UNCHANGED vars
    BY <2>1 DEF Reload, CloseListener, AcceptFails, ServeReturns, connVars,
                vars, Paired, Shape, Coherent
  <2>2. ASSUME NEW c \in Conns, Outside(c) \/ Loop(c) PROVE Paired'
    BY <2>2 DEF Outside, Arrive, PeerLeaves, Loop, Accept, Shed, Paired, Shape, Coherent
  <2>3. ASSUME NEW c \in Conns, Handle(c) PROVE Paired'
    <3>1. CASE Verify(c) \/ FinishHandshake(c) \/ HandshakeTimeout(c)
      BY <3>1 DEF Verify, FinishHandshake, HandshakeTimeout, Drop, Paired, Shape
    <3>2. CASE ConnectLine(c)
      BY <3>2 DEF ConnectLine, Drop, Paired, Shape
    <3>3. CASE HeaderLine(c) \/ BlankLine(c)
      BY <3>3 DEF HeaderLine, BlankLine, Drop, Paired, Shape
    <3>4. CASE Establish(c) \/ EstablishFails(c)
      BY <3>4 DEF Establish, EstablishFails, Drop, Paired, Shape
    <3> QED
      BY <2>3, <3>1, <3>2, <3>3, <3>4 DEF Handle, Connect
  <2>4. ASSUME NEW c \in Conns, Http(c) PROVE Paired'
    <3>1. CASE Mint(c)
      BY <3>1 DEF Mint, connVars, Paired
    <3>2. CASE Request(c) \/ NextRequest(c) \/ Respond(c) \/ CloseEnds(c)
      BY <3>2 DEF Request, NextRequest, Respond, CloseEnds, Paired, Shape, Coherent
    <3>3. CASE RespondAndClose(c) \/ HeaderTimeout(c) \/ Hangup(c)
      BY <3>3 DEF RespondAndClose, HeaderTimeout, Hangup, CloseStarts, Paired, Shape
    <3> QED
      BY <2>4, <3>1, <3>2, <3>3 DEF Http
  <2>5. ASSUME NEW c \in Conns, Return(c) PROVE Paired'
    BY <2>5 DEF Return, InnerServeReturns, Release, Done, Paired, Shape
  <2> QED
    BY <2>1, <2>2, <2>3, <2>4, <2>5 DEF Next
<1> QED
  BY <1>1, <1>2, ShapeInvariant, CoherentInvariant, PTL DEF Spec

-----------------------------------------------------------------------------
(* The way of one connection from its slot to the end of its goroutine.     *)
Before(c)    == routine[c] = "running" /\ stage[c] \in PreTunnel
Allowed(c)   == routine[c] = "running" /\ stage[c] = "allowed"
Reading(c)   == routine[c] = "serving" /\ stage[c] = "reading"
Busy(c)      == routine[c] = "serving" /\ stage[c] = "busy"
Idle(c)      == routine[c] = "serving" /\ stage[c] = "idle"
Open(c)      == Reading(c) \/ Busy(c) \/ Idle(c)
Closing(c)   == routine[c] = "serving" /\ stage[c] \in {"closing", "closed"}
Returning(c) == routine[c] = "returning"
Released(c)  == routine[c] = "released"
Ended(c)     == routine[c] = "done"
Gone(c)      == peer[c] = "gone"

LocalVars(c) == <<stage[c], routine[c], peer[c]>>

\* Other connections, the loop and the surroundings leave a connection that
\* has a goroutine alone.
LEMMA OthersLeaveItAlone ==
    ASSUME Shape, Coherent, NEW c \in Conns, routine[c] # "none",
           \/ Reload \/ CloseListener \/ AcceptFails \/ ServeReturns \/ UNCHANGED vars
           \/ \E d \in Conns \ {c} : Outside(d) \/ Loop(d) \/ Handle(d) \/ Http(d) \/ Return(d)
    PROVE  UNCHANGED LocalVars(c)
<1> USE DEF LocalVars
<1>1. CASE Reload \/ AcceptFails \/ ServeReturns \/ UNCHANGED vars
  BY <1>1 DEF Reload, AcceptFails, ServeReturns, connVars, vars
<1>2. CASE CloseListener
  BY <1>2 DEF CloseListener, Coherent
<1>3. ASSUME NEW d \in Conns \ {c}, Outside(d) \/ Loop(d) PROVE UNCHANGED LocalVars(c)
  BY <1>3 DEF Outside, Arrive, PeerLeaves, Loop, Accept, Shed, Shape
<1>4. ASSUME NEW d \in Conns \ {c}, Handle(d) PROVE UNCHANGED LocalVars(c)
  BY <1>4 DEF Handle, Verify, FinishHandshake, Connect, ConnectLine, HeaderLine, BlankLine,
        Establish, EstablishFails, HandshakeTimeout, Drop, Shape
<1>5. ASSUME NEW d \in Conns \ {c}, Http(d) PROVE UNCHANGED LocalVars(c)
  BY <1>5 DEF Http, Mint, Request, NextRequest, Respond, RespondAndClose, HeaderTimeout,
        Hangup, CloseStarts, CloseEnds, connVars, Shape
<1>6. ASSUME NEW d \in Conns \ {c}, Return(d) PROVE UNCHANGED LocalVars(c)
  BY <1>6 DEF Return, InnerServeReturns, Release, Done, Shape
<1> QED
  BY <1>1, <1>2, <1>3, <1>4, <1>5, <1>6

\* The moves a step can make on that way: forward only, when the peer is gone
\* and sends no further request.
Moves(c) ==
    /\ Before(c) => Before(c)' \/ Allowed(c)' \/ Returning(c)'
    /\ Allowed(c) => Allowed(c)' \/ Reading(c)' \/ Returning(c)'
    /\ Reading(c) => Reading(c)' \/ Busy(c)' \/ Closing(c)'
    /\ Busy(c) => Busy(c)' \/ Idle(c)' \/ Closing(c)'
    /\ Idle(c) /\ Gone(c) => Idle(c)' \/ Closing(c)'
    /\ Closing(c) => Closing(c)' \/ Returning(c)'
    /\ Returning(c) => Returning(c)' \/ Released(c)'
    /\ Released(c) => Released(c)' \/ Ended(c)'
    /\ Ended(c) => Ended(c)'
    /\ Gone(c) => Gone(c)'

\* Once a connection has its goroutine, whatever is done moves it on or leaves
\* it where it is.
LEMMA TunnelsMoveOn ==
    ASSUME Shape, Coherent, Paired, NEW c \in Conns, routine[c] # "none", [Next]_vars
    PROVE  Moves(c)
<1> USE DEF Before, Allowed, Reading, Busy, Idle, Closing, Returning, Released, Ended, Gone, Moves, PreTunnel
<1>1. ASSUME UNCHANGED LocalVars(c) PROVE Moves(c)
  BY <1>1 DEF LocalVars
<1>2. CASE Outside(c) \/ Loop(c)
  BY <1>2 DEF Outside, Arrive, PeerLeaves, Loop, Accept, Shed, Shape, Coherent
<1>3. CASE Handle(c)
  <2>1. stage[c] \in PreTunnel \cup {"allowed"} /\ UNCHANGED peer
    BY <1>3 DEF Handle, Verify, FinishHandshake, Connect, ConnectLine, HeaderLine,
          BlankLine, Establish, EstablishFails, HandshakeTimeout
  <2>2. routine[c] = "running"
    BY <2>1 DEF Coherent
  <2>3. CASE Verify(c) \/ FinishHandshake(c) \/ HandshakeTimeout(c)
    BY <2>1, <2>2, <2>3 DEF Verify, FinishHandshake, HandshakeTimeout, Drop, Shape
  <2>4. CASE Connect(c)
    BY <2>1, <2>2, <2>4 DEF Connect, ConnectLine, HeaderLine, BlankLine, Drop, Shape
  <2>5. CASE Establish(c) \/ EstablishFails(c)
    BY <2>1, <2>2, <2>5 DEF Establish, EstablishFails, Drop, Shape
  <2> QED
    BY <1>3, <2>3, <2>4, <2>5 DEF Handle
<1>4. CASE Http(c)
  BY <1>4 DEF Http, Mint, Request, NextRequest, Respond, RespondAndClose, HeaderTimeout,
        Hangup, CloseStarts, CloseEnds, connVars, Shape, Paired, Coherent
<1>5. CASE Return(c)
  BY <1>5 DEF Return, InnerServeReturns, Release, Done, Shape
<1> QED
  BY <1>1, <1>2, <1>3, <1>4, <1>5, OthersLeaveItAlone DEF Next

\* The steps that the fairness gives it do move it on.
LEMMA FairSteps ==
    ASSUME Shape, NEW c \in Conns
    PROVE  /\ Before(c) /\ <<HandshakeTimeout(c)>>_vars => Returning(c)'
           /\ Allowed(c) /\ Gone(c) /\ <<Establish(c) \/ EstablishFails(c)>>_vars
                => Returning(c)'
           /\ Reading(c) \/ Idle(c)
                => (<<stage[c] # "busy" /\ Hangup(c)>>_vars => Closing(c)')
           /\ Closing(c) /\ <<Return(c)>>_vars => Returning(c)'
           /\ Returning(c) /\ <<Return(c)>>_vars => Released(c)'
           /\ Released(c) /\ <<Return(c)>>_vars => Ended(c)'
<1> USE DEF Before, Allowed, Reading, Busy, Idle, Closing, Returning, Released, Ended, Gone
<1>1. Before(c) /\ <<HandshakeTimeout(c)>>_vars => Returning(c)'
  BY DEF HandshakeTimeout, Drop, Shape
<1>2. Allowed(c) /\ Gone(c) /\ <<Establish(c) \/ EstablishFails(c)>>_vars => Returning(c)'
  BY DEF Establish, EstablishFails, Drop, Shape
<1>3. Reading(c) \/ Idle(c)
        => (<<stage[c] # "busy" /\ Hangup(c)>>_vars => Closing(c)')
  BY DEF Hangup, CloseStarts, Shape
<1>4. /\ Closing(c) /\ <<Return(c)>>_vars => Returning(c)'
      /\ Returning(c) /\ <<Return(c)>>_vars => Released(c)'
      /\ Released(c) /\ <<Return(c)>>_vars => Ended(c)'
  BY DEF Return, InnerServeReturns, Release, Done, Shape
<1> QED
  BY <1>1, <1>2, <1>3, <1>4

\* The goroutine of a connection whose peer is gone, or which is already being
\* closed, ends, and stays ended, unless a request holds it in the handler.
LEMMA GoroutineEnds ==
    ASSUME NEW c \in Conns
    PROVE  Spec /\ Scheduled /\ RequestEnds(c)
             => ((\/ (Before(c) \/ Allowed(c) \/ Open(c)) /\ Gone(c)
                  \/ Closing(c) \/ Returning(c) \/ Released(c) \/ Ended(c))
                 ~> []Ended(c))
<1> DEFINE Inv == Shape /\ Coherent /\ Paired
<1>1. Spec => []Inv
  BY ShapeInvariant, CoherentInvariant, RoutinesFollowStages, PTL
<1>2. Scheduled => ScheduledConn(c)
  BY DEF Scheduled
<1>3. /\ Before(c) \/ Allowed(c) \/ Reading(c) \/ Busy(c) \/ Idle(c)
         \/ Closing(c) \/ Returning(c) \/ Released(c) \/ Ended(c)
      /\ Inv /\ [Next]_vars
      => Moves(c)
  <2>1. /\ Before(c) \/ Allowed(c) \/ Reading(c) \/ Busy(c) \/ Idle(c)
           \/ Closing(c) \/ Returning(c) \/ Released(c) \/ Ended(c)
        => routine[c] # "none"
    BY DEF Before, Allowed, Reading, Busy, Idle, Closing, Returning, Released, Ended
  <2> QED
    BY <2>1, TunnelsMoveOn
<1>4. /\ Inv /\ Before(c) /\ <<HandshakeTimeout(c)>>_vars => Returning(c)'
      /\ Inv /\ Allowed(c) /\ Gone(c) /\ <<Establish(c) \/ EstablishFails(c)>>_vars
           => Returning(c)'
      /\ Inv /\ (Reading(c) \/ Idle(c)) /\ <<stage[c] # "busy" /\ Hangup(c)>>_vars
           => Closing(c)'
      /\ Inv /\ Closing(c) /\ <<Return(c)>>_vars => Returning(c)'
      /\ Inv /\ Returning(c) /\ <<Return(c)>>_vars => Released(c)'
      /\ Inv /\ Released(c) /\ <<Return(c)>>_vars => Ended(c)'
  BY FairSteps
<1>5. /\ Before(c) => stage[c] \in PreTunnel
      /\ Allowed(c) => stage[c] = "allowed"
      /\ (Reading(c) \/ Idle(c)) /\ Gone(c)
           => stage[c] \in {"reading", "idle"} /\ peer[c] = "gone"
      /\ Busy(c) <=> Busy(c) /\ ~(stage[c] # "busy")
      /\ Closing(c) \/ Returning(c) \/ Released(c) => ReturnReady(c)
  BY DEF Before, Allowed, Reading, Busy, Idle, Closing, Returning, Released, Gone, ReturnReady
<1> HIDE DEF Inv
<1> QED
  BY <1>1, <1>2, <1>3, <1>4, <1>5, PTL DEF Spec, ScheduledConn, Moves, Open, RequestEnds

\* A connection whose peer is gone gives its slot back, whatever phase it is
\* in: by the deadline, the failed write of the 200, or the announced close;
\* a request in the handler must end first.
THEOREM SlotsComeBack == Spec /\ Scheduled => SlotComesBack
<1> SUFFICES ASSUME NEW c \in Conns
             PROVE  Spec /\ Scheduled /\ RequestEnds(c)
                      => ((c \in Holders /\ peer[c] = "gone") ~> (c \notin Holders))
  BY DEF SlotComesBack
<1>1. Paired /\ c \in Holders /\ peer[c] = "gone"
        => \/ (Before(c) \/ Allowed(c) \/ Open(c)) /\ Gone(c)
           \/ Closing(c) \/ Returning(c) \/ Released(c) \/ Ended(c)
  BY DEF Paired, Holders, Before, Allowed, Open, Reading, Busy, Idle, Closing, Returning, Gone
<1>2. Ended(c) => c \notin Holders
  BY DEF Ended, Holders
<1> QED
  BY <1>1, <1>2, GoroutineEnds, RoutinesFollowStages, PTL
-----------------------------------------------------------------------------
\* Serve's wait for its goroutines.  A closed listener has no backlog.
NoBacklog == listener = "closed" => \A c \in Conns : stage[c] # "backlog"

\* CloseListener empties the backlog, and nothing arrives after it.
LEMMA ClosedListener == Spec => []NoBacklog
<1>1. Init => NoBacklog
  BY DEF Init, NoBacklog
<1>2. Shape /\ NoBacklog /\ [Next]_vars => NoBacklog'
  <2> SUFFICES ASSUME Shape, NoBacklog, [Next]_vars PROVE NoBacklog'
    OBVIOUS
  <2>1. CASE Reload \/ CloseListener \/ AcceptFails \/ ServeReturns \/ UNCHANGED vars
    BY <2>1 DEF Reload, CloseListener, AcceptFails, ServeReturns, serveVars, connVars,
                vars, NoBacklog, Shape
  <2>2. ASSUME NEW c \in Conns, Outside(c) \/ Loop(c) PROVE NoBacklog'
    BY <2>2 DEF Outside, Arrive, PeerLeaves, Loop, Accept, Shed, serveVars, NoBacklog, Shape
  <2>3. ASSUME NEW c \in Conns, Handle(c) PROVE NoBacklog'
    BY <2>3 DEF Handle, Verify, FinishHandshake, Connect, ConnectLine, HeaderLine, BlankLine,
          Establish, EstablishFails, HandshakeTimeout, Drop, serveVars, NoBacklog, Shape
  <2>4. ASSUME NEW c \in Conns, Http(c) \/ Return(c) PROVE NoBacklog'
    BY <2>4 DEF Http, Mint, Request, NextRequest, Respond, RespondAndClose, HeaderTimeout,
          Hangup, CloseStarts, CloseEnds, Return, InnerServeReturns, Release, Done,
          serveVars, connVars, NoBacklog, Shape
  <2> QED
    BY <2>1, <2>2, <2>3, <2>4 DEF Next
<1> QED
  BY <1>1, <1>2, ShapeInvariant, PTL DEF Spec

\* A connection that never had a goroutine, and with the listener closed never
\* will have one.
Unserved(c) == /\ listener = "closed"
               /\ routine[c] = "none" /\ stage[c] \in {"none", "closed"}

\* A goroutine is started by Accept only, of a connection in the backlog.
LEMMA UnservedStays ==
    ASSUME Shape, Coherent, NEW c \in Conns, Unserved(c), [Next]_vars
    PROVE  Unserved(c)'
<1> USE DEF Unserved
<1>1. CASE Reload \/ CloseListener \/ AcceptFails \/ ServeReturns \/ UNCHANGED vars
  BY <1>1 DEF Reload, CloseListener, AcceptFails, ServeReturns, serveVars, connVars, vars
<1>2. ASSUME NEW d \in Conns, Outside(d) \/ Loop(d) PROVE Unserved(c)'
  BY <1>2 DEF Outside, Arrive, PeerLeaves, Loop, Accept, Shed, serveVars, Shape
<1>3. ASSUME NEW d \in Conns, Handle(d) PROVE Unserved(c)'
  <2>1. stage[d] \in PreTunnel \cup {"allowed"} /\ UNCHANGED listener
    BY <1>3 DEF Handle, Verify, FinishHandshake, Connect, ConnectLine, HeaderLine,
          BlankLine, Establish, EstablishFails, HandshakeTimeout, PreTunnel, serveVars
  <2>2. d # c
    BY <2>1 DEF PreTunnel
  <2>3. stage'[c] = stage[c] /\ routine'[c] = routine[c]
    <3>1. CASE Verify(d) \/ FinishHandshake(d) \/ HandshakeTimeout(d)
      BY <2>2, <3>1 DEF Verify, FinishHandshake, HandshakeTimeout, Drop, Shape
    <3>2. CASE Connect(d)
      BY <2>2, <3>2 DEF Connect, ConnectLine, HeaderLine, BlankLine, Drop, Shape
    <3>3. CASE Establish(d) \/ EstablishFails(d)
      BY <2>2, <3>3 DEF Establish, EstablishFails, Drop, Shape
    <3> QED
      BY <1>3, <3>1, <3>2, <3>3 DEF Handle
  <2> QED
    BY <2>1, <2>3
<1>4. ASSUME NEW d \in Conns, Http(d) \/ Return(d) PROVE Unserved(c)'
  BY <1>4 DEF Http, Mint, Request, NextRequest, Respond, RespondAndClose, HeaderTimeout,
        Hangup, CloseStarts, CloseEnds, Return, InnerServeReturns, Release, Done,
        serveVars, connVars, Shape
<1> QED
  BY <1>1, <1>2, <1>3, <1>4 DEF Next

\* Each goroutine that Serve may be waiting for ends once the listener is
\* closed and the peers are gone: whichever it is, but one whose request never
\* ends, it is not waited for from some moment on.
GoroutinesEnd == \A c \in Conns : RequestEnds(c) => (Drained ~> [](c \notin Waited))

THEOREM NobodyHoldsServe == Spec /\ Scheduled => GoroutinesEnd
<1> SUFFICES ASSUME NEW c \in Conns
             PROVE  Spec /\ Scheduled /\ RequestEnds(c) => (Drained ~> [](c \notin Waited))
  BY DEF GoroutinesEnd
<1> DEFINE Inv == Shape /\ Coherent /\ Paired /\ NoBacklog
<1>1. Spec => []Inv
  BY ShapeInvariant, CoherentInvariant, RoutinesFollowStages, ClosedListener, PTL
<1>2. Inv /\ Drained
        => \/ (Before(c) \/ Allowed(c) \/ Open(c)) /\ Gone(c)
           \/ Closing(c) \/ Returning(c) \/ Released(c) \/ Ended(c)
           \/ Unserved(c)
  <2> SUFFICES ASSUME Inv, Drained, ~Unserved(c)
               PROVE  \/ (Before(c) \/ Allowed(c) \/ Open(c)) /\ Gone(c)
                      \/ Closing(c) \/ Returning(c) \/ Released(c) \/ Ended(c)
    OBVIOUS
  <2>1. routine[c] # "none"
    BY DEF Drained, Unserved, NoBacklog, Paired
  <2>2. stage[c] \in {"none", "closed"} \/ Gone(c)
    BY DEF Drained, Gone
  <2>3. CASE routine[c] = "running"
    BY <2>2, <2>3 DEF Paired, PreTunnel, Before, Allowed
  <2>4. CASE routine[c] = "serving"
    BY <2>2, <2>4 DEF Paired, Open, Reading, Busy, Idle, Closing
  <2>5. routine[c] \in Routines
    BY DEF Shape
  <2> QED
    BY <2>1, <2>3, <2>4, <2>5 DEF Routines, Returning, Released, Ended
<1>3. Inv /\ Unserved(c) /\ [Next]_vars => Unserved(c)'
  BY UnservedStays
<1>4. Ended(c) \/ Unserved(c) => c \notin Waited
  BY DEF Ended, Unserved, Waited
<1> HIDE DEF Inv
<1> QED
  BY <1>1, <1>2, <1>3, <1>4, GoroutineEnds, PTL DEF Spec

\* And with no goroutine left to wait for, Serve leaves its loop and returns.
LoopEnds == (listener = "closed" /\ [](Waited = {})) ~> (serve = "returned")

THEOREM ServeFollows == Spec /\ Scheduled => LoopEnds
<1> DEFINE Is(s) == serve = s
<1>1. Shape => Is("accepting") \/ Is("waiting") \/ Is("returned")
  BY DEF Shape
<1>2. /\ [Next]_vars
      => /\ listener = "closed" => (listener = "closed")'
         /\ Is("waiting") => Is("waiting")' \/ Is("returned")'
  <2> SUFFICES ASSUME Next
               PROVE  /\ listener = "closed" => (listener = "closed")'
                      /\ Is("waiting") => Is("waiting")' \/ Is("returned")'
    BY DEF vars, serveVars
  <2>1. CASE Reload \/ CloseListener \/ AcceptFails \/ ServeReturns
    BY <2>1 DEF Reload, CloseListener, AcceptFails, ServeReturns, serveVars
  <2>2. ASSUME NEW c \in Conns, Outside(c) \/ Loop(c) PROVE UNCHANGED <<listener, serve>>
    BY <2>2 DEF Outside, Arrive, PeerLeaves, Loop, Accept, Shed, serveVars
  <2>3. ASSUME NEW c \in Conns, Handle(c) PROVE UNCHANGED <<listener, serve>>
    BY <2>3 DEF Handle, Verify, FinishHandshake, Connect, ConnectLine, HeaderLine,
          BlankLine, Establish, EstablishFails, HandshakeTimeout, serveVars
  <2>4. ASSUME NEW c \in Conns, Http(c) \/ Return(c) PROVE UNCHANGED <<listener, serve>>
    BY <2>4 DEF Http, Mint, Request, NextRequest, Respond, RespondAndClose, HeaderTimeout,
          Hangup, CloseStarts, CloseEnds, Return, InnerServeReturns, Release, Done, serveVars
  <2> QED
    BY <2>1, <2>2, <2>3, <2>4 DEF Next
<1>3. Accounted /\ Waited = {} => wg = 0
  BY FS_EmptySet DEF Accounted
<1>4. /\ <<listener = "closed" /\ AcceptFails>>_vars => Is("waiting")'
      /\ <<ServeReturns>>_vars => Is("returned")'
  BY DEF AcceptFails, ServeReturns
<1>5. /\ listener = "closed" /\ Is("accepting") <=> listener = "closed" /\ serve = "accepting"
      /\ Is("waiting") /\ wg = 0 <=> serve = "waiting" /\ wg = 0
      /\ Is("accepting") => ~Is("waiting")
  OBVIOUS
<1> QED
  BY <1>1, <1>2, <1>3, <1>4, <1>5, ShapeInvariant, Slots, PTL
     DEF Spec, Scheduled, ScheduledServe, LoopEnds
=============================================================================
