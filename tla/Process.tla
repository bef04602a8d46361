------------------------------- MODULE Process -------------------------------
(***************************************************************************)
(* cmd/cc-mysub/main.go: the serving process from its start to its end.    *)
(* main reads the configuration, the CA and, through one call of the       *)
(* loader's get, the outer certificate; whatever it cannot use ends it     *)
(* with os.Exit(1), and launchd starts it again (KeepAlive).  Meanwhile    *)
(* the operator edits the files, add-device makes the CA (EnsureCA), and   *)
(* renewals replace the outer certificate.  Handshakes and leaves are made *)
(* while it serves; both caches go with the process.                       *)
(*                                                                         *)
(* Runs of add-device follow one another here; Enroll lets them overlap.   *)
(***************************************************************************)
EXTENDS OuterCert, Minter

CONSTANTS
    Main,             \* the caller main is at its start, a handshake later on
    Configs,          \* config.json, upstream.json, devices.json
    MaxCAs,           \* bound: CA pairs generated
    MaxFailures       \* bound: crashes, busy ports, errors of Accept

ASSUME MainAssumption == Main \in Handshakes
ASSUME FailuresAssumption == MaxCAs \in Nat \ {0} /\ MaxFailures \in Nat

VARIABLES
    main,             \* where main is
    unusable,         \* configuration files main cannot load
    caKey, caCrt,     \* ca.key, ca.crt: None, Torn or the number of a pair
    made,             \* CA pairs generated
    ensure,           \* where EnsureCA is
    ca,               \* what main read of ca.crt and ca.key
    failures

caVars   == <<caKey, caCrt, made, ensure>>
mainVars == <<main, ca, failures>>
vars     == <<loaderVars, minterVars, mainVars, caVars, unusable>>

Serving == main = "serving"

NoCA == [crt |-> None, key |-> None]

Init ==
    /\ LoaderInit /\ MinterInit
    /\ main = "config"
    /\ unusable \in SUBSET Configs
    /\ caKey \in {None, 1} /\ caCrt = caKey /\ made = caKey /\ ensure = "off"
    /\ ca = NoCA
    /\ failures = 0

-----------------------------------------------------------------------------
(* Around the process *)

\* The operator breaks or repairs a configuration file.  An edit made later
\* shows at the next start, and is taken to be made then.
Edit ==
    /\ main \in {"config", "down"}
    /\ \E f \in Configs : unusable' \in {unusable \ {f}, unusable \cup {f}}
    /\ UNCHANGED <<loaderVars, minterVars, mainVars, caVars>>

\* EnsureCA of an add-device run: nothing if there is a ca.crt; else a new
\* pair, os.WriteFile of the key and then of the certificate.
EnsureCA ==
    \/ /\ ensure = "off" /\ caCrt = None /\ made < MaxCAs
       /\ made' = made + 1 /\ ensure' = "key"
       /\ UNCHANGED <<caKey, caCrt>>
    \/ /\ ensure = "key" /\ caKey' = Torn /\ ensure' = "keyput"
       /\ UNCHANGED <<caCrt, made>>
    \/ /\ ensure = "keyput" /\ caKey' = made /\ ensure' = "crt"
       /\ UNCHANGED <<caCrt, made>>
    \/ /\ ensure = "crt" /\ caCrt' = Torn /\ ensure' = "crtput"
       /\ UNCHANGED <<caKey, made>>
    \/ /\ ensure = "crtput" /\ caCrt' = made /\ ensure' = "off"
       /\ UNCHANGED <<caKey, made>>

KillEnsureCA == ensure # "off" /\ ensure' = "off" /\ UNCHANGED <<caKey, caCrt, made>>

AddDevice ==
    /\ EnsureCA \/ KillEnsureCA
    /\ UNCHANGED <<loaderVars, minterVars, mainVars, unusable>>

Renewing == Renewal /\ UNCHANGED <<minterVars, mainVars, caVars, unusable>>

\* Nothing depends on the time before the first leaf.
Clocks ==
    /\ main \in {"serving", "draining"}
    /\ Tick \/ Jump
    /\ UNCHANGED <<loaderVars, mainVars, caVars, unusable>>

-----------------------------------------------------------------------------
(* main *)

Files == <<fileVars, caVars, unusable, failures>>

Goto(l) == main' = l /\ UNCHANGED <<cacheVars, load, minterVars>>

\* The process ends, and all it held with it; time is told anew.
Exit ==
    /\ main' = "down" /\ ca' = NoCA
    /\ cached' = None /\ mod' = 0 /\ load' = [h \in Handshakes |-> Idle]
    /\ mono' = 0 /\ drift' = 0 /\ leaf' = [h \in Hosts |-> NoLeaf]

\* A config.json without a public_host is found out after LoadCA only; it
\* counts as one that cannot be loaded.
LoadConfigs ==
    /\ main = "config"
    /\ IF unusable = {} THEN Goto("ca") /\ UNCHANGED ca ELSE Exit
    /\ UNCHANGED Files

\* os.ReadFile
ReadCrtFile(from, to) ==
    /\ main = from
    /\ IF caCrt = None THEN Exit ELSE Goto(to) /\ ca' = [ca EXCEPT !.crt = caCrt]
    /\ UNCHANGED Files

ReadKeyFile(from, to) ==
    /\ main = from
    /\ IF caKey = None THEN Exit ELSE Goto(to) /\ ca' = [ca EXCEPT !.key = caKey]
    /\ UNCHANGED Files

ReadCAKeyFirst == ReadKeyFile("ca", "ca2") \/ ReadCrtFile("ca2", "load")

ReadCA == ReadCrtFile("ca", "ca2") \/ ReadKeyFile("ca2", "load")

\* LoadCA parses both; it does not compare them.
LoadCA ==
    /\ main = "load"
    /\ IF Torn \in {ca.crt, ca.key} THEN Exit ELSE Goto("outer") /\ UNCHANGED ca
    /\ UNCHANGED Files

\* outerCert(nil), and what main makes of its result.
LoadOuter ==
    /\ main = "outer"
    /\ \/ load[Main].pc = "off" /\ Stat(Main)
       \/ Get(Main)
    /\ UNCHANGED <<minterVars, mainVars, caVars, unusable>>

OuterLoadedAnyhow ==                     \* a failure is logged, and main waits
    /\ main = "outer" /\ load[Main].pc = "served"
    /\ Goto("listen") /\ UNCHANGED ca
    /\ UNCHANGED Files

OuterLoaded ==
    /\ main = "outer"
    /\ \/ load[Main].pc = "served" /\ Goto("listen") /\ UNCHANGED ca
       \/ load[Main].pc = "failed" /\ Exit
    /\ UNCHANGED Files

Listen ==
    /\ main = "listen"
    /\ Goto("serving") /\ UNCHANGED ca
    /\ UNCHANGED Files

\* Handshakes and tunnels.
Handshake ==
    /\ main \in {"serving", "draining"}
    /\ \E h \in Handshakes : (Serving /\ Stat(h)) \/ Get(h)
    /\ UNCHANGED <<minterVars, mainVars, caVars, unusable>>

MakeLeaf ==
    /\ main \in {"serving", "draining"}
    /\ \E h \in Hosts : CertFor(h)
    /\ UNCHANGED <<loaderVars, mainVars, caVars, unusable>>

\* Serve returns when the last tunnel has ended, and main exits.
Drained ==
    /\ main = "draining" /\ \A h \in Handshakes : ~InCall(h)
    /\ Exit
    /\ UNCHANGED Files

\* A busy port, an error of Accept, a crash.
Failure ==
    /\ failures < MaxFailures /\ failures' = failures + 1
    /\ \/ main # "down" /\ Exit
       \/ Serving /\ Goto("draining") /\ UNCHANGED ca
    /\ UNCHANGED <<fileVars, caVars, unusable>>

\* launchd starts the program again.
Restart ==
    /\ main = "down"
    /\ Goto("config") /\ UNCHANGED ca
    /\ UNCHANGED Files

Start == LoadConfigs \/ ReadCA \/ LoadCA \/ LoadOuter \/ OuterLoaded \/ Listen

Next == \/ Edit \/ AddDevice \/ Renewing \/ Clocks
        \/ Start \/ Handshake \/ MakeLeaf \/ Drained \/ Failure \/ Restart

Spec == Init /\ [][Next]_vars

\* main's own steps are taken, and launchd restarts what has ended.
FairSpec == Spec /\ WF_vars(Start) /\ WF_vars(Restart)

-----------------------------------------------------------------------------
(* Properties *)

MainPCs == {"config", "ca", "ca2", "load", "outer", "listen", "serving", "draining", "down"}

\* The states have the shapes the code gives them.
TypeOK ==
    /\ LoaderTypeOK /\ MinterTypeOK
    /\ main \in MainPCs
    /\ unusable \subseteq Configs
    /\ made \in 0 .. MaxCAs /\ failures \in 0 .. MaxFailures
    /\ ensure \in {"off", "key", "keyput", "crt", "crtput"}
    /\ caKey \in {None, Torn} \cup 1 .. made /\ caCrt \in {None, Torn} \cup 1 .. made
    /\ ca \in [crt : {None, Torn} \cup 1 .. made, key : {None, Torn} \cup 1 .. made]

\* The CA that signs the leaves is one pair, and the one on disk: the one
\* whose certificate the devices are given.  LoadCA does not look whether
\* key and certificate belong together; that they do is owed to main's
\* reading the certificate first, and EnsureCA's writing it last.
CAPairMatches ==
    main \in {"outer", "listen", "serving", "draining"}
        => ca.crt = ca.key /\ ca.crt = caCrt /\ ca.key = caKey

\* Once all files are in order for good the process comes up, whatever
\* failed starts and crashes came before (each failure exits, and launchd
\* tries again).  One that waits for its last tunnels after an error of Accept
\* counts as up: nothing ends it before they end.
InOrder == unusable = {} /\ caCrt > 0 /\ caKey > 0 /\ Whole
ComesUp == <>[]InOrder => []<>(main \in {"serving", "draining"})
=============================================================================
