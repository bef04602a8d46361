------------------------------ MODULE Whitelist ------------------------------
(***************************************************************************)
(* What the device store promises to the handshakes that ask it: the       *)
(* answers come from one complete version of devices.json, never from a    *)
(* mixture or from an unfinished write, and the version served only moves  *)
(* forward.  Detailed by DeviceStore.                                      *)
(***************************************************************************)
EXTENDS Naturals, Sequences

CONSTANTS
    Lists,       \* the contents an edit can leave in devices.json
    Load(_)      \* the table a content is loaded into

VARIABLES
    log,         \* every complete content the file has had, oldest first
    at,          \* which of them is served; 0 before the first load
    table        \* the table lookups are answered from

wvars == <<log, at, table>>

Init == /\ log \in {<<l>> : l \in Lists}
        /\ at = 0
        /\ table = Load(<<>>)

Commit == /\ \E l \in Lists : log' = Append(log, l)
          /\ UNCHANGED <<at, table>>

Refresh == /\ at' \in at .. Len(log) \ {0}
           /\ table' = Load(log[at'])
           /\ UNCHANGED log

Next == Commit \/ Refresh

Spec == Init /\ [][Next]_wvars
=============================================================================
