------------------------------- MODULE Registry -------------------------------
(***************************************************************************)
(* What add-device promises to an operator who runs it: each enrolment is  *)
(* one atomic change of the registered devices, made to all that were      *)
(* registered before.  A list damaged by a hand edit is left alone until   *)
(* it is repaired.  The exception is an enrolment killed in the middle of  *)
(* its write: the list is lost until the file is repaired by hand, and the *)
(* next enrolment starts a list of its own.  Detailed by Enroll.           *)
(***************************************************************************)
CONSTANT Rows        \* [label, fp]

VARIABLES
    devices,         \* the rows registered
    state            \* of the list: "good", "damaged" or "lost"

rvars == <<devices, state>>

LabelsOf(rows) == {r.label : r \in rows}

Init == devices = {} /\ state = "good"

Append(r) ==
    /\ state = "good" /\ r.label \notin LabelsOf(devices)
    /\ devices' = devices \cup {r}
    /\ UNCHANGED state

Replace(r) ==
    /\ state = "good" /\ r.label \in LabelsOf(devices)
    /\ devices' = {d \in devices : d.label # r.label} \cup {r}
    /\ UNCHANGED state

Revoke(d) ==
    /\ state = "good"
    /\ devices' = devices \ {d}
    /\ UNCHANGED state

Damage == state = "good" /\ state' = "damaged" /\ UNCHANGED devices
Lose   == state = "good" /\ state' = "lost"    /\ UNCHANGED devices
Repair == state # "good" /\ state' = "good"    /\ UNCHANGED devices

StartOver(r) ==
    /\ state = "lost"
    /\ devices' = {r} /\ state' = "good"

Next == \/ \E r \in Rows : Append(r) \/ Replace(r) \/ StartOver(r)
        \/ \E d \in devices : Revoke(d)
        \/ Damage \/ Lose \/ Repair

Spec == Init /\ [][Next]_rvars
=============================================================================
