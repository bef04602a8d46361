------------------------------ MODULE Onboarding ------------------------------
(***************************************************************************)
(* How a device is let in: install.sh, which may be interrupted and run    *)
(* again, has device-init make the device's key and certificate, shows the *)
(* certificate's fingerprint to the operator, and asks the proxy again and *)
(* again until the operator has registered it.  Then it writes the wrapper *)
(* that starts the helper.  Runs on one device follow one another.         *)
(*                                                                         *)
(* A pair of key and certificate is a number, which also stands for the    *)
(* certificate's fingerprint.                                              *)
(***************************************************************************)
EXTENDS Integers, Sequences

CONSTANTS
    MaxMiss,       \* consecutive failures to connect that end the poll: 3
    MaxRuns,       \* bound: runs of install.sh
    MaxKills       \* bound: runs interrupted

ASSUME MaxMissAssumption == MaxMiss \in Nat \ {0}

VARIABLES
    key, crt,      \* device.key, device.crt: None or the pair they belong to
    made,          \* pairs made so far
    wrapper,       \* myclaude: "none", or "approved" or "unasked" (poll skipped)
    shown,         \* fingerprints shown to the operator
    registered,    \* of these, those in devices.json
    approved,      \* those that ever were
    pc,            \* the step of the run
    pair,          \* the pair it made, if it did
    miss,          \* failures to connect in a row
    seen,          \* the results of its last probes, newest first
    late,          \* its 600 s are over
    runs, kills

device == <<key, crt, made, wrapper>>
admin  == <<shown, registered, approved>>
poll   == <<miss, seen, late>>
counts == <<runs, kills>>
vars   == <<device, admin, pc, pair, poll, counts>>

None   == 0
PCs    == {"off", "fetch", "init", "key", "crt", "show", "probe", "wait", "wrap"}
Probes == {"approved", "unapproved", "unreachable"}

Init ==
    /\ key = None /\ crt = None /\ made = 0 /\ wrapper = "none"
    /\ shown = {} /\ registered = {} /\ approved = {}
    /\ pc = "off" /\ pair = None
    /\ miss = 0 /\ seen = <<>> /\ late = FALSE
    /\ runs = 0 /\ kills = 0

-----------------------------------------------------------------------------
(* install.sh up to device-init *)

Start ==
    /\ pc = "off" /\ runs < MaxRuns
    /\ runs' = runs + 1
    /\ pc' = "fetch" /\ pair' = None
    /\ miss' = 0 /\ seen' = <<>> /\ late' = FALSE
    /\ UNCHANGED <<device, admin, kills>>

\* The configuration, and the binary with its checksum: or the run fails.
Fetch ==
    /\ pc = "fetch"
    /\ pc' \in {"init", "off"}
    /\ UNCHANGED <<device, admin, pair, poll, counts>>

-----------------------------------------------------------------------------
(* device-init *)

PresentNever == FALSE                    \* the files are not looked for

Present == key # None /\ crt # None

\* What is there is shown again and never made again.
StatFiles ==
    /\ pc = "init"
    /\ IF Present THEN pc' = "show" /\ UNCHANGED <<made, pair>>
                  ELSE pc' = "key" /\ made' = made + 1 /\ pair' = made + 1
    /\ UNCHANGED <<key, crt, wrapper, admin, poll, counts>>

PutKeyOnce ==                            \* a key that is there is kept
    /\ pc = "key"
    /\ key' = IF key = None THEN pair ELSE key
    /\ pc' = "crt"
    /\ UNCHANGED <<crt, made, wrapper, admin, pair, poll, counts>>

\* writeFileAtomic renames a complete file into place.
PutKey ==
    /\ pc = "key"
    /\ key' = pair
    /\ pc' = "crt"
    /\ UNCHANGED <<crt, made, wrapper, admin, pair, poll, counts>>

PutCert ==
    /\ pc = "crt"
    /\ crt' = pair
    /\ pc' = "show"
    /\ UNCHANGED <<key, made, wrapper, admin, pair, poll, counts>>

\* The poll is left out on demand (CC_MYSUB_SKIP_POLL).
Show ==
    /\ pc = "show"
    /\ shown' = shown \cup {crt}
    /\ pc' \in {"probe", "wrap"}
    /\ UNCHANGED <<device, registered, approved, pair, poll, counts>>

-----------------------------------------------------------------------------
(* The poll, and the wrapper *)

\* A probe fails to connect for many reasons, and always without its key.
Answer(r) ==
    \/ r = "unreachable"
    \/ key = crt /\ r = IF crt \in registered THEN "approved" ELSE "unapproved"

MissesAdd(r) == IF r = "unreachable" THEN miss + 1 ELSE miss     \* never cleared

Misses(r) == IF r = "unreachable" THEN miss + 1 ELSE 0

AfterAnswer(r) == IF r # "unreachable" THEN "wrap" ELSE "wait"   \* any answer will do

After(r) == IF r = "approved" THEN "wrap" ELSE "wait"

Recent(s) == SubSeq(s, 1, IF Len(s) < MaxMiss THEN Len(s) ELSE MaxMiss)

\* openssl is given no time limit: pc stays "probe" until the peer answers or
\* closes (and "fetch" likewise, with curl).
Probe ==
    /\ pc = "probe"
    /\ \E r \in Probes :
          /\ Answer(r)
          /\ seen' = Recent(<<r>> \o seen)
          /\ miss' = Misses(r)
          /\ pc' = After(r)
    /\ UNCHANGED <<device, admin, pair, late, counts>>

TooManyLater == miss > MaxMiss           \* one failure too late

TooMany == miss >= MaxMiss

GiveUp ==
    /\ pc = "wait" /\ TooMany
    /\ pc' = "off"
    /\ UNCHANGED <<device, admin, pair, poll, counts>>

TimeOutUnreachable ==                    \* not looked at after an answer
    /\ pc = "wait" /\ ~TooMany /\ late /\ miss > 0
    /\ pc' = "off"
    /\ UNCHANGED <<device, admin, pair, poll, counts>>

TimeOut ==
    /\ pc = "wait" /\ ~TooMany /\ late
    /\ pc' = "off"
    /\ UNCHANGED <<device, admin, pair, poll, counts>>

ProbeAgain ==
    /\ pc = "wait" /\ ~TooMany /\ ~late
    /\ pc' = "probe"
    /\ UNCHANGED <<device, admin, pair, poll, counts>>

Wrap ==
    /\ pc = "wrap"
    /\ wrapper' = IF seen = <<>> THEN "unasked" ELSE "approved"
    /\ pc' = "off"
    /\ UNCHANGED <<key, crt, made, admin, pair, poll, counts>>

-----------------------------------------------------------------------------
(* Around the installer *)

DeadlinePasses ==
    /\ pc \in {"probe", "wait"} /\ ~late
    /\ late' = TRUE
    /\ UNCHANGED <<device, admin, pc, pair, miss, seen, counts>>

Kill ==
    /\ pc # "off" /\ kills < MaxKills
    /\ kills' = kills + 1
    /\ pc' = "off"
    /\ UNCHANGED <<device, admin, pair, poll, runs>>

Register ==
    /\ \E f \in shown : registered' = registered \cup {f} /\ approved' = approved \cup {f}
    /\ UNCHANGED <<device, shown, pc, pair, poll, counts>>

Revoke ==
    /\ \E f \in registered : registered' = registered \ {f}
    /\ UNCHANGED <<device, shown, approved, pc, pair, poll, counts>>

DeviceInit == StatFiles \/ PutKey \/ PutCert
Poll       == Probe \/ GiveUp \/ TimeOut \/ ProbeAgain
Script     == Fetch \/ DeviceInit \/ Show \/ Poll \/ Wrap

\* The steps that wait for no peer.
Local      == DeviceInit \/ Show \/ GiveUp \/ TimeOut \/ ProbeAgain \/ Wrap

Next == Start \/ Script \/ DeadlinePasses \/ Kill \/ Register \/ Revoke

Spec == Init /\ [][Next]_vars /\ WF_vars(Local) /\ WF_vars(DeadlinePasses)

-----------------------------------------------------------------------------
(* Properties *)

Pairs == 0 .. made

\* The states have the shapes the code gives them; the count of failures
\* stops at its limit, and nothing is shown before there is a certificate.
TypeOK ==
    /\ made \in Nat
    /\ key \in Pairs /\ crt \in Pairs /\ pair \in Pairs
    /\ wrapper \in {"none", "approved", "unasked"}
    /\ shown \subseteq Pairs \ {None}
    /\ registered \subseteq approved /\ approved \subseteq shown
    /\ pc \in PCs
    /\ miss \in 0 .. MaxMiss /\ seen \in Seq(Probes) /\ late \in BOOLEAN
    /\ runs \in Nat /\ kills \in Nat

\* An identity that was shown to the operator is the device's for ever,
\* wherever a run was interrupted (device-init makes a pair only when one of
\* the two files is missing).
IdentityKept == [][shown # {} => UNCHANGED <<key, crt>>]_vars

\* What the operator was shown is a certificate whose key the device has: the
\* two files get into place one after the other, in runs that are interrupted.
ShownIsUsable == \A f \in shown : crt = f /\ key = f

\* A wrapper written after a poll is for an identity the operator registered.
WrapperIsApproved == wrapper = "approved" => crt \in approved

\* A run says that the proxy cannot be reached only after as many failures
\* in a row as the script tolerates: an answer in between clears the count.
GivesUpFairly ==
    miss >= MaxMiss =>
        Len(seen) = MaxMiss /\ \A i \in 1 .. MaxMiss : seen[i] = "unreachable"

\* A poll each of whose probes returns is over once the 600 s are, whatever the
\* answers: what clears the count of failures does not clear the deadline.  A
\* peer that accepts and stays silent holds the probe, and the poll with it,
\* for good: the deadline is looked at only between probes.
PollEnds == []<>(pc # "probe") => (pc = "probe" ~> pc = "off")

\* What the documentation says of a rerun of install.sh or of device-init on
\* a device: it yields a new fingerprint.
RerunIsNew == [][pc = "show" /\ pc' # "off" => crt \notin shown]_vars
=============================================================================
