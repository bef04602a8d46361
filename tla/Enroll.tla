-------------------------------- MODULE Enroll --------------------------------
(***************************************************************************)
(* internal/enroll: the add-device command.  A run of it makes the CA if   *)
(* there is none (EnsureCA), then reads devices.json, adds a row or        *)
(* replaces the rows of a label, and writes the file back with             *)
(* os.WriteFile, which truncates first.  There is no lock: runs of several *)
(* operators interleave unless the operators take turns.  A run may be     *)
(* killed at any point, and the file is edited by hand between runs.       *)
(*                                                                         *)
(* The order of the rows does not matter here: a list is a set of rows.    *)
(***************************************************************************)
EXTENDS Integers

CONSTANTS
    Operators,     \* those who run add-device
    Labels,        \* device labels
    NoLabel,       \* the empty string, as a label
    Fps,           \* fingerprints
    NotCanonical,  \* what resolveFingerprint refuses
    MaxRuns,       \* bound: runs of add-device
    MaxKills       \* bound: runs killed

ASSUME LabelAssumption == NoLabel \notin Labels
ASSUME FpAssumption == NotCanonical \notin Fps

Rows == [label : Labels, fp : Fps]
Args == [label : Labels \cup {NoLabel}, fp : Fps \cup {NotCanonical}, rotate : BOOLEAN]

VARIABLES
    kind,          \* devices.json: "absent", "empty", "garbled" or "list"
    rows,          \* its last complete content
    caKey, caCert, \* ca.key, ca.crt: None, Torn or the number of a generated pair
    generated,     \* pairs generated so far
    published,     \* the certificate in the deployment configuration devices load
    run,           \* of each operator: the run in progress
    runs, kills,
    turns          \* the operators take turns; chosen once

fileVars == <<kind, rows>>
caVars   == <<caKey, caCert, generated>>
counts   == <<runs, kills>>
vars     == <<fileVars, caVars, published, run, counts, turns>>

None == 0
Torn == -1

PCs == {"off", "ca", "key", "keyput", "crt", "crtput", "fp", "read", "check", "put"}

\* Of a run: its step, its arguments, the list it read, the pair it generated.
RunSet == [pc : PCs, args : Args, mem : SUBSET Rows, pair : Int]
Idle   == [pc |-> "off", mem |-> {}, pair |-> None,
           args |-> [label |-> NoLabel, fp |-> NotCanonical, rotate |-> FALSE]]

Off(p)   == run[p] = Idle
Step(p)  == run[p].pc
Arg(p)   == run[p].args

\* The run goes on with step l, or ends.
Goto(p, l) == run' = [run EXCEPT ![p].pc = l]
End(p)     == run' = [run EXCEPT ![p] = Idle]

LabelsOf(s) == {r.label : r \in s}

Init ==
    /\ kind = "absent" /\ rows = {}
    /\ caKey = None /\ caCert = None /\ generated = 0 /\ published = None
    /\ run = [p \in Operators |-> Idle]
    /\ runs = 0 /\ kills = 0
    /\ turns \in BOOLEAN

-----------------------------------------------------------------------------
(* The command, and EnsureCA *)

Quiet == turns => \A p \in Operators : Off(p)

Resolves(a) == a.label # NoLabel

Start(p) ==
    /\ Off(p) /\ Quiet /\ runs < MaxRuns
    /\ runs' = runs + 1
    /\ \E a \in Args :
          IF Resolves(a) THEN run' = [run EXCEPT ![p].args = a, ![p].pc = "ca"]
                         ELSE UNCHANGED run
    /\ UNCHANGED <<fileVars, caVars, published, kills, turns>>

Generate(p) ==
    /\ generated' = generated + 1
    /\ run' = [run EXCEPT ![p].pair = generated + 1, ![p].pc = "key"]

StatCAAlways(p) ==                       \* the pair is made anew on every run
    /\ Step(p) = "ca"
    /\ Generate(p)
    /\ UNCHANGED <<fileVars, caKey, caCert, published, counts, turns>>

\* An existing ca.crt, whatever is in it, is left alone.
StatCA(p) ==
    /\ Step(p) = "ca"
    /\ IF caCert = None THEN Generate(p) ELSE Goto(p, "fp") /\ UNCHANGED generated
    /\ UNCHANGED <<fileVars, caKey, caCert, published, counts, turns>>

\* os.WriteFile: first the truncation, then the content, key before certificate.
TruncKey(p) ==
    /\ Step(p) = "key"
    /\ caKey' = Torn
    /\ Goto(p, "keyput")
    /\ UNCHANGED <<fileVars, caCert, generated, published, counts, turns>>

PutKeyOnlyIfNew(p) ==                    \* a key that is already there is kept
    /\ Step(p) = "keyput"
    /\ caKey' = IF run[p].pair = 1 THEN 1 ELSE caKey
    /\ Goto(p, "crt")
    /\ UNCHANGED <<fileVars, caCert, generated, published, counts, turns>>

PutKey(p) ==
    /\ Step(p) = "keyput"
    /\ caKey' = run[p].pair
    /\ Goto(p, "crt")
    /\ UNCHANGED <<fileVars, caCert, generated, published, counts, turns>>

TruncCert(p) ==
    /\ Step(p) = "crt"
    /\ caCert' = Torn
    /\ Goto(p, "crtput")
    /\ UNCHANGED <<fileVars, caKey, generated, published, counts, turns>>

PutCert(p) ==
    /\ Step(p) = "crtput"
    /\ caCert' = run[p].pair
    /\ Goto(p, "fp")
    /\ UNCHANGED <<fileVars, caKey, generated, published, counts, turns>>

-----------------------------------------------------------------------------
(* AppendDevice and ReplaceDevice *)

ResolveFingerprintLax(p) ==              \* the flag is taken as it comes
    /\ Step(p) = "fp"
    /\ Goto(p, "read")
    /\ UNCHANGED <<fileVars, caVars, published, counts, turns>>

ResolveFingerprint(p) ==
    /\ Step(p) = "fp"
    /\ IF Arg(p).fp \in Fps THEN Goto(p, "read") ELSE End(p)
    /\ UNCHANGED <<fileVars, caVars, published, counts, turns>>

ReadAs(p, list) == run' = [run EXCEPT ![p].mem = list, ![p].pc = "check"]

AppendReadsTolerant(p) ==                \* what does not parse counts as empty
    /\ Step(p) = "read" /\ ~Arg(p).rotate
    /\ ReadAs(p, IF kind = "list" THEN rows ELSE {})
    /\ UNCHANGED <<fileVars, caVars, published, counts, turns>>

\* AppendDevice: an absent or an empty file is an empty list.
AppendReads(p) ==
    /\ Step(p) = "read" /\ ~Arg(p).rotate
    /\ \/ kind = "list" /\ ReadAs(p, rows)
       \/ kind \in {"absent", "empty"} /\ ReadAs(p, {})
       \/ kind = "garbled" /\ End(p)
    /\ UNCHANGED <<fileVars, caVars, published, counts, turns>>

\* ReplaceDevice: it is an error.
ReplaceReads(p) ==
    /\ Step(p) = "read" /\ Arg(p).rotate
    /\ \/ kind = "list" /\ ReadAs(p, rows)
       \/ kind # "list" /\ End(p)
    /\ UNCHANGED <<fileVars, caVars, published, counts, turns>>

AcceptableAlways(p) == TRUE              \* the label is not looked for

\* AppendDevice refuses a label it finds, ReplaceDevice one it does not.
Acceptable(p) == Arg(p).rotate <=> Arg(p).label \in LabelsOf(run[p].mem)

\* What is accepted is written: os.WriteFile truncates.
Check(p) ==
    /\ Step(p) = "check"
    /\ \/ Acceptable(p) /\ Goto(p, "put") /\ kind' = "empty"
       \/ ~Acceptable(p) /\ End(p) /\ UNCHANGED kind
    /\ UNCHANGED <<rows, caVars, published, counts, turns>>

Written(p) ==
    (IF Arg(p).rotate THEN {r \in run[p].mem : r.label # Arg(p).label} ELSE run[p].mem)
        \cup {[label |-> Arg(p).label, fp |-> Arg(p).fp]}

\* Over what another run wrote since the truncation, the shorter of the two
\* leaves a tail of the longer one behind.
Put(p) ==
    /\ Step(p) = "put"
    /\ \/ kind' = "list" /\ rows' = Written(p)
       \/ kind # "empty" /\ kind' = "garbled" /\ UNCHANGED rows
    /\ End(p)
    /\ UNCHANGED <<caVars, published, counts, turns>>

-----------------------------------------------------------------------------
(* Around the command *)

Kill(p) ==
    /\ ~Off(p) /\ kills < MaxKills
    /\ kills' = kills + 1
    /\ End(p)
    /\ UNCHANGED <<fileVars, caVars, published, runs, turns>>

\* Revocation: a row is deleted in an editor.
Revoke ==
    /\ Quiet /\ kind = "list"
    /\ \E r \in rows : rows' = rows \ {r}
    /\ UNCHANGED <<kind, caVars, published, run, counts, turns>>

\* A hand edit that does not parse, ...
Damage ==
    /\ Quiet /\ kind = "list"
    /\ kind' = "garbled"
    /\ UNCHANGED <<rows, caVars, published, run, counts, turns>>

\* ... and the repair of one, or of a list that was lost.
Repair ==
    /\ Quiet /\ kind \in {"garbled", "empty"}
    /\ kind' = "list"
    /\ UNCHANGED <<rows, caVars, published, run, counts, turns>>

\* gen-config puts ca.crt as it is into the deployment configuration.
GenConfig ==
    /\ Quiet /\ caCert # None
    /\ published' = caCert
    /\ UNCHANGED <<fileVars, caVars, run, counts, turns>>

EnsureCA(p) == StatCA(p) \/ TruncKey(p) \/ PutKey(p) \/ TruncCert(p) \/ PutCert(p)
Register(p) == \/ ResolveFingerprint(p) \/ AppendReads(p) \/ ReplaceReads(p)
               \/ Check(p) \/ Put(p)

Next == \/ \E p \in Operators : Start(p) \/ EnsureCA(p) \/ Register(p) \/ Kill(p)
        \/ Revoke \/ Damage \/ Repair \/ GenConfig

Spec == Init /\ [][Next]_vars

-----------------------------------------------------------------------------
(* Properties *)

Generations == {None, Torn} \cup 1 .. generated

\* The states have the shapes the code gives them; only canonical
\* fingerprints get into the file (resolveFingerprint before either writer).
TypeOK ==
    /\ kind \in {"absent", "empty", "garbled", "list"}
    /\ rows \subseteq Rows
    /\ generated \in Nat
    /\ caKey \in Generations /\ caCert \in Generations /\ published \in Generations
    /\ run \in [Operators -> RunSet]
    /\ \A p \in Operators : run[p].pair \in 0 .. generated
    /\ runs \in Nat /\ kills \in Nat
    /\ turns \in BOOLEAN

\* A complete file never lists a label twice, even when runs of several
\* operators interleave: each of them writes what it checked (AppendDevice's
\* search for the label, ReplaceDevice's removal of all its rows).
Unique(s) == \A r1, r2 \in s : r1.label = r2.label => r1 = r2
LabelsUnique == Unique(rows)

\* With operators who take turns, the CA the devices were given is the one the
\* proxy signs with, key and certificate, wherever runs were killed (EnsureCA
\* writes the key first and takes the certificate as the sign of both).
PublishedCA ==
    turns /\ published \notin {None, Torn} => caCert = published /\ caKey = published

\* With operators who take turns, a certificate once made is never replaced:
\* the devices that trust it would be cut off (EnsureCA is idempotent).
CertKept ==
    [][turns /\ caCert \notin {None, Torn} => caCert' = caCert]_vars

\* With operators who take turns, add-device is what Registry says: every
\* enrolment is atomic and keeps all others, but for one killed in its write,
\* and no enrolment overwrites a list it cannot parse.
Writing == \E p \in Operators : Step(p) = "put" /\ run[p].mem = rows
Devices == IF turns THEN rows ELSE {}
State   == CASE turns /\ kind = "garbled"            -> "damaged"
             [] turns /\ kind = "empty" /\ ~Writing  -> "lost"
             [] OTHER                                -> "good"
R == INSTANCE Registry WITH devices <- Devices, state <- State
ImplementsRegistry == R!Spec
=============================================================================
