---------------------------- MODULE Enroll_proofs ----------------------------
(***************************************************************************)
(* Proofs about Enroll, for every number of operators, labels, runs and    *)
(* interruptions.                                                          *)
(***************************************************************************)
EXTENDS Enroll, TLAPS

-----------------------------------------------------------------------------
(* What the steps do to a run *)

\* All runs but p's stay as they are.
OthersKept(p) == \A q \in Operators : q # p => run'[q] = run[q]

\* p's run goes on with step l, the list mem and the pair x in hand; it ends.
Moved(p, l, mem, x) ==
    /\ run' \in [Operators -> RunSet] /\ OthersKept(p)
    /\ run'[p].pc = l /\ run'[p].args = run[p].args
    /\ run'[p].mem = mem /\ run'[p].pair = x
Ended(p) == run' \in [Operators -> RunSet] /\ OthersKept(p) /\ run'[p] = Idle

LEMMA GotoRun ==
    ASSUME run \in [Operators -> RunSet], NEW p \in Operators, NEW l \in PCs, Goto(p, l)
    PROVE  Moved(p, l, run[p].mem, run[p].pair)
  BY DEF Goto, RunSet, OthersKept, Moved

LEMMA EndRun ==
    ASSUME run \in [Operators -> RunSet], NEW p \in Operators, End(p)
    PROVE  Ended(p)
<1>1. Idle \in RunSet
  BY DEF Idle, RunSet, PCs, Args, None
<1> QED BY <1>1 DEF End, OthersKept, Ended

LEMMA ReadRun ==
    ASSUME run \in [Operators -> RunSet], NEW p \in Operators,
           NEW list \in SUBSET Rows, ReadAs(p, list)
    PROVE  Moved(p, "check", list, run[p].pair)
  BY DEF Moved, ReadAs, RunSet, OthersKept, PCs

LEMMA GenerateRun ==
    ASSUME run \in [Operators -> RunSet], NEW p \in Operators, generated \in Nat, Generate(p)
    PROVE  Moved(p, "key", run[p].mem, generated') /\ generated' = generated + 1
<1>1. generated' = generated + 1 /\ generated' \in Int
  BY DEF Generate
<1>2. run' = [run EXCEPT ![p].pair = generated', ![p].pc = "key"]
  BY <1>1 DEF Generate
<1> QED BY <1>1, <1>2 DEF Moved, RunSet, OthersKept, PCs

LEMMA StartRun ==
    ASSUME run \in [Operators -> RunSet], NEW p \in Operators, NEW a \in Args,
           run' = [run EXCEPT ![p].args = a, ![p].pc = "ca"]
    PROVE  /\ run' \in [Operators -> RunSet]
           /\ run'[p].pc = "ca" /\ run'[p].args = a
           /\ run'[p].mem = run[p].mem /\ run'[p].pair = run[p].pair
           /\ OthersKept(p)
  BY DEF RunSet, OthersKept, PCs

-----------------------------------------------------------------------------
(* First invariant: shapes, and what a run checked before it writes *)

\* The arguments were checked, and the list in hand is one that may be written.
RunOK(p) ==
    /\ Step(p) = "off" => run[p] = Idle
    /\ Step(p) # "off" => Arg(p).label \in Labels
    /\ Step(p) \in {"read", "check", "put"} => Arg(p).fp \in Fps
    /\ Unique(run[p].mem)
    /\ Step(p) = "put" => Acceptable(p)

RunsOK == \A p \in Operators : RunOK(p)

Inv1 == TypeOK /\ RunsOK /\ LabelsUnique

\* What is written lists no label twice.
LEMMA WrittenUnique ==
    ASSUME TypeOK, NEW p \in Operators, RunOK(p), Step(p) = "put"
    PROVE  Written(p) \subseteq Rows /\ Unique(Written(p))
<1>1. /\ run[p].mem \subseteq Rows
      /\ [label |-> Arg(p).label, fp |-> Arg(p).fp] \in Rows
  BY DEF TypeOK, RunSet, RunOK, Rows, Arg, Step, Args
<1>2. Written(p) \subseteq Rows
  BY <1>1 DEF Written
<1>3. Unique(Written(p))
  <2>1. CASE Arg(p).rotate
    BY <1>1, <2>1 DEF Written, Unique, RunOK
  <2>2. CASE ~Arg(p).rotate
    BY <1>1, <2>2 DEF Written, Unique, RunOK, Acceptable, LabelsOf
  <2> QED BY <2>1, <2>2
<1> QED BY <1>2, <1>3

LEMMA InitInv1 == Init => Inv1
<1> SUFFICES ASSUME Init PROVE Inv1
  OBVIOUS
<1>1. Idle \in RunSet
  BY DEF Idle, RunSet, PCs, Args, None
<1>2. turns \in BOOLEAN
  BY DEF Init
<1>3. TypeOK
  BY <1>1, <1>2 DEF Init, TypeOK, Generations, None, Idle
<1>4. RunsOK
  BY DEF Init, RunsOK, RunOK, Step, Arg, Idle, Unique
<1>5. LabelsUnique
  BY DEF Init, LabelsUnique, Unique
<1> QED BY <1>3, <1>4, <1>5 DEF Inv1

\* The runs of the others are as good as they were.
LEMMA OthersOK ==
    ASSUME RunsOK, NEW p \in Operators, OthersKept(p), RunOK(p)'
    PROVE  RunsOK'
  BY DEF RunsOK, RunOK, OthersKept, Step, Arg, Acceptable

\* A run that has ended is in order.
LEMMA EndedOK ==
    ASSUME RunsOK, NEW p \in Operators, Ended(p)
    PROVE  /\ RunsOK'
           /\ run'[p].pair = 0
<1>1. Unique({}) /\ Idle.mem = {} /\ Idle.pc = "off" /\ Idle.pair = 0
  BY DEF Unique, Idle, None
<1>2. RunOK(p)'
  BY <1>1 DEF RunOK, Step, Arg, Ended
<1> QED BY <1>1, <1>2, OthersOK DEF Ended

LEMMA NextInv1 == Inv1 /\ [Next]_vars => Inv1'
<1> SUFFICES ASSUME Inv1, [Next]_vars PROVE Inv1'
  OBVIOUS
<1> USE DEF Inv1, OthersKept, Generations, fileVars, caVars, counts, Moved, Ended
<1>0. run \in [Operators -> RunSet] /\ generated \in Nat
  BY DEF TypeOK
<1>1. ASSUME NEW p \in Operators, Start(p) PROVE Inv1'
  <2>1. PICK a \in Args : IF Resolves(a) THEN run' = [run EXCEPT ![p].args = a, ![p].pc = "ca"]
                                         ELSE UNCHANGED run
    BY <1>1 DEF Start
  <2>2. UNCHANGED <<fileVars, caVars, published, kills, turns>> /\ runs' \in Nat
    BY <1>1 DEF Start, TypeOK
  <2>3. CASE Resolves(a)
    <3>1. /\ run' \in [Operators -> RunSet]
          /\ run'[p].pc = "ca" /\ run'[p].args = a
          /\ run'[p].mem = run[p].mem /\ run'[p].pair = run[p].pair
          /\ OthersKept(p)
      BY <1>0, <2>1, <2>3, StartRun
    <3>2. RunOK(p)'
      BY <2>3, <3>1 DEF RunOK, RunsOK, Step, Arg, Resolves, Args
    <3> QED BY <2>2, <3>1, <3>2, OthersOK
            DEF TypeOK, LabelsUnique
  <2>4. CASE ~Resolves(a)
    BY <2>1, <2>2, <2>4
       DEF TypeOK, RunsOK, RunOK, Step, Arg, Acceptable, LabelsUnique
  <2> QED BY <2>3, <2>4
<1>2. ASSUME NEW p \in Operators, StatCA(p) PROVE Inv1'
  <2>1. CASE caCert = None
    <3>1. Moved(p, "key", run[p].mem, generated') /\ generated' = generated + 1
      BY <1>0, <1>2, <2>1, GenerateRun DEF StatCA
    <3>2. RunOK(p)' /\ RunsOK'
      BY <1>2, <3>1, OthersOK DEF StatCA, RunsOK, RunOK, Step, Arg
    <3> QED BY <1>2, <3>1, <3>2
            DEF StatCA, TypeOK, LabelsUnique
  <2>2. CASE caCert # None
    <3>1. Moved(p, "fp", run[p].mem, run[p].pair)
      BY <1>0, <1>2, <2>2, GotoRun DEF StatCA, PCs
    <3>2. RunOK(p)' /\ RunsOK'
      BY <1>2, <3>1, OthersOK DEF StatCA, RunsOK, RunOK, Step, Arg
    <3> QED BY <1>2, <2>2, <3>1, <3>2
            DEF StatCA, TypeOK, LabelsUnique
  <2> QED BY <2>1, <2>2
<1>3. ASSUME NEW p \in Operators, TruncKey(p) PROVE Inv1'
  <2>1. Goto(p, "keyput")
    BY <1>3 DEF TruncKey
  <2>2. Moved(p, "keyput", run[p].mem, run[p].pair)
    BY <1>0, <2>1, GotoRun DEF PCs
  <2>3. RunOK(p)' /\ RunsOK'
    BY <1>3, <2>2, OthersOK DEF TruncKey, RunsOK, RunOK, Step, Arg
  <2>4. (TypeOK /\ LabelsUnique)'
    BY <1>3, <2>2 DEF TruncKey, TypeOK, LabelsUnique
  <2> QED BY <2>3, <2>4
<1>4. ASSUME NEW p \in Operators, PutKey(p) PROVE Inv1'
  <2>1. Goto(p, "crt")
    BY <1>4 DEF PutKey
  <2>2. Moved(p, "crt", run[p].mem, run[p].pair)
    BY <1>0, <2>1, GotoRun DEF PCs
  <2>3. RunOK(p)' /\ RunsOK'
    BY <1>4, <2>2, OthersOK DEF PutKey, RunsOK, RunOK, Step, Arg
  <2>4. (TypeOK /\ LabelsUnique)'
    <3>1. run[p].pair \in Generations
      BY DEF TypeOK, Generations, None
    <3> QED BY <1>4, <2>2, <3>1 DEF PutKey, TypeOK, LabelsUnique
  <2> QED BY <2>3, <2>4
<1>5. ASSUME NEW p \in Operators, TruncCert(p) PROVE Inv1'
  <2>1. Goto(p, "crtput")
    BY <1>5 DEF TruncCert
  <2>2. Moved(p, "crtput", run[p].mem, run[p].pair)
    BY <1>0, <2>1, GotoRun DEF PCs
  <2>3. RunOK(p)' /\ RunsOK'
    BY <1>5, <2>2, OthersOK DEF TruncCert, RunsOK, RunOK, Step, Arg
  <2>4. (TypeOK /\ LabelsUnique)'
    BY <1>5, <2>2 DEF TruncCert, TypeOK, LabelsUnique
  <2> QED BY <2>3, <2>4
<1>6. ASSUME NEW p \in Operators, PutCert(p) PROVE Inv1'
  <2>1. Goto(p, "fp")
    BY <1>6 DEF PutCert
  <2>2. Moved(p, "fp", run[p].mem, run[p].pair)
    BY <1>0, <2>1, GotoRun DEF PCs
  <2>3. RunOK(p)' /\ RunsOK'
    BY <1>6, <2>2, OthersOK DEF PutCert, RunsOK, RunOK, Step, Arg
  <2>4. (TypeOK /\ LabelsUnique)'
    <3>1. run[p].pair \in Generations
      BY DEF TypeOK, Generations, None
    <3> QED BY <1>6, <2>2, <3>1 DEF PutCert, TypeOK, LabelsUnique
  <2> QED BY <2>3, <2>4
<1>7. ASSUME NEW p \in Operators, ResolveFingerprint(p) PROVE Inv1'
  <2>1. CASE Arg(p).fp \in Fps
    <3>1. Moved(p, "read", run[p].mem, run[p].pair)
      BY <1>0, <1>7, <2>1, GotoRun DEF ResolveFingerprint, PCs
    <3>2. RunOK(p)' /\ RunsOK'
      BY <1>7, <2>1, <3>1, OthersOK DEF ResolveFingerprint, RunsOK, RunOK, Step, Arg
    <3> QED BY <1>7, <3>1, <3>2 DEF ResolveFingerprint, TypeOK, LabelsUnique
  <2>2. CASE Arg(p).fp \notin Fps
    <3>1. Ended(p)
      BY <1>0, <1>7, <2>2, EndRun DEF ResolveFingerprint
    <3> QED BY <1>7, <2>2, <3>1, EndedOK DEF ResolveFingerprint, TypeOK, LabelsUnique
  <2> QED BY <2>1, <2>2
<1>8. ASSUME NEW p \in Operators, AppendReads(p) PROVE Inv1'
  <2>1. ASSUME NEW list \in {rows, {}}, ReadAs(p, list) PROVE Inv1'
    <3>1. Moved(p, "check", list, run[p].pair)
      BY <1>0, <2>1, ReadRun DEF TypeOK
    <3>2. Unique(list)
      BY DEF LabelsUnique, Unique
    <3>3. RunOK(p)' /\ RunsOK'
      BY <1>8, <3>1, <3>2, OthersOK DEF AppendReads, RunsOK, RunOK, Step, Arg
    <3> QED BY <1>8, <3>1, <3>3 DEF AppendReads, TypeOK, LabelsUnique
  <2>2. CASE End(p)
    <3>1. Ended(p)
      BY <1>0, <2>2, EndRun
    <3> QED BY <1>8, <3>1, EndedOK DEF AppendReads, TypeOK, LabelsUnique
  <2> QED BY <1>8, <2>1, <2>2 DEF AppendReads
<1>9. ASSUME NEW p \in Operators, ReplaceReads(p) PROVE Inv1'
  <2>1. ASSUME NEW list \in {rows, {}}, ReadAs(p, list) PROVE Inv1'
    <3>1. Moved(p, "check", list, run[p].pair)
      BY <1>0, <2>1, ReadRun DEF TypeOK
    <3>2. Unique(list)
      BY DEF LabelsUnique, Unique
    <3>3. RunOK(p)' /\ RunsOK'
      BY <1>9, <3>1, <3>2, OthersOK DEF ReplaceReads, RunsOK, RunOK, Step, Arg
    <3> QED BY <1>9, <3>1, <3>3 DEF ReplaceReads, TypeOK, LabelsUnique
  <2>2. CASE End(p)
    <3>1. Ended(p)
      BY <1>0, <2>2, EndRun
    <3> QED BY <1>9, <3>1, EndedOK DEF ReplaceReads, TypeOK, LabelsUnique
  <2> QED BY <1>9, <2>1, <2>2 DEF ReplaceReads
<1>10. ASSUME NEW p \in Operators, Check(p) PROVE Inv1'
  <2>1. CASE Acceptable(p)
    <3>1. Moved(p, "put", run[p].mem, run[p].pair)
      BY <1>0, <1>10, <2>1, GotoRun DEF Check, PCs
    <3>2. RunOK(p)' /\ RunsOK'
      BY <1>10, <2>1, <3>1, OthersOK DEF Check, RunsOK, RunOK, Step, Arg, Acceptable
    <3> QED BY <1>10, <2>1, <3>1, <3>2 DEF Check, TypeOK, LabelsUnique
  <2>2. CASE ~Acceptable(p)
    <3>1. Ended(p)
      BY <1>0, <1>10, <2>2, EndRun DEF Check
    <3> QED BY <1>10, <2>2, <3>1, EndedOK DEF Check, TypeOK, LabelsUnique
  <2> QED BY <2>1, <2>2
<1>11. ASSUME NEW p \in Operators, Put(p) PROVE Inv1'
  <2>1. Ended(p)
    BY <1>0, <1>11, EndRun DEF Put
  <2>2. Written(p) \subseteq Rows /\ Unique(Written(p))
    BY <1>11, WrittenUnique DEF Put, RunsOK
  <2> QED BY <1>11, <2>1, <2>2, EndedOK DEF Put, TypeOK, LabelsUnique
<1>12. ASSUME NEW p \in Operators, Kill(p) PROVE Inv1'
  <2>1. Ended(p)
    BY <1>0, <1>12, EndRun DEF Kill
  <2> QED BY <1>12, <2>1, EndedOK DEF Kill, TypeOK, LabelsUnique
<1>13. CASE Revoke
  BY <1>13 DEF Revoke, TypeOK, RunsOK, RunOK, Step, Arg, Acceptable, LabelsUnique, Unique
<1>14. CASE Damage \/ Repair \/ GenConfig \/ UNCHANGED vars
  BY <1>14 DEF Damage, Repair, GenConfig, TypeOK, RunsOK, RunOK, Step, Arg, Acceptable,
               LabelsUnique, Unique, vars
<1> QED BY <1>1, <1>2, <1>3, <1>4, <1>5, <1>6, <1>7, <1>8, <1>9, <1>10, <1>11, <1>12,
           <1>13, <1>14 DEF Next, EnsureCA, Register

LEMMA Invariance1 == Spec => []Inv1
  BY InitInv1, NextInv1, PTL DEF Spec

-----------------------------------------------------------------------------
(* Second invariant: what a run can count on when operators take turns *)

OneRun == \A p, q \in Operators : Step(p) # "off" /\ Step(q) # "off" => p = q

\* The certificate goes into place after its key, and only where there is none.
CAOK(p) ==
    /\ Step(p) \in {"key", "keyput", "crt"} => caCert = None
    /\ Step(p) = "crtput" => caCert = Torn
    /\ Step(p) \in {"crt", "crtput"} => caKey = run[p].pair
    /\ Step(p) \in {"key", "keyput", "crt", "crtput"} => run[p].pair \in Nat \ {0}

\* A certificate in place has its key beside it; one given to the devices is
\* the one in place.
CAPaired ==
    /\ caCert \notin {None, Torn} => caKey = caCert
    /\ published \notin {None, Torn} => caCert = published

\* The list in hand is the one in the file, or the file had none; once it is
\* truncated, nobody else writes it.
ListOK(p) ==
    /\ Step(p) = "check" => \/ kind = "list" /\ run[p].mem = rows
                            \/ kind \in {"absent", "empty"} /\ run[p].mem = {}
    /\ Step(p) = "put" => kind = "empty" /\ run[p].mem \in {rows, {}}

ListKnown == kind = "absent" => rows = {}

Inv2 == turns => /\ OneRun /\ CAPaired /\ ListKnown
                 /\ \A p \in Operators : CAOK(p) /\ ListOK(p)

OthersOff(p) == \A q \in Operators : q # p => Step(q) = "off"

LEMMA OneRunKept ==
    ASSUME Inv1, OneRun, NEW p \in Operators, OthersKept(p),
           Step(p) # "off" \/ \A q \in Operators : Off(q)
    PROVE  OneRun' /\ OthersOff(p)'
  BY DEF OneRun, OthersOff, OthersKept, Step, Off, Idle

LEMMA OthersFine ==
    ASSUME OneRun', NEW p \in Operators, OthersOff(p)', CAOK(p)', ListOK(p)',
           (CAPaired /\ ListKnown)'
    PROVE  Inv2'
  BY DEF Inv2, OthersOff, CAOK, ListOK

LEMMA InitInv2 == Init => Inv2
<1> SUFFICES ASSUME Init PROVE Inv2
  OBVIOUS
<1>1. \A p \in Operators : Step(p) = "off"
  BY DEF Init, Step, Idle
<1> QED BY <1>1 DEF Init, Inv2, OneRun, CAPaired, ListKnown, CAOK, ListOK, None

LEMMA NextInv2 == Inv1 /\ Inv2 /\ [Next]_vars => Inv2'
<1> SUFFICES ASSUME Inv1, Inv2, [Next]_vars, turns' PROVE Inv2'
  BY DEF Inv2
<1>0. /\ run \in [Operators -> RunSet] /\ generated \in Nat /\ turns
      /\ OneRun /\ CAPaired /\ ListKnown
      /\ \A p \in Operators : CAOK(p) /\ ListOK(p)
      /\ \A p \in Operators : RunOK(p)
  <2>1. turns
    BY DEF Next, Start, EnsureCA, StatCA, TruncKey, PutKey, TruncCert, PutCert, Register,
           ResolveFingerprint, AppendReads, ReplaceReads, Check, Put, Kill, Revoke, Damage,
           Repair, GenConfig, vars
  <2> QED BY <2>1 DEF Inv1, TypeOK, Inv2, RunsOK
<1> USE <1>0 DEF CAPaired, ListKnown, CAOK, ListOK, Step, fileVars, caVars, counts, None, Torn
<1>1. ASSUME NEW p \in Operators, Start(p) PROVE Inv2'
  <2>1. \A q \in Operators : Off(q)
    BY <1>1 DEF Start, Quiet
  <2>2. PICK a \in Args : IF Resolves(a) THEN run' = [run EXCEPT ![p].args = a, ![p].pc = "ca"]
                                         ELSE UNCHANGED run
    BY <1>1 DEF Start
  <2>3. OthersKept(p) /\ run'[p].pc \in {"off", "ca"}
    <3>1. CASE Resolves(a)
      BY <2>2, <3>1, StartRun
    <3>2. CASE ~Resolves(a)
      BY <2>1, <2>2, <3>2 DEF OthersKept, Off, Idle
    <3> QED BY <3>1, <3>2
  <2>4. OneRun' /\ OthersOff(p)'
    BY <2>1, <2>3, OneRunKept
  <2>5. (CAPaired /\ ListKnown)' /\ CAOK(p)' /\ ListOK(p)'
    BY <1>1, <2>3 DEF Start
  <2> QED BY <2>4, <2>5, OthersFine
<1>2. ASSUME NEW p \in Operators, StatCA(p) PROVE Inv2'
  <2>1. \/ caCert = None /\ Moved(p, "key", run[p].mem, generated') /\ generated' \in Nat \ {0}
        \/ Moved(p, "fp", run[p].mem, run[p].pair)
    <3>1. CASE caCert = None
      BY <1>2, <3>1, GenerateRun DEF StatCA
    <3>2. CASE caCert # None
      BY <1>2, <3>2, GotoRun DEF StatCA, PCs
    <3> QED BY <3>1, <3>2
  <2>2. OneRun' /\ OthersOff(p)'
    BY <1>2, <2>1, OneRunKept DEF StatCA, Moved
  <2>3. (CAPaired /\ ListKnown)' /\ CAOK(p)' /\ ListOK(p)'
    BY <1>2, <2>1 DEF StatCA, Moved
  <2> QED BY <2>2, <2>3, OthersFine
<1>3. ASSUME NEW p \in Operators, TruncKey(p) PROVE Inv2'
  <2>1. Moved(p, "keyput", run[p].mem, run[p].pair)
    BY <1>0, <1>3, GotoRun DEF TruncKey, PCs
  <2>2. OneRun' /\ OthersOff(p)'
    BY <1>3, <2>1, OneRunKept DEF TruncKey, Moved
  <2>3. (CAPaired /\ ListKnown)' /\ CAOK(p)' /\ ListOK(p)'
    BY <1>3, <2>1 DEF TruncKey, Moved
  <2> QED BY <2>2, <2>3, OthersFine
<1>4. ASSUME NEW p \in Operators, PutKey(p) PROVE Inv2'
  <2>1. Moved(p, "crt", run[p].mem, run[p].pair)
    BY <1>0, <1>4, GotoRun DEF PutKey, PCs
  <2>2. OneRun' /\ OthersOff(p)'
    BY <1>4, <2>1, OneRunKept DEF PutKey, Moved
  <2>3. (CAPaired /\ ListKnown)' /\ CAOK(p)' /\ ListOK(p)'
    BY <1>4, <2>1 DEF PutKey, Moved
  <2> QED BY <2>2, <2>3, OthersFine
<1>5. ASSUME NEW p \in Operators, TruncCert(p) PROVE Inv2'
  <2>1. Moved(p, "crtput", run[p].mem, run[p].pair)
    BY <1>0, <1>5, GotoRun DEF TruncCert, PCs
  <2>2. OneRun' /\ OthersOff(p)'
    BY <1>5, <2>1, OneRunKept DEF TruncCert, Moved
  <2>3. (CAPaired /\ ListKnown)' /\ CAOK(p)' /\ ListOK(p)'
    BY <1>5, <2>1 DEF TruncCert, Moved
  <2> QED BY <2>2, <2>3, OthersFine
<1>6. ASSUME NEW p \in Operators, PutCert(p) PROVE Inv2'
  <2>1. Moved(p, "fp", run[p].mem, run[p].pair)
    BY <1>0, <1>6, GotoRun DEF PutCert, PCs
  <2>2. OneRun' /\ OthersOff(p)'
    BY <1>6, <2>1, OneRunKept DEF PutCert, Moved
  <2>3. (CAPaired /\ ListKnown)' /\ CAOK(p)' /\ ListOK(p)'
    BY <1>6, <2>1 DEF PutCert, Moved
  <2> QED BY <2>2, <2>3, OthersFine
<1>7. ASSUME NEW p \in Operators, ResolveFingerprint(p) PROVE Inv2'
  <2>1. Moved(p, "read", run[p].mem, run[p].pair) \/ Ended(p)
    BY <1>7, GotoRun, EndRun DEF ResolveFingerprint, PCs
  <2>2. OneRun' /\ OthersOff(p)'
    BY <1>7, <2>1, OneRunKept DEF ResolveFingerprint, Moved, Ended
  <2>3. (CAPaired /\ ListKnown)' /\ CAOK(p)' /\ ListOK(p)'
    BY <1>7, <2>1 DEF ResolveFingerprint, Moved, Ended, Idle
  <2> QED BY <2>2, <2>3, OthersFine
<1>8. ASSUME NEW p \in Operators, AppendReads(p) \/ ReplaceReads(p) PROVE Inv2'
  <2>1. \/ kind = "list" /\ Moved(p, "check", rows, run[p].pair)
        \/ kind \in {"absent", "empty"} /\ Moved(p, "check", {}, run[p].pair)
        \/ Ended(p)
    <3>1. rows \in SUBSET Rows
      BY DEF Inv1, TypeOK
    <3> QED BY <1>8, <3>1, ReadRun, EndRun DEF AppendReads, ReplaceReads
  <2>2. OneRun' /\ OthersOff(p)'
    BY <1>8, <2>1, OneRunKept DEF AppendReads, ReplaceReads, Moved, Ended
  <2>3. (CAPaired /\ ListKnown)' /\ CAOK(p)' /\ ListOK(p)'
    BY <1>8, <2>1 DEF AppendReads, ReplaceReads, Moved, Ended, Idle
  <2> QED BY <2>2, <2>3, OthersFine
<1>9. ASSUME NEW p \in Operators, Check(p) PROVE Inv2'
  <2>1. \/ Moved(p, "put", run[p].mem, run[p].pair) /\ kind' = "empty"
        \/ Ended(p) /\ UNCHANGED kind
    BY <1>9, GotoRun, EndRun DEF Check, PCs
  <2>2. OneRun' /\ OthersOff(p)'
    BY <1>9, <2>1, OneRunKept DEF Check, Moved, Ended
  <2>3. (CAPaired /\ ListKnown)' /\ CAOK(p)' /\ ListOK(p)'
    BY <1>9, <2>1 DEF Check, Moved, Ended, Idle
  <2> QED BY <2>2, <2>3, OthersFine
<1>10. ASSUME NEW p \in Operators, Put(p) \/ Kill(p) PROVE Inv2'
  <2>1. Ended(p)
    BY <1>10, EndRun DEF Put, Kill
  <2>2. Step(p) # "off"
    BY <1>10 DEF Put, Kill, Off, RunOK
  <2>3. OneRun' /\ OthersOff(p)'
    BY <2>1, <2>2, OneRunKept DEF Ended
  <2>4. (CAPaired /\ ListKnown)' /\ CAOK(p)' /\ ListOK(p)'
    BY <1>10, <2>1 DEF Put, Kill, Ended, Idle
  <2> QED BY <2>3, <2>4, OthersFine
<1>11. CASE Revoke \/ Damage \/ Repair \/ GenConfig
  <2>1. \A q \in Operators : Step(q) = "off"
    BY <1>11 DEF Revoke, Damage, Repair, GenConfig, Quiet, Off, Idle
  <2>2. UNCHANGED run
    BY <1>11 DEF Revoke, Damage, Repair, GenConfig
  <2>3. CAPaired' /\ ListKnown'
    BY <1>11 DEF Revoke, Damage, Repair, GenConfig
  <2> QED BY <2>1, <2>2, <2>3 DEF Inv2, OneRun
<1>12. CASE UNCHANGED vars
  BY <1>12 DEF Inv2, OneRun, vars
<1> QED BY <1>1, <1>2, <1>3, <1>4, <1>5, <1>6, <1>7, <1>8, <1>9, <1>10, <1>11, <1>12
        DEF Next, EnsureCA, Register

LEMMA Invariance2 == Spec => [](Inv1 /\ Inv2)
  BY InitInv1, InitInv2, NextInv1, NextInv2, PTL DEF Spec

-----------------------------------------------------------------------------
\* The states keep the shapes the code gives them, and only canonical
\* fingerprints are ever registered.
THEOREM TypeCorrect == Spec => []TypeOK
  BY Invariance1, PTL DEF Inv1

\* However runs interleave, a complete devices.json lists no label twice.
THEOREM LabelsStayUnique == Spec => []LabelsUnique
  BY Invariance1, PTL DEF Inv1

\* With operators who take turns, the CA given to the devices is the one the
\* proxy signs with.
THEOREM PublishedCAHolds == Spec => []PublishedCA
<1>1. Inv1 /\ Inv2 => PublishedCA
  BY DEF Inv2, CAPaired, PublishedCA
<1> QED BY <1>1, Invariance2, PTL

\* With operators who take turns, a certificate once made is never replaced.
THEOREM CertIsKept == Spec => CertKept
<1>1. Inv1 /\ Inv2 /\ [Next]_vars =>
        (turns /\ caCert \notin {None, Torn} => caCert' = caCert) \/ UNCHANGED vars
  <2> SUFFICES ASSUME Inv1, Inv2, Next, turns, caCert \notin {None, Torn}
               PROVE  caCert' = caCert
    OBVIOUS
  <2>1. \A p \in Operators : ~TruncCert(p) /\ ~PutCert(p)
    BY DEF Inv2, CAOK, TruncCert, PutCert
  <2> QED BY <2>1 DEF Next, Start, EnsureCA, StatCA, TruncKey, PutKey, Register,
             ResolveFingerprint, AppendReads, ReplaceReads, Check, Put, Kill, Revoke,
             Damage, Repair, GenConfig, caVars
<1> QED BY <1>1, Invariance2, PTL DEF Spec, CertKept

-----------------------------------------------------------------------------
(* Refinement *)

\* A step of one run outside its write, or of none, changes nothing for Registry.
LEMMA OtherSteps ==
    ASSUME Inv1, NEW p \in Operators, OthersKept(p), Step(p) # "put", Step(p)' # "put",
           UNCHANGED <<kind, rows, turns>>
    PROVE  UNCHANGED R!rvars
<1>1. Writing' <=> Writing
  BY DEF Writing, OthersKept, Step
<1> QED BY <1>1 DEF R!rvars, Devices, State

\* Each step of Enroll is one of Registry's, or none to it.
LEMMA StepRefines == Inv1 /\ Inv2 /\ Inv1' /\ [Next]_vars => [R!Next]_R!rvars
<1> SUFFICES ASSUME Inv1, Inv2, Inv1', Next PROVE R!Next \/ UNCHANGED R!rvars
  <2>1. UNCHANGED vars => UNCHANGED R!rvars
    BY DEF vars, fileVars, R!rvars, Devices, State, Writing, Step
  <2> QED BY <2>1
<1>0. /\ run \in [Operators -> RunSet] /\ UNCHANGED turns
      /\ kind \in {"absent", "empty", "garbled", "list"}
      /\ kind' \in {"absent", "empty", "garbled", "list"}
      /\ rows \subseteq Rows /\ \A p \in Operators : RunOK(p)
  <2>1. UNCHANGED turns
    BY DEF Next, Start, EnsureCA, StatCA, TruncKey, PutKey, TruncCert, PutCert, Register,
           ResolveFingerprint, AppendReads, ReplaceReads, Check, Put, Kill, Revoke, Damage,
           Repair, GenConfig
  <2> QED BY <2>1 DEF Inv1, TypeOK, RunsOK
<1>1. CASE ~turns
  BY <1>0, <1>1 DEF R!rvars, Devices, State
<1>2. CASE turns
  <2>0. /\ Devices = rows /\ Devices' = rows'
        /\ OneRun /\ ListKnown /\ \A p \in Operators : ListOK(p)
    BY <1>0, <1>2 DEF Inv2, Devices
  <2>1. ASSUME NEW p \in Operators, Start(p) PROVE UNCHANGED R!rvars
    <3>1. run[p] = Idle
      BY <2>1 DEF Start, Off
    <3>2. PICK a \in Args : IF Resolves(a) THEN run' = [run EXCEPT ![p].args = a, ![p].pc = "ca"]
                                           ELSE UNCHANGED run
      BY <2>1 DEF Start
    <3>3. OthersKept(p) /\ run'[p].pc \in {"off", "ca"}
      <4>1. CASE Resolves(a)
        BY <1>0, <3>2, <4>1, StartRun
      <4>2. CASE ~Resolves(a)
        BY <3>1, <3>2, <4>2 DEF OthersKept, Idle
      <4> QED BY <4>1, <4>2
    <3>4. Step(p) # "put" /\ Step(p)' # "put"
      BY <3>1, <3>3 DEF Step, Idle
    <3> QED BY <1>0, <2>1, <3>3, <3>4, OtherSteps DEF Start, fileVars
  <2>2. ASSUME NEW p \in Operators, EnsureCA(p) \/ ResolveFingerprint(p) PROVE UNCHANGED R!rvars
    <3>1. \/ \E l \in PCs \ {"put"} : Goto(p, l)
          \/ Generate(p)
          \/ End(p)
      BY <2>2 DEF EnsureCA, StatCA, TruncKey, PutKey, TruncCert, PutCert, ResolveFingerprint, PCs
    <3>2. OthersKept(p) /\ Step(p)' # "put"
      <4>1. generated \in Nat
        BY DEF Inv1, TypeOK
      <4> QED BY <1>0, <3>1, <4>1, GotoRun, GenerateRun, EndRun DEF Moved, Ended, Step, Idle
    <3>3. Step(p) # "put" /\ UNCHANGED <<kind, rows>>
      BY <2>2 DEF EnsureCA, StatCA, TruncKey, PutKey, TruncCert, PutCert,
                    ResolveFingerprint, fileVars
    <3> QED BY <1>0, <3>2, <3>3, OtherSteps
  <2>3. ASSUME NEW p \in Operators, AppendReads(p) \/ ReplaceReads(p) PROVE UNCHANGED R!rvars
    <3>1. OthersKept(p) /\ Step(p)' # "put"
      BY <1>0, <2>3, ReadRun, EndRun DEF AppendReads, ReplaceReads, Moved, Ended, Step, Idle
    <3> QED BY <1>0, <2>3, <3>1, OtherSteps DEF AppendReads, ReplaceReads, fileVars
  <2>4. ASSUME NEW p \in Operators, Check(p) PROVE R!Next \/ UNCHANGED R!rvars
    <3>1. CASE ~Acceptable(p)
      <4>1. OthersKept(p) /\ Step(p)' # "put"
        BY <1>0, <2>4, <3>1, EndRun DEF Check, Ended, Step, Idle
      <4> QED BY <1>0, <2>4, <3>1, <4>1, OtherSteps DEF Check
    <3>2. CASE Acceptable(p)
      <4>1. /\ kind' = "empty" /\ rows' = rows
            /\ OthersKept(p) /\ Step(p)' = "put" /\ run'[p].mem = run[p].mem
        BY <1>0, <2>4, <3>2, GotoRun DEF Check, Moved, Step, PCs
      <4>2. /\ ~Writing
            /\ Writing' <=> run[p].mem = rows
        BY <2>0, <2>4, <4>1 DEF Check, Writing, OneRun, OthersKept, Step
      <4>3. CASE run[p].mem = rows /\ kind # "empty"
        <5>1. State = "good" /\ State' = "good"
          BY <1>0, <1>2, <2>0, <2>4, <4>1, <4>2, <4>3 DEF Check, ListOK, State
        <5> QED BY <2>0, <4>1, <5>1 DEF R!rvars
      <4>4. CASE run[p].mem = rows /\ kind = "empty"
        <5>1. State = "lost" /\ State' = "good"
          BY <1>0, <1>2, <4>1, <4>2, <4>4 DEF State
        <5> QED BY <2>0, <4>1, <5>1 DEF R!Next, R!Repair
      <4>5. CASE run[p].mem # rows
        <5>1. kind = "empty"
          BY <2>0, <2>4, <4>5 DEF Check, ListOK, ListKnown
        <5>2. State = "lost" /\ State' = "lost"
          BY <1>0, <1>2, <4>1, <4>2, <4>5, <5>1 DEF State
        <5> QED BY <2>0, <4>1, <5>2 DEF R!rvars
      <4> QED BY <4>3, <4>4, <4>5
    <3> QED BY <3>1, <3>2
  <2>5. ASSUME NEW p \in Operators, Put(p) PROVE R!Next
    <3> DEFINE r == [label |-> Arg(p).label, fp |-> Arg(p).fp]
    <3>1. /\ kind = "empty" /\ run[p].mem \in {rows, {}} /\ Acceptable(p) /\ r \in Rows
          /\ r.label = Arg(p).label
      BY <1>0, <2>0, <2>5 DEF Put, ListOK, RunOK, Step, Rows
    <3>2. kind' = "list" /\ rows' = Written(p)
      BY <2>5, <3>1 DEF Put
    <3>3. State' = "good"
      BY <3>2 DEF State
    <3>4. Writing <=> run[p].mem = rows
      BY <2>0, <2>5 DEF Put, Writing, OneRun, Step
    <3>5. CASE run[p].mem = rows /\ Arg(p).rotate
      <4>1. State = "good"
        BY <3>1, <3>4, <3>5 DEF State
      <4>2. r.label \in R!LabelsOf(rows)
        BY <3>1, <3>5 DEF Acceptable, LabelsOf, R!LabelsOf
      <4>3. rows' = {d \in rows : d.label # r.label} \cup {r}
        BY <3>1, <3>2, <3>5 DEF Written
      <4>4. R!Replace(r)
        BY <2>0, <3>3, <4>1, <4>2, <4>3 DEF R!Replace
      <4> HIDE DEF r
      <4> QED BY <3>1, <4>4 DEF R!Next
    <3>6. CASE run[p].mem = rows /\ ~Arg(p).rotate
      <4>1. State = "good"
        BY <3>1, <3>4, <3>6 DEF State
      <4>2. r.label \notin R!LabelsOf(rows)
        BY <3>1, <3>6 DEF Acceptable, LabelsOf, R!LabelsOf
      <4>3. rows' = rows \cup {r}
        BY <3>2, <3>6 DEF Written
      <4>4. R!Append(r)
        BY <2>0, <3>3, <4>1, <4>2, <4>3 DEF R!Append
      <4> HIDE DEF r
      <4> QED BY <3>1, <4>4 DEF R!Next
    <3>7. CASE run[p].mem # rows
      <4>1. State = "lost"
        BY <1>2, <3>1, <3>4, <3>7 DEF State
      <4>2. ~Arg(p).rotate /\ run[p].mem = {}
        BY <3>1, <3>7 DEF Acceptable, LabelsOf
      <4>3. rows' = {r}
        BY <3>2, <4>2 DEF Written
      <4>4. R!StartOver(r)
        BY <2>0, <3>3, <4>1, <4>3 DEF R!StartOver
      <4> HIDE DEF r
      <4> QED BY <3>1, <4>4 DEF R!Next
    <3> QED BY <3>5, <3>6, <3>7
  <2>6. ASSUME NEW p \in Operators, Kill(p) PROVE R!Next \/ UNCHANGED R!rvars
    <3>1. OthersKept(p) /\ Step(p)' = "off" /\ UNCHANGED <<kind, rows>>
      BY <1>0, <2>6, EndRun DEF Kill, Ended, Step, Idle, fileVars
    <3>2. CASE Step(p) # "put"
      BY <1>0, <3>1, <3>2, OtherSteps
    <3>3. CASE Step(p) = "put"
      <4>1. ~Writing' /\ kind = "empty"
        BY <2>0, <3>1, <3>3 DEF Writing, OneRun, OthersKept, ListOK, Step
      <4>2. State' = "lost" /\ State \in {"lost", "good"}
        BY <1>0, <1>2, <3>1, <4>1 DEF State
      <4> QED BY <2>0, <3>1, <4>2 DEF R!Next, R!Lose, R!rvars
    <3> QED BY <3>2, <3>3
  <2>7. CASE Revoke \/ Damage \/ Repair
    <3>1. ~Writing /\ ~Writing'
      <4>1. (\A q \in Operators : run[q] = Idle) /\ UNCHANGED run
        BY <1>2, <2>7 DEF Revoke, Damage, Repair, Quiet, Off
      <4>2. Idle.pc # "put"
        BY DEF Idle
      <4> HIDE DEF Idle
      <4> QED BY <4>1, <4>2 DEF Writing, Step
    <3>2. CASE Revoke
      <4>1. State = "good" /\ State' = "good"
        BY <3>2 DEF Revoke, State
      <4> QED BY <2>0, <3>2, <4>1 DEF Revoke, R!Next, R!Revoke
    <3>3. CASE Damage
      <4>1. State = "good" /\ State' = "damaged"
        BY <1>0, <1>2, <3>3 DEF Damage, State
      <4> QED BY <2>0, <3>3, <4>1 DEF Damage, R!Next, R!Damage
    <3>4. CASE Repair
      <4>1. State # "good" /\ State' = "good"
        BY <1>0, <1>2, <3>1, <3>4 DEF Repair, State
      <4> QED BY <2>0, <3>4, <4>1 DEF Repair, R!Next, R!Repair
    <3> QED BY <2>7, <3>2, <3>3, <3>4
  <2>8. CASE GenConfig
    BY <2>8 DEF GenConfig, fileVars, R!rvars, Devices, State, Writing, Step
  <2> QED BY <2>1, <2>2, <2>3, <2>4, <2>5, <2>6, <2>7, <2>8 DEF Next, Register
<1> QED BY <1>0, <1>1, <1>2 DEF Inv1, TypeOK

\* With operators who take turns, add-device is what Registry says.
THEOREM EnrollImplementsRegistry == Spec => ImplementsRegistry
<1>1. Init => R!Init
  <2> SUFFICES ASSUME Init PROVE Devices = {} /\ State = "good"
    BY DEF R!Init
  <2> QED BY DEF Init, Devices, State
<1> QED BY <1>1, StepRefines, Invariance2, PTL DEF Spec, ImplementsRegistry, R!Spec
==============================================================================
