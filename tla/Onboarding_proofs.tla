-------------------------- MODULE Onboarding_proofs --------------------------
(***************************************************************************)
(* Proofs about Onboarding, for every number of runs, of interruptions and *)
(* of tolerated failures: what the files of the device are, when the poll  *)
(* may give up, and that it ends.                                          *)
(***************************************************************************)
EXTENDS Onboarding, TLAPS, SequenceTheorems

\* The certificate is put into place after its key, and only where there is
\* none; what comes after device-init has one.
FilesAgree ==
    /\ crt # None => key = crt
    /\ pc \in {"key", "crt"} => crt = None /\ pair # None
    /\ pc = "crt" => key = pair
    /\ pc \in {"show", "probe", "wait", "wrap"} => crt # None

\* The failures counted are the last results of this run's probes.
MissesSeen ==
    /\ pc \in {"fetch", "init", "key", "crt", "show"} => seen = <<>> /\ miss = 0
    /\ pc = "probe" => miss < MaxMiss
    /\ miss <= Len(seen) /\ Len(seen) <= MaxMiss
    /\ \A i \in 1 .. miss : seen[i] = "unreachable"

\* A run that polled comes to the wrapper by an approval only.
WrapAfterApproval == pc = "wrap" /\ seen # <<>> => crt \in approved

IInv ==
    /\ TypeOK /\ FilesAgree /\ MissesSeen
    /\ ShownIsUsable /\ WrapperIsApproved /\ WrapAfterApproval

-----------------------------------------------------------------------------
\* What Recent keeps of the results so far and one more.
LEMMA RecentResults ==
    ASSUME NEW s \in Seq(Probes), NEW r \in Probes, Len(s) <= MaxMiss
    PROVE  /\ Recent(<<r>> \o s) \in Seq(Probes)
           /\ Len(Recent(<<r>> \o s)) = IF Len(s) < MaxMiss THEN Len(s) + 1 ELSE MaxMiss
           /\ Recent(<<r>> \o s)[1] = r
           /\ \A i \in 2 .. Len(Recent(<<r>> \o s)) : Recent(<<r>> \o s)[i] = s[i - 1]
<1> DEFINE t == <<r>> \o s
           n == IF Len(t) < MaxMiss THEN Len(t) ELSE MaxMiss
<1>1. <<r>> \in Seq(Probes) /\ Len(<<r>>) = 1 /\ <<r>>[1] = r
  OBVIOUS
<1>2. /\ t \in Seq(Probes)
      /\ Len(t) = 1 + Len(s)
      /\ \A i \in 1 .. Len(t) : t[i] = IF i <= 1 THEN <<r>>[i] ELSE s[i - 1]
  BY <1>1, ConcatProperties
<1>3. n \in 1 .. Len(t) /\ Len(s) \in Nat
  BY <1>2, MaxMissAssumption, LenProperties
<1>4. /\ SubSeq(t, 1, n) \in Seq(Probes)
      /\ Len(SubSeq(t, 1, n)) = n
      /\ \A i \in 1 .. n : SubSeq(t, 1, n)[i] = t[i]
  <2>1. \A i \in 1 .. n : t[i] \in Probes
    BY <1>2, <1>3, ElementOfSeq
  <2>2. 1 <= n + 1
    BY <1>3
  <2> HIDE DEF t, n
  <2> QED BY <1>2, <1>3, <2>1, <2>2, SubSeqProperties
<1>5. Recent(t) = SubSeq(t, 1, n)
  BY DEF Recent
<1>6. n = IF Len(s) < MaxMiss THEN Len(s) + 1 ELSE MaxMiss
  BY <1>2, <1>3, MaxMissAssumption
<1>7. t[1] = r /\ \A i \in 2 .. n : t[i] = s[i - 1]
  BY <1>1, <1>2, <1>3
<1>8. /\ Recent(t) \in Seq(Probes)
      /\ Len(Recent(t)) = n
      /\ Recent(t)[1] = r
      /\ \A i \in 2 .. n : Recent(t)[i] = s[i - 1]
  <2> HIDE DEF n, t
  <2> QED BY <1>3, <1>4, <1>5, <1>7
<1> QED BY <1>6, <1>8

LEMMA InitIInv == Init => IInv
<1> SUFFICES ASSUME Init PROVE IInv
  OBVIOUS
<1> USE DEF Init, None
<1>1. TypeOK
  <2>1. seen \in Seq(Probes)
    BY EmptySeq
  <2>2. late \in BOOLEAN
    OBVIOUS
  <2>3. /\ made \in Nat /\ runs \in Nat /\ kills \in Nat
        /\ key \in Pairs /\ crt \in Pairs /\ pair \in Pairs
        /\ pc \in PCs /\ miss \in 0 .. MaxMiss
        /\ wrapper = "none" /\ shown = {} /\ registered = {} /\ approved = {}
    BY MaxMissAssumption DEF Pairs, PCs
  <2> HIDE DEF Init
  <2> QED BY <2>1, <2>2, <2>3 DEF TypeOK
<1>2. FilesAgree /\ ShownIsUsable /\ WrapperIsApproved /\ WrapAfterApproval
  BY DEF FilesAgree, ShownIsUsable, WrapperIsApproved, WrapAfterApproval
<1>3. MissesSeen
  BY MaxMissAssumption DEF MissesSeen
<1> QED BY <1>1, <1>2, <1>3 DEF IInv

LEMMA NextIInv == IInv /\ [Next]_vars => IInv'
<1> SUFFICES ASSUME IInv, [Next]_vars PROVE IInv'
  OBVIOUS
<1> USE MaxMissAssumption DEF IInv, TypeOK, FilesAgree, MissesSeen, ShownIsUsable,
        WrapperIsApproved, WrapAfterApproval, Pairs, PCs, None, Present, TooMany,
        device, admin, poll, counts
<1>1. CASE Start
  <2>1. seen' \in Seq(Probes)
    BY <1>1, EmptySeq DEF Start
  <2>2. TypeOK'
    <3>1. late' \in BOOLEAN
      BY <1>1 DEF Start
    <3>2. /\ UNCHANGED <<device, admin, kills>>
          /\ runs' \in Nat /\ pc' \in PCs /\ pair' = None /\ miss' = 0
      BY <1>1 DEF Start
    <3> QED BY <2>1, <3>1, <3>2
  <2>3. (FilesAgree /\ MissesSeen)'
    BY <1>1 DEF Start
  <2>4. (ShownIsUsable /\ WrapperIsApproved /\ WrapAfterApproval)'
    BY <1>1 DEF Start
  <2> QED BY <2>2, <2>3, <2>4
<1>2. CASE Fetch
  BY <1>2 DEF Fetch
<1>3. CASE StatFiles
  BY <1>3 DEF StatFiles
<1>4. CASE PutKey
  BY <1>4 DEF PutKey
<1>5. CASE PutCert
  BY <1>5 DEF PutCert
<1>6. CASE Show
  BY <1>6 DEF Show
<1>7. CASE Probe
  <2>1. PICK r \in Probes : /\ Answer(r)
                            /\ seen' = Recent(<<r>> \o seen)
                            /\ miss' = Misses(r)
                            /\ pc' = After(r)
    BY <1>7 DEF Probe
  <2>2. UNCHANGED <<device, admin, pair, late, counts>> /\ pc = "probe"
    BY <1>7 DEF Probe
  <2>3. /\ seen' \in Seq(Probes)
        /\ Len(seen') = IF Len(seen) < MaxMiss THEN Len(seen) + 1 ELSE MaxMiss
        /\ seen'[1] = r
        /\ \A i \in 2 .. Len(seen') : seen'[i] = seen[i - 1]
    BY <2>1, RecentResults
  <2>4. Len(seen) \in Nat /\ Len(seen') \in Nat
    BY <2>3, LenProperties
  <2>5. TypeOK'
    BY <2>1, <2>2, <2>3 DEF Misses, After
  <2>6. FilesAgree'
    BY <2>1, <2>2 DEF After
  <2>7. MissesSeen'
    <3>1. CASE r = "unreachable"
      <4>1. miss' = miss + 1 /\ miss' <= Len(seen') /\ Len(seen') <= MaxMiss
        BY <2>1, <2>2, <2>3, <2>4, <3>1 DEF Misses
      <4>2. ASSUME NEW i \in 1 .. miss' PROVE seen'[i] = "unreachable"
        <5>1. CASE i = 1
          BY <2>3, <3>1, <5>1
        <5>2. CASE i # 1
          <6>1. i \in 2 .. Len(seen') /\ i - 1 \in 1 .. miss
            BY <2>4, <4>1, <5>2
          <6> QED BY <2>3, <6>1
        <5> QED BY <5>1, <5>2
      <4>3. pc' = "wait"
        BY <2>1, <3>1 DEF After
      <4> QED BY <4>1, <4>2, <4>3
    <3>2. CASE r # "unreachable"
      BY <2>1, <2>2, <2>3, <2>4, <3>2 DEF Misses, After
    <3> QED BY <3>1, <3>2
  <2>8. ShownIsUsable' /\ WrapperIsApproved'
    BY <2>2
  <2>9. WrapAfterApproval'
    BY <2>1, <2>2 DEF After, Answer
  <2> QED BY <2>5, <2>6, <2>7, <2>8, <2>9
<1>8. CASE GiveUp \/ TimeOut
  BY <1>8 DEF GiveUp, TimeOut
<1>9. CASE ProbeAgain
  BY <1>9 DEF ProbeAgain
<1>10. CASE Wrap
  BY <1>10 DEF Wrap
<1>11. CASE DeadlinePasses
  BY <1>11 DEF DeadlinePasses
<1>12. CASE Kill
  BY <1>12 DEF Kill
<1>13. CASE Register
  BY <1>13 DEF Register
<1>14. CASE Revoke
  BY <1>14 DEF Revoke
<1>15. CASE UNCHANGED vars
  BY <1>15 DEF vars
<1> QED BY <1>1, <1>2, <1>3, <1>4, <1>5, <1>6, <1>7, <1>8, <1>9, <1>10, <1>11,
           <1>12, <1>13, <1>14, <1>15 DEF Next, Script, DeviceInit, Poll

LEMMA Invariance == Spec => []IInv
  BY InitIInv, NextIInv, PTL DEF Spec

-----------------------------------------------------------------------------
\* The states keep the shapes the code gives them, whatever is interrupted.
THEOREM TypeCorrect == Spec => []TypeOK
  BY Invariance, PTL DEF IInv

\* What the operator was shown is a certificate whose key the device has.
THEOREM ShownStaysUsable == Spec => []ShownIsUsable
  BY Invariance, PTL DEF IInv

\* device-init never replaces an identity that was shown to the operator.
THEOREM IdentityIsKept == Spec => IdentityKept
<1>1. IInv /\ [Next]_vars => (shown # {} => UNCHANGED <<key, crt>>) \/ UNCHANGED vars
  <2> SUFFICES ASSUME IInv, Next, shown # {} PROVE UNCHANGED <<key, crt>>
    OBVIOUS
  <2>1. crt # None
    BY DEF IInv, TypeOK, ShownIsUsable
  <2>2. ~PutKey /\ ~PutCert
    BY <2>1 DEF IInv, FilesAgree, PutKey, PutCert
  <2>3. CASE StatFiles \/ Start \/ Fetch \/ Show \/ Probe \/ GiveUp \/ TimeOut \/ ProbeAgain
    BY <2>3 DEF StatFiles, Start, Fetch, Show, Probe, GiveUp, TimeOut, ProbeAgain, device
  <2>4. CASE Wrap \/ DeadlinePasses \/ Kill \/ Register \/ Revoke
    BY <2>4 DEF Wrap, DeadlinePasses, Kill, Register, Revoke, device
  <2> QED BY <2>2, <2>3, <2>4 DEF Next, Script, DeviceInit, Poll
<1> QED BY <1>1, Invariance, PTL DEF Spec, IdentityKept

\* A wrapper written after a poll is for an identity that was registered.
THEOREM WrapperStaysApproved == Spec => []WrapperIsApproved
  BY Invariance, PTL DEF IInv

\* The poll is given up as unreachable after MaxMiss failures in a row only.
THEOREM GiveUpIsFair == Spec => []GivesUpFairly
<1>1. IInv => GivesUpFairly
  <2> SUFFICES ASSUME IInv, miss >= MaxMiss
               PROVE  Len(seen) = MaxMiss /\ \A i \in 1 .. MaxMiss : seen[i] = "unreachable"
    BY DEF GivesUpFairly
  <2> QED BY MaxMissAssumption, LenProperties DEF IInv, TypeOK, MissesSeen
<1> QED BY <1>1, Invariance, PTL
-----------------------------------------------------------------------------
(* Liveness.  The prover cannot expand ENABLED, so the fairness of Spec is  *)
(* written out with the guards of the steps in its place: the script has a  *)
(* step wherever it does not wait for a peer, and the deadline can pass     *)
(* while it polls.                                                          *)
Scheduled ==
    /\ <>[](pc \notin {"off", "fetch", "probe"}) => []<><<Local>>_vars
    /\ <>[](pc \in {"probe", "wait"} /\ ~late) => []<><<DeadlinePasses>>_vars

\* A poll each of whose probes returns ends: once the 600 s are over
\* (install.sh:107) the script does not go back to the probe, whatever the
\* proxy answers and however often an answer clears the count of failures.
\* That a probe returns is a hypothesis of PollEnds: openssl has no time limit.
THEOREM PollIsBounded == Init /\ [][Next]_vars /\ Scheduled => PollEnds
<1> DEFINE At(l)   == pc = l
           Early   == pc \in {"probe", "wait"} /\ ~late
           Late(l) == pc = l /\ late
           Fair    == [][Next]_vars /\ Scheduled /\ []<>(pc # "probe")
<1>1. [Next]_vars
        => /\ Early => Early' \/ Late("probe")' \/ Late("wait")' \/ At("wrap")' \/ At("off")'
           /\ Late("probe") => Late("probe")' \/ Late("wait")' \/ At("wrap")' \/ At("off")'
           /\ Late("wait") => Late("wait")' \/ At("off")'
           /\ At("wrap") => At("wrap")' \/ At("off")'
  <2>1. CASE UNCHANGED <<pc, late>>
    BY <2>1
  <2>2. CASE Start \/ Fetch \/ DeviceInit \/ Show
    BY <2>2 DEF Start, Fetch, DeviceInit, StatFiles, PutKey, PutCert, Show
  <2>3. CASE Probe
    BY <2>3 DEF Probe, After
  <2>4. CASE GiveUp \/ TimeOut \/ ProbeAgain \/ Wrap \/ Kill
    BY <2>4 DEF GiveUp, TimeOut, ProbeAgain, Wrap, Kill
  <2>5. CASE DeadlinePasses
    BY <2>5 DEF DeadlinePasses
  <2>6. Register \/ Revoke \/ UNCHANGED vars => UNCHANGED <<pc, late>>
    BY DEF Register, Revoke, poll, vars
  <2> QED
    BY <2>1, <2>2, <2>3, <2>4, <2>5, <2>6 DEF Next, Script, Poll
<1>2. <<DeadlinePasses>>_vars => ~Early'
  BY DEF DeadlinePasses
<1>3. <<Local>>_vars
        => ~(At("wrap") /\ At("wrap")') /\ ~(Late("wait") /\ Late("wait")')
  BY DEF Local, DeviceInit, StatFiles, PutKey, PutCert, Show, GiveUp, TimeOut,
         ProbeAgain, Wrap
<1>4. At("probe") => Early \/ Late("probe")
  OBVIOUS
<1>5. /\ At("wrap") => pc \notin {"off", "fetch", "probe"}
      /\ Late("probe") => ~(pc # "probe")
      /\ Late("wait") => pc \notin {"off", "fetch", "probe"}
      /\ Early => pc \in {"probe", "wait"} /\ ~late
  OBVIOUS
<1> HIDE DEF At, Early, Late
<1>6. Fair => (Early ~> Late("probe") \/ Late("wait") \/ At("wrap") \/ At("off"))
  BY <1>1, <1>2, <1>5, PTL DEF Scheduled
<1>7. Fair => (At("wrap") ~> At("off"))
  BY <1>1, <1>3, <1>5, PTL DEF Scheduled
<1>8. Fair => (Late("wait") ~> At("off"))
  BY <1>1, <1>3, <1>5, PTL DEF Scheduled
<1>9. Fair => (Late("probe") ~> Late("wait") \/ At("wrap") \/ At("off"))
  BY <1>1, <1>5, PTL
<1>10. Fair => (At("probe") ~> At("off"))
  BY <1>4, <1>6, <1>7, <1>8, <1>9, PTL
<1> QED
  BY <1>10, PTL DEF PollEnds, At
==============================================================================
