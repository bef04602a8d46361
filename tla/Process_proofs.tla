--------------------------- MODULE Process_proofs ---------------------------
(***************************************************************************)
(* Proofs about Process and the two modules it is composed of: of what the *)
(* loader of the outer certificate serves and when it fails, of the leaves *)
(* of the minter, of the CA main loads, and that main comes up.            *)
(***************************************************************************)
EXTENDS Process, TLAPS

Basics ==
    /\ pairs \in 0 .. MaxPairs /\ whole \in 0 .. pairs
    /\ crtFile \in Contents /\ keyFile \in Contents
    /\ mtime \in 0 .. Stamp(pairs)
    /\ todo \subseteq {"crt", "key"}

\* A renewal has yet to replace what is older than its pair, and the stamp of
\* the certificate is its own, and no older than that of the newest whole pair.
FilesInv ==
    /\ todo # {} => whole < pairs
    /\ "crt" \in todo => crtFile < pairs
    /\ "key" \in todo => keyFile < pairs
    /\ Stamp(whole) <= mtime
    /\ crtFile \notin {None, Torn} => mtime = Stamp(crtFile)

\* What is cached is no older than its stamp.
CacheInv ==
    /\ cached \in 0 .. pairs /\ mod \in 0 .. mtime
    /\ cached # None => mod <= Stamp(cached)

\* The same of what a call has read; its stamp is no older than the newest
\* whole pair at its beginning; and while it is not disturbed it has seen the
\* one pair that is there.
CallOK(l) ==
    /\ l \in Calls
    /\ l.stamp <= mtime
    /\ l.pc \in {"store", "served"} => l.pair # None
    /\ l.pc \in {"look", "crt", "key", "store"} =>
          /\ crtFile # None
          /\ Stamp(l.floor) <= l.stamp
          /\ ~l.disturbed => Whole /\ (l.pc = "key" => l.crt = crtFile)
    /\ l.pc = "key" => l.crt # None /\ (l.crt # Torn => l.stamp <= Stamp(l.crt))
    /\ l.pc = "store" => l.stamp <= Stamp(l.pair)
    /\ l.pc = "served" => l.pair >= l.floor
    /\ l.pc = "failed" => l.disturbed

CallsInv == \A h \in Handshakes : CallOK(load[h])

IsTable == load = [h \in Handshakes |-> load[h]]

LoaderInv == Basics /\ FilesInv /\ CacheInv /\ IsTable /\ CallsInv

LEMMA LoaderTypes == LoaderInv => LoaderTypeOK /\ NewestServed /\ FailsOnlyInRenewal
<1> SUFFICES ASSUME LoaderInv PROVE LoaderTypeOK /\ NewestServed /\ FailsOnlyInRenewal
  OBVIOUS
<1> USE DEF LoaderInv
<1>1. load \in [Handshakes -> Calls]
  BY DEF IsTable, CallsInv, CallOK
<1>2. \A h \in Handshakes : load[h].stamp <= mtime
                            /\ (load[h].pc \in {"store", "served"} => load[h].pair # None)
  BY DEF CallsInv, CallOK
<1>3. LoaderTypeOK
  BY <1>1, <1>2 DEF LoaderTypeOK, Basics, CacheInv
<1>4. NewestServed
  BY DEF NewestServed, CallsInv, CallOK
<1>5. FailsOnlyInRenewal
  BY DEF FailsOnlyInRenewal, CallsInv, CallOK
<1> QED
  BY <1>3, <1>4, <1>5

-----------------------------------------------------------------------------
(* The loader *)

\* A call that has not begun is in order.
LEMMA IdleOK ==
    ASSUME pairs \in Nat, whole \in Nat, mtime \in Nat
    PROVE  CallOK(Idle)
BY DEF CallOK, Idle, Calls, LoadPCs, Contents, None, Torn

LEMMA InitLoaderInv == LoaderInit => LoaderInv
<1> SUFFICES ASSUME LoaderInit PROVE LoaderInv
  OBVIOUS
<1> USE PairsAssumption DEF LoaderInit, None, Torn, Stamp
<1>1. Basics
  BY DEF Basics, Contents
<1>2. FilesInv
  BY DEF FilesInv
<1>3. CacheInv
  BY DEF CacheInv
<1>4. IsTable
  BY DEF IsTable
<1>5. CallsInv
  <2>1. CallOK(Idle)
    BY IdleOK
  <2> QED
    BY <2>1 DEF CallsInv
<1> QED
  BY <1>1, <1>2, <1>3, <1>4, <1>5 DEF LoaderInv

\* A process that ends forgets the cache and its calls.
LEMMA ForgetLoader ==
    ASSUME LoaderInv, UNCHANGED fileVars, cached' = None, mod' = 0,
           load' = [h \in Handshakes |-> Idle]
    PROVE  LoaderInv'
<1> USE PairsAssumption DEF LoaderInv, fileVars, None, Torn, Stamp
<1>1. Basics' /\ FilesInv'
  BY DEF Basics, FilesInv, Contents
<1>2. CacheInv'
  BY DEF CacheInv, Basics
<1>3. IsTable'
  BY DEF IsTable
<1>4. CallOK(Idle)'
  <2>1. pairs' \in Nat /\ whole' \in Nat /\ mtime' \in Nat
    BY DEF Basics
  <2> QED
    BY <2>1 DEF CallOK, Idle, Calls, LoadPCs, Contents
<1>5. CallsInv'
  BY <1>4 DEF CallsInv
<1> QED
  BY <1>1, <1>2, <1>3, <1>5

\* What a step on the files leaves of a call: numbers only grow, and while the
\* files stay whole they stay what they are.
LEMMA CallKept ==
    ASSUME Basics, NEW l, CallOK(l), NEW d \in BOOLEAN,
           pairs' \in Nat, pairs <= pairs', whole' \in Nat, whole <= whole',
           mtime' \in Nat, mtime <= mtime',
           crtFile # None => crtFile' # None,
           l.disturbed => d,
           l.pc \in {"look", "crt", "key", "store"} /\ ~d
               => Whole' /\ (Whole => crtFile' = crtFile)
    PROVE  CallOK([l EXCEPT !.disturbed = d])'
<1> DEFINE k == [l EXCEPT !.disturbed = d]
<1>0. pairs \in Nat /\ whole \in Nat /\ mtime \in Nat
  BY PairsAssumption DEF Basics, Stamp
<1>1. l \in Calls
  BY DEF CallOK
<1>2. /\ k.pc = l.pc /\ k.stamp = l.stamp /\ k.crt = l.crt /\ k.pair = l.pair
      /\ k.floor = l.floor /\ k.disturbed = d
  BY <1>1 DEF Calls
<1>3. k \in Calls'
  BY <1>0, <1>1 DEF Calls, Contents, None, Torn
<1>4. /\ l.stamp \in Nat /\ l.pair \in Nat /\ l.floor \in Nat
      /\ l.pc \in LoadPCs
  BY <1>0, <1>1 DEF Calls
<1> HIDE DEF k
<1>5. k.stamp <= mtime' /\ (k.pc \in {"store", "served"} => k.pair # None)
  BY <1>0, <1>2, <1>4 DEF CallOK
<1>6. k.pc \in {"look", "crt", "key", "store"} =>
          /\ crtFile' # None
          /\ Stamp(k.floor) <= k.stamp
          /\ ~k.disturbed => Whole' /\ (k.pc = "key" => k.crt = crtFile')
  BY <1>2 DEF CallOK
<1>7. /\ k.pc = "key" => k.crt # None /\ (k.crt # Torn => k.stamp <= Stamp(k.crt))
      /\ k.pc = "store" => k.stamp <= Stamp(k.pair)
      /\ k.pc = "served" => k.pair >= k.floor
  BY <1>2 DEF CallOK
<1>8. k.pc = "failed" => k.disturbed
  BY <1>2 DEF CallOK
<1>9. CallOK(k)'
  BY <1>3, <1>5, <1>6, <1>7, <1>8 DEF CallOK
<1> QED
  BY <1>9 DEF k

\* A step on the files that keeps FilesInv keeps the rest.
LEMMA RenewalKeeps ==
    ASSUME LoaderInv, Basics', FilesInv', UNCHANGED cacheVars,
           pairs <= pairs', whole <= whole', mtime <= mtime',
           crtFile # None => crtFile' # None,
           \/ Disturb /\ (Whole /\ Whole' => crtFile' = crtFile)
           \/ UNCHANGED <<crtFile, keyFile, load>>
    PROVE  LoaderInv'
<1> USE DEF LoaderInv
<1>0. /\ pairs \in Nat /\ whole \in Nat /\ mtime \in Nat
      /\ pairs' \in Nat /\ whole' \in Nat /\ mtime' \in Nat
  BY PairsAssumption DEF Basics, Stamp
<1>1. CacheInv'
  BY <1>0 DEF CacheInv, cacheVars
<1>2. CASE UNCHANGED <<crtFile, keyFile, load>>
  <2>1. IsTable'
    BY <1>2 DEF IsTable
  <2>2. ASSUME NEW h \in Handshakes PROVE CallOK(load[h])'
    <3>1. PICK l : l = load[h]
      OBVIOUS
    <3>2. CallOK(l) /\ l \in Calls
      BY <3>1 DEF CallsInv, CallOK
    <3>3. l.disturbed \in BOOLEAN /\ l = [l EXCEPT !.disturbed = l.disturbed]
      BY <3>2 DEF Calls
    <3>4. l.pc \in {"look", "crt", "key", "store"} /\ ~l.disturbed
             => Whole' /\ (Whole => crtFile' = crtFile)
      BY <3>2, <1>2 DEF CallOK, Whole
    <3>5. CallOK([l EXCEPT !.disturbed = l.disturbed])'
      BY <1>0, <3>2, <3>3, <3>4, CallKept
    <3>6. CallOK(l)'
      BY <3>3, <3>5
    <3> QED
      BY <3>1, <3>6, <1>2 DEF CallOK
  <2> QED
    BY <1>1, <2>1, <2>2 DEF CallsInv
<1>3. CASE Disturb /\ (Whole /\ Whole' => crtFile' = crtFile)
  <2> DEFINE d(h) == load[h].disturbed \/ (~Whole' /\ InCall(h))
  <2>0. ASSUME NEW h \in Handshakes PROVE load[h] \in Calls /\ CallOK(load[h])
    BY DEF CallsInv, CallOK
  <2>1. load' = [h \in Handshakes |-> [load[h] EXCEPT !.disturbed = d(h)]]
    <3>1. CASE Whole'
      <4>1. \A h \in Handshakes : load[h] = [load[h] EXCEPT !.disturbed = d(h)]
        BY <2>0, <3>1 DEF Calls
      <4>2. load' = load
        BY <1>3, <3>1 DEF Disturb
      <4> QED
        BY <4>1, <4>2 DEF IsTable
    <3>2. CASE ~Whole'
      <4>1. \A h \in Handshakes : d(h) = (load[h].disturbed \/ InCall(h))
        BY <3>2
      <4> QED
        BY <1>3, <3>2, <4>1 DEF Disturb
    <3> QED
      BY <3>1, <3>2
  <2>2. IsTable'
    BY <2>1 DEF IsTable
  <2>3. ASSUME NEW h \in Handshakes PROVE CallOK(load[h])'
    <3>1. PICK l : l = load[h]
      OBVIOUS
    <3>2. PICK e \in BOOLEAN : e = d(h)
      OBVIOUS
    <3>3. CallOK(l) /\ (l.disturbed => e)
      BY <2>0, <3>1, <3>2
    <3>4. l.pc \in {"look", "crt", "key", "store"} /\ ~e
             => Whole' /\ (Whole => crtFile' = crtFile)
      BY <1>3, <3>1, <3>2 DEF InCall
    <3>5. load'[h] = [l EXCEPT !.disturbed = e]
      BY <2>1, <3>1, <3>2
    <3>6. CallOK([l EXCEPT !.disturbed = e])'
      BY <1>0, <3>3, <3>4, CallKept
    <3> HIDE DEF d
    <3> QED
      BY <3>5, <3>6 DEF CallOK
  <2> QED
    BY <1>1, <2>2, <2>3 DEF CallsInv
<1> QED
  BY <1>2, <1>3

LEMMA RenewalStep == LoaderInv /\ Renewal => LoaderInv'
<1> SUFFICES ASSUME LoaderInv, Renewal PROVE LoaderInv'
  OBVIOUS
<1> USE PairsAssumption DEF None, Torn, Stamp
<1>0. Basics /\ FilesInv
  BY DEF LoaderInv
<1>0a. pairs \in Nat /\ whole \in Nat /\ mtime \in Nat /\ crtFile \in Int /\ keyFile \in Int
  BY <1>0 DEF Basics, Contents
<1>1. CASE Renew
  <2>1. Basics' /\ FilesInv'
    BY <1>0, <1>0a, <1>1 DEF Renew, Basics, FilesInv, Contents
  <2>2. UNCHANGED <<crtFile, keyFile, load>> /\ UNCHANGED cacheVars
        /\ pairs <= pairs' /\ whole <= whole' /\ mtime <= mtime'
        /\ (crtFile # None => crtFile' # None)
    BY <1>0a, <1>1 DEF Renew
  <2> QED
    BY <2>1, <2>2, RenewalKeeps
<1>2. CASE TruncateCrt
  <2>1. Basics' /\ FilesInv'
    BY <1>0, <1>0a, <1>2 DEF TruncateCrt, Basics, FilesInv, Contents
  <2>2. ~Whole' /\ Disturb /\ UNCHANGED cacheVars
        /\ pairs <= pairs' /\ whole <= whole' /\ mtime <= mtime'
        /\ (crtFile # None => crtFile' # None)
    BY <1>0a, <1>2 DEF TruncateCrt, Whole
  <2> QED
    BY <2>1, <2>2, RenewalKeeps
<1>3. CASE TruncateKey
  <2>1. Basics' /\ FilesInv'
    BY <1>0, <1>0a, <1>3 DEF TruncateKey, Basics, FilesInv, Contents
  <2>2. ~Whole' /\ Disturb /\ UNCHANGED cacheVars
        /\ pairs <= pairs' /\ whole <= whole' /\ mtime <= mtime'
        /\ (crtFile # None => crtFile' # None)
    BY <1>0, <1>0a, <1>3 DEF TruncateKey, Whole, Basics, Contents
  <2> QED
    BY <2>1, <2>2, RenewalKeeps
<1>4. CASE InstallCrt
  <2>0. /\ pairs' = pairs /\ crtFile' = pairs /\ keyFile' = keyFile /\ todo' = todo \ {"crt"}
        /\ whole' = IF keyFile = pairs THEN pairs ELSE whole
        /\ mtime' = 2 * pairs
        /\ whole < pairs /\ crtFile < pairs
    BY <1>0, <1>0a, <1>4 DEF InstallCrt, Completes, Whole, Basics, FilesInv
  <2>0a. "key" \in todo => keyFile < pairs
    BY <1>0 DEF FilesInv
  <2>0b. todo' \subseteq {"key"} /\ (todo' # {} => "key" \in todo)
    BY <1>0, <2>0 DEF Basics
  <2>0c. Basics'
    BY <1>0, <1>0a, <2>0, <2>0b DEF Basics, Contents
  <2>0d. whole' = pairs => todo' = {}
    BY <1>0a, <2>0, <2>0a, <2>0b
  <2>0e. FilesInv'
    BY <1>0, <1>0a, <2>0, <2>0a, <2>0b, <2>0d DEF FilesInv, Basics, Contents
  <2>1. Basics' /\ FilesInv'
    BY <2>0c, <2>0e
  <2>2. UNCHANGED cacheVars /\ pairs <= pairs' /\ whole <= whole' /\ mtime <= mtime'
        /\ (crtFile # None => crtFile' # None)
    BY <1>0, <1>0a, <1>4, <2>0 DEF InstallCrt, Completes, Basics
  <2>3. Disturb /\ (Whole /\ Whole' => crtFile' = crtFile)
    BY <1>0, <1>0a, <1>4 DEF InstallCrt, Whole, FilesInv
  <2> QED
    BY <2>1, <2>2, <2>3, RenewalKeeps
<1>5. CASE InstallKey
  <2>0. /\ pairs' = pairs /\ keyFile' = pairs /\ crtFile' = crtFile /\ todo' = todo \ {"key"}
        /\ whole' = IF crtFile = pairs THEN pairs ELSE whole
        /\ mtime' = mtime
        /\ whole < pairs /\ keyFile < pairs
    BY <1>0, <1>0a, <1>5 DEF InstallKey, Completes, Whole, Basics, FilesInv
  <2>0a. "crt" \in todo => crtFile < pairs
    BY <1>0 DEF FilesInv
  <2>0b. todo' \subseteq {"crt"} /\ (todo' # {} => "crt" \in todo)
    BY <1>0, <2>0 DEF Basics
  <2>0c. Basics'
    BY <1>0, <1>0a, <2>0, <2>0b DEF Basics, Contents
  <2>0d. whole' = pairs => todo' = {}
    BY <1>0a, <2>0, <2>0a, <2>0b
  <2>0e. FilesInv'
    BY <1>0, <1>0a, <2>0, <2>0a, <2>0b, <2>0d DEF FilesInv, Basics, Contents
  <2>1. Basics' /\ FilesInv'
    BY <2>0c, <2>0e
  <2>2. UNCHANGED cacheVars /\ pairs <= pairs' /\ whole <= whole' /\ mtime <= mtime'
        /\ (crtFile # None => crtFile' # None)
    BY <1>0, <1>0a, <1>5 DEF InstallKey, Completes, Basics
  <2>3. Disturb /\ (Whole /\ Whole' => crtFile' = crtFile)
    BY <1>0, <1>0a, <1>5 DEF InstallKey, Whole, FilesInv
  <2> QED
    BY <2>1, <2>2, <2>3, RenewalKeeps
<1>6. CASE GiveUp
  <2>1. Basics' /\ FilesInv'
    BY <1>0, <1>0a, <1>6 DEF GiveUp, Basics, FilesInv, Contents
  <2>2. UNCHANGED <<crtFile, keyFile, load>> /\ UNCHANGED cacheVars
        /\ pairs <= pairs' /\ whole <= whole' /\ mtime <= mtime'
        /\ (crtFile # None => crtFile' # None)
    BY <1>0a, <1>6 DEF GiveUp
  <2> QED
    BY <2>1, <2>2, RenewalKeeps
<1> QED
  BY <1>1, <1>2, <1>3, <1>4, <1>5, <1>6 DEF Renewal

\* A step of one call that leaves it in order keeps LoaderInv.
LEMMA OneCall ==
    ASSUME LoaderInv, NEW h \in Handshakes, NEW k, CallOK(k),
           UNCHANGED fileVars, CacheInv', load' = [load EXCEPT ![h] = k]
    PROVE  LoaderInv'
<1> USE DEF LoaderInv
<1>1. Basics' /\ FilesInv'
  BY DEF fileVars, Basics, FilesInv, Contents
<1>2. load' = [g \in Handshakes |-> IF g = h THEN k ELSE load[g]]
  BY DEF IsTable
<1>3. IsTable'
  BY <1>2 DEF IsTable
<1>4. ASSUME NEW g \in Handshakes PROVE CallOK(load[g])'
  <2>1. CallOK(load'[g])
    BY <1>2 DEF CallsInv
  <2> QED
    BY <2>1 DEF CallOK, fileVars, Calls, Contents, Whole
<1> QED
  BY <1>1, <1>3, <1>4 DEF CallsInv

LEMMA CallStep ==
    ASSUME LoaderInv, NEW h \in Handshakes, Stat(h) \/ Get(h)
    PROVE  LoaderInv'
<1> USE PairsAssumption DEF LoaderInv, None, Torn
<1>0. /\ pairs \in Nat /\ whole \in 0 .. pairs /\ mtime \in Nat
      /\ crtFile \in Contents /\ keyFile \in Contents
  BY DEF Basics, Stamp
<1>1. PICK l : l = load[h]
  OBVIOUS
<1>2. CallOK(l) /\ l \in Calls
  BY <1>1 DEF CallsInv, CallOK
<1>3. /\ l.pc \in LoadPCs /\ l.stamp \in Nat /\ l.crt \in Contents /\ l.pair \in 0 .. pairs
      /\ l.floor \in 0 .. whole /\ l.disturbed \in BOOLEAN
  BY <1>2 DEF Calls
<1>3a. /\ Idle \in Calls /\ Idle.stamp = 0 /\ Idle.pc = "off"
       /\ Idle.floor = None /\ Idle.disturbed = FALSE
  BY <1>0, IdleOK DEF CallOK, Idle
<1>4. ASSUME UNCHANGED cacheVars, UNCHANGED fileVars PROVE CacheInv'
  BY <1>4 DEF CacheInv, cacheVars, fileVars
<1>5. ASSUME NEW d \in BOOLEAN, d
      PROVE  CallOK([Idle EXCEPT !.pc = "failed", !.disturbed = d])
  <2> DEFINE k == [Idle EXCEPT !.pc = "failed", !.disturbed = d]
  <2>1. k \in Calls
    BY <1>0, <1>3, <1>3a DEF Calls, LoadPCs
  <2>2. k.pc = "failed" /\ k.stamp = 0 /\ k.disturbed = d
    BY <1>3a DEF Calls
  <2> HIDE DEF k
  <2>3. CallOK(k)
    BY <1>0, <1>5, <2>1, <2>2 DEF CallOK
  <2> QED
    BY <2>3 DEF k
<1>6. ASSUME NEW p \in 1 .. pairs, p >= l.floor
      PROVE  CallOK([Idle EXCEPT !.pc = "served", !.pair = p, !.floor = l.floor])
  <2> DEFINE k == [Idle EXCEPT !.pc = "served", !.pair = p, !.floor = l.floor]
  <2>0. p \in 0 .. pairs
    BY <1>0
  <2>1. k \in Calls
    BY <1>3, <1>3a, <2>0 DEF Calls, LoadPCs
  <2>2. k.pc = "served" /\ k.stamp = 0 /\ k.pair = p /\ k.floor = l.floor
    BY <1>3a DEF Calls
  <2> HIDE DEF k
  <2>3. CallOK(k)
    BY <1>0, <1>6, <2>1, <2>2 DEF CallOK
  <2> QED
    BY <2>3 DEF k
<1>7. CASE Stat(h)
  <2>1. UNCHANGED <<fileVars, cacheVars>> /\ CacheInv'
    BY <1>4, <1>7 DEF Stat
  <2>2. CASE crtFile = None
    <3>1. load' = [load EXCEPT ![h] = [Idle EXCEPT !.pc = "failed", !.disturbed = TRUE]]
      BY <1>7, <2>2 DEF Stat, Fail, Whole
    <3> QED
      BY <1>5, <2>1, <3>1, OneCall
  <2>3. CASE crtFile # None
    <3>1. PICK d \in BOOLEAN : d = ~Whole
      OBVIOUS
    <3> DEFINE k == [Idle EXCEPT !.pc = "look", !.stamp = mtime, !.floor = whole, !.disturbed = d]
    <3>2. load' = [load EXCEPT ![h] = k]
      BY <1>7, <2>3, <3>1 DEF Stat
    <3>2a. whole \in 0 .. whole /\ mtime \in Nat
      BY <1>0
    <3>3. k \in Calls
      BY <1>3a, <3>2a DEF Calls, LoadPCs
    <3>4. /\ k.pc = "look" /\ k.stamp = mtime /\ k.floor = whole /\ k.disturbed = d
      BY <1>3a DEF Calls
    <3>5. Stamp(whole) <= mtime
      BY DEF FilesInv
    <3> HIDE DEF k
    <3>6a. ~k.disturbed => Whole
      BY <3>1, <3>4
    <3>6. CallOK(k)
      BY <1>0, <2>3, <3>3, <3>4, <3>5, <3>6a DEF CallOK
    <3> QED
      BY <2>1, <3>2, <3>6, OneCall
  <2> QED
    BY <2>2, <2>3
<1>8. CASE Look(h)
  <2>1. UNCHANGED <<fileVars, cacheVars>> /\ CacheInv' /\ l.pc = "look"
    BY <1>1, <1>4, <1>8 DEF Look
  <2>2. CASE cached # None /\ load[h].stamp <= mod
    <3>1. load' = [load EXCEPT ![h] = [Idle EXCEPT !.pc = "served", !.pair = cached,
                                                   !.floor = l.floor]]
      BY <1>1, <1>8, <2>2 DEF Look, Serve
    <3>2. /\ Stamp(l.floor) <= l.stamp /\ l.stamp <= mod /\ mod <= Stamp(cached)
          /\ cached \in 1 .. pairs /\ mod \in Int
      BY <1>0, <1>1, <1>2, <2>1, <2>2 DEF CallOK, CacheInv
    <3>3. cached >= l.floor
      BY <1>0, <1>3, <3>2 DEF Stamp
    <3> QED
      BY <1>6, <2>1, <3>1, <3>2, <3>3, OneCall
  <2>3. CASE ~(cached # None /\ load[h].stamp <= mod)
    <3> DEFINE k == [l EXCEPT !.pc = "crt"]
    <3>1. load' = [load EXCEPT ![h] = k]
      <4>1. load' = [load EXCEPT ![h].pc = "crt"]
        BY <1>8, <2>3 DEF Look
      <4> QED
        BY <4>1, <1>1
    <3>2. CallOK(k)
      <4>1. k \in Calls
        BY <1>2 DEF Calls, LoadPCs
      <4>2. /\ k.pc = "crt" /\ k.stamp = l.stamp /\ k.floor = l.floor
            /\ k.disturbed = l.disturbed /\ k.crt = l.crt
        BY <1>2 DEF Calls
      <4> HIDE DEF k
      <4> QED
        BY <1>2, <2>1, <4>1, <4>2 DEF CallOK
    <3> HIDE DEF k
    <3> QED
      BY <2>1, <3>1, <3>2, OneCall
  <2> QED
    BY <2>2, <2>3
<1>9. CASE ReadCrt(h)
  <2>1. UNCHANGED <<fileVars, cacheVars>> /\ CacheInv' /\ l.pc = "crt"
    BY <1>1, <1>4, <1>9 DEF ReadCrt
  <2> DEFINE k == [l EXCEPT !.pc = "key", !.crt = crtFile]
  <2>2. load' = [load EXCEPT ![h] = k]
    <3>1. load' = [load EXCEPT ![h].pc = "key", ![h].crt = crtFile]
      BY <1>9 DEF ReadCrt
    <3> QED
      BY <3>1, <1>1, <1>2 DEF Calls, IsTable
  <2>3. k \in Calls
    BY <1>0, <1>2 DEF Calls, LoadPCs
  <2>4. /\ k.pc = "key" /\ k.stamp = l.stamp /\ k.floor = l.floor
        /\ k.disturbed = l.disturbed /\ k.crt = crtFile
    BY <1>2 DEF Calls
  <2>5. crtFile \notin {None, Torn} => mtime = Stamp(crtFile)
    BY DEF FilesInv
  <2> HIDE DEF k
  <2>6. CallOK(k)
    BY <1>0, <1>2, <1>3, <2>1, <2>3, <2>4, <2>5 DEF CallOK
  <2> QED
    BY <2>1, <2>2, <2>6, OneCall
<1>10. CASE ReadKey(h)
  <2>1. UNCHANGED <<fileVars, cacheVars>> /\ CacheInv' /\ l.pc = "key"
    BY <1>1, <1>4, <1>10 DEF ReadKey
  <2>2. CASE l.crt # Torn /\ keyFile = l.crt
    <3> DEFINE k == [l EXCEPT !.pc = "store", !.pair = l.crt]
    <3>1. load' = [load EXCEPT ![h] = k]
      <4>1. load' = [load EXCEPT ![h].pc = "store", ![h].pair = load[h].crt]
        BY <1>1, <1>10, <2>2 DEF ReadKey
      <4> QED
        BY <4>1, <1>1, <1>2 DEF Calls, IsTable
    <3>2. l.crt # None
      BY <1>2, <2>1 DEF CallOK
    <3>3. k \in Calls
      <4>1. l.crt \in 0 .. pairs
        BY <1>0, <1>3, <2>2, <3>2 DEF Contents
      <4> QED
        BY <1>2, <4>1 DEF Calls, LoadPCs
    <3>4. /\ k.pc = "store" /\ k.stamp = l.stamp /\ k.floor = l.floor
          /\ k.disturbed = l.disturbed /\ k.pair = l.crt
      BY <1>2 DEF Calls
    <3> HIDE DEF k
    <3>5. CallOK(k)
      BY <1>2, <2>1, <2>2, <3>2, <3>3, <3>4 DEF CallOK
    <3> QED
      BY <2>1, <3>1, <3>5, OneCall
  <2>3. CASE ~(l.crt # Torn /\ keyFile = l.crt)
    <3>1. load' = [load EXCEPT ![h] = [Idle EXCEPT !.pc = "failed", !.disturbed = l.disturbed]]
      BY <1>1, <1>10, <2>3 DEF ReadKey, Fail
    <3>2. l.disturbed
      BY <1>2, <1>3, <2>1, <2>3 DEF CallOK, Whole
    <3> QED
      BY <1>3, <1>5, <2>1, <3>1, <3>2, OneCall
  <2> QED
    BY <2>2, <2>3
<1>11. CASE Store(h)
  <2>1. /\ UNCHANGED fileVars /\ l.pc = "store"
        /\ cached' = l.pair /\ mod' = l.stamp
        /\ load' = [load EXCEPT ![h] = [Idle EXCEPT !.pc = "served", !.pair = l.pair,
                                                   !.floor = l.floor]]
    BY <1>1, <1>11 DEF Store, Serve
  <2>2. l.pair # None /\ Stamp(l.floor) <= l.stamp /\ l.stamp <= Stamp(l.pair) /\ l.stamp <= mtime
    BY <1>2, <2>1 DEF CallOK
  <2>3. l.pair \in 1 .. pairs /\ l.pair >= l.floor
    BY <1>0, <1>3, <2>2 DEF Stamp
  <2>4. CacheInv'
    BY <1>0, <1>3, <2>1, <2>2, <2>3 DEF CacheInv, fileVars
  <2> QED
    BY <1>6, <2>1, <2>3, <2>4, OneCall
<1> QED
  BY <1>7, <1>8, <1>9, <1>10, <1>11 DEF Get

-----------------------------------------------------------------------------
(* The minter *)

\* A leaf lies about the life of its entry: the two clocks of one moment.
EntryOK(e) ==
    /\ e \in Entries
    /\ e.expiry <= mono + Ttl
    /\ e # NoLeaf => /\ e.from = e.expiry - Ttl + e.drift - Margin
                     /\ e.to = e.expiry + e.drift + Margin

MinterInv ==
    /\ mono \in 0 .. MaxMono /\ drift \in 0 .. MaxDrift
    /\ leaf = [h \in Hosts |-> leaf[h]]
    /\ \A h \in Hosts : EntryOK(leaf[h])

LEMMA NoLeafOK == ASSUME mono \in Nat PROVE EntryOK(NoLeaf)
BY MinterAssumption DEF EntryOK, NoLeaf, Entries

LEMMA MinterFacts == MinterInv => MinterTypeOK /\ LeafHasMargin
<1> SUFFICES ASSUME MinterInv PROVE MinterTypeOK /\ LeafHasMargin
  OBVIOUS
<1>0. mono \in Nat /\ drift \in Nat /\ Ttl \in Nat /\ Margin \in Nat
  BY MinterAssumption DEF MinterInv
<1>1. MinterTypeOK
  BY DEF MinterTypeOK, MinterInv, EntryOK
<1>2. ASSUME NEW h \in Hosts, Fresh(h), drift - leaf[h].drift \in -Margin .. Margin
      PROVE  leaf[h].from <= Wall /\ Wall < leaf[h].to
  <2>1. EntryOK(leaf[h]) /\ leaf[h] # NoLeaf /\ mono < leaf[h].expiry
    BY <1>2 DEF MinterInv, Fresh
  <2>2. leaf[h].drift \in Int /\ leaf[h].expiry \in Int
    BY <2>1 DEF EntryOK, Entries
  <2> QED
    BY <1>0, <1>2, <2>1, <2>2 DEF EntryOK, Wall
<1> QED
  BY <1>1, <1>2 DEF LeafHasMargin

\* A process that ends forgets the leaves, and its time begins again.
LEMMA FreshMinter ==
    (MinterInit => MinterInv)
    /\ (mono' = 0 /\ drift' = 0 /\ leaf' = [h \in Hosts |-> NoLeaf] => MinterInv')
<1>1. MinterInit => MinterInv
  <2> SUFFICES ASSUME MinterInit PROVE MinterInv
    OBVIOUS
  <2>1. EntryOK(NoLeaf)
    BY NoLeafOK DEF MinterInit
  <2> QED
    BY <2>1, MinterAssumption DEF MinterInit, MinterInv
<1>2. ASSUME mono' = 0, drift' = 0, leaf' = [h \in Hosts |-> NoLeaf] PROVE MinterInv'
  <2>1. EntryOK(NoLeaf)'
    BY <1>2, MinterAssumption DEF EntryOK, NoLeaf, Entries
  <2> QED
    BY <1>2, <2>1, MinterAssumption DEF MinterInv
<1> QED
  BY <1>1, <1>2

LEMMA MinterStep == MinterInv /\ [MinterNext]_minterVars => MinterInv'
<1> SUFFICES ASSUME MinterInv, [MinterNext]_minterVars PROVE MinterInv'
  OBVIOUS
<1>0. mono \in Nat /\ drift \in Nat /\ Ttl \in Nat \ {0} /\ Margin \in Nat
  BY MinterAssumption DEF MinterInv
<1>1. ASSUME mono <= mono', mono' \in 0 .. MaxMono, drift' \in 0 .. MaxDrift, UNCHANGED leaf
      PROVE  MinterInv'
  <2>1. ASSUME NEW h \in Hosts PROVE EntryOK(leaf[h])'
    <3>1. EntryOK(leaf[h])
      BY DEF MinterInv
    <3>2. leaf[h].expiry \in Int
      BY <3>1 DEF EntryOK, Entries
    <3> QED
      BY <1>0, <1>1, <3>1, <3>2 DEF EntryOK
  <2> QED
    BY <1>1, <2>1 DEF MinterInv
<1>2. CASE Tick
  BY <1>0, <1>1, <1>2, MinterAssumption DEF Tick, MinterInv
<1>3. CASE Jump
  BY <1>0, <1>1, <1>3 DEF Jump, MinterInv
<1>4. CASE UNCHANGED minterVars
  BY <1>0, <1>1, <1>4 DEF minterVars, MinterInv
<1>5. ASSUME NEW h \in Hosts, CertFor(h) PROVE MinterInv'
  <2>1. CASE Fresh(h)
    BY <1>0, <1>1, <1>5, <2>1 DEF CertFor, MinterInv
  <2>2. CASE ~Fresh(h)
    <3>1. leaf' = [leaf EXCEPT ![h] = Mint] /\ UNCHANGED <<mono, drift>>
      BY <1>5, <2>2 DEF CertFor
    <3>2. EntryOK(Mint)
      BY <1>0 DEF EntryOK, Mint, Entries, Wall
    <3>3. leaf' = [g \in Hosts |-> IF g = h THEN Mint ELSE leaf[g]]
      BY <3>1 DEF MinterInv
    <3>4. ASSUME NEW g \in Hosts PROVE EntryOK(leaf[g])'
      <4>1. EntryOK(leaf'[g])
        BY <3>2, <3>3 DEF MinterInv
      <4> QED
        BY <3>1, <4>1 DEF EntryOK
    <3> QED
      BY <3>1, <3>3, <3>4 DEF MinterInv
  <2> QED
    BY <2>1, <2>2
<1> QED
  BY <1>2, <1>3, <1>4, <1>5 DEF MinterNext

-----------------------------------------------------------------------------
(* The CA main loads *)

Held == {"ca2", "load", "outer", "listen", "serving", "draining"}

\* A certificate in place has its key beside it, and both stay; what main has
\* read of them is what is there.
CAInv ==
    /\ made \in 0 .. MaxCAs
    /\ ensure \in {"off", "key", "keyput", "crt", "crtput"}
    /\ caKey \in {None, Torn} \cup 1 .. made /\ caCrt \in {None, Torn} \cup 1 .. made
    /\ ensure # "off" => made > 0
    /\ ensure \in {"key", "keyput", "crt"} => caCrt = None
    /\ ensure \in {"crt", "crtput"} => caKey = made
    /\ ensure = "crtput" => caCrt = Torn
    /\ caCrt \notin {None, Torn} => caKey = caCrt /\ ensure = "off"

ReadInv ==
    /\ main \in MainPCs
    /\ ca \in [crt : {None, Torn} \cup 1 .. made, key : {None, Torn} \cup 1 .. made]
    /\ main \in Held => ca.crt # None /\ (ca.crt # Torn => ca.crt = caCrt)
    /\ main \in Held \ {"ca2"} => (ca.crt # Torn => ca.key = caKey)
    /\ main \in Held \ {"ca2", "load"} => Torn \notin {ca.crt, ca.key}

LEMMA CAHeld == CAInv /\ ReadInv => CAPairMatches
BY DEF CAInv, ReadInv, CAPairMatches, Held

LEMMA EnsureCAStep == CAInv /\ (EnsureCA \/ KillEnsureCA) => CAInv'
<1> SUFFICES ASSUME CAInv, EnsureCA \/ KillEnsureCA PROVE CAInv'
  OBVIOUS
<1> USE FailuresAssumption DEF CAInv, None, Torn
<1>1. CASE EnsureCA
  BY <1>1 DEF EnsureCA
<1>2. CASE KillEnsureCA
  BY <1>2 DEF KillEnsureCA
<1> QED
  BY <1>1, <1>2

LEMMA ReadInvKept ==
    ASSUME CAInv, ReadInv, CAInv', UNCHANGED <<main, ca>>, made <= made',
           caCrt \notin {None, Torn} => caCrt' = caCrt
    PROVE  ReadInv'
BY FailuresAssumption DEF CAInv, ReadInv, Held, None, Torn

-----------------------------------------------------------------------------
(* The process *)

RestInv == unusable \subseteq Configs /\ failures \in 0 .. MaxFailures

IInv == LoaderInv /\ MinterInv /\ CAInv /\ ReadInv /\ RestInv

LEMMA InitIInv == Init => IInv
<1> SUFFICES ASSUME Init PROVE IInv
  OBVIOUS
<1>1. LoaderInv
  BY InitLoaderInv DEF Init
<1>2. MinterInv
  BY FreshMinter DEF Init
<1>3. CAInv
  BY FailuresAssumption DEF Init, CAInv, None, Torn
<1>4. ReadInv
  BY FailuresAssumption DEF Init, ReadInv, NoCA, MainPCs, Held, None, Torn
<1>5. RestInv
  BY FailuresAssumption DEF Init, RestInv
<1> QED
  BY <1>1, <1>2, <1>3, <1>4, <1>5 DEF IInv

\* The parts a step leaves alone.
LEMMA LoaderKept == LoaderInv /\ UNCHANGED loaderVars => LoaderInv'
<1> SUFFICES ASSUME LoaderInv, UNCHANGED loaderVars PROVE LoaderInv'
  OBVIOUS
<1> USE DEF loaderVars, fileVars, cacheVars
<1>1. ASSUME NEW h \in Handshakes PROVE CallOK(load[h])'
  BY DEF LoaderInv, CallsInv, CallOK, Calls, Contents, Whole
<1> QED
  BY <1>1 DEF LoaderInv, Basics, FilesInv, CacheInv, IsTable, CallsInv, Contents

LEMMA CAKept == CAInv /\ UNCHANGED caVars => CAInv'
BY DEF CAInv, caVars

LEMMA RestKept == RestInv /\ UNCHANGED <<unusable, failures>> => RestInv'
BY DEF RestInv

\* The end of the process, ...
LEMMA ExitStep ==
    ASSUME IInv, Exit, UNCHANGED <<fileVars, caVars, unusable>>, failures' \in 0 .. MaxFailures
    PROVE  IInv'
<1> USE DEF IInv
<1>1. LoaderInv'
  BY ForgetLoader DEF Exit
<1>2. MinterInv'
  BY FreshMinter DEF Exit
<1>3. CAInv'
  BY CAKept
<1>4. ReadInv'
  BY <1>3 DEF Exit, ReadInv, CAInv, NoCA, MainPCs, Held, None, Torn
<1>5. RestInv'
  BY DEF RestInv
<1> QED
  BY <1>1, <1>2, <1>3, <1>4, <1>5

\* ... and a step within it.
LEMMA GotoStep ==
    ASSUME IInv, NEW l, Goto(l), UNCHANGED <<fileVars, caVars, unusable>>,
           failures' \in 0 .. MaxFailures, ReadInv'
    PROVE  IInv'
<1> USE DEF IInv
<1>1. LoaderInv'
  BY LoaderKept DEF Goto, loaderVars
<1>2. MinterInv'
  BY MinterStep DEF Goto
<1>3. CAInv' /\ RestInv'
  BY CAKept DEF RestInv
<1> QED
  BY <1>1, <1>2, <1>3

LEMMA StartStep == IInv /\ Start => IInv'
<1> SUFFICES ASSUME IInv, Start PROVE IInv'
  OBVIOUS
<1> USE DEF IInv
<1>0. failures \in 0 .. MaxFailures
  BY DEF RestInv
<1>1. CASE LoadConfigs
  <2>1. CASE unusable = {}
    <3>1. ReadInv'
      BY <1>1, <2>1 DEF LoadConfigs, Goto, ReadInv, Held, MainPCs, Files, caVars
    <3> QED
      BY <1>0, <1>1, <2>1, <3>1, GotoStep DEF LoadConfigs, Files
  <2>2. CASE unusable # {}
    BY <1>0, <1>1, <2>2, ExitStep DEF LoadConfigs, Files
  <2> QED
    BY <2>1, <2>2
<1>2. CASE ReadCrtFile("ca", "ca2")
  <2>1. CASE caCrt = None
    BY <1>0, <1>2, <2>1, ExitStep DEF ReadCrtFile, Files
  <2>2. CASE caCrt # None
    <3>1. ReadInv'
      BY <1>2, <2>2 DEF ReadCrtFile, Goto, ReadInv, CAInv, Held, MainPCs, Files, caVars
    <3> QED
      BY <1>0, <1>2, <2>2, <3>1, GotoStep DEF ReadCrtFile, Files
  <2> QED
    BY <2>1, <2>2
<1>3. CASE ReadKeyFile("ca2", "load")
  <2>1. CASE caKey = None
    BY <1>0, <1>3, <2>1, ExitStep DEF ReadKeyFile, Files
  <2>2. CASE caKey # None
    <3>1. ReadInv'
      BY <1>3, <2>2 DEF ReadKeyFile, Goto, ReadInv, CAInv, Held, MainPCs, Files, caVars
    <3> QED
      BY <1>0, <1>3, <2>2, <3>1, GotoStep DEF ReadKeyFile, Files
  <2> QED
    BY <2>1, <2>2
<1>4. CASE LoadCA
  <2>1. CASE Torn \in {ca.crt, ca.key}
    BY <1>0, <1>4, <2>1, ExitStep DEF LoadCA, Files
  <2>2. CASE Torn \notin {ca.crt, ca.key}
    <3>1. ReadInv'
      BY <1>4, <2>2 DEF LoadCA, Goto, ReadInv, Held, MainPCs, Files, caVars
    <3> QED
      BY <1>0, <1>4, <2>2, <3>1, GotoStep DEF LoadCA, Files
  <2> QED
    BY <2>1, <2>2
<1>5. CASE LoadOuter
  <2>1. LoaderInv'
    BY <1>5, CallStep, MainAssumption DEF LoadOuter
  <2>2. MinterInv' /\ CAInv' /\ RestInv'
    BY <1>5, MinterStep, CAKept, RestKept DEF LoadOuter, mainVars
  <2>3. ReadInv'
    BY <1>5, <2>2, ReadInvKept DEF LoadOuter, mainVars, caVars, CAInv
  <2> QED
    BY <2>1, <2>2, <2>3
<1>6. CASE OuterLoaded
  <2>1. CASE Goto("listen") /\ UNCHANGED ca
    <3>1. ReadInv'
      BY <1>6, <2>1 DEF OuterLoaded, Goto, ReadInv, Held, MainPCs, Files, caVars
    <3> QED
      BY <1>0, <1>6, <2>1, <3>1, GotoStep DEF OuterLoaded, Files
  <2>2. CASE Exit
    BY <1>0, <1>6, <2>2, ExitStep DEF OuterLoaded, Files
  <2> QED
    BY <1>6, <2>1, <2>2 DEF OuterLoaded
<1>7. CASE Listen
  <2>1. ReadInv'
    BY <1>7 DEF Listen, Goto, ReadInv, Held, MainPCs, Files, caVars
  <2> QED
    BY <1>0, <1>7, <2>1, GotoStep DEF Listen, Files
<1> QED
  BY <1>1, <1>2, <1>3, <1>4, <1>5, <1>6, <1>7 DEF Start, ReadCA

LEMMA NextIInv == IInv /\ [Next]_vars => IInv'
<1> SUFFICES ASSUME IInv, [Next]_vars PROVE IInv'
  OBVIOUS
<1> USE DEF IInv
<1>0. failures \in 0 .. MaxFailures
  BY DEF RestInv
<1>1. ASSUME UNCHANGED <<mainVars, caVars>>, UNCHANGED unusable, LoaderInv', MinterInv' PROVE IInv'
  <2>1. CAInv' /\ RestInv'
    BY <1>1, CAKept, RestKept DEF mainVars
  <2>2. ReadInv'
    BY <1>1, <2>1, ReadInvKept DEF mainVars, caVars, CAInv
  <2> QED
    BY <1>1, <2>1, <2>2
<1>2. CASE Edit
  <2>1. LoaderInv' /\ MinterInv' /\ CAInv'
    BY <1>2, LoaderKept, MinterStep, CAKept DEF Edit
  <2>2. ReadInv'
    BY <1>2, <2>1, ReadInvKept DEF Edit, mainVars, caVars, CAInv
  <2>3. RestInv'
    BY <1>2 DEF Edit, RestInv, mainVars
  <2> QED
    BY <2>1, <2>2, <2>3
<1>3. CASE AddDevice
  <2>1. LoaderInv' /\ MinterInv' /\ CAInv' /\ RestInv'
    BY <1>3, LoaderKept, MinterStep, EnsureCAStep, RestKept DEF AddDevice, mainVars
  <2>2. made <= made' /\ (caCrt \notin {None, Torn} => caCrt' = caCrt)
    BY <1>3 DEF AddDevice, EnsureCA, KillEnsureCA, CAInv
  <2>3. ReadInv'
    BY <1>3, <2>1, <2>2, ReadInvKept DEF AddDevice, mainVars
  <2> QED
    BY <2>1, <2>3
<1>4. CASE Renewing
  BY <1>1, <1>4, RenewalStep, MinterStep DEF Renewing
<1>5. CASE Clocks
  BY <1>1, <1>5, LoaderKept, MinterStep DEF Clocks, MinterNext
<1>6. CASE Start
  BY <1>6, StartStep
<1>7. CASE Handshake
  BY <1>1, <1>7, CallStep, MinterStep DEF Handshake
<1>8. CASE MakeLeaf
  BY <1>1, <1>8, LoaderKept, MinterStep DEF MakeLeaf, MinterNext
<1>9. CASE Drained
  BY <1>0, <1>9, ExitStep DEF Drained, Files
<1>10. CASE Failure
  <2>1. failures' \in 0 .. MaxFailures
    BY <1>0, <1>10, FailuresAssumption DEF Failure
  <2>2. CASE Exit
    BY <1>10, <2>1, <2>2, ExitStep DEF Failure
  <2>3. CASE Serving /\ Goto("draining") /\ UNCHANGED ca
    <3>1. ReadInv'
      BY <1>10, <2>3 DEF Failure, Serving, Goto, ReadInv, Held, MainPCs, caVars
    <3> QED
      BY <1>10, <2>1, <2>3, <3>1, GotoStep DEF Failure
  <2> QED
    BY <1>10, <2>2, <2>3 DEF Failure
<1>11. CASE Restart
  <2>1. ReadInv'
    BY <1>11 DEF Restart, Goto, ReadInv, Held, MainPCs, Files, caVars
  <2> QED
    BY <1>0, <1>11, <2>1, GotoStep DEF Restart, Files
<1>12. CASE UNCHANGED vars
  BY <1>1, <1>12, LoaderKept, MinterStep DEF vars
<1> QED
  BY <1>2, <1>3, <1>4, <1>5, <1>6, <1>7, <1>8, <1>9, <1>10, <1>11, <1>12 DEF Next

LEMMA Invariance == Spec => []IInv
BY InitIInv, NextIInv, PTL DEF Spec

\* Files, caches, calls, leaves and main have the shapes the code gives them.
THEOREM TypeCorrect == Spec => []TypeOK
<1>1. IInv => TypeOK
  BY LoaderTypes, MinterFacts DEF IInv, TypeOK, CAInv, ReadInv, RestInv
<1> QED
  BY <1>1, Invariance, PTL

\* Every handshake is served the newest pair that was whole when it began, or
\* a newer one, however calls, renewals and restarts interleave: nothing is
\* cached under a stamp newer than itself (get).
THEOREM ServesNewest == Spec => []NewestServed
<1>1. IInv => NewestServed
  BY LoaderTypes DEF IInv
<1> QED
  BY <1>1, Invariance, PTL

\* A handshake fails only when the files were not one whole pair at some
\* moment of its call: from one whole pair to the next there is always such a
\* moment, and a call that saw none read both files of one pair.
THEOREM FailsInRenewalOnly == Spec => []FailsOnlyInRenewal
<1>1. IInv => FailsOnlyInRenewal
  BY LoaderTypes DEF IInv
<1> QED
  BY <1>1, Invariance, PTL

\* Whatever CertFor hands out is valid by a wall clock that has moved against
\* the monotonic one by a margin at most.
THEOREM LeafKeepsMargin == Spec => []LeafHasMargin
<1>1. IInv => LeafHasMargin
  BY MinterFacts DEF IInv
<1> QED
  BY <1>1, Invariance, PTL

\* The CA in use is one pair and the one on disk, wherever runs of add-device
\* were killed: whoever reads a whole certificate finds its key (EnsureCA and
\* main take the two files in opposite orders).
THEOREM CAIsOnePair == Spec => []CAPairMatches
<1>1. IInv => CAPairMatches
  BY CAHeld DEF IInv
<1> QED
  BY <1>1, Invariance, PTL
-----------------------------------------------------------------------------
(* Liveness.  The prover cannot expand ENABLED, so the fairness of FairSpec *)
(* is written out with the guards of the steps in its place: main has a     *)
(* step wherever it is on its way up, and launchd's wait is over.           *)
Up == main \in {"serving", "draining"}

Scheduled ==
    /\ <>[](main \in {"config", "ca", "ca2", "load", "outer", "listen"})
         => []<><<Start>>_vars
    /\ <>[](main = "down") => []<><<Restart>>_vars

\* From some moment on the program is not killed, nor its port taken.
Quiet == <>[][~Failure]_vars

\* An attempt to start, at l; at its CA, with or without half a file read of
\* it; and at the outer certificate, with its call of get at l.
At(l)     == main = l
Whose(l)  == main = l /\ Torn \notin {ca.crt, ca.key}
Torns(l)  == main = l /\ Torn \in {ca.crt, ca.key}
AtGet(l)  == main = "outer" /\ load[Main].pc = l
Fits      == AtGet("key") /\ load[Main].crt = crtFile
Misfits   == AtGet("key") /\ load[Main].crt # crtFile

\* Before it comes to the outer certificate an attempt has read nothing of
\* it, and before ca.crt nothing of the CA.
Unread ==
    /\ main \in {"config", "ca", "ca2", "load", "down"} => load[Main].pc = "off"
    /\ main \in {"config", "ca", "down"} => ca = NoCA
    /\ main = "ca2" => ca.key = None

\* An attempt starts with nothing read, and reads in the order of main.
LEMMA NothingReadEarly == Spec => []Unread
<1>1. Init => Unread
  BY MainAssumption DEF Init, Unread, LoaderInit, Idle
<1>2. IInv /\ Unread /\ [Next]_vars => Unread'
  <2> SUFFICES ASSUME IInv, Unread, [Next]_vars PROVE Unread'
    OBVIOUS
  <2> USE DEF Unread
  <2>1. CASE Exit
    BY <2>1, MainAssumption DEF Exit, Idle
  <2>2. CASE Edit \/ AddDevice \/ Clocks \/ MakeLeaf \/ UNCHANGED vars
    BY <2>2 DEF Edit, AddDevice, Clocks, MakeLeaf, loaderVars, mainVars, vars
  <2>3. CASE Renewing
    <3>1. load'[Main].pc = load[Main].pc
      <4>1. load[Main] \in Calls
        BY MainAssumption DEF IInv, LoaderInv, CallsInv, CallOK
      <4>2. Disturb \/ UNCHANGED load
        BY <2>3 DEF Renewing, Renewal, Renew, TruncateCrt, TruncateKey, InstallCrt,
                    InstallKey, GiveUp
      <4> QED
        BY <4>1, <4>2, MainAssumption DEF Disturb, Calls
    <3> QED
      BY <2>3, <3>1 DEF Renewing, mainVars
  <2>4. CASE Goto("draining") /\ UNCHANGED ca /\ Serving
    BY <2>4 DEF Goto, Serving
  <2>5. CASE Start \/ Restart
    BY <2>1, <2>5 DEF Start, Restart, ReadCA, LoadConfigs, ReadCrtFile, ReadKeyFile, LoadCA,
                      LoadOuter, OuterLoaded, Listen, Goto, mainVars, NoCA
  <2>6. CASE Handshake
    BY <2>6 DEF Handshake, mainVars
  <2> QED
    BY <2>1, <2>2, <2>3, <2>4, <2>5, <2>6 DEF Next, Drained, Failure
<1> QED
  BY <1>1, <1>2, Invariance, PTL DEF Spec

\* What else goes on while the files are in order leaves the attempt alone,
\* and the certificate it reads: from one whole pair to the next there are
\* moments without one.
LEMMA OthersLeaveStart ==
    ASSUME IInv, InOrder, InOrder', ~Up,
           \/ Edit \/ AddDevice \/ Renewing \/ Clocks \/ Handshake \/ MakeLeaf
           \/ Drained \/ UNCHANGED vars
    PROVE  UNCHANGED <<main, ca, load, crtFile>>
<1>1. CASE Edit \/ AddDevice \/ UNCHANGED vars
  BY <1>1 DEF Edit, AddDevice, vars, loaderVars, fileVars, mainVars
<1>2. ~Clocks /\ ~Handshake /\ ~MakeLeaf /\ ~Drained
  BY DEF Up, Clocks, Handshake, MakeLeaf, Drained
<1>3. CASE Renewing
  <2>1. UNCHANGED <<main, ca>> /\ Whole /\ Whole'
    BY <1>3 DEF Renewing, mainVars, InOrder
  <2>2. FilesInv /\ Basics
    BY DEF IInv, LoaderInv
  <2>3. CASE Renew \/ GiveUp
    BY <2>1, <2>3 DEF Renew, GiveUp
  <2>4. CASE TruncateCrt \/ TruncateKey
    BY <2>1, <2>4 DEF TruncateCrt, TruncateKey, Whole
  <2>5. CASE InstallCrt
    BY <2>1, <2>2, <2>5 DEF InstallCrt, Whole, FilesInv, Basics
  <2>6. CASE InstallKey
    BY <2>1, <2>6 DEF InstallKey, Disturb
  <2> QED
    BY <1>3, <2>1, <2>3, <2>4, <2>5, <2>6 DEF Renewing, Renewal
<1> QED
  BY <1>1, <1>2, <1>3

\* Where an attempt goes: with half a CA file, or a certificate that is no
\* longer there, to its end; else, from a new process, to Serve.
Goes ==
    /\ At("down") => At("down")' \/ At("config")'
    /\ At("config") => At("config")' \/ At("ca")'
    /\ At("ca") => At("ca")' \/ Whose("ca2")'
    /\ Whose("ca2") => Whose("ca2")' \/ Whose("load")'
    /\ Torns("ca2") => Torns("ca2")' \/ Torns("load")'
    /\ Torns("load") => Torns("load")' \/ At("down")'
    /\ Whose("load") => Whose("load")' \/ AtGet("off")'
    /\ AtGet("off") => AtGet("off")' \/ AtGet("look")'
    /\ AtGet("look") => AtGet("look")' \/ AtGet("crt")' \/ AtGet("served")'
    /\ AtGet("crt") => AtGet("crt")' \/ Fits'
    /\ Fits => Fits' \/ AtGet("store")'
    /\ Misfits => Misfits' \/ AtGet("failed")'
    /\ AtGet("store") => AtGet("store")' \/ AtGet("served")'
    /\ AtGet("served") => AtGet("served")' \/ At("listen")'
    /\ AtGet("failed") => AtGet("failed")' \/ At("down")'
    /\ At("listen") => At("listen")' \/ Up'

\* A step of main's moves the attempt on.
GoesOn ==
    /\ ~(At("config") /\ At("config")') /\ ~(At("ca") /\ At("ca")')
    /\ ~(Whose("ca2") /\ Whose("ca2")') /\ ~(Torns("ca2") /\ Torns("ca2")')
    /\ ~(Torns("load") /\ Torns("load")') /\ ~(Whose("load") /\ Whose("load")')
    /\ \A l \in LoadPCs : ~(AtGet(l) /\ AtGet(l)')
    /\ ~(At("listen") /\ At("listen")')

\* Files of a pair are neither missing nor torn.
LEMMA PositiveIsPair ==
    ASSUME CAInv, InOrder
    PROVE  caCrt \notin {None, Torn} /\ caKey \notin {None, Torn}
BY FailuresAssumption DEF CAInv, InOrder, None, Torn

\* One step of main's call of get.
LEMMA GetSteps ==
    ASSUME IInv, (load[Main].pc = "off" /\ Stat(Main)) \/ Get(Main)
    PROVE  LET l == load[Main]
               k == load'[Main]
           IN  \/ l.pc = "off" /\ (k.pc = "look" \/ (crtFile = None /\ k.pc = "failed"))
               \/ l.pc = "look" /\ k.pc \in {"crt", "served"}
               \/ l.pc = "crt" /\ k.pc = "key" /\ k.crt = crtFile
               \/ l.pc = "key" /\ l.crt # Torn /\ l.crt = keyFile /\ k.pc = "store"
               \/ l.pc = "key" /\ ~(l.crt # Torn /\ l.crt = keyFile) /\ k.pc = "failed"
               \/ l.pc = "store" /\ k.pc = "served"
<1>1. load[Main] \in Calls
  BY MainAssumption DEF IInv, LoaderInv, CallsInv, CallOK
<1>2. load = [h \in Handshakes |-> load[h]]
  BY DEF IInv, LoaderInv, IsTable
<1> USE MainAssumption
<1>3. ASSUME NEW k, load' = [load EXCEPT ![Main] = k] PROVE load'[Main] = k
  BY <1>2, <1>3
<1>4. CASE load[Main].pc = "off" /\ Stat(Main)
  <2>1. CASE crtFile = None
    <3>1. load'[Main] = [Idle EXCEPT !.pc = "failed", !.disturbed = ~Whole]
      BY <1>3, <1>4, <2>1 DEF Stat, Fail
    <3> QED
      BY <1>4, <2>1, <3>1 DEF Idle
  <2>2. CASE crtFile # None
    <3>1. PICK k : k = [Idle EXCEPT !.pc = "look", !.stamp = mtime,
                                    !.floor = whole, !.disturbed = ~Whole]
      OBVIOUS
    <3>2. load' = [load EXCEPT ![Main] = k]
      <4>1. load' = [load EXCEPT ![Main] = [Idle EXCEPT !.pc = "look", !.stamp = mtime,
                                            !.floor = whole, !.disturbed = ~Whole]]
        BY <1>4, <2>2, Zenon DEF Stat
      <4> QED
        BY <3>1, <4>1, Zenon
    <3>3. k.pc = "look"
      BY <3>1 DEF Idle
    <3> QED
      BY <1>3, <1>4, <3>2, <3>3
  <2> QED
    BY <2>1, <2>2
<1>5. ASSUME NEW p, Serve(Main, p) PROVE load'[Main].pc = "served"
  <2>1. load'[Main] = [Idle EXCEPT !.pc = "served", !.pair = p, !.floor = load[Main].floor]
    BY <1>3, <1>5 DEF Serve
  <2> QED
    BY <2>1 DEF Idle
<1>6. ASSUME NEW d, Fail(Main, d) PROVE load'[Main].pc = "failed"
  <2>1. load'[Main] = [Idle EXCEPT !.pc = "failed", !.disturbed = d]
    BY <1>3, <1>6 DEF Fail
  <2> QED
    BY <2>1 DEF Idle
<1>7. CASE Look(Main)
  <2>1. load' = [load EXCEPT ![Main].pc = "crt"] => load'[Main].pc = "crt"
    BY <1>1, <1>2 DEF Calls
  <2> QED
    BY <1>5, <1>7, <2>1 DEF Look
<1>8. CASE ReadCrt(Main)
  BY <1>1, <1>2, <1>8 DEF ReadCrt, Calls
<1>9. CASE ReadKey(Main)
  <2>1. load' = [load EXCEPT ![Main].pc = "store", ![Main].pair = load[Main].crt]
          => load'[Main].pc = "store"
    BY <1>1, <1>2 DEF Calls
  <2> QED
    BY <1>6, <1>9, <2>1 DEF ReadKey
<1>10. CASE Store(Main)
  BY <1>5, <1>10 DEF Store
<1> QED
  BY <1>4, <1>7, <1>8, <1>9, <1>10 DEF Get

\* With the files in order and nothing failing every step is such a move.
LEMMA StartGoes ==
    ASSUME IInv, Unread, InOrder, InOrder', [Next]_vars, [~Failure]_vars
    PROVE  Goes
<1> USE DEF Goes, At, Whose, Torns, AtGet, Fits, Misfits, Up
<1>1. ASSUME UNCHANGED <<main, ca, load, crtFile>> PROVE Goes
  BY <1>1
<1>2. CASE Up
  BY <1>2
<1>3. ASSUME main \in {"config", "ca", "ca2", "load"},
             LoadConfigs \/ ReadCA \/ LoadCA
      PROVE  Goes
  <2>1. /\ unusable = {} /\ caCrt \notin {None, Torn} /\ caKey \notin {None, Torn}
        /\ load[Main].pc = "off"
        /\ main \in {"config", "ca"} => ca = NoCA
        /\ main = "ca2" => ca.key = None
    BY <1>3, PositiveIsPair DEF InOrder, Unread, IInv
  <2>2. CASE LoadConfigs
    BY <2>1, <2>2 DEF LoadConfigs, Goto
  <2>3. CASE ReadCrtFile("ca", "ca2")
    <3>1. main = "ca" /\ main' = "ca2" /\ ca' = [crt |-> caCrt, key |-> None]
      BY <2>1, <2>3 DEF ReadCrtFile, Goto, NoCA
    <3> QED
      BY <2>1, <3>1 DEF None, Torn
  <2>4. CASE ReadKeyFile("ca2", "load")
    <3>1. /\ main = "ca2" /\ main' = "load"
          /\ ca.key = None /\ ca'.crt = ca.crt /\ ca'.key = caKey
      BY <2>1, <2>4 DEF ReadKeyFile, Goto, IInv, ReadInv
    <3> QED
      BY <2>1, <3>1 DEF None, Torn
  <2>5. CASE LoadCA
    <3>1. /\ main = "load"
          /\ IF Torn \in {ca.crt, ca.key} THEN main' = "down"
                                         ELSE main' = "outer" /\ load' = load
      BY <2>5 DEF LoadCA, Goto, Exit
    <3> QED
      BY <2>1, <3>1
  <2> QED
    BY <1>3, <2>2, <2>3, <2>4, <2>5 DEF ReadCA
<1>4. CASE LoadOuter
  <2>1. main = "outer" /\ UNCHANGED <<main, ca, crtFile>>
    BY <1>4 DEF LoadOuter, mainVars, Stat, Get, Look, ReadCrt, ReadKey, Store, fileVars
  <2>2. crtFile \notin {None, Torn} /\ keyFile = crtFile
    BY DEF InOrder, Whole
  <2> QED
    BY <1>4, <2>1, <2>2, GetSteps DEF LoadOuter
<1>5. CASE OuterLoaded \/ Listen
  BY <1>5 DEF OuterLoaded, Listen, Goto, Exit
<1>6. CASE Restart
  BY <1>6 DEF Restart, Goto
<1>7. Start /\ ~LoadOuter /\ ~OuterLoaded /\ ~Listen
        => main \in {"config", "ca", "ca2", "load"} /\ (LoadConfigs \/ ReadCA \/ LoadCA)
  BY DEF Start, LoadConfigs, ReadCA, ReadCrtFile, ReadKeyFile, LoadCA
<1>8. ~Failure \/ UNCHANGED vars
  OBVIOUS
<1> QED
  BY <1>1, <1>2, <1>3, <1>4, <1>5, <1>6, <1>7, <1>8, OthersLeaveStart DEF Next

\* No step of main's leaves the attempt where it was.
LEMMA StartGoesOn == IInv /\ Start => GoesOn
<1> SUFFICES ASSUME IInv, Start PROVE GoesOn
  OBVIOUS
<1> USE DEF GoesOn, At, Whose, Torns, AtGet
<1>1. CASE LoadConfigs \/ ReadCA \/ LoadCA \/ OuterLoaded \/ Listen
  BY <1>1 DEF LoadConfigs, ReadCA, ReadCrtFile, ReadKeyFile, LoadCA, OuterLoaded, Listen,
              Goto, Exit
<1>2. CASE LoadOuter
  <2>1. main = "outer"
    BY <1>2 DEF LoadOuter
  <2>2. load'[Main].pc # load[Main].pc
    BY <1>2, GetSteps DEF LoadOuter
  <2> QED
    BY <2>1, <2>2
<1> QED
  BY <1>1, <1>2 DEF Start

\* Once the files are in order for good, and nothing kills the program, it
\* comes up, wherever the files found it: the attempt that read some of them
\* too early ends, and the next reads all of them as they are.
THEOREM ProcessComesUp == Spec /\ Scheduled /\ Quiet => ComesUp
<1> DEFINE Order   == IInv /\ Unread /\ InOrder
           Settled == []Order /\ [][Goes]_vars /\ [][Start => GoesOn]_vars /\ Scheduled
<1>0. UNCHANGED vars => Goes
  BY DEF vars, loaderVars, fileVars, mainVars, Goes, At, Whose, Torns, AtGet, Fits, Misfits, Up
<1>1. Order /\ Order' /\ [Next]_vars /\ [~Failure]_vars => Goes
  BY StartGoes
<1>2. Order => (Start => GoesOn)
  BY StartGoesOn
<1>3. Spec /\ Scheduled /\ Quiet /\ <>[]InOrder => <>Settled
  <2>1. <>[]InOrder /\ []IInv /\ []Unread => <>[]Order
    BY PTL
  <2> HIDE DEF Order
  <2>2. <>[]Order /\ Quiet /\ [][Next]_vars => <>([]Order /\ [][Goes]_vars)
    BY <1>1, PTL DEF Quiet
  <2>3. []Order => [][Start => GoesOn]_vars
    BY <1>2, PTL
  <2>4. Scheduled => []Scheduled
    BY PTL DEF Scheduled
  <2> QED
    BY <2>1, <2>2, <2>3, <2>4, Invariance, NothingReadEarly, PTL DEF Spec
<1>4. Order => \/ Up \/ At("down") \/ At("config") \/ At("ca") \/ At("listen")
               \/ Whose("ca2") \/ Torns("ca2") \/ Whose("load") \/ Torns("load")
               \/ AtGet("off") \/ AtGet("look") \/ AtGet("crt") \/ Fits \/ Misfits
               \/ AtGet("store") \/ AtGet("served") \/ AtGet("failed")
  <2> SUFFICES ASSUME Order
               PROVE  main \in MainPCs /\ load[Main].pc \in LoadPCs
    BY DEF MainPCs, LoadPCs, Up, At, Whose, Torns, AtGet, Fits, Misfits
  <2> QED
    BY MainAssumption DEF IInv, ReadInv, LoaderInv, CallsInv, CallOK, Calls
<1>5. /\ At("config") \/ At("ca") \/ At("listen") \/ Whose("ca2") \/ Torns("ca2")
           \/ Whose("load") \/ Torns("load") \/ AtGet("off") \/ AtGet("look")
           \/ AtGet("crt") \/ Fits \/ Misfits \/ AtGet("store") \/ AtGet("served")
           \/ AtGet("failed")
         => main \in {"config", "ca", "ca2", "load", "outer", "listen"}
      /\ At("down") => main = "down"
  BY DEF At, Whose, Torns, AtGet, Fits, Misfits
<1>6. /\ GoesOn => /\ ~(AtGet("off") /\ AtGet("off")') /\ ~(AtGet("look") /\ AtGet("look")')
                   /\ ~(AtGet("crt") /\ AtGet("crt")') /\ ~(AtGet("key") /\ AtGet("key")')
                   /\ ~(AtGet("store") /\ AtGet("store")')
                   /\ ~(AtGet("served") /\ AtGet("served")')
                   /\ ~(AtGet("failed") /\ AtGet("failed")')
      /\ Fits \/ Misfits => AtGet("key")
  BY DEF GoesOn, LoadPCs, Fits, Misfits
<1> HIDE DEF Order
<1>7. Settled => (At("down") ~> At("config"))
  <2>1. <<Restart>>_vars => ~At("down")'
    BY DEF Restart, Goto, At
  <2> QED
    BY <1>0, <1>5, <2>1, PTL DEF Scheduled, Goes
<1>8. Settled => /\ At("config") ~> At("ca")
                 /\ At("ca") ~> Whose("ca2")
                 /\ Whose("ca2") ~> Whose("load")
  BY <1>0, <1>5, PTL DEF Scheduled, Goes, GoesOn
<1>9. Settled => /\ Whose("load") ~> AtGet("off")
                 /\ Torns("ca2") ~> Torns("load")
                 /\ Torns("load") ~> At("down")
  BY <1>0, <1>5, PTL DEF Scheduled, Goes, GoesOn
<1>10. Settled => /\ AtGet("off") ~> AtGet("look")
                  /\ AtGet("look") ~> AtGet("crt") \/ AtGet("served")
                  /\ AtGet("crt") ~> Fits
  BY <1>0, <1>5, <1>6, PTL DEF Scheduled, Goes
<1>11. Settled => /\ Fits ~> AtGet("store")
                  /\ Misfits ~> AtGet("failed")
                  /\ AtGet("store") ~> AtGet("served")
  BY <1>0, <1>5, <1>6, PTL DEF Scheduled, Goes
<1>12. Settled => /\ AtGet("served") ~> At("listen")
                  /\ AtGet("failed") ~> At("down")
                  /\ At("listen") ~> Up
  BY <1>0, <1>5, <1>6, PTL DEF Scheduled, Goes, GoesOn
<1>13. Settled => (AtGet("look") ~> Up) /\ (Fits ~> Up)
  BY <1>10, <1>11, <1>12, PTL
<1>14. Settled => (At("down") ~> Up) /\ (Whose("ca2") ~> Up)
  BY <1>7, <1>8, <1>9, <1>10, <1>13, PTL
<1>15. Settled => []<>Up
  BY <1>4, <1>8, <1>9, <1>10, <1>11, <1>12, <1>13, <1>14, PTL
<1>16. Spec /\ Scheduled /\ Quiet /\ <>[]InOrder => []<>Up
  BY <1>3, <1>15, PTL
<1> QED
  BY <1>16, PTL DEF ComesUp, Up
=============================================================================
