------------------------- MODULE DeviceStore_proofs -------------------------
(***************************************************************************)
(* Proofs about DeviceStore, for every set of contents, every fingerprint  *)
(* set and every number of edits and crashes: what the store may serve,    *)
(* that StopWatch returns, and that an edit is served in the end.          *)
(***************************************************************************)
EXTENDS DeviceStore, TLAPS

\* The states of the store and its file have the shapes of TypeOK.
THEOREM TypeCorrect == Spec => []TypeOK
<1>1. Init => TypeOK
  <2> SUFFICES ASSUME Init PROVE TypeOK
    OBVIOUS
  <2>1. PICK l \in Lists : log = <<l>>
    BY DEF Init
  <2>2. log \in Seq(Lists) /\ log # <<>> /\ Len(log) = 1
    BY <2>1
  <2>3. writing \in BOOLEAN /\ booted \in BOOLEAN
    BY DEF Init
  <2>4. got \in 0 .. Len(log) /\ at \in 0 .. Len(log)
    BY <2>2 DEF Init
  <2>7. DOMAIN table \subseteq Canonical
    BY DEF Init, Load
  <2>5. /\ mtime \in Int /\ events \in Nat /\ seen \in Int
        /\ lastMod \in Int /\ crashes \in Nat
    BY DEF Init
  <2>6. /\ content \in {"list", "torn", "absent"} /\ pc \in PCs
        /\ stop \in {"open", "closed", "returned"}
    BY DEF Init, PCs
  <2> QED
    BY <2>2, <2>3, <2>4, <2>5, <2>6, <2>7 DEF TypeOK
<1>2. TypeOK /\ [Next]_vars => TypeOK'
  <2> SUFFICES ASSUME TypeOK, [Next]_vars PROVE TypeOK'
    OBVIOUS
  <2>1. CASE Edit
    <3>1. ASSUME Stamp PROVE mtime' \in Int /\ events' \in Nat
      BY <3>1, StepsAssumption DEF Stamp, TypeOK
    <3>2. ASSUME NEW l \in Lists, log' = Append(log, l)
          PROVE  /\ log' \in Seq(Lists) /\ log' # <<>>
                 /\ Len(log') = Len(log) + 1
      BY <3>2 DEF TypeOK
    <3>3. CASE BeginWrite \/ WriterDies \/ Damage \/ Remove
      BY <3>1, <3>3
         DEF BeginWrite, WriterDies, Damage, Remove, TypeOK, storeVars
    <3>4. CASE EndWrite \/ RenameInto
      <4>1. PICK l \in Lists : log' = Append(log, l)
        BY <3>4 DEF EndWrite, RenameInto
      <4>2. Len(log) \in Nat /\ Len(log') = Len(log) + 1
        BY <4>1, <3>2 DEF TypeOK
      <4>3. got \in 0 .. Len(log') /\ at \in 0 .. Len(log')
        BY <4>2 DEF TypeOK
      <4>4. mtime' \in Int /\ events' \in Nat
        BY <3>1, <3>4 DEF EndWrite, RenameInto
      <4>5. log' \in Seq(Lists) /\ log' # <<>>
        BY <4>1, <3>2
      <4> QED
        BY <3>4, <4>3, <4>4, <4>5 DEF EndWrite, RenameInto, TypeOK, storeVars
    <3> QED
      BY <2>1, <3>3, <3>4 DEF Edit
  <2>2. CASE Reload
    <3>1. Len(log) \in Nat /\ Newest \in 0 .. Len(log)
      BY DEF TypeOK, Newest
    <3>2. CASE ReloadStat
      BY <3>2 DEF ReloadStat, Failed, TypeOK, PCs, fileVars
    <3>3. CASE ReloadRead
      BY <3>1, <3>3 DEF ReloadRead, Failed, TypeOK, PCs, fileVars
    <3>4. CASE ReloadSwap
      <4>1. booted' \in BOOLEAN /\ pc' \in PCs
        BY <3>4 DEF ReloadSwap, PCs
      <4>2. at' \in 0 .. Len(log) /\ lastMod' \in Int
        BY <3>4 DEF ReloadSwap, TypeOK
      <4>4. DOMAIN table' \subseteq Canonical
        BY <3>4 DEF ReloadSwap, Load
      <4>3. /\ content' = content /\ mtime' = mtime /\ log' = log
            /\ writing' = writing /\ events' = events /\ seen' = seen
            /\ got' = got /\ stop' = stop /\ crashes' = crashes
        BY <3>4 DEF ReloadSwap, fileVars
      <4> QED
        BY <4>1, <4>2, <4>3, <4>4 DEF TypeOK
    <3> QED
      BY <2>2, <3>2, <3>3, <3>4 DEF Reload
  <2>3. CASE StartWatch \/ Watch \/ StopWatch \/ StopReturns
    BY <2>3 DEF StartWatch, Watch, Poll, WatcherExit, StopWatch, StopReturns,
                TypeOK, PCs, fileVars
  <2>4. CASE Life
    <3>1. Len(log) \in Nat
      BY DEF TypeOK
    <3>2. CASE Crash
      <4>1. booted' \in BOOLEAN /\ pc' \in PCs
        BY <3>2 DEF Crash, PCs
      <4>2. crashes' \in Nat
        BY <3>2 DEF Crash, TypeOK
      <4>3. stop' \in {"open", "closed", "returned"}
        BY <3>2 DEF Crash
      <4>4. UNCHANGED <<content, mtime, log, writing, events, seen, got, table, at, lastMod>>
        BY <3>2 DEF Crash, fileVars
      <4> QED
        BY <4>1, <4>2, <4>3, <4>4 DEF TypeOK
    <3>3. CASE Restart
      BY <3>1, <3>3 DEF Restart, TypeOK, PCs, fileVars
    <3> QED
      BY <2>4, <3>2, <3>3 DEF Life
  <2>5. CASE UNCHANGED vars
    BY <2>5 DEF vars, fileVars, storeVars, TypeOK
  <2> QED
    BY <2>1, <2>2, <2>3, <2>4, <2>5 DEF Next
<1> QED
  BY <1>1, <1>2, PTL DEF Spec

-----------------------------------------------------------------------------
(* Where reload stands between its steps. *)
Progress ==
    /\ pc \in {"loaded", "idle", "exited"} => booted
    /\ pc = "down" => ~booted
    /\ pc = "swap" => got # 0 /\ at <= got

\* A reload never carries a content older than the one being served.
THEOREM ReloadProgress == Spec => []Progress
<1>1. Init => Progress
  BY DEF Init, Progress
<1>2. TypeOK /\ Progress /\ [Next]_vars => Progress'
  <2> SUFFICES ASSUME TypeOK, Progress, [Next]_vars PROVE Progress'
    OBVIOUS
  <2>1. CASE Edit
    BY <2>1 DEF Edit, BeginWrite, EndWrite, WriterDies, RenameInto, Damage,
                Remove, Progress, storeVars
  <2>2. CASE Reload
    <3>1. Len(log) # 0 /\ Len(log) \in Nat
      BY DEF TypeOK
    <3> QED
      BY <2>2, <3>1 DEF Reload, ReloadStat, ReloadRead, ReloadSwap, Failed,
                        Newest, TypeOK, Progress, fileVars
  <2>3. CASE StartWatch \/ Watch \/ StopWatch \/ StopReturns \/ Life
    BY <2>3 DEF StartWatch, Watch, Poll, WatcherExit, StopWatch, StopReturns,
                Life, Crash, Restart, Progress
  <2>4. CASE UNCHANGED vars
    BY <2>4 DEF vars, storeVars, Progress
  <2> QED
    BY <2>1, <2>2, <2>3, <2>4 DEF Next
<1> QED
  BY <1>1, <1>2, TypeCorrect, PTL DEF Spec

\* Whatever the edits, failed reloads, crashes and restarts, the table is
\* at all times one complete content of the file, and never an earlier one
\* than before.
THEOREM StoreImplementsWhitelist == Spec => ImplementsWhitelist
<1>1. Init => W!Init
  BY DEF Init, W!Init
<1>2. TypeOK /\ Progress /\ [Next]_vars => [W!Next]_W!wvars
  <2> SUFFICES ASSUME TypeOK, Progress, Next PROVE W!Next \/ UNCHANGED W!wvars
    BY DEF vars, fileVars, storeVars, W!wvars
  <2>1. CASE EndWrite \/ RenameInto
    BY <2>1 DEF EndWrite, RenameInto, storeVars, W!Next, W!Commit
  <2>2. CASE BeginWrite \/ WriterDies \/ Damage \/ Remove
    BY <2>2 DEF BeginWrite, WriterDies, Damage, Remove, storeVars, W!wvars
  <2>3. CASE ReloadSwap
    <3>1. got \in (at .. Len(log)) \ {0}
      BY <2>3 DEF ReloadSwap, TypeOK, Progress
    <3> QED
      BY <2>3, <3>1 DEF ReloadSwap, fileVars, W!Next, W!Refresh
  <2>4. CASE ReloadStat \/ ReloadRead
    BY <2>4 DEF ReloadStat, ReloadRead, fileVars, W!wvars
  <2>5. CASE StartWatch \/ Watch \/ StopWatch \/ StopReturns \/ Life
    BY <2>5 DEF StartWatch, Watch, Poll, WatcherExit, StopWatch, StopReturns,
                Life, Crash, Restart, fileVars, W!wvars
  <2> QED
    BY <2>1, <2>2, <2>3, <2>4, <2>5 DEF Next, Edit, Reload
<1> QED
  BY <1>1, <1>2, TypeCorrect, ReloadProgress, PTL
     DEF Spec, ImplementsWhitelist, W!Spec

-----------------------------------------------------------------------------
(* NoMissedChange speaks of the poll.  It holds there because it holds of   *)
(* the stamp a reload is carrying, and because a failed reload keeps both   *)
(* the table and its stamp.                                                 *)
StampCovers ==
    /\ booted => lastMod <= mtime
    /\ booted /\ content = "list" /\ at # Newest => lastMod < mtime
    /\ pc \in {"read", "swap"} => seen <= mtime
    /\ pc = "swap" /\ content = "list" /\ got # Newest => seen < mtime

\* With stamps that differ, a complete edit that is not being served always
\* looks newer to the next poll than what was loaded: no interleaving of an
\* edit with Stat, ReadFile and the swap loses it.
THEOREM NoChangeMissed ==
    ASSUME DistinctStamps
    PROVE  Spec => []NoMissedChange
<1>1. Init => StampCovers
  BY DEF Init, StampCovers
<1>2. TypeOK /\ Progress /\ StampCovers /\ [Next]_vars => StampCovers'
  <2> SUFFICES ASSUME TypeOK, Progress, StampCovers, [Next]_vars
               PROVE  StampCovers'
    OBVIOUS
  <2>1. ASSUME Stamp PROVE mtime' > mtime
    BY <2>1, StepsAssumption, DistinctStamps DEF Stamp, DistinctStamps, TypeOK
  <2>2. CASE BeginWrite \/ EndWrite \/ RenameInto \/ Damage
    <3>1. Stamp /\ UNCHANGED storeVars
      BY <2>2 DEF BeginWrite, EndWrite, RenameInto, Damage
    <3>2. mtime' > mtime /\ mtime' \in Int
      BY <2>1, <3>1, StepsAssumption DEF Stamp, TypeOK
    <3> QED
      BY <3>1, <3>2 DEF storeVars, StampCovers, TypeOK
  <2>3. CASE WriterDies \/ Remove
    BY <2>3 DEF WriterDies, Remove, storeVars, StampCovers, Newest
  <2>4. CASE ReloadStat
    BY <2>4 DEF ReloadStat, Failed, StampCovers, Newest, TypeOK, fileVars
  <2>5. CASE ReloadRead
    BY <2>5 DEF ReloadRead, Failed, StampCovers, Newest, TypeOK, fileVars
  <2>6. CASE ReloadSwap
    <3>1. /\ lastMod' = seen /\ at' = got /\ pc' \notin {"read", "swap"}
          /\ content' = content /\ mtime' = mtime /\ log' = log
      BY <2>6 DEF ReloadSwap, fileVars
    <3>2. /\ seen <= mtime
          /\ content = "list" /\ got # Newest => seen < mtime
      BY <2>6 DEF ReloadSwap, StampCovers
    <3>3. Newest' = Newest
      BY <3>1 DEF Newest
    <3> QED
      BY <3>1, <3>2, <3>3 DEF StampCovers
  <2>7. CASE StartWatch \/ Watch \/ StopWatch \/ StopReturns \/ Life
    BY <2>7 DEF StartWatch, Watch, Poll, WatcherExit, StopWatch, StopReturns,
                Life, Crash, Restart, Progress, StampCovers, Newest, fileVars
  <2>8. CASE UNCHANGED vars
    BY <2>8 DEF vars, fileVars, storeVars, StampCovers, Newest
  <2> QED
    BY <2>2, <2>3, <2>4, <2>5, <2>6, <2>7, <2>8 DEF Next, Edit, Reload
<1>3. Progress /\ StampCovers => NoMissedChange
  BY DEF Progress, StampCovers, NoMissedChange, Newer
<1> QED
  BY <1>1, <1>2, <1>3, TypeCorrect, ReloadProgress, PTL DEF Spec

-----------------------------------------------------------------------------
\* Once StopWatch has returned, no step changes the table or its stamp.
THEOREM StoppedIsFinal == Spec => StopIsFinal
<1> DEFINE Gone == stop = "returned" => pc = "exited"
<1>1. Init => Gone
  BY DEF Init
<1>2. Gone /\ [Next]_vars => Gone'
  <2> SUFFICES ASSUME Gone, [Next]_vars PROVE Gone'
    OBVIOUS
  <2>1. CASE Edit \/ UNCHANGED vars
    BY <2>1 DEF Edit, BeginWrite, EndWrite, WriterDies, RenameInto, Damage,
                Remove, storeVars, vars
  <2>2. CASE Reload \/ StartWatch \/ Watch
    BY <2>2 DEF Reload, ReloadStat, ReloadRead, ReloadSwap, StartWatch, Watch,
                Poll, WatcherExit
  <2>3. CASE StopWatch \/ StopReturns \/ Life
    BY <2>3 DEF StopWatch, StopReturns, Life, Crash, Restart
  <2> QED
    BY <2>1, <2>2, <2>3 DEF Next
<1>3. Gone /\ [Next]_vars
        => [stop = "returned" /\ stop' = "returned" => UNCHANGED <<table, lastMod>>]_vars
  <2> SUFFICES ASSUME Gone, Next, stop = "returned", stop' = "returned"
               PROVE  UNCHANGED <<table, lastMod>>
    OBVIOUS
  <2>1. CASE Edit
    BY <2>1 DEF Edit, BeginWrite, EndWrite, WriterDies, RenameInto, Damage,
                Remove, storeVars
  <2>2. CASE Reload \/ StartWatch \/ Watch \/ StopWatch \/ StopReturns
    BY <2>2 DEF Reload, ReloadStat, ReloadRead, ReloadSwap, StartWatch, Watch,
                Poll, WatcherExit, StopWatch, StopReturns
  <2>3. CASE Life
    BY <2>3 DEF Life, Crash, Restart
  <2> QED
    BY <2>1, <2>2, <2>3 DEF Next
<1> QED
  BY <1>1, <1>2, <1>3, PTL DEF Spec, StopIsFinal
-----------------------------------------------------------------------------
(* Liveness.  The prover cannot expand ENABLED, so the fairness of FairSpec *)
(* is written out with the guards of the steps in its place: a step whose   *)
(* guard holds from some moment on is taken again and again; for the exit   *)
(* of the watch loop it is enough that its guard holds again and again.     *)
Scheduled ==
    /\ <>[](pc \in {"stat", "read", "swap"}) => []<><<Reload>>_vars
    /\ <>[](pc = "loaded") => []<><<StartWatch>>_vars
    /\ <>[](pc = "idle" /\ content # "absent" /\ Newer(mtime, lastMod))
         => []<><<Poll>>_vars
    /\ []<>(pc = "idle" /\ stop # "open") => []<><<WatcherExit>>_vars
    /\ <>[](pc = "exited" /\ stop = "closed") => []<><<StopReturns>>_vars
    /\ <>[](pc = "down") => []<><<Restart>>_vars

\* StopWatch is called on a store that runs, and the loop ends for it only.
Watched ==
    /\ stop # "open" => booted /\ pc \in {"idle", "stat", "read", "swap", "exited"}
    /\ pc = "exited" => stop # "open"

\* The loop that StopWatch waits for was started, and ends for StopWatch only.
LEMMA StopOfARunningStore == Spec => []Watched
<1>1. Init => Watched
  BY DEF Init, Watched
<1>2. TypeOK /\ Progress /\ Watched /\ [Next]_vars => Watched'
  <2> SUFFICES ASSUME TypeOK, Progress, Watched, [Next]_vars PROVE Watched'
    OBVIOUS
  <2>1. CASE Edit \/ UNCHANGED vars
    BY <2>1 DEF Edit, BeginWrite, EndWrite, WriterDies, RenameInto, Damage,
                Remove, storeVars, vars, Watched
  <2>2. CASE Reload
    BY <2>2 DEF Reload, ReloadStat, ReloadRead, ReloadSwap, Failed, Watched
  <2>3. CASE StartWatch \/ Watch \/ StopWatch \/ StopReturns \/ Life
    BY <2>3 DEF StartWatch, Watch, Poll, WatcherExit, StopWatch, StopReturns,
                Life, Crash, Restart, Progress, Watched
  <2> QED
    BY <2>1, <2>2, <2>3 DEF Next
<1> QED
  BY <1>1, <1>2, TypeCorrect, ReloadProgress, PTL DEF Spec

\* StopWatch does not block for ever, whatever is edited meanwhile: a reload
\* that is under way ends, and the loop, back at its select again and again,
\* takes the exit in the end.
THEOREM StopEnds == Spec /\ Scheduled => StopTerminates
<1> DEFINE Closed == stop = "closed"
           At(l)  == pc = l
<1>1. Closed /\ Watched => At("idle") \/ At("stat") \/ At("read") \/ At("swap") \/ At("exited")
  BY DEF Watched
<1>2. Closed /\ Closed' /\ Watched /\ [Next]_vars
        => /\ At("stat") => At("stat")' \/ At("read")' \/ At("idle")'
           /\ At("read") => At("read")' \/ At("swap")' \/ At("idle")'
           /\ At("swap") => At("swap")' \/ At("idle")'
           /\ At("exited") => At("exited")'
  BY DEF Watched, Next, Edit, BeginWrite, EndWrite, WriterDies, RenameInto, Damage,
         Remove, Reload, ReloadStat, ReloadRead, ReloadSwap, Failed, StartWatch,
         Watch, Poll, WatcherExit, StopWatch, StopReturns, Life, Crash, Restart,
         storeVars, vars
<1>3. <<Reload>>_vars /\ Watched /\ Closed
        => /\ At("stat") => At("read")' \/ At("idle")'
           /\ At("read") => At("swap")' \/ At("idle")'
           /\ At("swap") => At("idle")'
  BY DEF Watched, Reload, ReloadStat, ReloadRead, ReloadSwap, Failed
<1>4. <<WatcherExit>>_vars => At("exited")'
  BY DEF WatcherExit
<1>5. <<StopReturns>>_vars => ~Closed'
  BY DEF StopReturns
<1>6. /\ At("stat") \/ At("read") \/ At("swap") => pc \in {"stat", "read", "swap"}
      /\ At("idle") /\ Closed => pc = "idle" /\ stop # "open"
      /\ At("exited") /\ Closed => pc = "exited" /\ stop = "closed"
  OBVIOUS
<1>8. stop # "closed" <=> ~Closed
  OBVIOUS
<1>7. /\ At("idle") => ~At("exited") /\ ~At("stat") /\ ~At("read") /\ ~At("swap")
      /\ At("exited") => ~At("stat") /\ ~At("read") /\ ~At("swap")
      /\ At("stat") => ~At("read") /\ ~At("swap")
      /\ At("read") => ~At("swap")
  OBVIOUS
<1> QED
  BY <1>1, <1>2, <1>3, <1>4, <1>5, <1>6, <1>7, <1>8, StopOfARunningStore, PTL
     DEF Spec, Scheduled, StopTerminates

\* What is served is what the content it was loaded from says.
TableOfContent == table = Load(IF at = 0 THEN <<>> ELSE log[at])

\* The table and the content it is counted as come from one swap.
LEMMA ServedContent == Spec => []TableOfContent
<1>1. Init => TableOfContent
  BY DEF Init, TableOfContent
<1>2. TypeOK /\ Progress /\ TableOfContent /\ [Next]_vars => TableOfContent'
  <2> SUFFICES ASSUME TypeOK, Progress, TableOfContent, [Next]_vars
               PROVE  TableOfContent'
    OBVIOUS
  <2>1. CASE EndWrite \/ RenameInto
    <3>1. PICK l \in Lists : log' = Append(log, l)
      BY <2>1 DEF EndWrite, RenameInto
    <3>2. UNCHANGED <<table, at>>
      BY <2>1 DEF EndWrite, RenameInto, storeVars
    <3>3. at # 0 => log'[at] = log[at]
      BY <3>1 DEF TypeOK
    <3> QED
      BY <3>2, <3>3 DEF TableOfContent
  <2>2. CASE ReloadSwap
    BY <2>2 DEF ReloadSwap, Progress, TableOfContent, fileVars
  <2>3. ASSUME UNCHANGED <<log, table, at>> PROVE TableOfContent'
    BY <2>3 DEF TableOfContent
  <2>4. CASE BeginWrite \/ WriterDies \/ Damage \/ Remove \/ ReloadStat \/ ReloadRead
    BY <2>3, <2>4 DEF BeginWrite, WriterDies, Damage, Remove, ReloadStat, ReloadRead,
                      storeVars, fileVars
  <2>5. CASE StartWatch \/ Watch \/ StopWatch \/ StopReturns \/ Life \/ UNCHANGED vars
    BY <2>3, <2>5 DEF StartWatch, Watch, Poll, WatcherExit, StopWatch, StopReturns,
                      Life, Crash, Restart, fileVars, storeVars, vars
  <2> QED
    BY <2>1, <2>2, <2>4, <2>5 DEF Next, Edit, Reload
<1> QED
  BY <1>1, <1>2, TypeCorrect, ReloadProgress, PTL DEF Spec

\* From some moment on nobody edits the file and the process does not crash.
\* Without the bounds of the runs edits can go on for ever, and the store can
\* lag behind by one for ever.
Calm == <>[][~Edit /\ ~Crash]_vars

\* After the last edit and the last crash, a complete file that says something
\* else than what is served is picked up: by the next poll, since no edit ever
\* hides behind the stamp of what was loaded, or by the restart.
THEOREM EditsAreServed ==
    ASSUME DistinctStamps
    PROVE  Spec /\ Scheduled /\ Calm => EditsTakeEffect
<1> DEFINE At(l) == pc = l
           Fresh == pc = "swap" /\ got = Newest
           Old   == pc = "swap" /\ got # Newest
           Inv   == TypeOK /\ Progress /\ TableOfContent /\ Watched /\ NoMissedChange
<1>1. Spec => []Inv
  BY TypeCorrect, ReloadProgress, ServedContent, StopOfARunningStore, NoChangeMissed, PTL
<1>2. Inv /\ Stale
        => \/ At("down") \/ At("stat") \/ At("read") \/ At("loaded") \/ At("idle")
           \/ Fresh \/ Old
  BY DEF TypeOK, PCs, Watched, Stale
<1>3. Inv /\ Stale => at # Newest
  BY DEF TypeOK, TableOfContent, Stale, Newest
<1>4. Inv /\ Stale /\ At("idle")
        => pc = "idle" /\ content # "absent" /\ Newer(mtime, lastMod)
  BY <1>3 DEF NoMissedChange, Stale
<1>5. ASSUME Inv, Stale, Stale', [Next]_vars, [~Edit /\ ~Crash]_vars
      PROVE  /\ At("down") => At("down")' \/ At("stat")'
             /\ At("stat") => At("stat")' \/ At("read")'
             /\ At("read") => At("read")' \/ Fresh'
             /\ Fresh => Fresh'
             /\ Old => Old' \/ At("loaded")' \/ At("idle")'
             /\ At("loaded") => At("loaded")' \/ At("idle")'
             /\ At("idle") => At("idle")' \/ At("stat")'
  <2>1. CASE ReloadStat
    BY <1>5, <2>1 DEF ReloadStat, Stale
  <2>2. CASE ReloadRead
    BY <1>5, <2>2 DEF ReloadRead, Stale, Newest, fileVars
  <2>3. CASE ReloadSwap
    BY <1>5, <2>3 DEF ReloadSwap, Stale, Newest, fileVars
  <2>4. CASE StartWatch \/ Watch \/ Restart
    BY <1>5, <2>4 DEF StartWatch, Watch, Poll, WatcherExit, Restart, Stale
  <2>5. CASE StopWatch \/ StopReturns
    BY <1>5, <2>5 DEF StopWatch, StopReturns, Stale
  <2>6. CASE UNCHANGED vars
    BY <2>6 DEF vars, fileVars, storeVars, Newest
  <2> QED
    BY <1>5, <2>1, <2>2, <2>3, <2>4, <2>5, <2>6 DEF Next, Reload, Life, vars
<1>6. ASSUME Inv, Stale, Stale', <<Reload>>_vars
      PROVE  /\ At("stat") => At("read")'
             /\ At("read") => Fresh'
             /\ ~Fresh
             /\ Old => At("loaded")' \/ At("idle")'
  BY <1>6 DEF Reload, ReloadStat, ReloadRead, ReloadSwap, Stale, Newest, fileVars
<1>7. /\ <<StartWatch>>_vars => At("idle")'
      /\ <<Restart>>_vars => At("stat")'
      /\ Inv /\ Stale /\ At("idle") /\ <<Poll>>_vars => At("stat")'
  BY <1>4 DEF StartWatch, Restart, Poll
<1>8. /\ At("stat") \/ At("read") \/ Fresh \/ Old <=> pc \in {"stat", "read", "swap"}
      /\ At("idle") => ~(At("stat") \/ At("read") \/ At("loaded") \/ At("down"))
      /\ At("loaded") => ~(At("stat") \/ At("read") \/ At("down"))
      /\ At("stat") => ~(At("read") \/ At("down"))
      /\ At("read") => ~At("down")
      /\ Fresh \/ Old => ~(At("stat") \/ At("read") \/ At("loaded") \/ At("idle") \/ At("down"))
      /\ ~(Fresh /\ Old)
  OBVIOUS
<1> HIDE DEF At, Fresh, Old, Inv
<1>9. Spec /\ Scheduled /\ Calm => (Stale ~> ~Stale)
  BY <1>1, <1>2, <1>4, <1>5, <1>6, <1>7, <1>8, PTL DEF Spec, Scheduled, Calm, At
<1> QED
  BY <1>9 DEF EditsTakeEffect
=============================================================================
