----------------------------- MODULE DeviceStore -----------------------------
(***************************************************************************)
(* internal/auth/store.go: the device whitelist.  main loads it once       *)
(* (NewDeviceStore) and a goroutine (StartWatch) polls the mtime of        *)
(* devices.json and reloads the table when it is newer.  The file is       *)
(* edited by other processes while the goroutine runs: in place, through   *)
(* os.WriteFile (truncate, then write), or by a rename.                    *)
(*                                                                         *)
(* A content is a sequence of rows; a row is a record with a field fp.     *)
(* A complete content is known by its position in log.  An unfinished      *)
(* write never parses: no proper prefix of a JSON array is a JSON value.   *)
(* ReadFile is one step: the file fits the single read(2) it issues.       *)
(***************************************************************************)
EXTENDS Integers, Sequences, FiniteSets, FiniteSetsExt

CONSTANTS
    Lists,       \* the contents an edit can leave in the file
    Canonical,   \* the fingerprints CanonicalFingerprint accepts
    Steps,       \* by how much a write event may move the file's mtime
    MaxEvents,   \* bound: write events on the file
    MaxCrashes   \* bound: crashes of the proxy process

ASSUME StepsAssumption == Steps \subseteq Int

\* Stamps of consecutive write events rise.  With a coarse clock (0 \in Steps)
\* or restored backups (negative steps) the store can miss an edit for good.
DistinctStamps == \A d \in Steps : d > 0

VARIABLES
    content,     \* "list": complete, log's last; "torn": does not parse; "absent"
    mtime,       \* the file's modification time
    log,         \* every complete content so far
    writing,     \* an os.WriteFile has truncated the file and not yet written it
    events,      \* write events so far

    pc,          \* where the goroutine that runs reload is
    seen,        \* fi.ModTime() of reload's Stat
    got,         \* the content reload's ReadFile returned (its position in log)
    table,       \* s.byHash
    at,          \* the content table was loaded from
    lastMod,     \* s.lastMod
    booted,      \* NewDeviceStore has returned
    stop,        \* "open" | "closed" (s.stop) | "returned" (from wg.Wait)
    crashes

fileVars  == <<content, mtime, log, writing, events>>
storeVars == <<pc, seen, got, table, at, lastMod, booted, stop, crashes>>
vars      == <<fileVars, storeVars>>

-----------------------------------------------------------------------------
(* reload: rows without a canonical fingerprint are dropped, and of the    *)
(* rows with one fingerprint the last wins (map assignment in list order). *)

RowsOf(list, fp) == {i \in DOMAIN list : list[i].fp = fp}

LoadAllRows(list) ==                     \* keyed by whatever the row says
    [fp \in {list[i].fp : i \in DOMAIN list} |->
        list[Max(RowsOf(list, fp))]]

Load(list) ==
    [fp \in {list[i].fp : i \in DOMAIN list} \cap Canonical |->
        list[Max(RowsOf(list, fp))]]

Newest == Len(log)

Newer(m, last) == m > last               \* time.Time.After

Init ==
    /\ content = "list"
    /\ mtime = 0
    /\ log \in {<<l>> : l \in Lists}
    /\ writing = FALSE
    /\ events = 0
    /\ pc = "stat"                       \* main is in NewDeviceStore
    /\ seen = 0 /\ got = 0
    /\ table = Load(<<>>) /\ at = 0 /\ lastMod = 0
    /\ booted = FALSE
    /\ stop = "open"
    /\ crashes = 0

-----------------------------------------------------------------------------
(* The file and those who edit it *)

Stamp == /\ events < MaxEvents
         /\ events' = events + 1
         /\ \E d \in Steps : mtime' = mtime + d

\* os.WriteFile opens with O_TRUNC ...
BeginWrite ==
    /\ ~writing
    /\ Stamp
    /\ writing' = TRUE
    /\ content' = "torn"
    /\ UNCHANGED <<log, storeVars>>

\* ... and then writes the bytes ...
EndWrite ==
    /\ writing
    /\ Stamp
    /\ writing' = FALSE
    /\ content' = "list"
    /\ \E l \in Lists : log' = Append(log, l)
    /\ UNCHANGED storeVars

\* ... unless the writer dies in between, and the file stays empty.
WriterDies ==
    /\ writing
    /\ writing' = FALSE
    /\ UNCHANGED <<content, mtime, log, events, storeVars>>

\* An editor that renames a finished file into place.
RenameInto ==
    /\ ~writing
    /\ Stamp
    /\ content' = "list"
    /\ \E l \in Lists : log' = Append(log, l)
    /\ UNCHANGED <<writing, storeVars>>

\* The file is edited by hand into something that does not parse.
Damage ==
    /\ ~writing
    /\ Stamp
    /\ content' = "torn"
    /\ UNCHANGED <<log, writing, storeVars>>

Remove ==
    /\ ~writing /\ content # "absent"
    /\ content' = "absent"
    /\ UNCHANGED <<mtime, log, writing, events, storeVars>>

Edit == BeginWrite \/ EndWrite \/ WriterDies \/ RenameInto \/ Damage \/ Remove

-----------------------------------------------------------------------------
(* reload, at start-up and in the watch loop *)

\* An error of reload: NewDeviceStore fails and with it main; the watch loop
\* logs it and keeps the table.
Failed == pc' = IF booted THEN "idle" ELSE "down"

ReloadStat ==
    /\ pc = "stat"
    /\ \/ /\ content # "absent"
          /\ seen' = mtime
          /\ pc' = "read"
       \/ /\ content = "absent"
          /\ Failed
          /\ UNCHANGED seen
    /\ UNCHANGED <<fileVars, got, table, at, lastMod, booted, stop, crashes>>

ReloadReadDropsTable ==                  \* the error of Unmarshal is not returned
    /\ pc = "read"
    /\ \/ /\ content = "list"
          /\ got' = Newest
          /\ pc' = "swap"
          /\ UNCHANGED <<table, at>>
       \/ /\ content # "list"
          /\ Failed
          /\ table' = Load(<<>>) /\ at' = 0
          /\ UNCHANGED got
    /\ UNCHANGED <<fileVars, seen, lastMod, booted, stop, crashes>>

ReloadRead ==
    /\ pc = "read"
    /\ \/ /\ content = "list"
          /\ got' = Newest
          /\ pc' = "swap"
       \/ /\ content # "list"
          /\ Failed
          /\ UNCHANGED got
    /\ UNCHANGED <<fileVars, seen, table, at, lastMod, booted, stop, crashes>>

ReloadSwapStampsLate ==                  \* the stamp is taken after the read
    /\ pc = "swap"
    /\ table' = Load(log[got])
    /\ at' = got
    /\ lastMod' = mtime
    /\ booted' = TRUE
    /\ pc' = IF booted THEN "idle" ELSE "loaded"
    /\ UNCHANGED <<fileVars, seen, got, stop, crashes>>

ReloadSwap ==
    /\ pc = "swap"
    /\ table' = Load(log[got])
    /\ at' = got
    /\ lastMod' = seen
    /\ booted' = TRUE
    /\ pc' = IF booted THEN "idle" ELSE "loaded"
    /\ UNCHANGED <<fileVars, seen, got, stop, crashes>>

StartWatch ==
    /\ pc = "loaded"
    /\ pc' = "idle"
    /\ UNCHANGED <<fileVars, seen, got, table, at, lastMod, booted, stop, crashes>>

-----------------------------------------------------------------------------
(* The watch loop's select.  Both branches may be ready: Go picks either. *)

PollOnce ==                              \* the goroutine ends on a failed Stat
    /\ pc = "idle"
    /\ pc' = IF content = "absent" THEN "exited"
             ELSE IF Newer(mtime, lastMod) THEN "stat" ELSE "idle"
    /\ UNCHANGED <<fileVars, seen, got, table, at, lastMod, booted, stop, crashes>>

Poll ==
    /\ pc = "idle"
    /\ pc' = IF content # "absent" /\ Newer(mtime, lastMod) THEN "stat" ELSE "idle"
    /\ UNCHANGED <<fileVars, seen, got, table, at, lastMod, booted, stop, crashes>>

WatcherExitOnChange ==                   \* stop is looked at after a change only
    /\ pc = "idle" /\ content # "absent" /\ Newer(mtime, lastMod)
    /\ stop # "open"
    /\ pc' = "exited"
    /\ UNCHANGED <<fileVars, seen, got, table, at, lastMod, booted, stop, crashes>>

WatcherExit ==
    /\ pc = "idle"
    /\ stop # "open"
    /\ pc' = "exited"
    /\ UNCHANGED <<fileVars, seen, got, table, at, lastMod, booted, stop, crashes>>

\* StopWatch: close(stop) once, then wait for the goroutine.
StopWatch ==
    /\ pc \in {"idle", "stat", "read", "swap"} /\ booted
    /\ stop = "open"
    /\ stop' = "closed"
    /\ UNCHANGED <<fileVars, pc, seen, got, table, at, lastMod, booted, crashes>>

StopReturnsEarly ==                      \* StopWatch does not wait
    /\ stop = "closed"
    /\ stop' = "returned"
    /\ UNCHANGED <<fileVars, pc, seen, got, table, at, lastMod, booted, crashes>>

StopReturns ==
    /\ stop = "closed" /\ pc = "exited"
    /\ stop' = "returned"
    /\ UNCHANGED <<fileVars, pc, seen, got, table, at, lastMod, booted, crashes>>

-----------------------------------------------------------------------------
(* The process: it may die at any point, and launchd starts it again *)

Crash ==
    /\ pc # "down" /\ crashes < MaxCrashes
    /\ crashes' = crashes + 1
    /\ pc' = "down"
    /\ booted' = FALSE
    /\ stop' = "open"
    /\ UNCHANGED <<fileVars, seen, got, table, at, lastMod>>

Restart ==
    /\ pc = "down"
    /\ pc' = "stat"
    /\ seen' = 0 /\ got' = 0 /\ lastMod' = 0
    /\ UNCHANGED <<fileVars, table, at, booted, stop, crashes>>

Reload == ReloadStat \/ ReloadRead \/ ReloadSwap
Watch  == Poll \/ WatcherExit
Life   == Crash \/ Restart

Next == Edit \/ Reload \/ StartWatch \/ Watch \/ StopWatch \/ StopReturns \/ Life

Spec == Init /\ [][Next]_vars

\* The goroutine is scheduled and its ticker ticks; launchd restarts the
\* process (KeepAlive).  Nobody has to edit the file or stop the watch.  The
\* select chooses at random among ready branches, so the exit branch cannot
\* be passed over for ever.
Fairness ==
    /\ WF_vars(Reload)
    /\ WF_vars(StartWatch)
    /\ WF_vars(Poll)
    /\ SF_vars(WatcherExit)
    /\ WF_vars(StopReturns)
    /\ WF_vars(Restart)

FairSpec == Spec /\ Fairness

-----------------------------------------------------------------------------
(* Properties *)

PCs == {"stat", "read", "swap", "loaded", "idle", "exited", "down"}

\* The states have the shapes the code gives them; a fingerprint that is not
\* canonical is never a key of the table (reload drops such rows).
TypeOK ==
    /\ content \in {"list", "torn", "absent"}
    /\ mtime \in Int
    /\ log \in Seq(Lists) /\ log # <<>>
    /\ writing \in BOOLEAN
    /\ events \in Nat
    /\ pc \in PCs
    /\ seen \in Int
    /\ got \in 0 .. Len(log)
    /\ DOMAIN table \subseteq Canonical
    /\ at \in 0 .. Len(log)
    /\ lastMod \in Int
    /\ booted \in BOOLEAN
    /\ stop \in {"open", "closed", "returned"}
    /\ crashes \in Nat

\* A complete edit that is not being served is always visible to the next
\* poll: reload takes its stamp before it reads, so whatever is written
\* between its Stat, its ReadFile and its swap still looks new (store.go's
\* Stat-then-ReadFile order and the After test of the watch loop).
NoMissedChange ==
    pc \in {"loaded", "idle"} /\ content = "list" /\ at # Newest
        => Newer(mtime, lastMod)

\* Once StopWatch has returned, the table is frozen: no goroutine is left
\* between a read and its swap (close(stop), then wg.Wait).
StopIsFinal ==
    [][stop = "returned" /\ stop' = "returned" => UNCHANGED <<table, lastMod>>]_vars

\* A complete file that says something else than what is served does not
\* stay so: the watch loop (or a restart) picks it up, whatever crashes,
\* failed reloads and absences came before, unless the watch was stopped.
Stale == content = "list" /\ table # Load(log[Newest]) /\ stop = "open"
EditsTakeEffect == Stale ~> ~Stale

\* StopWatch does not block for ever: the goroutine leaves its loop.
StopTerminates == (stop = "closed") ~> (stop # "closed")

W == INSTANCE Whitelist

\* The store keeps the promise of Whitelist: every table it serves is one
\* complete content of the file, and reloads, failures and restarts never
\* take it back to an earlier one.
ImplementsWhitelist == W!Spec
=============================================================================
