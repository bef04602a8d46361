# cc-mysub in TLA+

cc-mysub is a forward proxy that lets several devices run Claude Code on the
subscription credential of one machine.  A device's traffic reaches it through
an outer TLS connection authenticated by the device's own certificate; inside
that, the device asks for a host with CONNECT, gets an inner TLS session with a
leaf certificate minted on the spot, and its requests are sent on to the real
host with the device's credential swapped for the real one.

This directory holds a model of that program, TLC configurations that check it
on small instances, and proofs, checked by TLAPS, of what matters most about it
for instances of any size.  Paths below are relative to the repository.

## 1. The system

| component | state | operations | talks to |
|---|---|---|---|
| Device store, `internal/auth/store.go` | table by fingerprint, stamp of the file, stop channel | `NewDeviceStore`, `reload`, `StartWatch`, `StopWatch`, `Lookup` | `devices.json`, written by `add-device` and by hand; asked by the handshakes |
| Rate limiter, `internal/ratelimit/bucket.go` | one token bucket per label | `Allow` | the request chain |
| Accept loop and tunnels, `internal/proxy/forward.go` | slots (`sema`), `wg`, one goroutine and one http server per connection | `Serve`, `handle`, `notifyConn`, `oneConnListener` | store, minter, chain |
| Request chain, `internal/proxy/{forward,middleware,transport}.go` | context of each request, access record | `conditionalAuth`, `RateLimitByDevice`, `AccessLog`, `forwardSwap`, `retryTransport` | limiter, token pool, upstream |
| Token pool, `internal/config/config.go` | read once | `PickToken`, `parseUpstream` | chain |
| Leaf minter, `internal/mitm/mint.go` | cache of leaves with expiry | `CertFor` | tunnels, CA |
| Outer certificate, `internal/proxy/outercert.go` | cached pair and the stamp it was read at | `get` | two files replaced by a renewal; handshakes, and `main` once at its start |
| Registration, `internal/enroll` | `devices.json`, `ca.crt`, `ca.key` | `AppendDevice`, `ReplaceDevice`, `EnsureCA` | store (through the file) |
| Splitter and helper, `internal/splitter`, `cmd/cc-mysub/helper.go` | one goroutine per connection, two per relay | `Serve`, `handle`, `relay` | the proxy, other hosts |
| Onboarding, `install.sh`, `cmd/cc-mysub/deviceinit.go` | device key and certificate, wrapper | `device-init`, poll for approval | the proxy, the operator |
| CA, `internal/mitm/ca.go`, `internal/enroll/ca.go` | `ca.crt`, `ca.key` | `LoadCA`, `EnsureCA` | minter, process, registration |
| Process, `cmd/cc-mysub/main.go`, launchd | how far `main` has come | reads, `os.Exit(1)` at what cannot be used, restart (KeepAlive) | all |

How they meet: operators and editors change `devices.json` while the store
polls its mtime; every outer handshake asks the certificate loader for the pair
to show and the store once for the device, which it fixes for the connection; every request of every tunnel goes through the chain, and
the tunnels of one device share one bucket.

What is hard here: reads of files that others are rewriting; a stamp compared
with an order (`After`); slots and wait groups released on eight return paths;
two goroutines that end a connection in either order; deadlines; a table that is
reloaded under established tunnels; retries of requests with bodies; aborted
responses, which unwind the handlers by a panic; a bucket shared by tunnels
whose rates differ; a certificate and a key in two files that a renewal or a
first `add-device` is replacing; two clocks, of which one sleeps; bytes read
ahead by a reader that is then thrown away or kept.  `PROJECT.json` lists these as hazards, each at its line.

What makes each component right:

* *store*: it serves whole contents only, never goes back, misses no edit, and
  is silent once stopped;
* *limiter*: it admits at most a burst and a refill a minute, and never refuses
  a device that keeps to its rate;
* *tunnels*: no slot is lost or given back twice, the phase before the 200 ends,
  a peer that leaves frees its slot once its request ends, leaves are minted for the allowlist only,
  a connection's device never changes;
* *chain*: whatever path a request takes, what goes upstream carries the right
  credential and no other; a body is sent once; the quota holds over all
  tunnels; a client that leaves frees its goroutine, once its request's body was
  read;
* *outer certificate*: a handshake is shown the newest pair that was whole when
  it began, or a newer one, and fails only while a renewal is under way;
* *minter*: a leaf from the cache is valid, as long as the wall clock strays from
  the monotonic one by less than the margin;
* *process*: the CA that signs is one pair and the one on disk; whatever made a
  start fail, it comes up once the files are in order;
* *registration*: an enrolment is one atomic change, a label is listed once, the
  CA that devices were given is the one in use and is never replaced;
* *splitter*: the bytes after the CONNECT exchange arrive unchanged, whatever was
  read ahead, and complete on a stream that ends in order;
  both goroutines of a relay end;
* *onboarding*: an identity that was shown to the operator stays, with its key;
  the wrapper is written for an approved one; the poll ends, if its probes do,
  and fairly.

## 2. Modules

| module | models | written as |
|---|---|---|
| `Whitelist` | what the store promises | abstract specification: commits of contents, refreshes forward |
| `DeviceStore` | `store.go`, the writers of `devices.json`, crash and restart | one action per step of `reload` and of the watch loop |
| `Bucket` | the arithmetic of `Allow` | operators, shared by the next two |
| `Limiter` | `Allow` as its callers see it, with an observer's window | one action per outcome of `Allow` |
| `Tunnel` | `Serve`, `handle`, the inner http server's life | one action per step between two blocking points |
| `Chain` | a request from the inner server to the upstream and back | one action per handler outcome |
| `Registry` | what add-device promises an operator | abstract specification: append, replace, revoke, and what is lost with a killed write |
| `Enroll` | `enroll.go`, `ca.go`, as far as the files go; `gen-config`'s copy of `ca.crt` | one action per file operation of a run of add-device |
| `Splitter` | `splitter.go` (`Serve`, `handle`, `relay`), start and end of `helper.go` | one action per blocking point, peers send, receive and leave |
| `Onboarding` | `install.sh`, `deviceinit.go` | one action per step of the script |
| `OuterCert` | `outercert.go`; renewals of the two files | one action per step of `get` and per file operation of a renewal |
| `Minter` | `mint.go`; the two clocks | `CertFor` is one action, as it runs under `mu` |
| `Process` | `main.go`, launchd's restarts, `LoadCA`; composes the two above with the CA's files | one action per read of `main` |
| `MC_*` | constants for TLC | |
| `*_proofs` | theorems | |

**DeviceStore.**  `reload` is three steps: `ReloadStat`, `ReloadRead` (which
also parses), `ReloadSwap` (under the lock).  The file has a content
(complete, unparsable or absent), an mtime, and a ghost `log` of every complete
content it ever had; a write by `os.WriteFile` is `BeginWrite` (truncation) and
`EndWrite`, which a crash of the writer can prevent (`WriterDies`).  `Load`
drops rows whose fingerprint is not canonical and lets the last of several rows
win.  `pc` is the goroutine that runs `reload`: `main` at start-up, the watch
goroutine afterwards.  `Poll` and `WatcherExit` are the two branches of its
`select`.  A failed `reload` ends `main` before the first load and is logged
afterwards.  After a crash `table` and `at` stand for the last table served;
nothing is asked of it until the restarted process has loaded its own.

**Bucket, Limiter.**  A token is `Minute` units, so that a tick of the clock
refills `perMinute` units and no fraction is lost.  `Allow` runs under one lock
with the clock read inside, so it is one action.  The rate comes with the call.

**Tunnel.**  For each connection `stage` is where its connection stands and
`routine` where its handle goroutine stands; they are separate because
`notifyConn.Close` announces the close before it closes, so the goroutine may
return and release its slot while the http goroutine still closes.  The lines
of a CONNECT have lengths out of `Lengths`, the blank line one byte or two; each
is read whole and then counted, so that the count may pass `Cap` by any amount,
and the connection then ends.  Every deadline is an event that may
come at any moment of the phase it guards.  How long a request stays in the
handler is `Chain`'s: the liveness properties suppose `RequestEnds`.  `Reload` replaces the table by any
other at any moment, which is all a tunnel can tell of the store.

**Chain.**  A connection has one request at a time; `device` is fixed, as
`Tunnel!DeviceFixed` shows.  A credential header is `none`, `bearer` (the
client's), `other` (an Authorization that is no bearer token) or, on the way
out, a token of the pool.  The body of an inbound server request has no
`GetBody`, so of `retryTransport`'s replay test only the body's presence is
left.  `unread` says that a request's body was not yet read to its end: until then
net/http does not look whether the client is still there, so nothing cancels the
context of a request whose client left.  `CopyAborts` is `ErrAbortHandler`: the connection closes and what
`AccessLog` does after the call is skipped.  An attempt made after the client
left is counted although a cancelled context may keep it from going out; that
only makes the bounds stricter.

**Enroll.**  `run[p]` is operator p's run of add-device: its step, arguments,
the list it read, the pair it generated.  `os.WriteFile` is two steps, the
truncation and one write of the whole content (the files are far smaller than
what one write takes).  `devices.json` is absent, empty (truncated), garbled or a
list; a list is a set of rows, since nothing looks at their order.  `Put` over a
file that another run has filled since the truncation may leave a tail of the
longer content: garbled.  A torn `ca.crt` counts as existing, as in `EnsureCA`.
`turns`, chosen once, says whether operators take turns: there is no lock, and
the promises of `Registry` are those of a single run at a time; `LabelsUnique`
does not need it.  In `Registry`, "lost" is the state after a kill between the
truncation and the write.  Limits and pool ids of rows are data and left out.

**Splitter.**  One connection: connections share a configuration only.  What the
sides send are units, the lines of the CONNECT exchange and numbered payload.
`in` is what the socket holds, `buf` what the `bufio.Reader` took beyond what
was used, `out` what is written and not received (up to `Cap` in the relay).  A
peer leaves in order or by a reset.  A close by `relay` or `handle` of a
connection that has unread input, or gets input after it, may reset it (`Cut`):
what was written to that side and not received is then lost.  After a failed `Accept` the helper is
"deaf": `Serve` has returned, claude still runs and nobody answers.  The proxy's
side of the exchange is `Tunnel`'s, here a script it may or may not follow.

**Onboarding.**  A key and certificate pair is a number, which also is its
fingerprint.  `writeFileAtomic` renames, so each file is put in one step, and a
run may be killed between the two.  A probe of the proxy may fail at any time; it
succeeds only with the key of the certificate presented, and is then answered by
what is registered at that moment.  Runs on one device follow one another.

**OuterCert.**  A pair is a number, and each file holds a number, nothing
(`None`) or part of one (`Torn`).  `get` is `Stat`, `Look` (cache and stamp
under the lock), `ReadCrt`, `ReadKey` with the comparison of
`tls.LoadX509KeyPair`, and `Store` (under the lock again): five steps between
which other handshakes and a renewal may move.  A renewal replaces the two files
in either order, in place (a truncation first) or by a rename, and may be killed
after any step.  Stamps count half renewals, so that the truncation and the end
of a write may or may not share a stamp; stamps of different renewals differ.
Per call two ghosts are kept: the newest whole pair at its beginning (`floor`)
and whether the files were ever not one whole pair during it (`disturbed`).

**Minter.**  `mono` is the clock `now.Before` uses, `Wall = mono + drift` the one
a peer checks a leaf by; `Jump` is a sleep or a correction.  Leaves differ in
their times only.

**Process.**  `main` reads the three configuration files (one step: they do not
depend on one another), `ca.crt`, `ca.key`, parses both (`LoadCA`, which does not
compare them), calls `get` once, listens and serves.  Each failure is
`os.Exit(1)`, which empties both caches; launchd starts the program again.  A
missing `public_host` is found after `LoadCA` only; here it makes `config.json`
unusable, which changes no outcome, since either way the process exits before
the loader is made.  `EnsureCA` writes the key and then the certificate, each in
two steps, and may be killed.  An error of `Accept` leaves the process
"draining": `Serve` waits for the tunnels there are, so the process is neither
serving nor restarted while one stays.

The store and the tunnels are not composed in one module.  `Tunnel` lets
`Reload` put any table in place at any moment, and `DeviceStore` is shown to
implement `Whitelist`, which puts only whole contents in place and only forward:
what holds of the tunnels under every table at every moment holds under those.

## 3. Runs

| run | question | bounds |
|---|---|---|
| `DeviceStore_distinct` | does the store keep all its promises when every write has a stamp of its own? | four write events, one crash, two contents (one with a duplicated and with a non-canonical row) |
| `Limiter` | quota and fairness of one bucket under any timing | two devices, rates 0 (unlimited), 2 and 3, a minute of four ticks, eight ticks |
| `Tunnel` | slots, devices, leaves, deadlines, shutdown | two connections, one slot, two hosts, a table with the device and one without, cap of two bytes, lines of one byte and of three |
| `Tunnel_revoked` | is a device cut off once its removal is loaded? (not its tunnels: finding) | same, two certificates |
| `Chain_swap` | credentials, bodies, hang-ups on every path of a request | one tunnel, four kinds of device, three requests of four kinds, three attempts |
| `Chain_shared` | the quota over all tunnels of a device | two tunnels, four requests each, rates 1 and 2 (either bound is below the eight requests), a minute of two ticks, three ticks |
| `Enroll` | labels, the CA, and `Registry` with operators who take turns; labels also without | two operators, three runs, one kill, two labels, two fingerprints and one that is refused |
| `Splitter` | are the streams intact, complete when they end in order, does `handle` end? | two payload units a side, two in flight, listed and other hosts |
| `Onboarding` | identity, approval, fairness and end of the poll | four runs, three of them killed, the script's three failures |
| `Onboarding_rotate` | does a rerun yield a new fingerprint? (no: finding) | same |
| `Process` | the outer certificate under renewals, the CA, the leaves; does the process come up? | two callers of `get` at once (one of them `main` at the start), two pairs, two CA pairs, one host, ttl and margin of one tick, two ticks, drift of one, one failure: 1.2 million states |
| `Minter_sleep` | does a leaf outlive its place in the cache? (no: finding) | one host, four ticks, drift up to three |

Why the bounds are enough.  *Store*: a missed edit takes a write between two
steps of one reload and nothing after it, so two edits in place (four events)
cover a reload torn by one and repaired by the next; one crash reaches every
step.  *Limiter*: a window of one minute needs the burst before it, the refill
in it and the tick after it; eight ticks hold two minutes of four.  *Tunnel*: connections interact only through the slots,
`wg` and the listener; two over one slot reach both sides of every comparison,
and the proofs cover any number.  *Chain*: connections share only the limiter,
so credentials are checked on one tunnel with several requests (a request must
not inherit from the one before) and the quota on two.  *Enroll*: a label is
duplicated, or a row lost, by two runs that overlap or by one that is killed and
one after it; three runs hold both, and the proofs cover any number.  *Splitter*:
read-ahead matters at the one boundary between the exchange and the payload, and
back pressure when more is sent than fits; two units reach both.  *Onboarding*:
a run killed after the key, one killed after the certificate, one that shows and
polls, and one more.  *Process*: a cache goes back when a load that began before
a renewal ends after one that began later, which takes two calls and two pairs;
a CA pair is mixed by two generations; a handshake and `main` share the loader,
so both are in the run.

An invariant has no bound where it is also proved (section 5): all of them but
the temporal ones are.

`CHECK_DEADLOCK FALSE`: these systems stop where the bounds end (no more edits,
connections or requests), where the watch has been stopped and where `Serve`
has returned.  `Limiter` never stops and is checked for deadlock.

## 4. Fairness

* *Store*: the goroutine is scheduled and its ticker ticks (weak fairness of the
  reload steps and of `Poll`); `launchd` restarts the process (KeepAlive in
  `deploy/com.user.cc-mysub.plist`).  `WatcherExit` has strong fairness: between
  two visits of the `select` it is disabled, and Go chooses at random among
  ready branches, so it cannot be passed over for ever.  Editors and `StopWatch`
  have none.
* *Tunnel*: deadlines expire, goroutines that can go on do, the accept loop runs.
  Peers and upstreams have none: a kept-alive tunnel may idle for ever.  Nor has a
  request in the handler: `SlotComesBack` and `ServeEnds` suppose that it ends.
* *Splitter*: steps of `handle` and `relay` that wait for nobody are taken, and
  each copying goroutine runs.  Peers have none; of a relay, `HandleEnds` asks in
  addition that a peer that stays goes on reading, since a copier blocked in a write to
  one that does not is waited for by nobody else.
* *Onboarding*: the script's own steps are taken and its 600 s pass.  Downloads
  and probes have none: `openssl s_client` is run without a time limit
  (`install.sh:74`), so `PollEnds` supposes polls whose probes end.  The operator
  has no fairness.
* *Process*: `main`'s steps to the listener, and launchd's restart (KeepAlive).
  Operators, renewals and handshakes have none; `ComesUp` supposes files that
  are in order from some moment on, and counts as up a process that waits for
  its tunnels after an error of `Accept` ("draining"): a tunnel may stay for ever.
* *Chain*: the handlers' own steps, the end of a sleep, and the failure of an
  attempt whose context is cancelled: the client is gone and the body was read to
  its end.  The upstream need never answer, nor read a body; `HangupEnds` supposes
  that none is left unread for ever.

## 5. What is proved

From the named assumptions on the constants only (`StepsAssumption`,
`MinuteAssumption`, `RatesAssumption`, `ConnsFinite`, `MaxInFlightPositive`,
`CapNat`, `LengthsAssumption`, `NoneAssumption`, `LabelAssumption`, `FpAssumption`, `UpstreamAssumption`, `RateAssumption`, `RequestsAssumption`,
`BoundsAssumption`, `MaxMissAssumption`, `PairsAssumption`, `MinterAssumption`,
`MainAssumption`, `FailuresAssumption`, `SizesAssumption`), for every value of
them.  Three theorems suppose more of the constants: `NoChangeMissed` and
`EditsAreServed` that write events have distinct stamps, `HangupsEnd` the code's
number of attempts.

* `DeviceStore_proofs`.  `TypeCorrect`.  `NoChangeMissed` needs `DistinctStamps`
  and an invariant about each step of a reload: the stamp in hand is never
  newer than the content in hand, so an edit after the read has a later stamp.
  `StoreImplementsWhitelist` maps `ReloadSwap` to `Refresh` and every completed
  edit to `Commit`; it needs that the position read is not behind the one
  served (`Progress`).  `StoppedIsFinal` needs that `StopWatch` returns only
  with the goroutine gone.
* `Limiter_proofs`.  `QuotaHolds` and `NoRefusalWithinRate` both follow from one
  ledger (`Ledger`), which bounds what was admitted since the window opened plus
  what is left in the bucket, from above by a burst and the refill of the time
  passed and from below by the refill alone.  The lemmas before it are the
  arithmetic of the refill.
* `Tunnel_proofs`.  `SlotsAccountedFor` counts goroutines by set cardinality,
  action by action.  Its strengthening (`Coherent`) ties `routine` to `stage`.
  That `Serve` leaves no goroutine behind (lemma `NoOrphans`) needs in addition
  that none is spawned once the loop has been left; `MintsAllowed` that a tunnel past the 200 has a host of the
  allowlist.
* `Chain_proofs`.  `SwapIsSound` follows from what the context of a request holds
  at each step (`RealRight`): the token of the connection's device where the
  request has a credential, and none where it has not.  `BodyGoesOnce` from
  where an attempt may still be due (`SendsRight`).  `ChainUsesLimiter` maps the
  limiter's two outcomes to `Limiter`'s and everything else to stutters.
  `QuotaReachesUpstream` has two parts: a ledger as in `Limiter_proofs`, but
  against any rate that none of the device's own tunnels exceeds, and an account
  (`Account`): what was sent since the window opened and what is admitted and not
  yet sent are together at most what was admitted since and one for each of the
  device's tunnels.
* `Enroll_proofs`.  A first invariant needs no discipline: a run writes a list
  without duplicates to which it adds a label it has checked for (`RunOK`), from
  which `LabelsStayUnique`.  The second is about operators who take turns: one
  run at a time (`OneRun`), its list the one in the file (`ListOK`), its
  certificate written only where there is none and after its key (`CAOK`).
  `EnrollImplementsRegistry` maps `Put` to the enrolment, a kill between
  truncation and write to `Lose`, and a truncated empty list in hand to `Repair`.
* `Onboarding_proofs`.  `ShownStaysUsable` and `IdentityIsKept` need that a
  certificate is put only where there is none and never before its key
  (`FilesAgree`); `GiveUpIsFair` that the failures counted are the newest of the
  results kept (`MissesSeen`, lemma `RecentResults`).
* `Process_proofs`.  The invariant has a part for the loader (`LoaderInv`), the
  minter, the CA's files, what `main` has read of them, and the rest.  The
  loader's part says of the cache that its stamp is not above its content's
  (`CacheInv`), and the same of every call in progress (`CallOK`), from which
  `ServesNewest`: a slow load that puts an old pair back puts its old stamp back
  too.  A call that was not disturbed has read the one pair that is there, from
  which `FailsInRenewalOnly`.  `CAIsOnePair` rests on the order of the writes
  (the key first) and of the reads (the certificate first): a whole certificate
  on disk has its own key beside it, and keeps it.
* `Splitter_proofs`.  A connection is looked at through two sequences a side:
  what was written to it (`R`) and what it sent that is unused (`Q`), the second
  one over buffer and socket, so that filling a reader changes nothing.  `Flow`
  says that while a side is open `Q` of the other is exactly the rest of its
  script after what `R` holds; `Exchange` says the same of the lines read before
  the relay.  `StreamsStayIntact` follows with `CopyWrite` handing on the next
  unit.  `RelayIsComplete` needs `Emptied` in addition: a copy has ended only
  because its source left and nothing of it is unused, or because its reader
  reset.  It speaks of sides whose stream ends in order: one that was cut off by
  a reset has lost what was under way to it, and the code does nothing about it.

### Liveness

The prover cannot expand `ENABLED`, so what `WF` says of an action is of no use to
it.  The liveness theorems take the fairness of section 4 written out instead: a
hypothesis `Scheduled`, in each proof module, says of each fair action that if its
guard holds from some moment on, the action is taken again and again (for the one
strongly fair action, `WatcherExit`: if its guard holds again and again).  The
guards are read off the actions; some conjuncts of the fairness are not needed and
left out, `Loop(c)` for example.  From there each proof is a table: the places a
request, a connection or a start can be in, the moves every step can make between
them (`Moves`, `Goes`, `Waning`: one case per action, by SMT), which fair step leaves
which place, and a few lines of temporal logic that chain them.

* `DeviceStore_proofs`.  `StopEnds` needs that the loop ends for `StopWatch` only
  (`Watched`).  `EditsAreServed` needs `DistinctStamps`, by way of `NoMissedChange`:
  with the loop at its `select` a table that is out of date is visible to the poll.
  It supposes in addition that edits and crashes end (`Calm`).  The run bounds both,
  so it needs no such thing; without bounds an edit can always overtake the
  reload of the one before.
* `Tunnel_proofs`.  `PreTunnelIsBounded` is one step, the deadline's.  `SlotsComeBack`
  follows a goroutine through `Establish`, the inner server, the return of
  `oneConnListener.Accept` and the release (lemma `GoroutineEnds`), with the rest of
  the system, any number of other connections, leaving it alone (lemma
  `OthersLeaveItAlone`); a request in the handler is supposed to end.  Of `ServeEnds` the two halves are proved: each connection is
  at last one that `Serve` does not wait for (`NobodyHoldsServe`), and when there is
  none it waits for, it returns (`ServeFollows`).
* `Chain_proofs`.  `HangupsEnd` unrolls the attempts and so supposes
  `MaxSends = 3`, the first send and the two delays of `forward.go:63`.  With any
  number of them it would need induction over that number.  A body once read
  stays so while the client is gone, which is why supposing that none is left
  unread for ever is enough.
* `Onboarding_proofs`.  `PollIsBounded`: before the deadline the poll may go round
  for ever, after it (`late`) it cannot pass from the wait to the probe.  That
  each probe ends is a hypothesis of the property, not of the program.
* `Process_proofs`.  `ProcessComesUp` supposes that from some moment on the program
  is not killed and its port not taken (`Quiet`); the run bounds these failures
  instead.  An attempt under way when the files come to order may have read half a
  file or an old certificate (`Torns`, `Misfits`): it ends in an exit, and the
  restart reads all of them anew.
* `Splitter_proofs`.  `RelayReturns`: each copier ends once the connections are
  closed, then handle does.  `HandleEndsForBoth`: what is in the reader, on its way to
  it or neither, for each line of claude's question and of the proxy's answer and
  then for what is being copied (`Waning`).  In the first stages there is no far
  side yet: the end of claude's connection is enough, or handle dials and a far
  side is there (`EndsByStage`).  It is enough to follow the copier of what claude sent: when either
  has ended, relay's first receive from `done` closes both.

Only model-checked remain:

* the end of the argument for `ServeEnds`, from "each of them in the end" to "in the
  end all of them", an induction over a finite set inside a temporal formula;
* the second conjunct of `HandleEnds`, one side ended and the other still reading:
  the copier hands on a payload of any length, an induction over that length.

Neither proved nor checked by a run is that each guard in a `Scheduled` is the
`ENABLED` of its action: a reader compares `Fairness` (or `Spec`) of the module and
`Scheduled` of its proofs, which name the same actions in the same order.

## 6. Findings

Three runs show, by a counterexample, that the program does something else than
its documents or comments say; `PROJECT.json` quotes them.

* `Tunnel_revoked`: a tunnel made before a device's row is deleted goes on
  serving its requests (`docs/OPERATING.md:119` says it stops at the reload).
* `Onboarding_rotate`: a rerun shows the old fingerprint again
  (`docs/OPERATING.md:115` says it yields a new one).
* `Minter_sleep`: after a sleep longer than the margin the cache hands out a leaf
  that has expired (the comment at `mint.go:90` says it cannot).

Met on the way, without a run of their own:

* `SECURITY.md:84` says that anonymous requests are outside the device's limit
  and under a limit of their own; in `middleware.go:64` they take a token of
  their device's bucket like any other (`Chain!Admit` does not look at the
  credential).
* "AccessLog records device/status/usage/baseline for each request"
  (`middleware.go:171`): the call of `sink` follows `next.ServeHTTP`, and a
  response that breaks off leaves it by a panic (`Chain!CopyAborts`).
* `docs/OPERATING.md:68` says that changes of the files are loaded without a
  restart; `config.json` and `upstream.json` are read once (`main.go:46-51`).
* The comment at `install.sh:70` counts a time-out (超时) as unreachable, which ends
  the poll quickly.  The probe below it has no time limit of its own, and the 600 s
  are looked at (`install.sh:107`) only after it has returned: a peer that accepts
  the connection and stays silent holds the installer.
* A client that leaves while an upstream has stopped reading its request's body is
  not noticed (net/http waits for the end of the body): the request keeps its
  goroutine and its slot as long as the upstream keeps the connection.
* A renewal killed between its two files leaves the proxy without an outer
  identity until the next one, though the cache holds a good pair: `get` does
  not fall back to it.
* A write of `devices.json` that does not raise its mtime is not seen
  (`store.go:95`); `DeviceStore_distinct` supposes that each raises it.

## 7. Plan

Done: every component but those of section 8, some of them in part, and a proof of
every property the runs check but the parts of two named in section 5.  Left:

1. Onboarding with two installers at once on one device, which can leave the key
   of one beside the certificate of the other.
2. `Splitter` with a side that half-closes, should `relay` ever pass that on.
3. `Gateway`, store and tunnels over one table, if tunnels are ever made to ask
   the store again; today `Tunnel` under every table covers it.

## 8. Not modelled

* Usage sniffing and baseline checks (`middleware.go`): they read what passes,
  for the log; nothing that is forwarded depends on them.
* The CI harness under `ci/`: programs that observe a build from outside.
* Of the CA and the minter, the contents of certificates and errors of key
  generation and signing; whether a key belongs to a certificate is kept.
* `gen-config`'s other fields, copied from flags and configuration; `LoadConfig`
  beyond what makes a file unusable and the checks of `parseUpstream`.
* Which strings `ParseConnect` takes for a host: a line carries a usable target
  or it does not, and `Tunnel` and `Splitter` branch on that.
* Rounding of the limiter's float64; memory (a line of any length is
  buffered whole before its length is counted); the order of rows in `devices.json`.
* `prefixConn`, the replay of bytes a client sends ahead of the proxy's 200: the
  project's own client sends none.
* Idle tunnels whose peer stays for ever: the code promises nothing about them.
* The shell start-up files and downloads of `install.sh` (a download is one step
  that may fail).
