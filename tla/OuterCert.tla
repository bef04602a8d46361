------------------------------ MODULE OuterCert ------------------------------
(***************************************************************************)
(* internal/proxy/outercert.go: the loader of the outer TLS identity.      *)
(* Every handshake calls get; a hit in the cache is judged by the mtime of *)
(* the certificate, a miss reads the certificate and then the key.  Only   *)
(* the cache is under the lock, so that loads of concurrent handshakes     *)
(* interleave, with one another and with a renewal, which replaces the two *)
(* files one after the other, in place or by a rename, and may be killed.  *)
(*                                                                         *)
(* Stamps are told in half renewals: the certificate of pair p is begun at *)
(* 2p - 1 and in place at 2p; a coarse clock may give both the same stamp. *)
(***************************************************************************)
EXTENDS Integers

CONSTANTS
    Handshakes,       \* callers of get
    MaxPairs          \* bound: pairs issued

ASSUME PairsAssumption == MaxPairs \in Nat \ {0}

VARIABLES
    crtFile, keyFile, \* the two files: None, Torn or the number of a pair
    mtime,            \* of crtFile
    pairs,            \* pairs issued so far
    todo,             \* the files the renewal in progress has yet to replace
    whole,            \* the newest pair that was in place as a whole
    cached, mod,      \* the loader's cache
    load              \* of each handshake: its call of get

fileVars   == <<crtFile, keyFile, mtime, pairs, todo, whole>>
cacheVars  == <<cached, mod>>
loaderVars == <<fileVars, cacheVars, load>>

None == 0
Torn == -1

Stamp(p) == 2 * p

LoadPCs == {"off", "look", "crt", "key", "store", "served", "failed"}

\* Of a call: its step, fi.ModTime(), the certificate it read, the pair it
\* returns; the newest whole pair when it began, and whether the files were
\* something else than a whole pair at some moment of it.
Idle == [pc |-> "off", stamp |-> 0, crt |-> None, pair |-> None,
         floor |-> None, disturbed |-> FALSE]

InCall(h) == load[h].pc \in {"look", "crt", "key", "store"}
Whole     == crtFile \notin {None, Torn} /\ keyFile = crtFile

LoaderInit ==
    /\ crtFile \in {None, 1} /\ keyFile = crtFile
    /\ pairs = crtFile /\ whole = crtFile /\ mtime = Stamp(crtFile)
    /\ todo = {}
    /\ cached = None /\ mod = 0
    /\ load = [h \in Handshakes |-> Idle]

-----------------------------------------------------------------------------
(* Renewals *)

\* What calls in progress see of the files from now on.
Disturb ==
    IF Whole' THEN UNCHANGED load
    ELSE load' = [h \in Handshakes |-> [load[h] EXCEPT !.disturbed = @ \/ InCall(h)]]

Renew ==
    /\ todo = {} /\ pairs < MaxPairs
    /\ pairs' = pairs + 1
    /\ todo' = {"crt", "key"}
    /\ UNCHANGED <<crtFile, keyFile, mtime, whole, cacheVars, load>>

TruncateCrt ==
    /\ "crt" \in todo /\ mtime < Stamp(pairs) - 1
    /\ crtFile' = Torn
    /\ mtime' \in {Stamp(pairs) - 1, Stamp(pairs)}
    /\ UNCHANGED <<keyFile, pairs, todo, whole, cacheVars>>
    /\ Disturb

TruncateKey ==
    /\ "key" \in todo /\ keyFile # Torn
    /\ keyFile' = Torn
    /\ UNCHANGED <<crtFile, mtime, pairs, todo, whole, cacheVars>>
    /\ Disturb

Completes == whole' = IF Whole' THEN pairs ELSE whole

InstallCrt ==
    /\ "crt" \in todo
    /\ crtFile' = pairs /\ mtime' = Stamp(pairs)
    /\ todo' = todo \ {"crt"}
    /\ UNCHANGED keyFile
    /\ Completes /\ Disturb
    /\ UNCHANGED <<pairs, cacheVars>>

InstallKey ==
    /\ "key" \in todo
    /\ keyFile' = pairs
    /\ todo' = todo \ {"key"}
    /\ UNCHANGED crtFile
    /\ Completes /\ Disturb
    /\ UNCHANGED <<mtime, pairs, cacheVars>>

\* The renewal is killed where it is.
GiveUp ==
    /\ todo # {}
    /\ todo' = {}
    /\ UNCHANGED <<crtFile, keyFile, mtime, pairs, whole, cacheVars, load>>

Renewal == \/ Renew \/ TruncateCrt \/ TruncateKey \/ InstallCrt \/ InstallKey
           \/ GiveUp

-----------------------------------------------------------------------------
(* get *)

\* A call ends; what the properties do not ask about is forgotten.
Serve(h, p) ==
    load' = [load EXCEPT ![h] = [Idle EXCEPT !.pc = "served", !.pair = p, !.floor = load[h].floor]]
Fail(h, d) == load' = [load EXCEPT ![h] = [Idle EXCEPT !.pc = "failed", !.disturbed = d]]

\* os.Stat
Stat(h) ==
    /\ ~InCall(h)
    /\ IF crtFile = None THEN Fail(h, ~Whole)
       ELSE load' = [load EXCEPT ![h] = [Idle EXCEPT !.pc = "look", !.stamp = mtime,
                                         !.floor = whole, !.disturbed = ~Whole]]
    /\ UNCHANGED <<fileVars, cacheVars>>

LookOneAtATime(h) ==                     \* a load is refused while another is made
    /\ load[h].pc = "look"
    /\ IF cached # None /\ load[h].stamp <= mod THEN Serve(h, cached)
       ELSE IF \E g \in Handshakes : load[g].pc \in {"crt", "key", "store"}
            THEN Fail(h, load[h].disturbed)
            ELSE load' = [load EXCEPT ![h].pc = "crt"]
    /\ UNCHANGED <<fileVars, cacheVars>>

\* cached and mod are read under the lock.
Look(h) ==
    /\ load[h].pc = "look"
    /\ IF cached # None /\ load[h].stamp <= mod THEN Serve(h, cached)
       ELSE load' = [load EXCEPT ![h].pc = "crt"]
    /\ UNCHANGED <<fileVars, cacheVars>>

\* tls.LoadX509KeyPair: the certificate (os.Stat found it, and renewals remove
\* nothing), then the key, then the comparison.
ReadCrt(h) ==
    /\ load[h].pc = "crt"
    /\ load' = [load EXCEPT ![h].pc = "key", ![h].crt = crtFile]
    /\ UNCHANGED <<fileVars, cacheVars>>

ReadKeyUnchecked(h) ==                   \* the comparison is all that is looked at
    /\ load[h].pc = "key"
    /\ IF keyFile = load[h].crt
       THEN load' = [load EXCEPT ![h].pc = "store", ![h].pair = load[h].crt]
       ELSE Fail(h, load[h].disturbed)
    /\ UNCHANGED <<fileVars, cacheVars>>

ReadKey(h) ==
    /\ load[h].pc = "key"
    /\ IF load[h].crt # Torn /\ keyFile = load[h].crt
       THEN load' = [load EXCEPT ![h].pc = "store", ![h].pair = load[h].crt]
       ELSE Fail(h, load[h].disturbed)
    /\ UNCHANGED <<fileVars, cacheVars>>

StoreLate(h) ==                          \* stamped with the time of the store
    /\ load[h].pc = "store"
    /\ cached' = load[h].pair /\ mod' = mtime
    /\ Serve(h, load[h].pair)
    /\ UNCHANGED fileVars

Store(h) ==
    /\ load[h].pc = "store"
    /\ cached' = load[h].pair /\ mod' = load[h].stamp
    /\ Serve(h, load[h].pair)
    /\ UNCHANGED fileVars

Get(h) == Look(h) \/ ReadCrt(h) \/ ReadKey(h) \/ Store(h)

LoaderNext == Renewal \/ \E h \in Handshakes : Stat(h) \/ Get(h)
LoaderSpec == LoaderInit /\ [][LoaderNext]_loaderVars

-----------------------------------------------------------------------------
(* Properties *)

Contents == {None, Torn} \cup 1 .. pairs
Calls    == [pc : LoadPCs, stamp : Nat, crt : Contents, pair : 0 .. pairs,
             floor : 0 .. whole, disturbed : BOOLEAN]

\* Numbers are of pairs issued, no stamp is of the future, and what a
\* handshake is served is a pair (LoadX509KeyPair parses what it read).
LoaderTypeOK ==
    /\ pairs \in 0 .. MaxPairs /\ whole \in 0 .. pairs
    /\ crtFile \in Contents /\ keyFile \in Contents
    /\ mtime \in 0 .. Stamp(pairs)
    /\ todo \subseteq {"crt", "key"}
    /\ cached \in 0 .. pairs /\ mod \in 0 .. mtime
    /\ load \in [Handshakes -> Calls]
    /\ \A h \in Handshakes :
          /\ load[h].stamp <= mtime
          /\ load[h].pc \in {"store", "served"} => load[h].pair # None

\* A handshake is served the newest pair that was in place when it began, or
\* a newer one: a slow load that puts an old pair back into the cache puts
\* its old stamp back too, and so hides no renewal (get takes the stamp
\* before it reads).
NewestServed ==
    \A h \in Handshakes : load[h].pc = "served" => load[h].pair >= load[h].floor

\* A handshake fails only if, at some moment of its call, the files were not
\* one whole pair: no interleaving of calls or of completed renewals makes
\* one fail (the cache and its stamp change together; a failed load leaves
\* both alone).
FailsOnlyInRenewal ==
    \A h \in Handshakes : load[h].pc = "failed" => load[h].disturbed
=============================================================================
