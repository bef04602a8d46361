-------------------------------- MODULE Minter --------------------------------
(***************************************************************************)
(* internal/mitm/mint.go: the leaf certificates of the inner TLS.  CertFor *)
(* keeps a leaf for ttl and hands the same one to every handshake until    *)
(* then.  It runs under mu, so it is one step.                             *)
(*                                                                         *)
(* There are two clocks.  now.Before(e.expiry) compares readings of Go's   *)
(* monotonic clock, which stands still while the machine sleeps and knows  *)
(* no corrections; NotBefore and NotAfter are wall time, as is what the    *)
(* peer checks them by.  A tick is a second, the resolution of the latter. *)
(***************************************************************************)
EXTENDS Integers

CONSTANTS
    Hosts,            \* the allowlist
    Ttl,              \* m.ttl
    Margin,           \* time.Minute, added at both ends of a leaf
    MaxMono,          \* bound: ticks
    MaxDrift          \* bound: the wall clock ahead of or behind the other

ASSUME MinterAssumption ==
    /\ Ttl \in Nat \ {0} /\ Margin \in Nat \ {0}
    /\ MaxMono \in Nat /\ MaxDrift \in Nat

VARIABLES
    mono,             \* the monotonic clock
    drift,            \* what the wall clock is ahead of it
    leaf              \* m.cache

minterVars == <<mono, drift, leaf>>

Wall == mono + drift

\* An entry, with the drift at its making for the properties.
Entries == [from : Int, to : Int, expiry : Int, drift : Int]
NoLeaf  == [from |-> 0, to |-> 0, expiry |-> -1, drift |-> 0]

MinterInit == mono = 0 /\ drift = 0 /\ leaf = [h \in Hosts |-> NoLeaf]

FreshAtExpiry(h) == leaf[h] # NoLeaf /\ mono <= leaf[h].expiry   \* not After

\* A leaf of the cache that CertFor hands out.
Fresh(h) == leaf[h] # NoLeaf /\ mono < leaf[h].expiry

Mint == [from |-> Wall - Margin, to |-> Wall + Ttl + Margin,
         expiry |-> mono + Ttl, drift |-> drift]

CertFor(h) ==
    /\ leaf' = IF Fresh(h) THEN leaf ELSE [leaf EXCEPT ![h] = Mint]
    /\ UNCHANGED <<mono, drift>>

Tick == /\ mono < MaxMono
        /\ mono' = mono + 1
        /\ UNCHANGED <<drift, leaf>>

\* The machine slept, or the wall clock was set.
Jump == /\ drift' \in 0 .. MaxDrift
        /\ UNCHANGED <<mono, leaf>>

MinterNext == Tick \/ Jump \/ \E h \in Hosts : CertFor(h)
MinterSpec == MinterInit /\ [][MinterNext]_minterVars

-----------------------------------------------------------------------------
(* Properties *)

\* No leaf is kept past its time to live.
MinterTypeOK ==
    /\ mono \in 0 .. MaxMono /\ drift \in 0 .. MaxDrift
    /\ leaf \in [Hosts -> Entries]
    /\ \A h \in Hosts : leaf[h].expiry <= mono + Ttl

\* A leaf the cache hands out is valid by the wall clock, even when that was
\* set, or the machine slept, since the leaf was made, by a margin at most
\* (the cache's ttl against the certificate's two margins).
LeafHasMargin ==
    \A h \in Hosts :
        Fresh(h) /\ drift - leaf[h].drift \in -Margin .. Margin
            => leaf[h].from <= Wall /\ Wall < leaf[h].to

\* What the comment on NotAfter says: the certificate outlives its place in
\* the cache, whatever happens in between.
LeafOutlivesCache == \A h \in Hosts : Fresh(h) => Wall <= leaf[h].to
=============================================================================
