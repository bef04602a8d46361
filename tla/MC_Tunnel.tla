------------------------------ MODULE MC_Tunnel ------------------------------
EXTENDS Tunnel, TLC

CONSTANTS f1, f2, d1, d2

\* The first device is revoked by a reload, and registered again by another.
MCTables == { (f1 :> d1) @@ (f2 :> d2), f2 :> d2 }
MCOneTable == {f1 :> d1}
=============================================================================
