------------------------------ MODULE MC_Chain ------------------------------
EXTENDS Chain, TLC

CONSTANTS c1, c2, tokA, tokB

Device(l, r, u) == [label |-> l, rateLimit |-> r, upstream |-> u]
R(a, k, e, b) == [auth |-> a, key |-> k, exempt |-> e, body |-> b]

MCPool == << [id |-> "a", token |-> tokA], [id |-> "b", token |-> tokB] >>

\* One tunnel: on the default token, on the second, on one that is not in
\* the pool, of a device without a label.
OneTunnel == { c1 :> d : d \in { Device("x", 0, ""), Device("x", 1, "b"),
                                 Device("x", 1, "zz"), Device("", 1, "a") } }
\* Two tunnels of one device; a reload between them may have changed its rate.
TwoTunnels == { (c1 :> Device("x", r, "a")) @@ (c2 :> Device("x", 0, "a")) : r \in {1, 2} }

Mixed == { R("bearer", FALSE, FALSE, TRUE), R("bearer", TRUE, TRUE, FALSE),
           R("none", TRUE, FALSE, FALSE), R("other", FALSE, FALSE, FALSE) }
Plain == { R("bearer", FALSE, FALSE, FALSE) }
=============================================================================
