----------------------------- MODULE MCRateLimit -----------------------------
EXTENDS RateLimit, TLC

CONSTANTS r1, r2, r3, t1, ip1, minute, hour

MCCallers == {[token |-> NoToken, ip |-> ip1, viaEdge |-> TRUE],
              [token |-> t1, ip |-> ip1, viaEdge |-> TRUE]}
MCSize == (minute :> 1) @@ (hour :> 2)
MCLimit == (minute :> 1) @@ (hour :> 2)
RequestsAlike == Permutations({r1, r2, r3})
=============================================================================
