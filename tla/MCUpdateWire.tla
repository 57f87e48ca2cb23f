----------------------------- MODULE MCUpdateWire -----------------------------
EXTENDS UpdateWire, TLC

CONSTANTS m0, m1, m2, b0, b1

MCBlobsOf == (m0 :> {b0}) @@ (m1 :> {b0, b1}) @@ (m2 :> {b1})
=============================================================================
