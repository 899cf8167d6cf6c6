----------------------------- MODULE MCLinkDelta -----------------------------
(* Small links for TLC.                                                    *)
EXTENDS LinkDelta

CONSTANTS g1, g2, g3, t1, t2

Gri2  == {g1, g2}
Gri3  == {g1, g2, g3}
Tags1 == {t1}
Tags2 == {t1, t2}

NoFaults == {}
Unruly   == FaultNames \ {"shadow", "retag"}
Shadowed == {"shadow"}

NoGri    == {}
OnlyG1   == {g1}
OnlyG2   == {g2}
=============================================================================
