------------------------------- MODULE MCForks -------------------------------
EXTENDS Forks, TLC

CONSTANTS b0, b1, b2, b3, c3, b4, k1, k2

\* Two chains that part at block 2, the first whose worker may meet a conflict.
TreeParent ==
    (b1 :> b0) @@ (b2 :> b1) @@ (b3 :> b2) @@ (b4 :> b3) @@ (c3 :> b2)

TreeNumber ==
    (b0 :> 0) @@ (b1 :> 1) @@ (b2 :> 2) @@ (b3 :> 3) @@ (b4 :> 4) @@ (c3 :> 3)

AnyKey == Permutations({k1, k2})
==============================================================================
