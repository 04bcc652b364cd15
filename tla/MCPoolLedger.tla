--------------------------- MODULE MCPoolLedger ----------------------------
(***************************************************************************)
(* An instance of PoolLedger for TLC: a small window and every fault.      *)
(***************************************************************************)
EXTENDS PoolLedger

OneScript == {1}

SmallDiffs == {1, 2}

MovingLimits == {2, 3}
=============================================================================
