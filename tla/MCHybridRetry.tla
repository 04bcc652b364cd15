--------------------------- MODULE MCHybridRetry ---------------------------
(***************************************************************************)
(* Instances of HybridRetry for TLC: one destination, which addnode names  *)
(* and the node may also pick by itself.                                   *)
(***************************************************************************)
EXTENDS HybridRetry

CONSTANT a

OneDest == {a}

OneSlotEach == [s \in Sems |-> 1]

ThreeConns == 1..3
=============================================================================
