----------------------------- MODULE MCMetalDAG -----------------------------
(***************************************************************************)
(* MetalDAG on epochs of two ticks, the clock in epoch 3: epochs 0 and 1   *)
(* can be cold, epoch 5 lies ahead until the clock enters epoch 4.         *)
(***************************************************************************)
EXTENDS MetalDAG

OneTimePerEpoch == {0, 2, 4, 6, 10}
=============================================================================
