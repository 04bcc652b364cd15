-------------------------------- MODULE Sums --------------------------------
(***************************************************************************)
(* The sums src/xcoin-pool/xcoin-pool.py takes over the shares of a window *)
(* and over the outputs of a coinbase.                                     *)
(***************************************************************************)
EXTENDS Integers, Sequences

\* The sums of the first 0, 1, 2, ... numbers of a sequence.
Sums(ns) ==
  LET sum[i \in 0..Len(ns)] == IF i = 0 THEN 0 ELSE sum[i - 1] + ns[i]
  IN  sum

Total(ns) == Sums(ns)[Len(ns)]

Weight(js) == Total([i \in DOMAIN js |-> js[i].diff])
=============================================================================
