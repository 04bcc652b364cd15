------------------------------- MODULE Pplns -------------------------------
(***************************************************************************)
(* The PPLNS window of src/xcoin-pool/xcoin-pool.py: the last shares,      *)
(* worth pplns_factor times the network difficulty.                        *)
(***************************************************************************)
EXTENDS Sums, FiniteSets

CONSTANTS
  Scripts,    \* payout scripts, the fallback script and the fee script not among them
  Diffs,      \* difficulties a share is credited at
  Limits,     \* window sizes: pplns_factor times the network difficulty
  MaxShares   \* shares in a window

ASSUME PplnsAssumption ==
  Scripts \subseteq Nat \ {0} /\ Diffs \subseteq Nat \ {0} /\ Limits \subseteq Nat

VARIABLES
  shares,  \* PplnsWindow.shares
  total,   \* PplnsWindow.total
  limit    \* the window size at the last add

WindowInit == shares = <<>> /\ total = 0 /\ limit = 0

\* The test of the loop of add: the window is large enough without the oldest
\* share that is left, when d are gone, and that is not the last.
MayDrop(js, tot, lim, d) ==
  tot - Weight(SubSeq(js, 1, d + 1)) >= lim /\ d < Len(js) - 1

\* How many of the oldest shares the loop drops before its test fails.
Drop(js, tot, lim) ==
  CHOOSE d \in 0..(Len(js) - 1) :
    ~MayDrop(js, tot, lim, d) /\ \A e \in 0..(d - 1) : MayDrop(js, tot, lim, e)

\* PplnsWindow.add.
Add(spk, diff, lim) ==
  LET js == Append(shares, [spk |-> spk, diff |-> diff])
      drop == Drop(js, total + diff, lim)
  IN  /\ shares' = SubSeq(js, drop + 1, Len(js))
      /\ total' = total + diff - Weight(SubSeq(js, 1, drop))
      /\ limit' = lim

\* Add keeps the last share and drops no more than it may: what is left is the
\* shortest run of last shares that reaches the limit, if the window reaches it,
\* after a restart as well, when load has summed up the saved shares.
ShortestWindow ==
  (limit > 0 /\ shares # <<>>) => (Weight(Tail(shares)) < limit \/ Len(shares) = 1)
=============================================================================
