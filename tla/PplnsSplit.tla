----------------------------- MODULE PplnsSplit ----------------------------
(***************************************************************************)
(* pplns_split of src/xcoin-pool/xcoin-pool.py: how the pool splits the    *)
(* value of a coinbase by the weights of its PPLNS window.                 *)
(*                                                                         *)
(* Difficulties and satoshis are integers.  Payout scripts are integers,   *)
(* for the order pplns_split gives equal weights.                          *)
(***************************************************************************)
EXTENDS Sums, SequencesExt, FiniteSets

\* The scripts that are paid for no share.
FallbackSpk == 0
FeeSpk == -1

\* PplnsWindow.weights.
Weights(js) ==
  [spk \in {js[i].spk : i \in DOMAIN js} |-> Weight(SelectSeq(js, LAMBDA s : s.spk = spk))]

SumOf(outs) == Total([i \in DOMAIN outs |-> outs[i].sats])

\* Heaviest first, equal ones in the order of their scripts.
Ranked(w) ==
  SetToSortSeq(DOMAIN w, LAMBDA a, b : w[a] > w[b] \/ (w[a] = w[b] /\ a < b))

Floors(pool, w, ranked) ==
  LET sum == Total([i \in DOMAIN ranked |-> w[ranked[i]]])
  IN  [i \in DOMAIN ranked |-> [spk |-> ranked[i], sats |-> (pool * w[ranked[i]]) \div sum]]

\* Slip: min_out is compared with the whole of the miners' part.
NarrowByPool(pool, w, minout, ranked) == IF pool >= minout THEN ranked ELSE SubSeq(ranked, 1, 1)

\* One round: the ones below min_out are dropped, unless one is left.
Narrower(pool, w, minout, ranked) ==
  LET kept == SelectSeq(Floors(pool, w, ranked), LAMBDA o : o.sats >= minout)
  IN  IF Len(kept) = Len(ranked) \/ Len(ranked) = 1 THEN ranked
      ELSE IF kept = <<>> THEN SubSeq(ranked, 1, 1) ELSE [i \in DOMAIN kept |-> kept[i].spk]

\* Those paid.  Every round but the last drops one, so there are no more than ranked is long.
Narrow(pool, w, minout, ranked) ==
  LET round[k \in 0..Len(ranked)] ==
        IF k = 0 THEN ranked ELSE Narrower(pool, w, minout, round[k - 1])
  IN  round[Len(ranked)]

\* The leftover satoshis go to the first.
WithDust(pool, outs) ==
  LET dust == pool - SumOf(outs)
  IN  [i \in DOMAIN outs |-> IF i = 1 THEN [outs[i] EXCEPT !.sats = @ + dust] ELSE outs[i]]

Take(s, n) == SubSeq(s, 1, Min({n, Len(s)}))

\* The outputs of a coinbase.
pplns_split(reward, w, feebp, minout, maxoutputs) ==
  LET fee == (reward * feebp) \div 10000
      pool == reward - fee
      ranked == Take(Ranked(w), Max({1, maxoutputs}))
      amounts == IF DOMAIN w = {} THEN <<[spk |-> FallbackSpk, sats |-> pool]>>
                 ELSE Floors(pool, w, Narrow(pool, w, minout, ranked))
      outs == SelectSeq(WithDust(pool, amounts), LAMBDA o : o.sats > 0)
  IN  IF fee > 0 THEN Append(outs, [spk |-> FeeSpk, sats |-> fee]) ELSE outs
=============================================================================
