-------------------------- MODULE MCBlockTemplate --------------------------
(***************************************************************************)
(* An instance of BlockTemplate for TLC: three clusters of transactions,   *)
(* one with a low-fee parent its child pays for, a double spend, a levy    *)
(* that is raised at heights 2 and 4, and an emission that ends at 4.      *)
(***************************************************************************)
EXTENDS BlockTemplate

SixTxs == 1..6

\* 2 and 5 spend the output of 1 and exclude each other; 4 spends that of 3
\* and 6 a coin of its own.
Spends == <<-1, 1, -2, 3, 1, -3>>

Values == <<20000000, 5000000, 2000000, 1990000, 4000000, 1000000>>

\* 1 pays row 2 but not row 4; 2 pays either; 3 pays none, but 4 pays for both; 5
\* replaces 2; 6 pays row 4 exactly.
Offers == <<10000, 6000, 300, 20000, 7000, 1000>>

Row(start, bp, cap) == [startHeight |-> start, bp |-> bp, capSat |-> cap]

RaisedTwice == <<Row(0, 0, 0), Row(2, 5, 10000), Row(4, 10, 20000)>>

NoLevy == <<Row(0, 0, 0)>>

MCSchedules == {NoLevy, RaisedTwice}

Era(start, end, sats) == [startHeight |-> start, endHeight |-> end, baseSubsidy |-> sats]

ThreeEras == <<Era(1, 1, 5000000), Era(2, 3, 2500000), Era(4, 4, 1000000)>>

Share(spk, diff) == [spk |-> spk, diff |-> diff]

\* An empty window, one with a miner too small for an output, equal ones, and more
\* miners than outputs.
MCWindows ==
  {<<>>, <<Share(1, 200), Share(2, 1)>>, <<Share(1, 1), Share(2, 3), Share(1, 2)>>,
   <<Share(1, 1), Share(2, 5), Share(3, 2), Share(4, 4)>>}

\* Small and large payments from small and large coins, at a low and a high byte rate.
PaymentsAt(base, pays, coins) ==
  [pay : pays, selected : coins, sffo : BOOLEAN, changeTarget : {50000}, minChange : {10000},
   base : {base}, inputs : {200}, change : {30}, outputFloor : {10000}]

MCPayments ==
  PaymentsAt(100, {10000, 1000000, 30000000}, {1020000, 31000000, 90000000})
    \cup PaymentsAt(9000, {1000000}, {1020000})
=============================================================================
