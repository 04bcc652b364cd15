----------------------------- MODULE WalletFee -----------------------------
(***************************************************************************)
(* The fee the wallet settles on in CreateTransactionInternal              *)
(* (src/src/wallet/spend.cpp), for the coins SelectCoins has returned.     *)
(*                                                                         *)
(* A payment is a record: pay, the sum of the recipients; selected, the    *)
(* value of the coins; sffo, whether the recipients pay the fee (then one  *)
(* of them does); changeTarget and minChange, the change aimed at and the  *)
(* least that is made; and the byte-rate fees of the parts: base, inputs   *)
(* and change.  outputFloor is the least value of an output.               *)
(***************************************************************************)
EXTENDS Money

PaymentRecords ==
  [pay : Nat, selected : Nat, sffo : BOOLEAN, changeTarget : Nat, minChange : Nat,
   base : Nat, inputs : Nat, change : Nat, outputFloor : Nat]

\* What SelectCoins has to reach.
SelectionTarget(p, rule) ==
  IF p.sffo THEN p.pay
  ELSE p.pay + p.base + SettlementLevy(p.pay + p.changeTarget, rule)

Selected(p, rule) ==
  SelectionTarget(p, rule) <= IF p.sffo THEN p.selected ELSE p.selected - p.inputs

\* SelectionResult::GetChange.
GetChange(p, rule) ==
  LET change == IF p.sffo THEN p.selected - SelectionTarget(p, rule)
                ELSE p.selected - p.inputs - SelectionTarget(p, rule) - p.change
  IN  IF change < p.minChange THEN 0 ELSE change

LevyFloor(p, rule) ==
  IF GetChange(p, rule) > 0 \/ p.sffo THEN SettlementLevyFromInputs(p.selected, rule)
  ELSE SettlementLevy(p.pay, rule)

FeeNeeded(p, rule) ==
  LET bytes == p.base + p.inputs + IF GetChange(p, rule) > 0 THEN p.change ELSE 0
  IN  IF rule.bp > 0 THEN AtLeast(bytes, LevyFloor(p, rule)) ELSE bytes

CurrentFee(p, rule) == p.selected - p.pay - GetChange(p, rule)

\* Excess goes to the change, if there is any.
AdjustedFee(p, rule) ==
  IF GetChange(p, rule) > 0 THEN AtMost(FeeNeeded(p, rule), CurrentFee(p, rule))
  ELSE CurrentFee(p, rule)

\* The recipients who pay the fee make up for the rest, or are given it.
FeePaid(p, rule) == IF p.sffo THEN FeeNeeded(p, rule) ELSE AdjustedFee(p, rule)

\* How CreateTransactionInternal ends.
Outcome(p, rule) ==
  CASE p.sffo /\ p.pay - (FeeNeeded(p, rule) - AdjustedFee(p, rule)) < p.outputFloor -> "too small"
    [] FeeNeeded(p, rule) > FeePaid(p, rule) -> "bug"
    [] OTHER -> "ok"

\* A completed transaction's fee reaches the levy on what goes to outputs; the
\* internal error comes only while the levy on the payment and the change aimed at
\* is below the cap.
PaysLevy(p, rule) ==
  /\ Outcome(p, rule) = "ok" =>
       CheckSettlementLevy(p.selected - FeePaid(p, rule), FeePaid(p, rule), rule)
  /\ Outcome(p, rule) = "bug" => SettlementLevy(p.pay + p.changeTarget, rule) < rule.capSat
=============================================================================
