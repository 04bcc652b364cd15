------------------------------- MODULE Money -------------------------------
(***************************************************************************)
(* Monetary arithmetic of the node: the settlement levy of                 *)
(* src/src/consensus/levy.h and its schedule by height, and the subsidy of *)
(* a block from the emission table.  Amounts are satoshis.                 *)
(***************************************************************************)
EXTENDS Integers, Sequences

LevyDenominator == 10000

AtMost(a, b) == IF a <= b THEN a ELSE b
AtLeast(a, b) == IF a >= b THEN a ELSE b

CeilDiv(n, d) == (n + d - 1) \div d

Rules == [startHeight : Nat, bp : 0..LevyDenominator, capSat : Nat]

\* The value is split at the denominator, so that no product overflows.
SplitCeilDiv(value, bp, d) == (value \div d) * bp + CeilDiv((value % d) * bp, d)

SettlementLevyUncapped(value, bp) ==
  IF bp <= 0 \/ value <= 0 THEN 0 ELSE SplitCeilDiv(value, bp, LevyDenominator)

SettlementLevy(value, rule) == AtMost(SettlementLevyUncapped(value, rule.bp), rule.capSat)

\* Slip: the levy on the inputs themselves, rounded down.
FromInputsRoundedDown(value, rule) ==
  IF rule.bp <= 0 \/ value <= 0 THEN 0
  ELSE LET d == LevyDenominator + rule.bp
       IN  AtMost((value \div d) * rule.bp + ((value % d) * rule.bp) \div d, rule.capSat)

\* What a spender pays who lets the rest of its inputs go to outputs.
SettlementLevyFromInputs(value, rule) ==
  IF rule.bp <= 0 \/ value <= 0 THEN 0
  ELSE AtMost(SplitCeilDiv(value, rule.bp, LevyDenominator + rule.bp), rule.capSat)

CheckSettlementLevy(out, fee, rule) == fee >= SettlementLevy(out, rule)

-----------------------------------------------------------------------------
(* The levy schedule.                                                      *)

SettlementLevyScheduleIsSoftForkOnly(schedule) ==
  /\ schedule # <<>> /\ schedule[1].startHeight = 0
  /\ \A i \in 1..Len(schedule) : schedule[i] \in Rules
  /\ \A i \in 2..Len(schedule) :
       /\ schedule[i].startHeight > schedule[i - 1].startHeight
       /\ schedule[i].bp >= schedule[i - 1].bp
       /\ schedule[i].capSat >= schedule[i - 1].capSat

\* The loop of SettlementLevyAt breaks after row i.
IsRowAt(schedule, height, i) ==
  /\ \A j \in 1..i : schedule[j].startHeight <= height
  /\ i < Len(schedule) => schedule[i + 1].startHeight > height

\* The last row whose startHeight is at or below the height.
SettlementLevyAt(schedule, height) ==
  LET i == CHOOSE i \in 0..Len(schedule) : IsRowAt(schedule, height, i)
  IN  IF i = 0 THEN [startHeight |-> 0, bp |-> 0, capSat |-> 0] ELSE schedule[i]

-----------------------------------------------------------------------------
(* The emission table.                                                     *)

Eras == [startHeight : Int, endHeight : Int, baseSubsidy : Int]

\* Back to back from the start; the upper limit of a subsidy is left out.
EmissionTableWellFormed(table, start) ==
  /\ table # <<>>
  /\ \A i \in 1..Len(table) :
       /\ table[i].startHeight = IF i = 1 THEN start ELSE table[i - 1].endHeight + 1
       /\ table[i].endHeight >= table[i].startHeight
       /\ table[i].baseSubsidy > 0

EmissionEndHeight(table) == IF table = <<>> THEN 0 ELSE table[Len(table)].endHeight

\* The first era that has not ended pays; its last block also mints the dust.
GetBlockSubsidy(height, table, dust) ==
  LET ends == {i \in 1..Len(table) : height <= table[i].endHeight}
      era == table[CHOOSE i \in ends : \A j \in ends : i <= j]
  IN  IF height < 1 \/ ends = {} \/ height < era.startHeight THEN 0
      ELSE era.baseSubsidy + IF height = EmissionEndHeight(table) THEN dust ELSE 0
=============================================================================
