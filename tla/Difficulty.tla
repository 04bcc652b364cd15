----------------------------- MODULE Difficulty -----------------------------
(***************************************************************************)
(* The difficulty controller of src/src/pow.cpp: the target ASERT gives    *)
(* for a schedule error, and the range check headers-first synchronization *)
(* makes of it before it can recompute it.                                 *)
(*                                                                         *)
(* Every constant of the arithmetic is the code's but the width of a       *)
(* target.  nBits stands here for the target it decodes to.                *)
(***************************************************************************)
EXTENDS Integers

CONSTANTS
  PowLimit,  \* powLimit
  Anchor,    \* the target of the anchor, block 0
  HalfLife,  \* nASERTHalfLife
  Spacing,   \* nPowTargetSpacing
  Factor     \* 2^(frac/65536) in 16.16, of the fractions that occur

ASSUME DifficultyAssumption ==
  /\ PowLimit \in Nat \ {0} /\ Anchor \in 1..PowLimit
  /\ HalfLife \in Nat \ {0} /\ Spacing \in Nat \ {0}

ASSUME FactorAssumption ==
  /\ DOMAIN Factor \subseteq 0..65535
  /\ \A f \in DOMAIN Factor : Factor[f] \in 65536..131072
  /\ \A f, g \in DOMAIN Factor : f <= g => Factor[f] <= Factor[g]

Capped(a, cap) == IF a <= cap THEN a ELSE cap

\* GetCompact and SetCompact: the bytes below a 23-bit mantissa are lost.
Compact(x) ==
  LET low == CHOOSE k \in 0..4 : /\ x \div 256^k < 2^23
                                 /\ \A j \in 0..(k - 1) : x \div 256^j >= 2^23
  IN  (x \div 256^low) * 256^low

\* The schedule error in half-lives, 16.16, rounded down.
Exponent(error) == (error * 65536) \div HalfLife

\* The target before saturation and rounding, for a shift to the right or none.
Eased(error) == (Anchor \div 65536) * Factor[Exponent(error) % 65536]

\* The target after the shift, between 1 and powLimit.
RawTarget(error) ==
  LET shifts == Exponent(error) \div 65536
      target == IF shifts < 0 THEN Eased(error) \div 2^(-shifts)
                ELSE IF Eased(error) > PowLimit \div 2^shifts THEN PowLimit
                ELSE Eased(error) * 2^shifts
  IN  IF target = 0 THEN 1 ELSE Capped(target, PowLimit)

\* AsertGetNextWorkRequired, after a block at this height and time after block 0.
AsertGetNextWorkRequired(height, time) == Compact(RawTarget(time - height * Spacing))

\* The ASERT branch, the one mainnet is on from block 1.
PermittedDifficultyTransition(old, new) == new <= PowLimit /\ Compact(old \div 4) <= new
=============================================================================
