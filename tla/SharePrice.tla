----------------------------- MODULE SharePrice -----------------------------
(***************************************************************************)
(* The share-price engine of the near-staker contract: the fixed-point     *)
(* helpers of src/near-staker/src/math.rs and the pure functions of        *)
(* internal.rs that turn the staker's totals into a rational share price  *)
(* and convert between NEAR and TruNEAR shares.                            *)
(*                                                                         *)
(* A price is a record [num |-> n, den |-> d] standing for the pair of     *)
(* U256 values (share_price_num, share_price_denom).  Amounts are natural  *)
(* numbers; the U256 intermediates cannot overflow at the bounds TLC uses, *)
(* and the only arithmetic fault left, a division by zero, is exposed as   *)
(* the predicate SharesDefined so that callers can model the panic.        *)
(***************************************************************************)
EXTENDS Naturals

CONSTANTS
    FEE_PRECISION,                \* constants.rs: 10000 parts per unit
    SHARE_PRICE_SCALING_FACTOR    \* constants.rs: 10^24

ASSUME PriceConstantsAssumption ==
    /\ FEE_PRECISION \in Nat \ {0}
    /\ SHARE_PRICE_SCALING_FACTOR \in Nat \ {0}

Price == [num : Nat, den : Nat \ {0}]

(* math.rs checked_sub: a - b, or 0 when b > a (u128::saturating_sub alike) *)
CheckedSub(a, b) == IF a >= b THEN a - b ELSE 0

(* Fault model: the rounding flag ignored, every division rounded down.    *)
MulDivIgnoringRoundingFlag(x, y, d, roundingUp) == (x * y) \div d

(* math.rs mul_div_with_rounding: x * y / d, plus one when rounding up and *)
(* the division leaves a remainder.                                        *)
MulDivWithRounding(x, y, d, roundingUp) ==
    IF roundingUp /\ (x * y) % d # 0 THEN (x * y) \div d + 1
                                      ELSE (x * y) \div d

(* Fault model: the taxable amount as a plain (signed) difference.       *)
InternalSharePriceSignedTaxable(totalStaked, sharesSupply, taxExemptStake, fee) ==
    IF sharesSupply = 0
    THEN [num |-> SHARE_PRICE_SCALING_FACTOR, den |-> 1]
    ELSE LET taxable == totalStaked - taxExemptStake
             taxed   == totalStaked * FEE_PRECISION - taxable * fee
         IN  [num |-> taxed * SHARE_PRICE_SCALING_FACTOR,
              den |-> sharesSupply * FEE_PRECISION]

(* internal.rs internal_share_price: the fee on the not yet taxed part of  *)
(* the stake is deducted before the division, so minting the fee shares   *)
(* to the treasury is meant to leave the price where it is.               *)
InternalSharePrice(totalStaked, sharesSupply, taxExemptStake, fee) ==
    IF sharesSupply = 0
    THEN [num |-> SHARE_PRICE_SCALING_FACTOR, den |-> 1]
    ELSE LET taxable == CheckedSub(totalStaked, taxExemptStake)
             taxed   == totalStaked * FEE_PRECISION - taxable * fee
         IN  [num |-> taxed * SHARE_PRICE_SCALING_FACTOR,
              den |-> sharesSupply * FEE_PRECISION]

(* The divisor convert_to_shares uses; the contract panics when it is 0.   *)
PriceUnits(p) == p.num \div SHARE_PRICE_SCALING_FACTOR

SharesDefined(p) == PriceUnits(p) # 0

(* Fault model: convert_to_shares always rounding up.                     *)
ConvertToSharesRoundingUp(assets, p, roundingUp) ==
    MulDivWithRounding(assets, p.den, PriceUnits(p), TRUE)

(* internal.rs convert_to_shares *)
ConvertToShares(assets, p, roundingUp) ==
    MulDivWithRounding(assets, p.den, PriceUnits(p), roundingUp)

(* internal.rs convert_to_assets *)
ConvertToAssets(shares, p, roundingUp) ==
    MulDivWithRounding(shares, PriceUnits(p), p.den, roundingUp)

(* p1 <= p2 as rationals *)
PriceLeq(p1, p2) == p1.num * p2.den <= p2.num * p1.den
=============================================================================
