-------------------------- MODULE SharePriceRounding -------------------------
(***************************************************************************)
(* The rounding behaviour of the share-price engine (SharePrice.tla),      *)
(* checked over every vault state and request amount up to a bound.        *)
(*                                                                         *)
(* The engine is pure: internal_share_price, convert_to_shares and         *)
(* convert_to_assets read the staker's totals and return a number.  The    *)
(* state of this module is exactly their inputs (the fields of NearStaker  *)
(* they are called with, lib.rs:32-60, and the amount of a request); Init  *)
(* takes any vault state within the bound and each step is a new request   *)
(* against it.                                                             *)
(***************************************************************************)
EXTENDS SharePrice

CONSTANTS
    MaxAmount,    \* largest total, supply and amount enumerated
    FeeValues     \* fees the owner may set (set_fee: fee < FEE_PRECISION)

ASSUME RoundingConstantsAssumption ==
    /\ MaxAmount \in Nat
    /\ FeeValues \subseteq 0 .. (FEE_PRECISION - 1)

VARIABLES
    totalStaked,      \* total_staked
    sharesSupply,     \* token.total_supply
    taxExemptStake,   \* tax_exempt_stake
    fee,              \* fee
    amount            \* the NEAR or TruNEAR amount of a request

vars == <<totalStaked, sharesSupply, taxExemptStake, fee, amount>>

Amount == 0 .. MaxAmount

(* The price every entry point reads: internal.rs share_price.             *)
SharePriceNow == InternalSharePrice(totalStaked, sharesSupply, taxExemptStake, fee)

Init ==
    /\ totalStaked \in Amount
    /\ sharesSupply \in Amount
    /\ taxExemptStake \in Amount
    /\ fee \in FeeValues
    /\ amount \in Amount

(* A request for a new amount against the same vault state.                *)
Request ==
    /\ amount' \in Amount
    /\ UNCHANGED <<totalStaked, sharesSupply, taxExemptStake, fee>>

Next == Request

Spec == Init /\ [][Next]_vars

(* The inputs have the types of the code: u128 totals and amounts, and a   *)
(* fee below FEE_PRECISION.                                                *)
TypeOK ==
    /\ totalStaked \in Nat
    /\ sharesSupply \in Nat
    /\ taxExemptStake \in Nat
    /\ fee \in 0 .. (FEE_PRECISION - 1)
    /\ amount \in Nat

-----------------------------------------------------------------------------
(* Reference definitions of floor and ceiling division by their defining   *)
(* inequalities, independent of \div and %.                                *)
FloorDivRef(n, d) == CHOOSE q \in 0 .. n : q * d <= n /\ n < (q + 1) * d

CeilDivRef(n, d) == CHOOSE q \in 0 .. n : n <= q * d /\ (q = 0 \/ (q - 1) * d < n)

DivRef(n, d, up) == IF up THEN CeilDivRef(n, d) ELSE FloorDivRef(n, d)

(* mul_div_with_rounding, as used by convert_to_shares and               *)
(* convert_to_assets, rounds x*y/d down or up exactly: the single          *)
(* remainder test in math.rs gives the ceiling in every case, including    *)
(* an exact division, where rounding up must not add one.                  *)
ConversionsMatchReference ==
    \A up \in BOOLEAN :
        /\ SharesDefined(SharePriceNow) =>
              ConvertToShares(amount, SharePriceNow, up)
                = DivRef(amount * SharePriceNow.den, PriceUnits(SharePriceNow), up)
        /\ ConvertToAssets(amount, SharePriceNow, up)
              = DivRef(amount * PriceUnits(SharePriceNow), SharePriceNow.den, up)

(* Rounding favours the vault: converting NEAR to shares rounded down (the *)
(* mint of deposit_and_stake) and back to NEAR rounded up (what            *)
(* max_withdraw asks for) never yields more than was paid; and shares      *)
(* converted to NEAR rounded down and back rounded up never cost more      *)
(* shares than were held.  Spec section 8 states the first bound as ">= v", *)
(* which the code does not satisfy and a vault must not.                   *)
RoundTripFavoursVault ==
    SharesDefined(SharePriceNow) =>
        LET P == SharePriceNow IN
        /\ ConvertToAssets(ConvertToShares(amount, P, FALSE), P, TRUE) <= amount
        /\ ConvertToShares(ConvertToAssets(amount, P, FALSE), P, TRUE) <= amount

(* The price internal_share_price computes does not fall when rewards      *)
(* raise total_staked, and does not rise when the owner raises the fee:    *)
(* the saturating tax of the stake above tax_exempt_stake never makes the  *)
(* taxed total grow with the fee.                                          *)
PriceMonotone ==
    /\ PriceLeq(SharePriceNow,
                InternalSharePrice(totalStaked + 1, sharesSupply, taxExemptStake, fee))
    /\ \A f2 \in FeeValues :
          f2 >= fee =>
             PriceLeq(InternalSharePrice(totalStaked, sharesSupply, taxExemptStake, f2),
                      SharePriceNow)
=============================================================================
