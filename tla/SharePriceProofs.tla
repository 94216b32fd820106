--------------------------- MODULE SharePriceProofs ---------------------------
(***************************************************************************)
(* Proofs about the share-price engine, for every value of FEE_PRECISION,  *)
(* SHARE_PRICE_SCALING_FACTOR and every vault state, from the lemmas of    *)
(* SharePriceLemmas:                                                       *)
(*   - both round trips of RoundTripFavoursVault favour the vault;         *)
(*   - internal_share_price returns a well-formed price for every fee      *)
(*     set_fee accepts, and that price is monotone (PriceMonotone).        *)
(***************************************************************************)
EXTENDS SharePriceRounding, SharePriceLemmas, TLAPS

-----------------------------------------------------------------------------
(* The properties of SharePriceRounding *)

(* Every input the model feeds the engine has the type the code gives it. *)
THEOREM TypeCorrect == Spec => []TypeOK
<1> USE RoundingConstantsAssumption
<1>1. Init => TypeOK
  BY DEF Init, TypeOK, Amount
<1>2. TypeOK /\ [Next]_vars => TypeOK'
  BY DEF TypeOK, Next, Request, vars, Amount
<1>3. QED
  BY <1>1, <1>2, PTL DEF Spec

(* The current price is well formed, and its units are natural.            *)
LEMMA PriceNowTyped ==
    ASSUME TypeOK
    PROVE  /\ SharePriceNow \in Price
           /\ PriceUnits(SharePriceNow) \in Nat
<1>1. SharePriceNow \in Price
  BY PriceWellFormed DEF TypeOK, SharePriceNow
<1>2. QED
  BY <1>1, PriceConstantsAssumption, SMT DEF Price, PriceUnits

(* Rounding favours the vault for every vault state and amount: neither    *)
(* the deposit-then-max_withdraw round trip in NEAR nor the                *)
(* preview-then-redeem round trip in shares returns more than it started   *)
(* with (convert_to_shares / convert_to_assets, internal.rs:593-623).      *)
THEOREM RoundTripHolds == Spec => []RoundTripFavoursVault
<1>1. TypeOK => RoundTripFavoursVault
  <2> SUFFICES ASSUME TypeOK, SharesDefined(SharePriceNow)
               PROVE  LET P == SharePriceNow IN
                      /\ ConvertToAssets(ConvertToShares(amount, P, FALSE), P, TRUE) <= amount
                      /\ ConvertToShares(ConvertToAssets(amount, P, FALSE), P, TRUE) <= amount
    BY DEF RoundTripFavoursVault
  <2>1. PriceUnits(SharePriceNow) \in Nat \ {0} /\ SharePriceNow.den \in Nat \ {0}
    BY PriceNowTyped DEF SharesDefined, Price
  <2>2. amount \in Nat
    BY DEF TypeOK
  <2>3. QED
    BY <2>1, <2>2, RoundTripBound DEF ConvertToShares, ConvertToAssets
<1>2. QED
  BY <1>1, TypeCorrect, PTL

(* For every vault state, internal_share_price does not fall when rewards  *)
(* raise total_staked and does not rise when set_fee raises the fee        *)
(* (spec section 8, price monotonicity).                                   *)
THEOREM PriceMonotoneHolds == Spec => []PriceMonotone
<1>1. TypeOK => PriceMonotone
  <2> SUFFICES ASSUME TypeOK PROVE PriceMonotone
    OBVIOUS
  <2> USE DEF TypeOK
  <2>1. CASE sharesSupply = 0
    <3>1. PriceLeq(SharePriceNow,
                   InternalSharePrice(totalStaked + 1, sharesSupply, taxExemptStake, fee))
      BY <2>1, PriceNoShares DEF SharePriceNow
    <3>2. \A f2 \in FeeValues : f2 >= fee =>
             PriceLeq(InternalSharePrice(totalStaked, sharesSupply, taxExemptStake, f2),
                      SharePriceNow)
      BY <2>1, PriceNoShares DEF SharePriceNow
    <3>3. QED
      BY <3>1, <3>2 DEF PriceMonotone
  <2>2. CASE sharesSupply # 0
    <3> DEFINE Taxed(ts, f) == ts * FEE_PRECISION - CheckedSub(ts, taxExemptStake) * f
               D == sharesSupply * FEE_PRECISION
    <3>1. \A ts \in Nat, f \in 0 .. (FEE_PRECISION - 1) :
             /\ Taxed(ts, f) \in Nat
             /\ InternalSharePrice(ts, sharesSupply, taxExemptStake, f)
                  = [num |-> Taxed(ts, f) * SHARE_PRICE_SCALING_FACTOR, den |-> D]
      BY <2>2, TaxedNat, PriceForm
    <3>2. PriceLeq(SharePriceNow,
                   InternalSharePrice(totalStaked + 1, sharesSupply, taxExemptStake, fee))
      <4>1. Taxed(totalStaked, fee) <= Taxed(totalStaked + 1, fee)
        BY TaxedMonotoneInStake
      <4>2. D \in Nat
        BY PriceConstantsAssumption, SMT
      <4>3. QED
        BY <3>1, <4>1, <4>2, PriceLeqSameDen DEF SharePriceNow
    <3>3. ASSUME NEW f2 \in FeeValues, f2 >= fee
          PROVE  PriceLeq(InternalSharePrice(totalStaked, sharesSupply, taxExemptStake, f2),
                          SharePriceNow)
      <4>1. f2 \in 0 .. (FEE_PRECISION - 1)
        BY RoundingConstantsAssumption
      <4>2. Taxed(totalStaked, f2) <= Taxed(totalStaked, fee)
        BY <3>3, <4>1, TaxedAntitoneInFee
      <4>3. D \in Nat
        BY PriceConstantsAssumption, SMT
      <4>4. QED
        BY <3>1, <4>1, <4>2, <4>3, PriceLeqSameDen DEF SharePriceNow
    <3>4. QED
      BY <3>2, <3>3 DEF PriceMonotone
  <2>3. QED
    BY <2>1, <2>2
<1>2. QED
  BY <1>1, TypeCorrect, PTL

=============================================================================
