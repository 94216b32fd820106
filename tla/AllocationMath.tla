---------------------------- MODULE AllocationMath ----------------------------
(***************************************************************************)
(* The pure arithmetic of allocations (types.rs Allocation, internal.rs    *)
(* calculate_updated_allocation and internal_calculate_distribution_amount, *)
(* the or_insert_with branch of lib.rs allocate): an allocation records    *)
(* the NEAR committed to a recipient and the share price it was committed  *)
(* at, and its distribution amount is the shares that NEAR cost at that    *)
(* price minus the shares it costs at the global price.                    *)
(***************************************************************************)
EXTENDS SharePrice

(* types.rs Allocation; an absent allocation is one of zero NEAR, which    *)
(* allocate and deallocate never leave behind.                             *)
NoAllocation == [near_amount |-> 0, share_price_num |-> 0, share_price_denom |-> 0]

Exists(a) == a.near_amount # 0

AllocationPrice(a) == [num |-> a.share_price_num, den |-> a.share_price_denom]

(* lib.rs allocate, or_insert_with: a new allocation records the global   *)
(* price as it is.                                                         *)
NewAllocation(amount, g) ==
    [near_amount |-> amount, share_price_num |-> g.num, share_price_denom |-> g.den]

(* Fault model: the merged allocation keeps only the new amount.           *)
CalculateUpdatedAllocationOverwriting(existing, amount, g) ==
    [near_amount |-> amount,
     share_price_num |-> amount * SHARE_PRICE_SCALING_FACTOR,
     share_price_denom |-> MulDivWithRounding(amount, g.den, PriceUnits(g), FALSE)]

(* internal.rs calculate_updated_allocation: the NEAR amounts add up, and  *)
(* the denominator is the sum of the shares each part bought at its price, *)
(* both rounded down.                                                      *)
CalculateUpdatedAllocation(existing, amount, g) ==
    [near_amount |-> existing.near_amount + amount,
     share_price_num |-> (existing.near_amount + amount) * SHARE_PRICE_SCALING_FACTOR,
     share_price_denom |->
        MulDivWithRounding(existing.near_amount, existing.share_price_denom,
                           PriceUnits(AllocationPrice(existing)), FALSE)
        + MulDivWithRounding(amount, g.den, PriceUnits(g), FALSE)]

(* The two divisions of internal_calculate_distribution_amount.           *)
SharesAtAllocation(a) == ConvertToShares(a.near_amount, AllocationPrice(a), FALSE)
SharesAtPrice(a, g) == ConvertToShares(a.near_amount, g, FALSE)

(* internal_calculate_distribution_amount: a U256 subtraction, which      *)
(* panics when the allocation needs more shares at the global price than  *)
(* it did at its own.                                                      *)
CalculateDistributionAmount(a, g) == SharesAtAllocation(a) - SharesAtPrice(a, g)

DistributionDefined(a, g) ==
    /\ SharesDefined(AllocationPrice(a))
    /\ SharesDefined(g)
    /\ SharesAtAllocation(a) >= SharesAtPrice(a, g)

(* The no-op test of internal_distribute: the integer quotients of the two *)
(* prices are equal (a U256 division; a zero denominator panics).          *)
SamePrice(a, g) == a.share_price_num \div a.share_price_denom = g.num \div g.den

=============================================================================
