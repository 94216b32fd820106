--------------------------- MODULE AllocationProofs ---------------------------
(***************************************************************************)
(* Proofs about the allocation arithmetic (AllocationMath), for every      *)
(* value of FEE_PRECISION and SHARE_PRICE_SCALING_FACTOR:                  *)
(*   - convert_to_shares never asks for more shares at a higher price;     *)
(*   - every price internal_share_price returns is a whole number of       *)
(*     scaled units, so the division by the scaling factor is exact;       *)
(*   - hence an allocation created by allocate at a global price can be    *)
(*     distributed at every global price at least as high: the U256        *)
(*     subtraction of internal_calculate_distribution_amount cannot        *)
(*     underflow.  The underflow TLC finds (run alloc_underflow) needs an  *)
(*     allocation merged by calculate_updated_allocation, whose rounded    *)
(*     denominator is not a global price.                                  *)
(***************************************************************************)
EXTENDS AllocationMath, SharePriceLemmas, TLAPS

-----------------------------------------------------------------------------
(* Floor division is antitone in the divisor's rate: if m/d <= n/e then    *)
(* x*e/n <= x*d/m, both rounded down.                                      *)
LEMMA FloorDivAntitone ==
    ASSUME NEW x \in Nat, NEW m \in Nat \ {0}, NEW n \in Nat \ {0},
           NEW d \in Nat \ {0}, NEW e \in Nat \ {0},
           m * e <= n * d
    PROVE  (x * e) \div n <= (x * d) \div m
<1> DEFINE q == (x * e) \div n
           r == (x * d) \div m
<1>1. q \in Nat /\ q * n <= x * e
  BY SMT
<1>2. r \in Nat /\ x * d < r * m + m
  BY SMT
<1> HIDE DEF q, r
<1>3. (q * m) * n <= (x * e) * m
  BY <1>1, SMT
<1>4. (x * e) * m <= (x * d) * n
  BY SMT
<1>5. q * m <= x * d
  BY <1>1, <1>3, <1>4, SMT
<1>6. q * m < r * m + m
  <2> DEFINE qm == q * m
             xd == x * d
             rm == r * m
  <2>1. qm \in Nat /\ xd \in Nat /\ rm \in Nat /\ qm <= xd /\ xd < rm + m
    BY <1>1, <1>2, <1>5
  <2> HIDE DEF qm, xd, rm
  <2>2. qm < rm + m
    BY <2>1, SMT
  <2>3. QED
    BY <2>2 DEF qm, rm
<1>7. q <= r
  BY <1>1, <1>2, <1>6, LtCancel
<1>8. QED
  BY <1>7 DEF q, r

(* internal_share_price returns a price whose numerator is its units times *)
(* the scaling factor: share_price_num / SHARE_PRICE_SCALING_FACTOR in     *)
(* convert_to_shares loses nothing.                                        *)
LEMMA GlobalPriceScaled ==
    ASSUME NEW ts \in Nat, NEW s \in Nat, NEW tx \in Nat,
           NEW f \in 0 .. (FEE_PRECISION - 1)
    PROVE  LET p == InternalSharePrice(ts, s, tx, f)
           IN  /\ p \in Price
               /\ p.num = PriceUnits(p) * SHARE_PRICE_SCALING_FACTOR
<1> USE PriceConstantsAssumption
<1>1. InternalSharePrice(ts, s, tx, f) \in Price
  BY PriceWellFormed
<1>2. CASE s = 0
  BY <1>1, <1>2, SMT DEF InternalSharePrice, PriceUnits, Price
<1>3. CASE s # 0
  <2> DEFINE t == ts * FEE_PRECISION - CheckedSub(ts, tx) * f
  <2>1. t \in Nat
    BY TaxedNat
  <2>2. InternalSharePrice(ts, s, tx, f)
          = [num |-> t * SHARE_PRICE_SCALING_FACTOR, den |-> s * FEE_PRECISION]
    BY <1>3, PriceForm
  <2>3. (t * SHARE_PRICE_SCALING_FACTOR) \div SHARE_PRICE_SCALING_FACTOR = t
    BY <2>1, PriceUnitsExact
  <2> HIDE DEF t
  <2>4. QED
    BY <1>1, <2>2, <2>3 DEF PriceUnits
<1>4. QED
  BY <1>1, <1>2, <1>3

(* For two scaled prices, p <= g as rationals compares their units.        *)
LEMMA ScaledPriceLeq ==
    ASSUME NEW p \in Price, NEW g \in Price,
           p.num = PriceUnits(p) * SHARE_PRICE_SCALING_FACTOR,
           g.num = PriceUnits(g) * SHARE_PRICE_SCALING_FACTOR,
           PriceLeq(p, g)
    PROVE  PriceUnits(p) * g.den <= PriceUnits(g) * p.den
<1> USE PriceConstantsAssumption
<1> DEFINE a == PriceUnits(p)
           b == PriceUnits(g)
<1>1. a \in Nat /\ b \in Nat
  BY SMT DEF PriceUnits, Price
<1>2. (a * SHARE_PRICE_SCALING_FACTOR) * g.den <= (b * SHARE_PRICE_SCALING_FACTOR) * p.den
  BY DEF PriceLeq
<1>3. a * g.den \in Nat /\ b * p.den \in Nat
  BY <1>1 DEF Price
<1> HIDE DEF a, b
<1>4. (a * g.den) * SHARE_PRICE_SCALING_FACTOR <= (b * p.den) * SHARE_PRICE_SCALING_FACTOR
  BY <1>1, <1>2, SMT DEF Price
<1> DEFINE X == a * g.den
           Y == b * p.den
<1> HIDE DEF X, Y
<1>5. X * SHARE_PRICE_SCALING_FACTOR
        < Y * SHARE_PRICE_SCALING_FACTOR + SHARE_PRICE_SCALING_FACTOR
  BY <1>3, <1>4, SMT DEF X, Y
<1>6. QED
  BY <1>3, <1>5, LtCancel DEF X, Y, a, b

-----------------------------------------------------------------------------
(* An allocation that allocate creates at the global price p (the         *)
(* or_insert_with branch) can be distributed at every later global price g *)
(* that is at least p: the shares its NEAR cost at p are at least the      *)
(* shares it costs at g, so internal_calculate_distribution_amount does    *)
(* not underflow.  Only a rise of the price (rewards) is distributed; a    *)
(* fall, as a fee raised by set_fee makes, is not covered.                 *)
THEOREM NewAllocationDistributable ==
    ASSUME NEW nearAmount \in Nat,
           NEW ts1 \in Nat, NEW s1 \in Nat, NEW tx1 \in Nat,
           NEW f1 \in 0 .. (FEE_PRECISION - 1),
           NEW ts2 \in Nat, NEW s2 \in Nat, NEW tx2 \in Nat,
           NEW f2 \in 0 .. (FEE_PRECISION - 1),
           SharesDefined(InternalSharePrice(ts1, s1, tx1, f1)),
           SharesDefined(InternalSharePrice(ts2, s2, tx2, f2)),
           PriceLeq(InternalSharePrice(ts1, s1, tx1, f1),
                    InternalSharePrice(ts2, s2, tx2, f2))
    PROVE  DistributionDefined(NewAllocation(nearAmount, InternalSharePrice(ts1, s1, tx1, f1)),
                               InternalSharePrice(ts2, s2, tx2, f2))
<1> DEFINE p == InternalSharePrice(ts1, s1, tx1, f1)
           g == InternalSharePrice(ts2, s2, tx2, f2)
           a == NewAllocation(nearAmount, p)
<1> SUFFICES DistributionDefined(a, g)
  OBVIOUS
<1>1. p \in Price /\ p.num = PriceUnits(p) * SHARE_PRICE_SCALING_FACTOR
  BY GlobalPriceScaled
<1>2. g \in Price /\ g.num = PriceUnits(g) * SHARE_PRICE_SCALING_FACTOR
  BY GlobalPriceScaled
<1>0. SharesDefined(p) /\ SharesDefined(g) /\ PriceLeq(p, g)
  OBVIOUS
<1> HIDE DEF p, g
<1>3. AllocationPrice(a) = p
  BY <1>1 DEF a, NewAllocation, AllocationPrice, Price
<1>4. PriceUnits(p) \in Nat \ {0} /\ PriceUnits(g) \in Nat \ {0}
  BY <1>0, <1>1, <1>2, PriceConstantsAssumption, SMT DEF SharesDefined, PriceUnits, Price
<1>5. PriceUnits(p) * g.den <= PriceUnits(g) * p.den
  BY <1>0, <1>1, <1>2, ScaledPriceLeq
<1>6. (nearAmount * g.den) \div PriceUnits(g) <= (nearAmount * p.den) \div PriceUnits(p)
  BY <1>1, <1>2, <1>4, <1>5, FloorDivAntitone DEF Price
<1>7. SharesAtAllocation(a) = MulDivWithRounding(nearAmount, p.den, PriceUnits(p), FALSE)
  BY <1>3 DEF SharesAtAllocation, ConvertToShares, a, NewAllocation
<1>8. SharesAtPrice(a, g) = MulDivWithRounding(nearAmount, g.den, PriceUnits(g), FALSE)
  BY DEF SharesAtPrice, ConvertToShares, a, NewAllocation
<1>9. SharesAtAllocation(a) >= SharesAtPrice(a, g)
  BY <1>6, <1>7, <1>8 DEF MulDivWithRounding
<1>10. QED
  BY <1>0, <1>3, <1>9 DEF DistributionDefined
=============================================================================
