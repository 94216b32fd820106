--------------------------- MODULE SharePriceLemmas ---------------------------
(***************************************************************************)
(* Facts about the share-price engine (SharePrice.tla) that hold for every *)
(* value of FEE_PRECISION and SHARE_PRICE_SCALING_FACTOR, stated over the  *)
(* operators alone so that every module reasoning about prices can cite    *)
(* them: the bounds of mul_div_with_rounding, the round trip, and the      *)
(* shape and monotonicity of internal_share_price.                         *)
(***************************************************************************)
EXTENDS SharePrice, TLAPS

-----------------------------------------------------------------------------
(* Arithmetic facts the provers need spelled out *)

(* q * d < (v + 1) * d  implies  q <= v, for a positive d *)
LEMMA LtCancel ==
    ASSUME NEW q \in Nat, NEW v \in Nat, NEW d \in Nat \ {0},
           q * d < v * d + d
    PROVE  q <= v
<1> SUFFICES ASSUME q > v PROVE FALSE
  OBVIOUS
<1>1. q * d >= (v + 1) * d
  BY SMT
<1>2. QED
  BY <1>1, SMT

(* Chaining a strict and a weak bound, with products kept as atoms *)
LEMMA LtChain ==
    ASSUME NEW m \in Nat, NEW n \in Nat, NEW k \in Nat, NEW e \in Nat,
           m < n + e, n <= k
    PROVE  m < k + e
OBVIOUS

(* math.rs mul_div_with_rounding rounding down: result * d <= x * y *)
LEMMA MulDivDown ==
    ASSUME NEW x \in Nat, NEW y \in Nat, NEW d \in Nat \ {0}
    PROVE  /\ MulDivWithRounding(x, y, d, FALSE) \in Nat
           /\ MulDivWithRounding(x, y, d, FALSE) * d <= x * y
BY SMT DEF MulDivWithRounding

(* math.rs mul_div_with_rounding rounding up: result * d < x * y + d *)
LEMMA MulDivUp ==
    ASSUME NEW x \in Nat, NEW y \in Nat, NEW d \in Nat \ {0}
    PROVE  /\ MulDivWithRounding(x, y, d, TRUE) \in Nat
           /\ MulDivWithRounding(x, y, d, TRUE) * d < x * y + d
BY SMT DEF MulDivWithRounding

(* Converting with one rounding down and back with one rounding up, for    *)
(* any positive price units u and denominator e, never gains.              *)
LEMMA RoundTripBound ==
    ASSUME NEW v \in Nat, NEW u \in Nat \ {0}, NEW e \in Nat \ {0}
    PROVE  MulDivWithRounding(MulDivWithRounding(v, e, u, FALSE), u, e, TRUE) <= v
<1> DEFINE s == MulDivWithRounding(v, e, u, FALSE)
           a == MulDivWithRounding(s, u, e, TRUE)
<1>1. s \in Nat /\ s * u <= v * e
  BY MulDivDown
<1>2. a \in Nat /\ a * e < s * u + e
  BY <1>1, MulDivUp
<1> HIDE DEF s, a
<1>3. a * e < v * e + e
  BY <1>1, <1>2, SMT
<1>4. a <= v
  BY <1>2, <1>3, LtCancel
<1>5. QED
  BY <1>4 DEF a, s

-----------------------------------------------------------------------------
(* The price *)

(* For every fee set_fee accepts, the taxed total of internal_share_price *)
(* is a natural number: the fee taken from the taxable stake never exceeds *)
(* the stake, so the u128 subtraction cannot underflow.                    *)
LEMMA TaxedNat ==
    ASSUME NEW ts \in Nat, NEW tx \in Nat, NEW f \in 0 .. (FEE_PRECISION - 1)
    PROVE  ts * FEE_PRECISION - CheckedSub(ts, tx) * f \in Nat
<1> USE PriceConstantsAssumption
<1>1. CheckedSub(ts, tx) \in 0 .. ts
  BY DEF CheckedSub
<1>2. CheckedSub(ts, tx) * f <= ts * f
  BY <1>1, SMT
<1>3. ts * f <= ts * FEE_PRECISION
  BY SMT
<1>4. QED
  BY <1>1, <1>2, <1>3, SMT

(* With shares outstanding the price is the taxed total over the supply.  *)
LEMMA PriceForm ==
    ASSUME NEW ts, NEW s, NEW tx, NEW f, s # 0
    PROVE  InternalSharePrice(ts, s, tx, f)
             = [num |-> (ts * FEE_PRECISION - CheckedSub(ts, tx) * f)
                          * SHARE_PRICE_SCALING_FACTOR,
                den |-> s * FEE_PRECISION]
BY DEF InternalSharePrice

(* internal_share_price returns a price with a natural numerator and a     *)
(* positive denominator.                                                   *)
LEMMA PriceWellFormed ==
    ASSUME NEW ts \in Nat, NEW s \in Nat, NEW tx \in Nat,
           NEW f \in 0 .. (FEE_PRECISION - 1)
    PROVE  InternalSharePrice(ts, s, tx, f) \in Price
<1> USE PriceConstantsAssumption
<1>1. CASE s = 0
  BY <1>1 DEF InternalSharePrice, Price
<1>2. CASE s # 0
  <2>1. ts * FEE_PRECISION - CheckedSub(ts, tx) * f \in Nat
    BY TaxedNat
  <2>2. QED
    BY <1>2, <2>1, PriceForm, SMT DEF Price
<1>3. QED
  BY <1>1, <1>2

(* The numerator divided by the scaling factor is the taxed total itself.  *)
LEMMA PriceUnitsExact ==
    ASSUME NEW n \in Nat
    PROVE  (n * SHARE_PRICE_SCALING_FACTOR) \div SHARE_PRICE_SCALING_FACTOR = n
BY PriceConstantsAssumption, SMT

(* Two prices over the same denominator compare as their taxed totals.     *)
LEMMA PriceLeqSameDen ==
    ASSUME NEW a \in Nat, NEW b \in Nat, NEW d \in Nat, a <= b
    PROVE  PriceLeq([num |-> a * SHARE_PRICE_SCALING_FACTOR, den |-> d],
                    [num |-> b * SHARE_PRICE_SCALING_FACTOR, den |-> d])
<1> USE PriceConstantsAssumption
<1>1. a * SHARE_PRICE_SCALING_FACTOR <= b * SHARE_PRICE_SCALING_FACTOR
  BY SMT
<1>2. (a * SHARE_PRICE_SCALING_FACTOR) * d <= (b * SHARE_PRICE_SCALING_FACTOR) * d
  BY <1>1, SMT
<1>3. QED
  BY <1>2 DEF PriceLeq

(* The price with no shares is fixed, so it compares equal to itself.      *)
LEMMA PriceNoShares ==
    ASSUME NEW ts1, NEW ts2, NEW tx, NEW f1, NEW f2
    PROVE  PriceLeq(InternalSharePrice(ts1, 0, tx, f1), InternalSharePrice(ts2, 0, tx, f2))
BY PriceConstantsAssumption, SMT DEF InternalSharePrice, PriceLeq

(* Rewards: one more unit of total_staked raises the taxed total by at     *)
(* least FEE_PRECISION - fee, since at most one more unit is taxable.      *)
LEMMA TaxedMonotoneInStake ==
    ASSUME NEW ts \in Nat, NEW tx \in Nat, NEW f \in 0 .. (FEE_PRECISION - 1)
    PROVE  ts * FEE_PRECISION - CheckedSub(ts, tx) * f
             <= (ts + 1) * FEE_PRECISION - CheckedSub(ts + 1, tx) * f
<1> USE PriceConstantsAssumption
<1>1. CheckedSub(ts + 1, tx) \in Nat /\ CheckedSub(ts, tx) \in Nat
      /\ CheckedSub(ts + 1, tx) <= CheckedSub(ts, tx) + 1
  BY DEF CheckedSub
<1>2. CheckedSub(ts + 1, tx) * f <= CheckedSub(ts, tx) * f + f
  BY <1>1, SMT
<1>3. (ts + 1) * FEE_PRECISION = ts * FEE_PRECISION + FEE_PRECISION
  BY SMT
<1>4. QED
  BY <1>1, <1>2, <1>3, SMT

(* A larger fee takes more of the same taxable amount.                     *)
LEMMA TaxedAntitoneInFee ==
    ASSUME NEW ts \in Nat, NEW tx \in Nat, NEW f \in Nat, NEW f2 \in Nat, f <= f2
    PROVE  ts * FEE_PRECISION - CheckedSub(ts, tx) * f2
             <= ts * FEE_PRECISION - CheckedSub(ts, tx) * f
<1> USE PriceConstantsAssumption
<1>1. CheckedSub(ts, tx) \in Nat
  BY DEF CheckedSub
<1>2. CheckedSub(ts, tx) * f <= CheckedSub(ts, tx) * f2
  BY <1>1, SMT
<1>3. QED
  BY <1>1, <1>2, SMT

-----------------------------------------------------------------------------
(* How each step of the staker moves internal_share_price.                 *)

(* A product grows with either factor.                                     *)
LEMMA MulMonotone ==
    ASSUME NEW x \in Nat, NEW y \in Nat, NEW k \in Nat, x <= y
    PROVE  x * k <= y * k
BY SMT

(* A price is at most itself.                                              *)
LEMMA PriceLeqRefl ==
    ASSUME NEW p \in Price
    PROVE  PriceLeq(p, p)
BY DEF PriceLeq, Price

(* update_total_staked: one more unit of total_staked never lowers the     *)
(* price.                                                                  *)
LEMMA PriceMonotoneInStake ==
    ASSUME NEW ts \in Nat, NEW s \in Nat, NEW tx \in Nat,
           NEW f \in 0 .. (FEE_PRECISION - 1)
    PROVE  PriceLeq(InternalSharePrice(ts, s, tx, f), InternalSharePrice(ts + 1, s, tx, f))
<1>1. CASE s = 0
  BY <1>1, PriceNoShares
<1>2. CASE s # 0
  <2> DEFINE t1 == ts * FEE_PRECISION - CheckedSub(ts, tx) * f
             t2 == (ts + 1) * FEE_PRECISION - CheckedSub(ts + 1, tx) * f
  <2>1. t1 \in Nat /\ t2 \in Nat
    <3>1. t1 \in Nat
      BY TaxedNat
    <3>2. t2 \in Nat
      BY ts + 1 \in Nat, TaxedNat
    <3>3. QED
      BY <3>1, <3>2
  <2>2. t1 <= t2
    BY TaxedMonotoneInStake
  <2>3. /\ InternalSharePrice(ts, s, tx, f)
             = [num |-> t1 * SHARE_PRICE_SCALING_FACTOR, den |-> s * FEE_PRECISION]
        /\ InternalSharePrice(ts + 1, s, tx, f)
             = [num |-> t2 * SHARE_PRICE_SCALING_FACTOR, den |-> s * FEE_PRECISION]
    BY <1>2, PriceForm
  <2> HIDE DEF t1, t2
  <2>4. PriceLeq([num |-> t1 * SHARE_PRICE_SCALING_FACTOR, den |-> s * FEE_PRECISION],
                 [num |-> t2 * SHARE_PRICE_SCALING_FACTOR, den |-> s * FEE_PRECISION])
    <3>1. s * FEE_PRECISION \in Nat
      BY PriceConstantsAssumption
    <3>2. QED
      BY <2>1, <2>2, <3>1, PriceLeqSameDen
  <2>5. QED
    BY <2>3, <2>4
<1>3. QED
  BY <1>1, <1>2

(* set_fee with a fee no larger never lowers the price.                    *)
LEMMA PriceAntitoneInFee ==
    ASSUME NEW ts \in Nat, NEW s \in Nat, NEW tx \in Nat,
           NEW f \in 0 .. (FEE_PRECISION - 1), NEW f2 \in 0 .. (FEE_PRECISION - 1),
           f2 <= f
    PROVE  PriceLeq(InternalSharePrice(ts, s, tx, f), InternalSharePrice(ts, s, tx, f2))
<1>1. CASE s = 0
  BY <1>1, PriceNoShares
<1>2. CASE s # 0
  <2> DEFINE t1 == ts * FEE_PRECISION - CheckedSub(ts, tx) * f
             t2 == ts * FEE_PRECISION - CheckedSub(ts, tx) * f2
  <2>1. t1 \in Nat /\ t2 \in Nat
    BY TaxedNat
  <2>2. t1 <= t2
    BY TaxedAntitoneInFee
  <2>3. /\ InternalSharePrice(ts, s, tx, f)
             = [num |-> t1 * SHARE_PRICE_SCALING_FACTOR, den |-> s * FEE_PRECISION]
        /\ InternalSharePrice(ts, s, tx, f2)
             = [num |-> t2 * SHARE_PRICE_SCALING_FACTOR, den |-> s * FEE_PRECISION]
    BY <1>2, PriceForm
  <2> HIDE DEF t1, t2
  <2>4. PriceLeq([num |-> t1 * SHARE_PRICE_SCALING_FACTOR, den |-> s * FEE_PRECISION],
                 [num |-> t2 * SHARE_PRICE_SCALING_FACTOR, den |-> s * FEE_PRECISION])
    <3>1. s * FEE_PRECISION \in Nat
      BY PriceConstantsAssumption
    <3>2. QED
      BY <2>1, <2>2, <3>1, PriceLeqSameDen
  <2>5. QED
    BY <2>3, <2>4
<1>3. QED
  BY <1>1, <1>2

(* Minting m shares to a supply s with taxed total t, while the taxed     *)
(* total becomes t2, never lowers the price when t * (s + m) <= t2 * s:    *)
(* the new shares cost at least what they add to the supply.               *)
LEMMA MintCore ==
    ASSUME NEW t \in Nat, NEW s \in Nat, NEW m \in Nat, NEW t2 \in Nat,
           t * (s + m) <= t2 * s
    PROVE  PriceLeq([num |-> t * SHARE_PRICE_SCALING_FACTOR, den |-> s * FEE_PRECISION],
                    [num |-> t2 * SHARE_PRICE_SCALING_FACTOR, den |-> (s + m) * FEE_PRECISION])
<1> USE PriceConstantsAssumption
<1> DEFINE K == SHARE_PRICE_SCALING_FACTOR * FEE_PRECISION
<1>1. (t * SHARE_PRICE_SCALING_FACTOR) * ((s + m) * FEE_PRECISION) = (t * (s + m)) * K
  BY SMT
<1>2. (t2 * SHARE_PRICE_SCALING_FACTOR) * (s * FEE_PRECISION) = (t2 * s) * K
  BY SMT
<1>3. t * (s + m) \in Nat /\ t2 * s \in Nat /\ K \in Nat
  BY SMT
<1> HIDE DEF K
<1>4. (t * (s + m)) * K <= (t2 * s) * K
  BY <1>3, MulMonotone
<1>5. QED
  BY <1>1, <1>2, <1>4 DEF PriceLeq

(* Minting m shares when there were none, at the fixed price of one unit   *)
(* per share, never lowers the price when the taxed total covers them.     *)
LEMMA MintFromNoShares ==
    ASSUME NEW m \in Nat, NEW t2 \in Nat, m * FEE_PRECISION <= t2
    PROVE  PriceLeq([num |-> SHARE_PRICE_SCALING_FACTOR, den |-> 1],
                    [num |-> t2 * SHARE_PRICE_SCALING_FACTOR, den |-> m * FEE_PRECISION])
<1> USE PriceConstantsAssumption
<1>1. (m * FEE_PRECISION) * SHARE_PRICE_SCALING_FACTOR <= t2 * SHARE_PRICE_SCALING_FACTOR
  <2>1. m * FEE_PRECISION \in Nat
    BY SMT
  <2>2. QED
    BY <2>1, MulMonotone
<1>2. QED
  BY <1>1, SMT DEF PriceLeq

(* finalize_deposit_and_stake: shares minted for a deposit of a NEAR at   *)
(* the price before it, rounded down, with the deposit added to both       *)
(* total_staked and tax_exempt_stake, never lower the price.               *)
LEMMA DepositPriceLeq ==
    ASSUME NEW ts \in Nat, NEW s \in Nat, NEW tx \in Nat,
           NEW f \in 0 .. (FEE_PRECISION - 1), NEW a \in Nat,
           SharesDefined(InternalSharePrice(ts, s, tx, f))
    PROVE  LET p == InternalSharePrice(ts, s, tx, f)
           IN  PriceLeq(p, InternalSharePrice(ts + a, s + ConvertToShares(a, p, FALSE),
                                              tx + a, f))
<1> USE PriceConstantsAssumption
<1> DEFINE p  == InternalSharePrice(ts, s, tx, f)
           m  == ConvertToShares(a, p, FALSE)
           c  == CheckedSub(ts, tx)
           t  == ts * FEE_PRECISION - c * f
           t2 == (ts + a) * FEE_PRECISION - c * f
           q  == InternalSharePrice(ts + a, s + m, tx + a, f)
<1> SUFFICES PriceLeq(p, q)
  OBVIOUS
<1>1. c \in 0 .. ts /\ CheckedSub(ts + a, tx + a) = c
  BY DEF CheckedSub
<1>2. t \in Nat
  BY TaxedNat
<1>3. t2 = t + a * FEE_PRECISION
  BY <1>1, SMT
<1> HIDE DEF c, p, m, q
<1>4. CASE s = 0
  <2>1. p = [num |-> SHARE_PRICE_SCALING_FACTOR, den |-> 1] /\ m = a
    <3>1. /\ InternalSharePrice(ts, s, tx, f) = [num |-> SHARE_PRICE_SCALING_FACTOR, den |-> 1]
          /\ ConvertToShares(a, InternalSharePrice(ts, s, tx, f), FALSE) = a
      <4>1. InternalSharePrice(ts, s, tx, f) = [num |-> SHARE_PRICE_SCALING_FACTOR, den |-> 1]
        BY <1>4 DEF InternalSharePrice
      <4>2. PriceUnits([num |-> SHARE_PRICE_SCALING_FACTOR, den |-> 1]) = 1
        BY SMT DEF PriceUnits
      <4>3. QED
        BY <4>1, <4>2, SMT DEF ConvertToShares, MulDivWithRounding
    <3>2. QED
      BY <3>1 DEF p, m
  <2>2. CASE a = 0
    <3>1. q = [num |-> SHARE_PRICE_SCALING_FACTOR, den |-> 1]
      BY <1>4, <2>1, <2>2 DEF q, InternalSharePrice
    <3>2. QED
      BY <2>1, <3>1, SMT DEF PriceLeq
  <2>3. CASE a # 0
    <3>1. q = [num |-> t2 * SHARE_PRICE_SCALING_FACTOR, den |-> a * FEE_PRECISION]
      <4>1. s + m = a /\ a # 0
        BY <1>4, <2>1, <2>3
      <4>2. q = [num |-> ((ts + a) * FEE_PRECISION - CheckedSub(ts + a, tx + a) * f)
                           * SHARE_PRICE_SCALING_FACTOR,
                 den |-> (s + m) * FEE_PRECISION]
        BY <4>1, PriceForm DEF q
      <4>3. QED
        BY <1>1, <4>1, <4>2
    <3>2. t2 \in Nat /\ a * FEE_PRECISION <= t2
      BY <1>2, <1>3, SMT
    <3> HIDE DEF t2
    <3>3. QED
      BY <2>1, <3>1, <3>2, MintFromNoShares
  <2>4. QED
    BY <2>2, <2>3
<1>5. CASE s # 0
  <2>1. p = [num |-> t * SHARE_PRICE_SCALING_FACTOR, den |-> s * FEE_PRECISION]
    BY <1>5, PriceForm DEF c, p
  <2>2. PriceUnits(p) = t
    BY <1>2, <2>1, PriceUnitsExact DEF PriceUnits
  <2>3. t \in Nat \ {0}
    BY <1>2, <2>2 DEF SharesDefined, p
  <2>4. m \in Nat /\ m * t <= a * (s * FEE_PRECISION)
    <3>1. s * FEE_PRECISION \in Nat
      BY SMT
    <3>2. m = MulDivWithRounding(a, s * FEE_PRECISION, t, FALSE)
      BY <2>1, <2>2 DEF ConvertToShares, m
    <3> HIDE DEF t
    <3>3. QED
      BY <2>3, <3>1, <3>2, MulDivDown
  <2>5. q = [num |-> t2 * SHARE_PRICE_SCALING_FACTOR, den |-> (s + m) * FEE_PRECISION]
    <3>1. s + m # 0
      BY <1>5, <2>4
    <3>2. q = [num |-> ((ts + a) * FEE_PRECISION - CheckedSub(ts + a, tx + a) * f)
                         * SHARE_PRICE_SCALING_FACTOR,
               den |-> (s + m) * FEE_PRECISION]
      BY <3>1, PriceForm DEF q
    <3>3. QED
      BY <1>1, <3>2
  <2> HIDE DEF t, t2
  <2>6. t * (s + m) <= t2 * s /\ t2 \in Nat
    BY <1>3, <2>3, <2>4, SMT
  <2>7. QED
    BY <2>1, <2>3, <2>4, <2>5, <2>6, MintCore
<1>6. QED
  BY <1>4, <1>5

(* internal_collect_fees: the fee on the taxable stake, rounded down, is  *)
(* minted to the treasury at the price net of that fee, and the whole      *)
(* stake becomes tax exempt.  The price never falls: the fee shares cost   *)
(* at least what the fee took out of the price.                            *)
LEMMA FeeMintPriceLeq ==
    ASSUME NEW ts \in Nat, NEW s \in Nat, NEW tx \in Nat,
           NEW f \in 0 .. (FEE_PRECISION - 1),
           SharesDefined(InternalSharePrice(ts, s, tx, f))
    PROVE  LET p  == InternalSharePrice(ts, s, tx, f)
               fn == MulDivWithRounding(CheckedSub(ts, tx), f, FEE_PRECISION, FALSE)
           IN  PriceLeq(p, InternalSharePrice(ts, s + ConvertToShares(fn, p, FALSE), ts, f))
<1> USE PriceConstantsAssumption
<1> DEFINE p  == InternalSharePrice(ts, s, tx, f)
           c  == CheckedSub(ts, tx)
           fn == MulDivWithRounding(c, f, FEE_PRECISION, FALSE)
           m  == ConvertToShares(fn, p, FALSE)
           t  == ts * FEE_PRECISION - c * f
           t2 == ts * FEE_PRECISION
           q  == InternalSharePrice(ts, s + m, ts, f)
<1> SUFFICES PriceLeq(p, q)
  OBVIOUS
<1> HIDE DEF c, p, m, q, fn
<1>1. c \in 0 .. ts /\ CheckedSub(ts, ts) = 0
  BY DEF c, CheckedSub
<1>2. t \in Nat /\ t2 \in Nat
  BY TaxedNat DEF c
<1>3. fn \in Nat /\ fn * FEE_PRECISION <= c * f
  <2>1. c \in Nat /\ f \in Nat
    BY <1>1
  <2>2. /\ MulDivWithRounding(c, f, FEE_PRECISION, FALSE) \in Nat
        /\ MulDivWithRounding(c, f, FEE_PRECISION, FALSE) * FEE_PRECISION <= c * f
    BY <2>1, MulDivDown
  <2>3. QED
    BY <2>2 DEF fn
<1>4. t2 = t + c * f
  BY <1>1, SMT
<1>5. fn <= ts
  <2>1. c * f <= c * FEE_PRECISION
    BY <1>1, SMT
  <2>2. fn * FEE_PRECISION < c * FEE_PRECISION + FEE_PRECISION
    BY <1>1, <1>3, <2>1, SMT
  <2>3. fn <= c
    BY <1>1, <1>3, <2>2, LtCancel
  <2>4. QED
    BY <1>1, <1>3, <2>3, SMT
<1>6. s + m # 0 => q = [num |-> t2 * SHARE_PRICE_SCALING_FACTOR,
                        den |-> (s + m) * FEE_PRECISION]
  <2> HAVE s + m # 0
  <2>1. q = [num |-> (ts * FEE_PRECISION - CheckedSub(ts, ts) * f)
                       * SHARE_PRICE_SCALING_FACTOR,
             den |-> (s + m) * FEE_PRECISION]
    BY PriceForm DEF q
  <2>2. QED
    BY <1>1, <2>1, SMT
<1>7. CASE s = 0
  <2>1. p = [num |-> SHARE_PRICE_SCALING_FACTOR, den |-> 1]
    BY <1>7 DEF p, InternalSharePrice
  <2>2. m = fn
    <3>1. PriceUnits([num |-> SHARE_PRICE_SCALING_FACTOR, den |-> 1]) = 1
      BY SMT DEF PriceUnits
    <3>2. QED
      BY <1>3, <2>1, <3>1, SMT DEF m, ConvertToShares, MulDivWithRounding
  <2>3. CASE fn = 0
    <3>1. q = [num |-> SHARE_PRICE_SCALING_FACTOR, den |-> 1]
      BY <1>7, <2>2, <2>3 DEF q, InternalSharePrice
    <3>2. QED
      BY <2>1, <3>1, SMT DEF PriceLeq
  <2>4. CASE fn # 0
    <3>1. q = [num |-> t2 * SHARE_PRICE_SCALING_FACTOR, den |-> fn * FEE_PRECISION]
      BY <1>3, <1>6, <1>7, <2>2, <2>4
    <3>2. fn * FEE_PRECISION <= t2
      BY <1>3, <1>5, SMT
    <3> HIDE DEF t2
    <3>3. QED
      BY <1>2, <1>3, <2>1, <3>1, <3>2, MintFromNoShares
  <2>5. QED
    BY <2>3, <2>4
<1>8. CASE s # 0
  <2>1. p = [num |-> t * SHARE_PRICE_SCALING_FACTOR, den |-> s * FEE_PRECISION]
    BY <1>8, PriceForm DEF c, p
  <2>2. PriceUnits(p) = t
    BY <1>2, <2>1, PriceUnitsExact DEF PriceUnits
  <2>3. t \in Nat \ {0}
    BY <1>2, <2>2 DEF SharesDefined, p
  <2>4. m \in Nat /\ m * t <= fn * (s * FEE_PRECISION)
    <3>1. s * FEE_PRECISION \in Nat
      BY SMT
    <3>2. m = MulDivWithRounding(fn, s * FEE_PRECISION, t, FALSE)
      BY <2>1, <2>2 DEF ConvertToShares, m
    <3> HIDE DEF t
    <3>3. QED
      BY <1>3, <2>3, <3>1, <3>2, MulDivDown
  <2>5. q = [num |-> t2 * SHARE_PRICE_SCALING_FACTOR, den |-> (s + m) * FEE_PRECISION]
    BY <1>6, <1>8, <2>4
  <2> HIDE DEF t, t2
  <2>6. (fn * FEE_PRECISION) * s <= (c * f) * s
    <3>1. c * f \in Nat /\ fn * FEE_PRECISION \in Nat
      BY <1>1, <1>3, SMT
    <3>2. QED
      BY <1>3, <3>1, MulMonotone
  <2>7. t * (s + m) <= t2 * s
    BY <1>4, <2>3, <2>4, <2>6, <1>1, <1>3, SMT
  <2>8. QED
    BY <1>2, <2>1, <2>3, <2>4, <2>5, <2>7, MintCore
<1>9. QED
  BY <1>7, <1>8

=============================================================================
