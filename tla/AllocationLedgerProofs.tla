------------------------ MODULE AllocationLedgerProofs ------------------------
(***************************************************************************)
(* Proofs about the allocation ledger (AllocationLedger.tla) for every     *)
(* value of its constants: the totals internal_share_price reads stay      *)
(* natural numbers with a fee below FEE_PRECISION, and the global share    *)
(* price never falls in a step that does not raise the fee.               *)
(*                                                                         *)
(* The balances and allocations are left out of the inductive invariant:  *)
(* distribute_all folds internal_distribute over the recipients, and what  *)
(* such a fold returns cannot be proved for every list (see README).      *)
(***************************************************************************)
EXTENDS AllocationLedger, SharePriceLemmas, TLAPS

(* The inputs of internal_share_price are well typed. *)
PriceInputsOK ==
    /\ totalStaked \in Nat
    /\ taxExemptStake \in Nat
    /\ totalSupply \in Nat
    /\ fee \in 0 .. (FEE_PRECISION - 1)

(* The totals the price is computed from. *)
TotalsUnchanged == UNCHANGED <<totalStaked, taxExemptStake, fee, totalSupply>>

-----------------------------------------------------------------------------
(* The global price is a price; at a price where convert_to_shares does    *)
(* not divide by zero, the shares of a natural amount are a natural.       *)
LEMMA GlobalPriceTyped ==
    ASSUME PriceInputsOK
    PROVE  GlobalPrice \in Price
BY PriceWellFormed DEF PriceInputsOK, GlobalPrice

LEMMA SharesAtGlobalPrice ==
    ASSUME PriceInputsOK, NEW x \in Nat, SharesDefined(GlobalPrice)
    PROVE  ConvertToShares(x, GlobalPrice, FALSE) \in Nat
<1> USE PriceConstantsAssumption
<1>1. GlobalPrice \in Price
  BY GlobalPriceTyped
<1>2. PriceUnits(GlobalPrice) \in Nat \ {0}
  BY <1>1, SMT DEF SharesDefined, PriceUnits, Price
<1>3. GlobalPrice.den \in Nat
  BY <1>1 DEF Price
<1>4. QED
  BY <1>2, <1>3, MulDivDown DEF ConvertToShares

(* The allocation calls and the distributions leave the totals alone.     *)
LEMMA UserCallsKeepTotals ==
    ASSUME NEW u \in Users
    PROVE  /\ \A r \in Recipients, a \in Amounts :
                 Allocate(u, r, a) \/ Deallocate(u, r, a) => TotalsUnchanged
           /\ \A r \in Recipients, inNear \in BOOLEAN :
                 DistributeRewards(u, r, inNear) => TotalsUnchanged
           /\ \A inNear \in BOOLEAN : DistributeAll(u, inNear) => TotalsUnchanged
<1>1. \A r \in Recipients, a \in Amounts :
          Allocate(u, r, a) \/ Deallocate(u, r, a) => TotalsUnchanged
  BY DEF Allocate, Deallocate, TotalsUnchanged
<1>2. \A r \in Recipients, inNear \in BOOLEAN :
          DistributeRewards(u, r, inNear) => TotalsUnchanged
  BY DEF DistributeRewards, TotalsUnchanged
<1>3. \A inNear \in BOOLEAN : DistributeAll(u, inNear) => TotalsUnchanged
  BY DEF DistributeAll, TotalsUnchanged
<1>4. QED
  BY <1>1, <1>2, <1>3

(* So do the owner's and the agents' calls other than set_fee.             *)
LEMMA AdminCallsKeepTotals ==
    /\ \A f \in FeeValues : SetDistributionFee(f) => TotalsUnchanged
    /\ Pause \/ Unpause => TotalsUnchanged
    /\ \A u \in Users, s \in Statuses : SetUserStatus(u, s) => TotalsUnchanged
BY DEF SetDistributionFee, Pause, Unpause, SetUserStatus, TotalsUnchanged

(* A step either leaves the totals alone or is a deposit, a reward, a fee  *)
(* collection or set_fee.                                                  *)
LEMMA NextCases ==
    [Next]_vars => \/ TotalsUnchanged
                   \/ \E u \in Users, a \in Amounts : Deposit(u, a)
                   \/ Reward
                   \/ CollectFees
                   \/ \E f \in FeeValues : SetFee(f)
<1> SUFFICES ASSUME [Next]_vars,
                    ~\E u \in Users, a \in Amounts : Deposit(u, a),
                    ~\E f \in FeeValues : SetFee(f),
                    ~Reward, ~CollectFees
             PROVE  TotalsUnchanged
  OBVIOUS
<1>1. CASE UNCHANGED vars
  BY <1>1 DEF vars, TotalsUnchanged
<1>2. CASE UserStep
  <2>1. PICK u \in Users :
          \/ \E a \in Amounts : Deposit(u, a)
          \/ \E r \in Recipients, a \in Amounts : Allocate(u, r, a) \/ Deallocate(u, r, a)
          \/ \E r \in Recipients, inNear \in BOOLEAN : DistributeRewards(u, r, inNear)
          \/ \E inNear \in BOOLEAN : DistributeAll(u, inNear)
    BY <1>2 DEF UserStep
  <2>2. QED
    BY <2>1, UserCallsKeepTotals
<1>3. CASE AdminStep
  <2>1. \/ \E f \in FeeValues : SetFee(f) \/ SetDistributionFee(f)
        \/ Pause \/ Unpause
        \/ \E u \in Users, s \in Statuses : SetUserStatus(u, s)
    BY <1>3 DEF AdminStep
  <2>2. QED
    BY <2>1, AdminCallsKeepTotals
<1>4. QED
  BY <1>1, <1>2, <1>3 DEF Next

-----------------------------------------------------------------------------
(* The totals stay natural numbers and the fee stays in the values         *)
(* set_fee accepts: a deposit and a fee collection add shares computed by  *)
(* convert_to_shares, which the guard SharesDefined keeps from dividing by *)
(* zero.                                                                   *)
LEMMA PriceInputsInit ==
    Init => PriceInputsOK
BY PriceConstantsAssumption, SMT DEF Init, PriceInputsOK

LEMMA PriceInputsStep ==
    PriceInputsOK /\ [Next]_vars => PriceInputsOK'
<1> SUFFICES ASSUME PriceInputsOK, [Next]_vars PROVE PriceInputsOK'
  OBVIOUS
<1> USE AllocationConstantsAssumption
<1>1. CASE TotalsUnchanged
  BY <1>1 DEF PriceInputsOK, TotalsUnchanged
<1>2. ASSUME NEW u \in Users, NEW a \in Amounts, Deposit(u, a)
      PROVE  PriceInputsOK'
  <2> DEFINE sh == ConvertToShares(a, GlobalPrice, FALSE)
  <2>1. sh \in Nat /\ a \in Nat
    BY <1>2, SharesAtGlobalPrice DEF Deposit
  <2>2. /\ totalSupply' = totalSupply + sh
        /\ totalStaked' = totalStaked + a
        /\ taxExemptStake' = taxExemptStake + a
        /\ fee' = fee
    BY <1>2 DEF Deposit
  <2> HIDE DEF sh
  <2>3. QED
    BY <2>1, <2>2 DEF PriceInputsOK
<1>3. CASE Reward
  BY <1>3 DEF Reward, PriceInputsOK
<1>4. CASE CollectFees
  <2> DEFINE fn == MulDivWithRounding(CheckedSub(totalStaked, taxExemptStake), fee,
                                      FEE_PRECISION, FALSE)
  <2>1. fn \in Nat
    <3>1. CheckedSub(totalStaked, taxExemptStake) \in Nat /\ fee \in Nat
      BY DEF PriceInputsOK, CheckedSub
    <3>2. QED
      BY <3>1, PriceConstantsAssumption, MulDivDown
  <2> DEFINE sh == ConvertToShares(fn, GlobalPrice, FALSE)
  <2>2. sh \in Nat
    BY <1>4, <2>1, SharesAtGlobalPrice DEF CollectFees
  <2>3. /\ totalSupply' = totalSupply + sh
        /\ taxExemptStake' = totalStaked
        /\ UNCHANGED <<totalStaked, fee>>
    BY <1>4 DEF CollectFees
  <2> HIDE DEF fn, sh
  <2>4. QED
    BY <2>2, <2>3 DEF PriceInputsOK
<1>5. ASSUME NEW f \in FeeValues, SetFee(f)
      PROVE  PriceInputsOK'
  BY <1>5 DEF SetFee, PriceInputsOK
<1>6. QED
  BY <1>1, <1>2, <1>3, <1>4, <1>5, NextCases

(* Spec => []PriceInputsOK *)
THEOREM PriceInputsInvariant ==
    Spec => []PriceInputsOK
BY PriceInputsInit, PriceInputsStep, PTL DEF Spec

-----------------------------------------------------------------------------
(* The step relation of PriceFallsOnlyWithFee, for the steps Next allows. *)
PriceStep == fee' <= fee => PriceLeq(GlobalPrice, GlobalPrice')

(* In every step from a state with well-typed totals the price rises or    *)
(* stays, unless the fee rises: a deposit and a fee collection mint shares *)
(* rounded down at a price no higher than what they add, a reward raises   *)
(* total_staked, a lower fee taxes less, and every other call leaves the   *)
(* totals, hence the price, as they were.                                  *)
LEMMA PriceStepHolds ==
    PriceInputsOK /\ [Next]_vars => PriceStep
<1> SUFFICES ASSUME PriceInputsOK, [Next]_vars PROVE PriceStep
  OBVIOUS
<1> USE AllocationConstantsAssumption
<1>0. GlobalPrice = InternalSharePrice(totalStaked, totalSupply, taxExemptStake, fee)
      /\ GlobalPrice' = InternalSharePrice(totalStaked', totalSupply', taxExemptStake', fee')
  BY DEF GlobalPrice
<1>1. CASE TotalsUnchanged
  <2>1. GlobalPrice' = GlobalPrice
    BY <1>0, <1>1 DEF TotalsUnchanged
  <2>2. QED
    BY <2>1, GlobalPriceTyped, PriceLeqRefl DEF PriceStep
<1>2. ASSUME NEW u \in Users, NEW a \in Amounts, Deposit(u, a)
      PROVE  PriceStep
  <2>1. /\ SharesDefined(GlobalPrice)
        /\ totalSupply' = totalSupply + ConvertToShares(a, GlobalPrice, FALSE)
        /\ totalStaked' = totalStaked + a
        /\ taxExemptStake' = taxExemptStake + a
        /\ fee' = fee
    BY <1>2 DEF Deposit
  <2>2. PriceLeq(GlobalPrice,
                 InternalSharePrice(totalStaked + a,
                                    totalSupply + ConvertToShares(a, GlobalPrice, FALSE),
                                    taxExemptStake + a, fee))
    BY <1>0, <2>1, DepositPriceLeq DEF PriceInputsOK
  <2>3. QED
    BY <1>0, <2>1, <2>2 DEF PriceStep
<1>3. CASE Reward
  <2>1. /\ totalStaked' = totalStaked + 1
        /\ UNCHANGED <<taxExemptStake, fee, totalSupply>>
    BY <1>3 DEF Reward
  <2>2. PriceLeq(InternalSharePrice(totalStaked, totalSupply, taxExemptStake, fee),
                 InternalSharePrice(totalStaked + 1, totalSupply, taxExemptStake, fee))
    BY PriceMonotoneInStake DEF PriceInputsOK
  <2>3. QED
    BY <1>0, <2>1, <2>2 DEF PriceStep
<1>4. CASE CollectFees
  <2> DEFINE fn == MulDivWithRounding(CheckedSub(totalStaked, taxExemptStake), fee,
                                      FEE_PRECISION, FALSE)
  <2>1. /\ SharesDefined(GlobalPrice)
        /\ totalSupply' = totalSupply + ConvertToShares(fn, GlobalPrice, FALSE)
        /\ taxExemptStake' = totalStaked
        /\ UNCHANGED <<totalStaked, fee>>
    BY <1>4 DEF CollectFees
  <2>2. PriceLeq(GlobalPrice,
                 InternalSharePrice(totalStaked,
                                    totalSupply + ConvertToShares(fn, GlobalPrice, FALSE),
                                    totalStaked, fee))
    BY <1>0, <2>1, FeeMintPriceLeq DEF PriceInputsOK
  <2>3. QED
    BY <1>0, <2>1, <2>2 DEF PriceStep
<1>5. ASSUME NEW f \in FeeValues, SetFee(f)
      PROVE  PriceStep
  <2>1. fee' = f /\ UNCHANGED <<totalStaked, taxExemptStake, totalSupply>>
    BY <1>5 DEF SetFee
  <2>2. SUFFICES ASSUME f <= fee
                 PROVE  PriceLeq(GlobalPrice, GlobalPrice')
    BY <2>1 DEF PriceStep
  <2>3. PriceLeq(InternalSharePrice(totalStaked, totalSupply, taxExemptStake, fee),
                 InternalSharePrice(totalStaked, totalSupply, taxExemptStake, f))
    BY <2>2, PriceAntitoneInFee DEF PriceInputsOK
  <2>4. QED
    BY <1>0, <2>1, <2>3
<1>6. QED
  BY <1>1, <1>2, <1>3, <1>4, <1>5, NextCases

(* The global share price falls only when the owner raises the fee: the    *)
(* action property PriceFallsOnlyWithFee that the allocation run checks,   *)
(* for every value of the constants.                                       *)
THEOREM PriceFallsOnlyWithFeeHolds ==
    Spec => PriceFallsOnlyWithFee
<1>1. PriceInputsOK /\ [Next]_vars => [PriceStep]_vars
  BY PriceStepHolds
<1>2. QED
  BY <1>1, PriceInputsInvariant, PTL DEF Spec, PriceFallsOnlyWithFee, PriceStep

-----------------------------------------------------------------------------
(* Refinement of AllocationCommitments, step by step, for the steps that   *)
(* do not pay a distribution.  Each is proved from a state of TypeOK (the  *)
(* type invariant the allocation run checks).                              *)

(* The commitment each allocation stands for: the refinement mapping.      *)
committedBar == [u \in Users |-> [r \in Recipients |-> allocations[u][r].near_amount]]

(* The initial ledger is an initial state of the commitments.              *)
LEMMA InitRefines ==
    Init => Commitments!Init
<1> SUFFICES ASSUME Init PROVE Commitments!Init
  OBVIOUS
<1>1. committedBar = [u \in Users |-> [r \in Recipients |-> 0]]
  BY DEF Init, committedBar, NoAllocation
<1>2. QED
  BY <1>1 DEF Init, Commitments!Init, committedBar, Accounts, Commitments!Accounts

(* lib.rs allocate commits at least ONE_NEAR more: a new allocation starts *)
(* from none, and calculate_updated_allocation adds the NEAR amounts.      *)
LEMMA AllocateRefines ==
    ASSUME TypeOK, NEW u \in Users, NEW r \in Recipients, NEW a \in Amounts,
           Allocate(u, r, a)
    PROVE  Commitments!Commit(u, r)
<1> USE AllocationConstantsAssumption
<1>1. allocations'[u][r].near_amount >= allocations[u][r].near_amount + ONE_NEAR
  <2>1. CASE Exists(allocations[u][r])
    <3>0. allocations' = [allocations EXCEPT ![u][r] =
                            CalculateUpdatedAllocation(allocations[u][r], a, GlobalPrice)]
      BY <2>1 DEF Allocate
    <3>1. allocations'[u][r].near_amount = allocations[u][r].near_amount + a
      BY <3>0 DEF TypeOK, CalculateUpdatedAllocation
    <3>2. QED
      BY <3>1 DEF Allocate, TypeOK, Allocation
  <2>2. CASE ~Exists(allocations[u][r])
    <3>1. allocations'[u][r].near_amount = a /\ allocations[u][r].near_amount = 0
      BY <2>2 DEF Allocate, TypeOK, NewAllocation, Exists
    <3>2. QED
      BY <3>1 DEF Allocate
  <2>3. QED
    BY <2>1, <2>2
<1>2. \A v \in Users, s \in Recipients :
          <<v, s>> # <<u, r>> => allocations'[v][s] = allocations[v][s]
  BY DEF Allocate, TypeOK
<1>3. QED
  BY <1>1, <1>2
  DEF Allocate, CanCall, Commitments!Commit, Commitments!Active,
      Commitments!OnlyCommitment

(* lib.rs deallocate leaves the commitment at zero or at ONE_NEAR or more  *)
(* below what it was; deallocating nothing changes no commitment.         *)
LEMMA DeallocateRefines ==
    ASSUME TypeOK, NEW u \in Users, NEW r \in Recipients, NEW a \in Amounts,
           Deallocate(u, r, a)
    PROVE  \/ Commitments!Decommit(u, r)
           \/ UNCHANGED Commitments!vars
<1> USE AllocationConstantsAssumption
<1> DEFINE old == allocations[u][r].near_amount
<1>1. old \in Nat /\ old # 0 /\ a <= old
  BY DEF Deallocate, TypeOK, Allocation, Exists
<1>2. \A v \in Users, s \in Recipients :
          <<v, s>> # <<u, r>> => allocations'[v][s] = allocations[v][s]
  BY DEF Deallocate, TypeOK
<1>3. UNCHANGED <<balance, totalSupply, status, isPaused>> /\ CanCall(u)
  BY DEF Deallocate
<1>4. CASE old - a = 0
  <2>1. allocations'[u][r].near_amount = 0
    BY <1>4 DEF Deallocate, TypeOK, NoAllocation
  <2>2. QED
    BY <1>1, <1>2, <1>3, <2>1
    DEF Commitments!Decommit, Commitments!Active, CanCall, Commitments!OnlyCommitment
<1>5. CASE old - a # 0
  <2>0. /\ old - a >= ONE_NEAR
        /\ allocations' = [allocations EXCEPT ![u][r].near_amount = old - a]
    BY <1>5 DEF Deallocate
  <2>1. old - a >= ONE_NEAR /\ allocations'[u][r].near_amount = old - a
    BY <2>0 DEF TypeOK, Allocation
  <2>2. CASE a = 0
    <3>1. committedBar' = committedBar
      BY <1>1, <2>1, <2>2, <1>2 DEF committedBar
    <3>2. QED
      BY <1>3, <3>1 DEF Commitments!vars, committedBar
  <2>3. CASE a # 0
    <3>1. old - a \in ONE_NEAR .. (old - 1)
      BY <1>1, <2>1, <2>3
    <3>2. QED
      BY <1>1, <1>2, <1>3, <2>1, <3>1
      DEF Commitments!Decommit, Commitments!Active, CanCall, Commitments!OnlyCommitment
  <2>4. QED
    BY <2>2, <2>3
<1>6. QED
  BY <1>4, <1>5

(* A completed stake issues the deposit's shares to the depositor.         *)
LEMMA DepositRefines ==
    ASSUME TypeOK, NEW u \in Users, NEW a \in Amounts, Deposit(u, a)
    PROVE  Commitments!Issue(u)
<1> USE AllocationConstantsAssumption
<1> DEFINE sh == ConvertToShares(a, GlobalPrice, FALSE)
<1>1. sh \in Nat
  <2>1. PriceInputsOK
    BY PriceConstantsAssumption DEF TypeOK, PriceInputsOK
  <2>2. QED
    BY <2>1, SharesAtGlobalPrice DEF Deposit
<1>2. /\ balance' = [balance EXCEPT ![u] = @ + sh]
      /\ totalSupply' = totalSupply + sh
      /\ UNCHANGED <<allocations, status, isPaused>>
      /\ CanCall(u)
  BY DEF Deposit
<1> HIDE DEF sh
<1>3. u \in Accounts /\ balance[u] \in Nat
  BY DEF TypeOK, Accounts
<1>4. QED
  BY <1>1, <1>2, <1>3
  DEF Commitments!Issue, Commitments!Active, CanCall, TypeOK, Accounts, Commitments!Accounts

(* internal_collect_fees issues the fee shares to the treasury.            *)
LEMMA CollectFeesRefines ==
    ASSUME TypeOK, CollectFees
    PROVE  Commitments!Issue(Treasury)
<1> USE AllocationConstantsAssumption
<1> DEFINE fn == MulDivWithRounding(CheckedSub(totalStaked, taxExemptStake), fee,
                                    FEE_PRECISION, FALSE)
           sh == ConvertToShares(fn, GlobalPrice, FALSE)
<1>1. sh \in Nat
  <2>1. PriceInputsOK
    BY PriceConstantsAssumption DEF TypeOK, PriceInputsOK
  <2>2. fn \in Nat
    <3>1. CheckedSub(totalStaked, taxExemptStake) \in Nat /\ fee \in Nat
      BY <2>1 DEF PriceInputsOK, CheckedSub
    <3>2. QED
      BY <3>1, PriceConstantsAssumption, MulDivDown
  <2>3. QED
    BY <2>1, <2>2, SharesAtGlobalPrice DEF CollectFees
<1>2. /\ balance' = [balance EXCEPT ![Treasury] = @ + sh]
      /\ totalSupply' = totalSupply + sh
      /\ UNCHANGED <<allocations, status, isPaused>>
      /\ ~isPaused
  BY DEF CollectFees
<1> HIDE DEF sh, fn
<1>3. Treasury \in Accounts /\ balance[Treasury] \in Nat /\ Treasury \notin Users
  BY DEF TypeOK, Accounts
<1>4. QED
  BY <1>1, <1>2, <1>3
  DEF Commitments!Issue, TypeOK, Accounts, Commitments!Accounts

(* Rewards, the fee setters, pausing and the whitelist touch no            *)
(* commitment, balance or supply.                                          *)
LEMMA GovernRefines ==
    ASSUME [Next]_vars, ~UserStep, ~CollectFees
    PROVE  \/ Commitments!Govern
           \/ UNCHANGED Commitments!vars
<1>1. UNCHANGED <<allocations, balance, totalSupply>>
  BY DEF Next, AdminStep, Reward, SetFee, SetDistributionFee, Pause, Unpause,
         SetUserStatus, vars
<1>2. QED
  BY <1>1 DEF Commitments!Govern, committedBar

(* Every step of the ledger that does not pay a distribution              *)
(* (distribute_rewards, distribute_all) is a step of AllocationCommitments *)
(* under the mapping committedBar, or leaves its variables alone.  The     *)
(* payments keep the sum of the balances, a fold over the accounts that    *)
(* the provers cannot reason about: the allocation run checks them.        *)
THEOREM CommitmentStepsRefine ==
    ASSUME TypeOK, [Next]_vars,
           ~\E u \in Users, r \in Recipients, inNear \in BOOLEAN :
                DistributeRewards(u, r, inNear),
           ~\E u \in Users, inNear \in BOOLEAN : DistributeAll(u, inNear)
    PROVE  [Commitments!Next]_Commitments!vars
<1>1. ASSUME NEW u \in Users, NEW r \in Recipients, NEW a \in Amounts,
             Allocate(u, r, a) \/ Deallocate(u, r, a)
      PROVE  [Commitments!Next]_Commitments!vars
  BY <1>1, AllocateRefines, DeallocateRefines DEF Commitments!Next
<1>2. ASSUME NEW u \in Users, NEW a \in Amounts, Deposit(u, a)
      PROVE  [Commitments!Next]_Commitments!vars
  BY <1>2, DepositRefines DEF Commitments!Next
<1>3. CASE CollectFees
  BY <1>3, CollectFeesRefines, AllocationConstantsAssumption DEF Commitments!Next
<1>4. CASE ~UserStep /\ ~CollectFees
  BY <1>4, GovernRefines DEF Commitments!Next
<1>5. QED
  BY <1>1, <1>2, <1>3, <1>4 DEF UserStep
=============================================================================
