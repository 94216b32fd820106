--------------------------- MODULE AllocationLedger ---------------------------
(***************************************************************************)
(* The allocation and distribution engine of the near-staker contract     *)
(* (lib.rs allocate, deallocate, distribute_rewards, distribute_all and    *)
(* internal.rs internal_distribute, calculate_updated_allocation,          *)
(* internal_calculate_distribution_amount), together with the whitelist   *)
(* (whitelist.rs) and the pause switch that gate every user call.          *)
(*                                                                         *)
(* The engine reads the global share price and moves TruNEAR shares.  The  *)
(* settlement protocol that moves the price is modelled in NearStaker.tla; *)
(* here each of its price-moving effects is one atomic step: a completed   *)
(* stake (finalize_deposit_and_stake on success), a reward observed by     *)
(* update_total_staked, a fee collection and the owner's fee setters.      *)
(* NEAR that a distribution pays out comes from the attached deposit and   *)
(* is not held by the contract, so it is not part of the state.           *)
(***************************************************************************)
EXTENDS AllocationMath, Integers, SequencesExt, FiniteSets

CONSTANTS
    Users,            \* whitelisted-capable accounts that stake and allocate
    Recipients,       \* accounts that allocations point to
    Treasury,         \* receives fee shares and distribution fees
    ONE_NEAR,         \* constants.rs ONE_NEAR: the smallest allocation
    Amounts,          \* NEAR amounts of stakes and (de)allocations
    FeeValues,        \* fees and distribution fees the owner may set
    MaxReward,        \* bound on the rewards the pools accrue
    MaxExtraDeposit   \* attached NEAR above what distribute_all requires

ASSUME AllocationConstantsAssumption ==
    /\ ONE_NEAR \in Nat \ {0}
    /\ Amounts \subseteq Nat
    /\ FeeValues \subseteq 0 .. (FEE_PRECISION - 1)
    /\ MaxReward \in Nat
    /\ MaxExtraDeposit \in Nat
    /\ Treasury \notin Users \cup Recipients

Accounts == Users \cup Recipients \cup {Treasury}

(* whitelist.rs UserStatus *)
Statuses == {"no_status", "whitelisted", "blacklisted"}

VARIABLES
    totalStaked,      \* total_staked
    taxExemptStake,   \* tax_exempt_stake
    fee,              \* fee
    distributionFee,  \* distribution_fee
    balance,          \* token.accounts
    totalSupply,      \* token.total_supply
    allocations,      \* allocations: allocator -> recipient -> Allocation
    status,           \* whitelist.users
    isPaused,         \* is_paused
    rewarded          \* rewards accrued so far (bounded by MaxReward)

vars == <<totalStaked, taxExemptStake, fee, distributionFee, balance,
          totalSupply, allocations, status, isPaused, rewarded>>

GlobalPrice == InternalSharePrice(totalStaked, totalSupply, taxExemptStake, fee)

Transfer(bal, from, to, amount) ==
    [bal EXCEPT ![from] = @ - amount, ![to] = @ + amount]

(* Fault model: a withdrawal that does not check the balance.              *)
CanWithdrawUnchecked(bal, from, amount) == TRUE

(* near_contract_standards internal_withdraw, called by internal_transfer: *)
(* it panics unless the sender holds the amount.                           *)
CanWithdraw(bal, from, amount) == bal[from] >= amount

DistributionFees(shares) == (shares * distributionFee) \div FEE_PRECISION

(* The NEAR a distribution pays out: the shares left after the fee,        *)
(* converted at the global price and rounded down.                         *)
NearPayout(a, g) ==
    ConvertToAssets(CalculateDistributionAmount(a, g)
                    - DistributionFees(CalculateDistributionAmount(a, g)), g, FALSE)

(***************************************************************************)
(* internal.rs internal_distribute for one recipient, as a function of the *)
(* ledger state it reads and writes: st.bal the share balances, st.allocs  *)
(* the distributor's allocations, st.refund the NEAR still attached.  The  *)
(* result's status is "none" (prices equal), "ok", "err" (an Err, returned *)
(* after the fee has been transferred) or "panic".                         *)
(***************************************************************************)
InternalDistribute(st, u, r, g, inNear) ==
    LET a          == st.allocs[r]
        dist       == CalculateDistributionAmount(a, g)
        fees       == DistributionFees(dist)
        shares     == dist - fees
        charged    == IF fees > 0 THEN Transfer(st.bal, u, Treasury, fees) ELSE st.bal
        nearAmount == NearPayout(a, g)
        reset      == [a EXCEPT !.share_price_num = g.num, !.share_price_denom = g.den]
    IN  CASE a.share_price_denom = 0           -> [st EXCEPT !.status = "panic"]
          [] SamePrice(a, g)                   -> [st EXCEPT !.status = "none"]
          [] ~DistributionDefined(a, g)        -> [st EXCEPT !.status = "panic"]
          [] ~CanWithdraw(st.bal, u, fees)     -> [st EXCEPT !.status = "panic"]
          [] inNear /\ nearAmount > st.refund  -> [st EXCEPT !.bal = charged, !.status = "err"]
          [] inNear -> [st EXCEPT !.bal = charged, !.refund = @ - nearAmount,
                                  !.allocs[r] = reset, !.status = "ok"]
          [] shares > charged[u]               -> [st EXCEPT !.bal = charged, !.status = "err"]
          [] shares = 0                        -> [st EXCEPT !.status = "panic"]
          [] OTHER -> [st EXCEPT !.bal = Transfer(charged, u, r, shares),
                                 !.allocs[r] = reset, !.status = "ok"]

-----------------------------------------------------------------------------
(* The checks every user entry point starts with.                          *)
CanCall(u) == ~isPaused /\ status[u] = "whitelisted"

RecipientsOf(u) == {r \in Recipients : Exists(allocations[u][r])}

(* lib.rs allocate: a new allocation records the global price, an          *)
(* existing one is merged with calculate_updated_allocation.  The storage  *)
(* deposit and the refund are NEAR outside the ledger.                     *)
Allocate(u, r, amount) ==
    /\ CanCall(u)
    /\ r # u
    /\ amount >= ONE_NEAR
    /\ LET g == GlobalPrice
           a == allocations[u][r]
       IN  IF Exists(a)
           THEN /\ SharesDefined(AllocationPrice(a)) /\ SharesDefined(g)
                /\ allocations' = [allocations EXCEPT ![u][r] =
                                     CalculateUpdatedAllocation(a, amount, g)]
           ELSE allocations' = [allocations EXCEPT ![u][r] = NewAllocation(amount, g)]
    /\ UNCHANGED <<totalStaked, taxExemptStake, fee, distributionFee, balance,
                   totalSupply, status, isPaused, rewarded>>

(* lib.rs deallocate: the allocation is removed when it reaches zero, and  *)
(* must otherwise keep at least ONE_NEAR.                                  *)
Deallocate(u, r, amount) ==
    /\ CanCall(u)
    /\ Exists(allocations[u][r])
    /\ amount <= allocations[u][r].near_amount
    /\ LET remaining == allocations[u][r].near_amount - amount
       IN  IF remaining = 0
           THEN allocations' = [allocations EXCEPT ![u][r] = NoAllocation]
           ELSE /\ remaining >= ONE_NEAR
                /\ allocations' = [allocations EXCEPT ![u][r].near_amount = remaining]
    /\ UNCHANGED <<totalStaked, taxExemptStake, fee, distributionFee, balance,
                   totalSupply, status, isPaused, rewarded>>

(* lib.rs distribute_rewards: one recipient; an Err panics (reverting the  *)
(* fee transfer) and "no rewards" refunds the deposit and changes nothing, *)
(* so only the success path is a step.  The attached deposit only has to   *)
(* cover the payout; what exceeds it is refunded.                          *)
DistributeRewards(u, r, inNear) ==
    /\ CanCall(u)
    /\ Exists(allocations[u][r])
    /\ LET g   == GlobalPrice
           out == InternalDistribute([bal |-> balance, allocs |-> allocations[u],
                                      refund |-> NearPayout(allocations[u][r], g),
                                      status |-> "start"], u, r, g, inNear)
       IN  /\ out.status = "ok"
           /\ balance' = out.bal
           /\ allocations' = [allocations EXCEPT ![u] = out.allocs]
    /\ UNCHANGED <<totalStaked, taxExemptStake, fee, distributionFee,
                   totalSupply, status, isPaused, rewarded>>

(* lib.rs get_rewards_distribution_amounts for every recipient: the sum of *)
(* the distribution amounts, without the no-op test, so that any           *)
(* allocation whose subtraction underflows makes the view panic.  In NEAR  *)
(* the TruNEAR required is the fee on the sum and the NEAR required is the *)
(* rest of the sum converted to NEAR.                                      *)
RequiredShares(u, g) ==
    MapThenSumSet(LAMBDA r : CalculateDistributionAmount(allocations[u][r], g),
                  RecipientsOf(u))

RequiredTrunear(u, g, inNear) ==
    IF inNear THEN DistributionFees(RequiredShares(u, g)) ELSE RequiredShares(u, g)

RequiredNear(u, g, inNear) ==
    IF inNear
    THEN ConvertToAssets(RequiredShares(u, g) - DistributionFees(RequiredShares(u, g)),
                         g, FALSE)
    ELSE 0

(* lib.rs distribute_all: after the required amounts are checked, each     *)
(* recipient of the distributor's HashMap, in its unspecified iteration    *)
(* order, goes through internal_distribute with the NEAR left over from    *)
(* the previous ones; an Err is logged and the loop goes on.  A            *)
(* distributor without recipients changes nothing.                         *)
DistributeAll(u, inNear) ==
    /\ CanCall(u)
    /\ RecipientsOf(u) # {}
    /\ LET g == GlobalPrice
           Step(st, r) == IF st.status = "panic" THEN st
                          ELSE InternalDistribute(st, u, r, g, inNear)
       IN  /\ \A r \in RecipientsOf(u) : DistributionDefined(allocations[u][r], g)
           /\ balance[u] >= RequiredTrunear(u, g, inNear)
           /\ \E attached \in RequiredNear(u, g, inNear)
                            .. RequiredNear(u, g, inNear) + MaxExtraDeposit,
                 order \in SetToSeqs(RecipientsOf(u)) :
                 LET final == FoldLeft(Step, [bal |-> balance, allocs |-> allocations[u],
                                              refund |-> attached, status |-> "start"],
                                       order)
                 IN  /\ final.status # "panic"
                     /\ balance' = final.bal
                     /\ allocations' = [allocations EXCEPT ![u] = final.allocs]
    /\ UNCHANGED <<totalStaked, taxExemptStake, fee, distributionFee,
                   totalSupply, status, isPaused, rewarded>>

-----------------------------------------------------------------------------
(* The price-moving effects of the settlement protocol (NearStaker.tla),   *)
(* each as one step.                                                       *)

(* Fault model: deposit shares rounded up.                                *)
DepositRoundingUp(u, amount) ==
    /\ CanCall(u)
    /\ amount >= ONE_NEAR
    /\ SharesDefined(GlobalPrice)
    /\ balance' = [balance EXCEPT ![u] = @ + ConvertToShares(amount, GlobalPrice, TRUE)]
    /\ totalSupply' = totalSupply + ConvertToShares(amount, GlobalPrice, TRUE)
    /\ totalStaked' = totalStaked + amount
    /\ taxExemptStake' = taxExemptStake + amount
    /\ UNCHANGED <<fee, distributionFee, allocations, status, isPaused, rewarded>>

(* stake followed by the success path of finalize_deposit_and_stake:      *)
(* shares minted at the price before the deposit, rounded down.  The      *)
(* minimum deposit is at least ONE_NEAR (set_min_deposit).                 *)
Deposit(u, amount) ==
    /\ CanCall(u)
    /\ amount >= ONE_NEAR
    /\ SharesDefined(GlobalPrice)
    /\ balance' = [balance EXCEPT ![u] = @ + ConvertToShares(amount, GlobalPrice, FALSE)]
    /\ totalSupply' = totalSupply + ConvertToShares(amount, GlobalPrice, FALSE)
    /\ totalStaked' = totalStaked + amount
    /\ taxExemptStake' = taxExemptStake + amount
    /\ UNCHANGED <<fee, distributionFee, allocations, status, isPaused, rewarded>>

(* update_total_staked observing one more unit of staking rewards.        *)
Reward ==
    /\ ~isPaused
    /\ rewarded < MaxReward
    /\ totalStaked > 0
    /\ totalStaked' = totalStaked + 1
    /\ rewarded' = rewarded + 1
    /\ UNCHANGED <<taxExemptStake, fee, distributionFee, balance, totalSupply,
                   allocations, status, isPaused>>

(* collect_fees / internal_collect_fees: the fee on the stake above        *)
(* tax_exempt_stake is minted to the treasury at the current price.        *)
CollectFees ==
    /\ ~isPaused
    /\ SharesDefined(GlobalPrice)
    /\ LET taxable == CheckedSub(totalStaked, taxExemptStake)
           feeNear == MulDivWithRounding(taxable, fee, FEE_PRECISION, FALSE)
           shares  == ConvertToShares(feeNear, GlobalPrice, FALSE)
       IN  /\ shares > 0
           /\ balance' = [balance EXCEPT ![Treasury] = @ + shares]
           /\ totalSupply' = totalSupply + shares
           /\ taxExemptStake' = totalStaked
    /\ UNCHANGED <<totalStaked, fee, distributionFee, allocations, status,
                   isPaused, rewarded>>

-----------------------------------------------------------------------------
(* Owner and agent calls.  The owner is always an agent (is_agent), so     *)
(* check_agent never stops the owner: the set of agents (add_agent,        *)
(* remove_agent) decides who may call, never whether a call is possible,   *)
(* and is left out.                                                        *)

SetFee(f) ==
    /\ fee' = f
    /\ UNCHANGED <<totalStaked, taxExemptStake, distributionFee, balance,
                   totalSupply, allocations, status, isPaused, rewarded>>

SetDistributionFee(f) ==
    /\ distributionFee' = f
    /\ UNCHANGED <<totalStaked, taxExemptStake, fee, balance, totalSupply,
                   allocations, status, isPaused, rewarded>>

Pause ==
    /\ ~isPaused
    /\ isPaused' = TRUE
    /\ UNCHANGED <<totalStaked, taxExemptStake, fee, distributionFee, balance,
                   totalSupply, allocations, status, rewarded>>

Unpause ==
    /\ isPaused
    /\ isPaused' = FALSE
    /\ UNCHANGED <<totalStaked, taxExemptStake, fee, distributionFee, balance,
                   totalSupply, allocations, status, rewarded>>

(* whitelist.rs add_user_to_whitelist, add_user_to_blacklist and           *)
(* clear_user_status: each requires the status to change.                  *)
SetUserStatus(u, s) ==
    /\ status[u] # s
    /\ status' = [status EXCEPT ![u] = s]
    /\ UNCHANGED <<totalStaked, taxExemptStake, fee, distributionFee, balance,
                   totalSupply, allocations, isPaused, rewarded>>

-----------------------------------------------------------------------------
Init ==
    /\ totalStaked = 0
    /\ taxExemptStake = 0
    /\ fee = 0
    /\ distributionFee = 0
    /\ balance = [a \in Accounts |-> 0]
    /\ totalSupply = 0
    /\ allocations = [u \in Users |-> [r \in Recipients |-> NoAllocation]]
    /\ status = [u \in Users |-> "no_status"]
    /\ isPaused = FALSE
    /\ rewarded = 0

UserStep ==
    \E u \in Users :
        \/ \E a \in Amounts : Deposit(u, a)
        \/ \E r \in Recipients, a \in Amounts : Allocate(u, r, a) \/ Deallocate(u, r, a)
        \/ \E r \in Recipients, inNear \in BOOLEAN : DistributeRewards(u, r, inNear)
        \/ \E inNear \in BOOLEAN : DistributeAll(u, inNear)

AdminStep ==
    \/ \E f \in FeeValues : SetFee(f) \/ SetDistributionFee(f)
    \/ Pause \/ Unpause
    \/ \E u \in Users, s \in Statuses : SetUserStatus(u, s)

Next == UserStep \/ AdminStep \/ Reward \/ CollectFees

Spec == Init /\ [][Next]_vars

-----------------------------------------------------------------------------
(* Balances, allocations and statuses keep the shapes of the code's types. *)
Allocation == [near_amount : Nat, share_price_num : Nat, share_price_denom : Nat]

TypeOK ==
    /\ totalStaked \in Nat /\ taxExemptStake \in Nat
    /\ fee \in FeeValues \cup {0} /\ distributionFee \in FeeValues \cup {0}
    /\ balance \in [Accounts -> Nat]
    /\ totalSupply \in Nat
    /\ allocations \in [Users -> [Recipients -> Allocation]]
    /\ status \in [Users -> Statuses]
    /\ isPaused \in BOOLEAN
-----------------------------------------------------------------------------
(* Every allocation can be distributed: its stored price has a non-zero    *)
(* denominator and, unless its quotient equals the global one, it needed   *)
(* at least as many shares at its own price as at the global price, so     *)
(* the U256 subtraction of internal_calculate_distribution_amount does not *)
(* underflow.  Spec sections 4.3 and 9 require a distribution that is       *)
(* never negative (a saturating subtraction).                              *)
DistributionComputable ==
    \A u \in Users, r \in Recipients :
        LET a == allocations[u][r] IN
        Exists(a) =>
            /\ a.share_price_denom # 0
            /\ SamePrice(a, GlobalPrice) \/ DistributionDefined(a, GlobalPrice)

(* The recipients whose stored price a step reset without changing the     *)
(* NEAR they hold: the ones a distribution settled.                        *)
Settled(u) ==
    {r \in Recipients : /\ Exists(allocations[u][r])
                        /\ allocations'[u][r] # allocations[u][r]
                        /\ allocations'[u][r].near_amount = allocations[u][r].near_amount}

(* A distributor pays, in shares and fees, only for recipients it settles: *)
(* no step takes more TruNEAR from a distributor than the distribution     *)
(* amounts of the allocations it resets.  distribute_all transfers a        *)
(* recipient's fee before it finds the NEAR attached short, and goes on.    *)
DistributorChargedOnlyForSettled ==
    [][\A u \in Users :
          balance[u] - balance'[u]
            <= MapThenSumSet(LAMBDA r : CalculateDistributionAmount(allocations[u][r],
                                                                    GlobalPrice),
                             Settled(u))]_vars
(* The global share price falls only when the owner raises the fee: a     *)
(* deposit mints its shares rounded down at the price before it, a fee     *)
(* collection mints the treasury's shares at the price net of the fee, a   *)
(* reward raises total_staked, and no allocation call or distribution      *)
(* touches the totals.  An allocation's distribution amount is a            *)
(* subtraction that underflows when the price falls below the one it was   *)
(* recorded at.                                                            *)
PriceFallsOnlyWithFee ==
    [][fee' <= fee => PriceLeq(GlobalPrice, GlobalPrice')]_vars

-----------------------------------------------------------------------------
(* The allocation engine implements AllocationCommitments when each        *)
(* allocation is read as the NEAR it commits.                              *)
Commitments == INSTANCE AllocationCommitments
    WITH committed <- [u \in Users |-> [r \in Recipients |-> allocations[u][r].near_amount]]

(* Every step of allocate, deallocate, distribute_rewards, distribute_all, *)
(* the deposits, fee collections, owner and agent calls is a step of the   *)
(* commitment specification or leaves its variables alone: commitments     *)
(* only grow by at least ONE_NEAR or shrink to zero or ONE_NEAR, and a     *)
(* distribution only moves the distributor's own shares to its recipients  *)
(* and the treasury, keeping the sum of balances equal to the supply.      *)
CommitmentsSpec == Commitments!Spec
====
