------------------------- MODULE AllocationCommitments -------------------------
(***************************************************************************)
(* What the allocation engine promises, without prices or rounding: a     *)
(* whitelisted user commits NEAR to recipients and withdraws it again,     *)
(* leaving each commitment either gone or at least ONE_NEAR, and pays      *)
(* distributions by moving its own TruNEAR to its recipients and the       *)
(* treasury.  Shares are only created by issuance to one account, and the  *)
(* balances always add up to the supply.                                   *)
(*                                                                         *)
(* AllocationLedger implements this specification under the mapping that  *)
(* takes each allocation to its near_amount (MCAllocationLedger).          *)
(***************************************************************************)
EXTENDS Naturals, Functions

CONSTANTS Users, Recipients, Treasury, ONE_NEAR

VARIABLES
    committed,    \* user -> recipient -> NEAR committed (0: none)
    balance,      \* account -> TruNEAR shares
    totalSupply,
    status,       \* user -> whitelist status
    isPaused

vars == <<committed, balance, totalSupply, status, isPaused>>

Accounts == Users \cup Recipients \cup {Treasury}

Active(u) == ~isPaused /\ status[u] = "whitelisted"

SumOfBalances(b) == FoldFunction(+, 0, b)

Init ==
    /\ committed = [u \in Users |-> [r \in Recipients |-> 0]]
    /\ balance = [a \in Accounts |-> 0]
    /\ totalSupply = 0
    /\ status = [u \in Users |-> "no_status"]
    /\ isPaused = FALSE

(* Only the commitment of u to r changes.                                  *)
OnlyCommitment(u, r) ==
    \A v \in Users, s \in Recipients :
        <<v, s>> # <<u, r>> => committed'[v][s] = committed[v][s]

(* u commits at least ONE_NEAR more to r.                                  *)
Commit(u, r) ==
    /\ Active(u)
    /\ committed'[u][r] >= committed[u][r] + ONE_NEAR
    /\ OnlyCommitment(u, r)
    /\ UNCHANGED <<balance, totalSupply, status, isPaused>>

(* u withdraws part of its commitment to r, leaving none or ONE_NEAR.      *)
Decommit(u, r) ==
    /\ Active(u)
    /\ committed'[u][r] \in {0} \cup (ONE_NEAR .. (committed[u][r] - 1))
    /\ OnlyCommitment(u, r)
    /\ UNCHANGED <<balance, totalSupply, status, isPaused>>

(* u pays out of its own balance to the recipients it has commitments to  *)
(* and to the treasury; no share is created or destroyed.                  *)
Pay(u) ==
    LET payees == {r \in Recipients : committed[u][r] > 0} \cup {Treasury} IN
    /\ Active(u)
    /\ balance'[u] <= balance[u]
    /\ \A a \in payees : balance'[a] >= balance[a]
    /\ \A a \in Accounts \ (payees \cup {u}) : balance'[a] = balance[a]
    /\ SumOfBalances(balance') = SumOfBalances(balance)
    /\ UNCHANGED <<committed, totalSupply, status, isPaused>>

(* New shares are issued to one account: a depositing active user or the  *)
(* treasury.                                                               *)
Issue(a) ==
    /\ ~isPaused
    /\ a \in Users => Active(a)
    /\ balance'[a] >= balance[a]
    /\ \A b \in Accounts \ {a} : balance'[b] = balance[b]
    /\ totalSupply' = totalSupply + (balance'[a] - balance[a])
    /\ UNCHANGED <<committed, status, isPaused>>

(* The owner and the agents change statuses and pause the contract.        *)
Govern ==
    /\ UNCHANGED <<committed, balance, totalSupply>>

Next ==
    \/ \E u \in Users, r \in Recipients : Commit(u, r) \/ Decommit(u, r)
    \/ \E u \in Users : Pay(u)
    \/ \E a \in Users \cup {Treasury} : Issue(a)
    \/ Govern

Spec == Init /\ [][Next]_vars

(* The balances add up to the supply.                                      *)
SupplyConserved == SumOfBalances(balance) = totalSupply
=============================================================================
