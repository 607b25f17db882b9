-------------------------------- MODULE Positions --------------------------------
(***************************************************************************)
(* What fractionalizer and secondary_market see of one financing pool: who *)
(* holds which share of it, whether it is closed, what was repaid, and the *)
(* tokens in everybody's account.  FinancingPool models the pool itself.   *)
(***************************************************************************)
EXTENDS Integers

CONSTANTS
  Investor,
  Vault, Fees, \* the accounts of the fractionalizer and the treasury
  Initial,     \* [Investor -> basis points]: the positions at first
  Cash         \* tokens every investor starts with

VARIABLES
  position, \* share_bps of each holder; 0 where there is no position
  repaid,   \* repaid_amount once the pool is closed; -1 before
  cash

poolVars == <<position, repaid, cash>>

Account == Investor \cup {Vault, Fees}

PoolInit ==
  /\ position = [a \in Account |-> IF a \in Investor THEN Initial[a] ELSE 0]
  /\ repaid = -1
  /\ cash = [a \in Account |-> IF a \in Investor THEN Cash ELSE 0]

Closed == repaid # -1

(* Mutant: whatever is at the old key is moved.                            *)
MoveAny(from, to) ==
  /\ from # to /\ ~Closed
  /\ position' = [position EXCEPT ![to] = position[from], ![from] = 0]

(* What was at the new key is overwritten.                                 *)
TransferPosition(from, to) ==
  /\ from # to
  /\ ~Closed
  /\ position[from] > 0
  /\ position' = [position EXCEPT ![to] = position[from], ![from] = 0]

(* The pool closes and pays every holder.                                  *)
ClosePool(amount) ==
  /\ ~Closed
  /\ repaid' = amount
  /\ cash' = [a \in Account |-> cash[a] + (amount * position[a]) \div 10000]
  /\ UNCHANGED position

(* Somebody sends tokens to the fractionalizer's account.                  *)
Donate(amount) ==
  /\ cash' = [cash EXCEPT ![Vault] = @ + amount]
  /\ UNCHANGED <<position, repaid>>
=============================================================================
