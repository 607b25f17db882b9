----------------------------- MODULE Fractionalizer -----------------------------
(***************************************************************************)
(* contracts/fractionalizer: an investor's position of one pool is put in  *)
(* the contract's name and split into shares, which change hands and are   *)
(* redeemed for parts of the payout once the pool has closed.              *)
(***************************************************************************)
EXTENDS Positions, Sums

CONSTANTS
  ShareCounts,  \* total_shares investors ask for, amounts they transfer
  MaxShares     \* MAX_SHARES

VARIABLES
  wraps,      \* Wrap(investor); NoWrap where absent
  balances,   \* ShareBalance(investor, holder)
  claimed,    \* Claimed(investor, holder)
  halted,     \* access_control's pause flag
  booked, redeemed, \* history: payout at settlement, sum of what redeem paid
  wrappedOver \* history: investors whose record wrap overwrote

fracVars == <<wraps, balances, claimed, halted, booked, redeemed, wrappedOver>>
vars == <<poolVars, fracVars>>

NoWrap == [total |-> 0, outstanding |-> 0, payout |-> 0, settled |-> FALSE]

Init ==
  /\ wraps = [i \in Investor |-> NoWrap]
  /\ balances = [i \in Investor |-> [h \in Investor |-> 0]]
  /\ claimed = [i \in Investor |-> {}]
  /\ booked = [i \in Investor |-> 0] /\ redeemed = [i \in Investor |-> 0]
  /\ halted = FALSE /\ wrappedOver = {}

SetHalted(b) ==
  /\ halted' = b
  /\ UNCHANGED <<poolVars, wraps, balances, claimed, booked, redeemed, wrappedOver>>

(* A record that is there already is overwritten.                          *)
Wrap(i, n) ==
  /\ ~halted
  /\ n > 0 /\ n <= MaxShares
  /\ position[i] > 0
  /\ wraps' = [wraps EXCEPT ![i] = [total |-> n, outstanding |-> n, payout |-> 0, settled |-> FALSE]]
  /\ balances' = [balances EXCEPT ![i][i] = n]
  /\ wrappedOver' = IF wraps[i] = NoWrap THEN wrappedOver ELSE wrappedOver \cup {i}
  /\ TransferPosition(i, Vault)
  /\ UNCHANGED <<claimed, halted, booked, redeemed, repaid, cash>>

(* The receiver's balance is read after the sender's was written.          *)
Moved(b, from, to, n) == [[b EXCEPT ![from] = @ - n] EXCEPT ![to] = @ + n]

TransferShares(from, i, to, n) ==
  /\ n > 0
  /\ balances[i][from] >= n
  /\ balances' = [balances EXCEPT ![i] = Moved(@, from, to, n)]
  /\ UNCHANGED <<poolVars, wraps, claimed, halted, booked, redeemed, wrappedOver>>

(* The payout is computed from whatever position the contract holds now.   *)
Settle(i) ==
  LET payout == (repaid * position[Vault]) \div 10000
  IN /\ wraps[i] # NoWrap /\ ~wraps[i].settled
     /\ Closed
     /\ wraps' = [wraps EXCEPT ![i].payout = payout, ![i].settled = TRUE]
     /\ booked' = [booked EXCEPT ![i] = payout]
     /\ UNCHANGED <<poolVars, balances, claimed, halted, redeemed, wrappedOver>>

(* Mutant: the last one is paid what all would have been paid at first.    *)
LastGetsAll(w, n) == IF w.outstanding = n THEN w.payout + (w.payout * (w.total - n)) \div w.total
                     ELSE (w.payout * n) \div w.total

(* w.payout is what earlier redemptions left, w.total all shares ever.     *)
Payout(w, n) ==
  IF w.outstanding = n THEN w.payout - (w.payout * (w.total - n)) \div w.total
  ELSE (w.payout * n) \div w.total

Redeem(h, i) ==
  LET w == wraps[i]   n == balances[i][h]   pay == Payout(w, n)
  IN /\ w # NoWrap /\ w.settled
     /\ h \notin claimed[i]
     /\ n > 0 /\ n <= w.outstanding
     /\ cash[Vault] >= pay
     /\ claimed' = [claimed EXCEPT ![i] = @ \cup {h}]
     /\ balances' = [balances EXCEPT ![i][h] = 0]
     /\ wraps' = [wraps EXCEPT ![i].outstanding = @ - n, ![i].payout = @ - pay]
     /\ cash' = [cash EXCEPT ![Vault] = @ - pay, ![h] = @ + pay]
     /\ redeemed' = [redeemed EXCEPT ![i] = @ + pay]
     /\ UNCHANGED <<position, repaid, halted, booked, wrappedOver>>

Unwrap(i) ==
  /\ ~halted
  /\ wraps[i] # NoWrap
  /\ balances[i][i] = wraps[i].total
  /\ balances' = [balances EXCEPT ![i][i] = 0]
  /\ wraps' = [wraps EXCEPT ![i] = NoWrap]
  /\ TransferPosition(Vault, i)
  /\ UNCHANGED <<claimed, halted, booked, redeemed, wrappedOver, repaid, cash>>

Next ==
  \/ \E b \in BOOLEAN : SetHalted(b)
  \/ \E i \in Investor, n \in ShareCounts : Wrap(i, n)
  \/ \E from, to, i \in Investor, n \in ShareCounts : TransferShares(from, i, to, n)
  \/ \E i \in Investor : Settle(i) \/ Unwrap(i)
  \/ \E h, i \in Investor : Redeem(h, i)

-----------------------------------------------------------------------------
(* What could be wrong                                                     *)

(* As long as wrap did not overwrite its record, the balances of a wrap's  *)
(* shares add up to the outstanding shares: transfers (to oneself too),    *)
(* redemptions and unwrapping neither create nor lose any.                 *)
SharesConserved ==
  \A i \in Investor \ wrappedOver :
    SumOver(balances[i], Investor) = wraps[i].outstanding

(* Redemptions of a wrap, in any order and of any size, never add up to    *)
(* more than the payout booked for it; what is left is still on record.    *)
RedeemedWithinPayout ==
  \A i \in Investor : wraps[i].settled =>
    /\ wraps[i].payout >= 0
    /\ redeemed[i] + wraps[i].payout = booked[i]

=============================================================================
