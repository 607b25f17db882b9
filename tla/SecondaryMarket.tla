----------------------------- MODULE SecondaryMarket -----------------------------
(***************************************************************************)
(* contracts/secondary_market: positions of a pool listed at a price and   *)
(* bought for it, less a fee.  The pool asks for the seller's signature    *)
(* on the transfer; it is taken as given in buy_position.                  *)
(***************************************************************************)
EXTENDS Positions

CONSTANTS
  AskPrices,  \* asking prices
  FeeRates,   \* protocol_fee_bps
  MaxFeeBps   \* MAX_PROTOCOL_FEE_BPS

VARIABLES
  listing,      \* Listing(seller): the price; 0 where absent
  protocolFee,  \* ProtocolFeeBps
  marketPaused

marketVars == <<listing, protocolFee, marketPaused>>
vars == <<poolVars, marketVars>>

Init ==
  /\ listing = [a \in Investor |-> 0]
  /\ protocolFee \in {f \in FeeRates : f <= MaxFeeBps}
  /\ marketPaused = FALSE

SetPaused(b) == marketPaused' = b /\ UNCHANGED <<listing, protocolFee, poolVars>>

UpdateProtocolFeeBps(bps) ==
  /\ bps <= MaxFeeBps
  /\ protocolFee' = bps
  /\ UNCHANGED <<listing, marketPaused, poolVars>>

(* get_position answers with an empty position in the asker's name, so the *)
(* check that the seller holds one always succeeds.                        *)
ListPosition(s, price) ==
  /\ ~marketPaused
  /\ price > 0
  /\ ~Closed
  /\ listing[s] = 0
  /\ listing' = [listing EXCEPT ![s] = price]
  /\ UNCHANGED <<protocolFee, marketPaused, poolVars>>

Proceeds(price) == price - (price * protocolFee) \div 10000

BuyPosition(b, s) ==
  LET price == listing[s]   fee == (price * protocolFee) \div 10000
  IN /\ ~marketPaused
     /\ b # s
     /\ price > 0
     /\ ~Closed
     /\ cash[b] >= fee + Proceeds(price)
     /\ listing' = [listing EXCEPT ![s] = 0]
     /\ cash' = [cash EXCEPT ![b] = @ - fee - Proceeds(price), ![Fees] = @ + fee, ![s] = @ + Proceeds(price)]
     /\ TransferPosition(s, b)
     /\ UNCHANGED <<protocolFee, marketPaused, repaid>>

CancelListing(s) ==
  /\ listing[s] > 0
  /\ listing' = [listing EXCEPT ![s] = 0]
  /\ UNCHANGED <<protocolFee, marketPaused, poolVars>>

Next ==
  \/ \E b \in BOOLEAN : SetPaused(b)
  \/ \E bps \in FeeRates : UpdateProtocolFeeBps(bps)
  \/ \E s \in Investor, price \in AskPrices : ListPosition(s, price)
  \/ \E b, s \in Investor : BuyPosition(b, s)
  \/ \E s \in Investor : CancelListing(s)

-----------------------------------------------------------------------------
(* What could be wrong                                                     *)

(* An investor who pays pays exactly a seller's asking price, under any    *)
(* change of the fee since it was listed, and the seller and the treasury  *)
(* share exactly that; and whoever pays receives a position, also for a    *)
(* listing whose position was sold, given away or wrapped since.           *)
TradeIsFairStep ==
  \A b \in Investor : cash'[b] < cash[b] =>
    /\ position'[b] > 0
    /\ \E s \in Investor \ {b} :
         /\ cash[b] - cash'[b] = listing[s]
         /\ (cash'[s] - cash[s]) + (cash'[Fees] - cash[Fees]) = listing[s]
TradeIsFair == [][TradeIsFairStep]_vars
=============================================================================
