-------------------------------- MODULE Services --------------------------------
(***************************************************************************)
(* The smaller contracts around the pool.  fractionalizer and              *)
(* secondary_market work on the positions of one pool, together; tranche,  *)
(* referral_rewards, price_oracle and the shared withdrawal queue keep     *)
(* their own state.  Any of them may be called at any time.                *)
(***************************************************************************)
EXTENDS Integers, FiniteSets, Sequences

CONSTANTS
  Investor, Vault, Fees, Initial, Cash, Closings, Gifts, \* what a pool closes with, tokens sent to the vault
  ShareCounts, MaxShares,
  AskPrices, FeeRates, MaxFeeBps,
  FaceValues, Bundles, Bids, MaxTranches, MaxFunded,
  Newcomer, RewardAmounts, Bonus, Allocation, MaxHeld,
  Feeders, Admins, Prices, ChangeLimits, Pegs, FallbackPrices, FeederCounts, OracleAges, Quantities, Decimals,
  Unit, HistoryCap, MaxStaleness, DefaultMinFresh, MaxFeeders, OracleDelay, OracleMaxTime,
  QueueAmounts, MaxQueueLen, MaxRequests

ASSUME HoldersOk ==
  /\ IsFiniteSet(Investor) /\ Vault \notin Investor /\ Fees \notin Investor /\ Vault # Fees
  /\ Initial \in [Investor -> Nat] /\ Cash \in Nat /\ Closings \subseteq Nat /\ Gifts \subseteq Nat
ASSUME SharesOk == ShareCounts \subseteq Int /\ MaxShares \in Nat
ASSUME FeesOk   == AskPrices \subseteq Int /\ FeeRates \subseteq Nat /\ MaxFeeBps \in 0 .. 10000
ASSUME BundlesOk ==
  /\ \A k \in DOMAIN FaceValues : FaceValues[k] \in Nat
  /\ \A ids \in Bundles : IsFiniteSet(DOMAIN ids)
  /\ Bids \subseteq Int /\ MaxTranches \in Nat /\ MaxFunded \in Nat
ASSUME RewardsOk ==
  /\ IsFiniteSet(Newcomer) /\ RewardAmounts \subseteq Int
  /\ Bonus \in Nat \ {0} /\ Allocation \in Nat /\ Bonus <= Allocation /\ MaxHeld \in Nat
ASSUME OracleOk ==
  /\ Prices \subseteq Int /\ FallbackPrices \subseteq Nat /\ FeederCounts \subseteq Int /\ OracleAges \subseteq Nat
  /\ Quantities \subseteq Int /\ Decimals \subseteq Nat
  /\ Unit \in Nat \ {0} /\ HistoryCap \in Nat \ {0} /\ MaxStaleness \in Nat /\ OracleMaxTime \in Nat
  /\ DefaultMinFresh \in Nat \ {0} /\ MaxFeeders \in Nat /\ OracleDelay \in Nat
ASSUME QueueOk == QueueAmounts \subseteq Int /\ MaxQueueLen \in Nat /\ MaxRequests \in Nat

VARIABLES
  position, repaid, cash,
  wraps, balances, claimed, halted, booked, redeemed, wrappedOver,
  listing, protocolFee, marketPaused,
  tranches, stakes,
  funded, paid, rewarded, held, referred, firstInvoice,
  oracleAdmin, oracleUpgrade, feeders, minFresh, pairs, oraclePaused, published, strayed, oracleNow,
  pointers, requests, filled

poolVars    == <<position, repaid, cash>>
fracVars    == <<wraps, balances, claimed, halted, booked, redeemed, wrappedOver>>
marketVars  == <<listing, protocolFee, marketPaused>>
trancheVars == <<tranches, stakes>>
rewardVars  == <<funded, paid, rewarded, held, referred, firstInvoice>>
oracleVars  == <<oracleAdmin, oracleUpgrade, feeders, minFresh, pairs, oraclePaused, published, strayed, oracleNow>>
queueVars   == <<pointers, requests, filled>>
servicesVars == <<poolVars, fracVars, marketVars, trancheVars, rewardVars, oracleVars, queueVars>>

Frac   == INSTANCE Fractionalizer
Market == INSTANCE SecondaryMarket
Bundle == INSTANCE Tranche WITH Stakes <- Bids
Reward == INSTANCE ReferralRewards WITH Sme <- Newcomer, Amounts <- RewardAmounts
Oracle == INSTANCE PriceOracle WITH Ages <- OracleAges
Queue  == INSTANCE WithdrawalQueue WITH Amounts <- QueueAmounts

ServicesInit ==
  Frac!PoolInit /\ Frac!Init /\ Market!Init /\ Bundle!Init /\ Reward!Init /\ Oracle!Init /\ Queue!Init

(* The pool's own part: a position handed on, the pool closed, and tokens  *)
(* that come without a call.                                               *)
PoolStep ==
  /\ \/ \E i, j \in Investor : Frac!TransferPosition(i, j) /\ UNCHANGED <<repaid, cash>>
     \/ \E n \in Closings : Frac!ClosePool(n)
     \/ \E n \in Gifts : Frac!Donate(n)
  /\ UNCHANGED <<fracVars, marketVars>>

PositionStep ==
  /\ \/ Frac!Next /\ UNCHANGED marketVars
     \/ Market!Next /\ UNCHANGED fracVars
     \/ PoolStep
  /\ UNCHANGED <<trancheVars, rewardVars, oracleVars, queueVars>>
TrancheStep == Bundle!Next /\ UNCHANGED <<poolVars, fracVars, marketVars, rewardVars, oracleVars, queueVars>>
RewardStep  == Reward!Next /\ UNCHANGED <<poolVars, fracVars, marketVars, trancheVars, oracleVars, queueVars>>
OracleStep  == Oracle!Next /\ UNCHANGED <<poolVars, fracVars, marketVars, trancheVars, rewardVars, queueVars>>
QueueStep   == Queue!Next /\ UNCHANGED <<poolVars, fracVars, marketVars, trancheVars, rewardVars, oracleVars>>

ServicesNext == PositionStep \/ TrancheStep \/ RewardStep \/ OracleStep \/ QueueStep

ServicesSpec == ServicesInit /\ [][ServicesNext]_servicesVars

-----------------------------------------------------------------------------
(* What fractionalizer, tranche and referral_rewards promised is covered:  *)
(* redemptions by the payout booked and shares by the balances, tranche    *)
(* positions by the funding, unclaimed bonuses by the budget; and the      *)
(* shared withdrawal queue serves in order.                                *)
ClaimsCovered ==
  /\ Frac!RedeemedWithinPayout /\ Frac!SharesConserved
  /\ Bundle!PositionsWithinFunding /\ Reward!BonusesCovered
  /\ Queue!ServedInOrder

(* Each property under the name its module gives it.                       *)
TradeIsFair    == [][Market!TradeIsFairStep]_<<poolVars, marketVars>>
PricesFaithful == Oracle!PricesFaithful
StrayedPairWaits == [][Oracle!StrayedPairWaitsStep]_oracleVars
=============================================================================
