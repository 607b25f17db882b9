------------------------------ MODULE Marketplace ------------------------------
(***************************************************************************)
(* contracts/marketplace: listings, partial funding by several investors,  *)
(* withdrawal, the three ways a listing ends unfunded (cancel_listing, the *)
(* two-phase cancellation, expiry) and the refunds each of them owes.      *)
(*                                                                         *)
(* The calls a handler makes on invoice_nft, financing_pool, treasury and  *)
(* the token contracts are part of its action: nft is the invoice status,  *)
(* opened the pools of financing_pool, pool and treasury the balances the  *)
(* two contracts hold of each token.                                       *)
(***************************************************************************)
EXTENDS Integers, FiniteSets, Sums

CONSTANTS
  Id,          \* invoices
  Investor,    \* investor addresses
  Token,       \* token contracts
  Face,        \* face value of each invoice
  TierOf,      \* risk tier of each invoice
  Price,       \* asking prices a seller may choose
  Pay,         \* amounts an investor may pay
  Worth,       \* price_oracle: what one unit of each token is worth
  InvoiceWorth,\* price_oracle: what one unit of each invoice's currency is worth
  MaxTime,     \* bound: ledger timestamps 0..MaxTime
  MaxExposure, \* bound: recorded token exposure
  FeeRates,    \* fees in basis points an admin may set
  Floors,      \* minimum contributions an admin may set
  ShareCaps,   \* investor concentration caps an admin may set
  ExposureCaps,\* token exposure caps an admin may set
  Windows,     \* priority windows an admin may set
  Gates,       \* which gates of other contracts may close
  NoFee,       \* no tier fee configured
  NoToken      \* no token

Time == 0..MaxTime
Tiers == {TierOf[id] : id \in Id}

ASSUME BoundsOk  == MaxTime \in Nat /\ MaxExposure \in Nat
ASSUME AmountsOk == Face \in [Id -> Nat] /\ Price \subseteq Nat \ {0} /\ Pay \subseteq Nat \ {0}
ASSUME WorthOk   == Worth \in [Token -> Nat \ {0}] /\ InvoiceWorth \in [Id -> Nat \ {0}]
ASSUME RatesOk   == FeeRates \subseteq 0..10000 /\ ShareCaps \subseteq 0..10000
ASSUME CapsOk    == Floors \subseteq Nat /\ ExposureCaps \subseteq Nat
ASSUME NonesOk   == NoFee \notin FeeRates /\ NoToken \notin Token
ASSUME WindowsOk == Windows \subseteq [allowed : SUBSET Investor, end : Time]
ASSUME GatesOk   == Gates \subseteq {"breaker", "frozen", "unlistable"}
ASSUME InvestorsFinite == IsFiniteSet(Investor)

VARIABLES
  listing,      \* Listing(id); state "none" where the key is absent
  contribution, \* Contribution(id, investor): net of the fee
  feePaid,      \* FeeContribution(id, investor)
  investors,    \* ListingInvestors(id)
  claimed,      \* RefundClaimed(id, investor)
  request,      \* CancellationRequest(id)
  confirmed,    \* CancellationConfirmed(id)
  exposure,     \* TokenExposureCurrent(token)
  paid,         \* history: gross amount each investor paid, in listing tokens
  refunded,     \* history: gross amount each investor got back
  nft,          \* invoice_nft: status of the invoice
  opened,       \* financing_pool: ids with a Pool
  pool,         \* token balance of financing_pool
  treasury,     \* token balance of treasury
  settings,     \* what the admin configures
  gate,         \* closed gates of risk_registry, invoice_nft, debtor_attestation
  now, paused

moneyVars == <<contribution, feePaid, investors, claimed, paid, refunded, pool, treasury>>
cancelVars == <<request, confirmed>>
envVars   == <<settings, gate, now, paused>>
vars == <<listing, moneyVars, cancelVars, exposure, nft, opened, envVars>>

-------------------------------------------------------------------------------
NoListing == [state |-> "none", price |-> 0, token |-> NoToken, funded |-> 0, deadline |-> 0]

Zero == [i \in Investor |-> 0]

(* An empty marketplace with the given settings.                           *)
InitWith(initial) ==
  /\ listing = [id \in Id |-> NoListing]
  /\ contribution = [id \in Id |-> Zero] /\ feePaid = [id \in Id |-> Zero]
  /\ investors = [id \in Id |-> {}] /\ claimed = {}
  /\ request = {} /\ confirmed = {}
  /\ exposure = [t \in Token |-> 0]
  /\ paid = [id \in Id |-> Zero] /\ refunded = [id \in Id |-> Zero]
  /\ nft = [id \in Id |-> "Created"] /\ opened = {}
  /\ pool = [t \in Token |-> 0] /\ treasury = [t \in Token |-> 0]
  /\ settings = initial
  /\ gate = [id \in Id |-> {}]
  /\ now = 0 /\ paused = FALSE

(* initialize chooses the fee; everything else is unset.                   *)
DefaultSettings(f) ==
  [fee |-> f, tierFee |-> [r \in Tiers |-> NoFee], floor |-> 0, share |-> 0,
   cap |-> [t \in Token |-> 0], accredited |-> {}, whitelist |-> {},
   priority |-> [id \in Id |-> [allowed |-> {}, end |-> -1]]]

Init == \E f \in FeeRates : InitWith(DefaultSettings(f))

Active(id)    == listing[id].state = "active"
Remaining(id) == listing[id].price - listing[id].funded
FullyFunded(id) == listing[id].funded >= listing[id].price

(* Write-back of a listing that is no longer open for funding.             *)
Deactivate(id) == listing' = [listing EXCEPT ![id].state = "closed"]

(* remove_token_exposure: saturating_sub on i128, no floor at zero.        *)
RemoveTokenExposure(t, amount) ==
  /\ exposure[t] - amount >= -MaxExposure
  /\ exposure' = [exposure EXCEPT ![t] = @ - amount]

(* add_token_exposure: refused beyond the cap, when one is set.            *)
AddTokenExposure(t, amount) ==
  /\ exposure[t] + amount <= MaxExposure
  /\ settings.cap[t] = 0 \/ exposure[t] + amount <= settings.cap[t]
  /\ exposure' = [exposure EXCEPT ![t] = @ + amount]

(* bps_of_normalized, at the tier's fee when one is set.                   *)
FeeOf(id, amount) ==
  LET tierFee == settings.tierFee[TierOf[id]]
  IN  (amount * (IF tierFee # NoFee THEN tierFee ELSE settings.fee)) \div 10000

Convert(amount, from, to) == (amount * from) \div to

-------------------------------------------------------------------------------
(* Listing.                                                                *)

(* Mutant: the key of an earlier listing does not stop a new one.          *)
ListInvoiceAgain(id, price, t, deadline) ==
  /\ ~paused
  /\ deadline > now /\ price < Face[id] /\ t \in settings.whitelist
  /\ gate[id] \intersect {"unlistable", "breaker"} = {}
  /\ nft' = [nft EXCEPT ![id] = "Listed"]
  /\ AddTokenExposure(t, price)
  /\ listing' = [listing EXCEPT ![id] =
       [state |-> "active", price |-> price, token |-> t, funded |-> 0, deadline |-> deadline]]
  /\ UNCHANGED <<moneyVars, cancelVars, opened, envVars>>

ListInvoice(id, price, t, deadline) ==
  /\ ~paused
  /\ deadline > now /\ price < Face[id] /\ t \in settings.whitelist
  /\ listing[id].state = "none"
  /\ gate[id] \intersect {"unlistable", "breaker"} = {}
  /\ nft[id] = "Created"
  /\ nft' = [nft EXCEPT ![id] = "Listed"]
  /\ AddTokenExposure(t, price)
  /\ listing' = [listing EXCEPT ![id] =
       [state |-> "active", price |-> price, token |-> t, funded |-> 0, deadline |-> deadline]]
  /\ UNCHANGED <<moneyVars, cancelVars, opened, envVars>>

(* amend_listing leaves the token exposure alone.                          *)
AmendListing(id, price, t, deadline) ==
  /\ ~paused
  /\ Active(id) /\ listing[id].funded = 0
  /\ price = listing[id].price \/ price < Face[id]
  /\ deadline = listing[id].deadline \/ deadline > now
  /\ t = listing[id].token \/ t \in settings.whitelist
  /\ listing' = [listing EXCEPT ![id].price = price, ![id].token = t, ![id].deadline = deadline]
  /\ UNCHANGED <<moneyVars, cancelVars, exposure, nft, opened, envVars>>

(* Mutant: a listing that already holds investors' money is withdrawn.     *)
WithdrawFundedListing(id) ==
  /\ Active(id)
  /\ nft[id] = "Listed" /\ ~paused
  /\ nft' = [nft EXCEPT ![id] = "Created"]
  /\ listing' = [listing EXCEPT ![id] = NoListing]
  /\ RemoveTokenExposure(listing[id].token, listing[id].price)
  /\ UNCHANGED <<moneyVars, cancelVars, opened, envVars>>

(* set_created refuses while the protocol is paused.                       *)
WithdrawListing(id) ==
  /\ Active(id) /\ listing[id].funded = 0
  /\ nft[id] = "Listed" /\ ~paused
  /\ nft' = [nft EXCEPT ![id] = "Created"]
  /\ listing' = [listing EXCEPT ![id] = NoListing]
  /\ RemoveTokenExposure(listing[id].token, listing[id].price)
  /\ UNCHANGED <<moneyVars, cancelVars, opened, envVars>>

-------------------------------------------------------------------------------
(* Funding.                                                                *)

(* require_priority_window_allowed.                                        *)
PriorityAllows(i, id) ==
  now <= settings.priority[id].end => i \in settings.priority[id].allowed

(* GrossContribution(id, investor) is read here and written nowhere, so    *)
(* the previous gross contribution is always zero.                         *)
ShareAllows(id, amount) ==
  settings.share = 0 \/ amount * 10000 <= settings.share * listing[id].price

(* The checks of fund_invoice_internal on what the investor pays.          *)
Fundable(i, id, amount) ==
  /\ Active(id) /\ now <= listing[id].deadline
  /\ gate[id] \intersect {"breaker", "frozen"} = {}
  /\ Convert(amount, Worth[listing[id].token], InvoiceWorth[id]) <= Remaining(id)
  /\ amount >= settings.floor \/ amount = Remaining(id)
  /\ i \in settings.accredited /\ PriorityAllows(i, id) /\ ShareAllows(id, amount)

(* What the payment is worth in the token of the listing.                  *)
ListingAmount(id, amount, payToken) ==
  IF payToken = listing[id].token THEN amount
  ELSE Convert(amount, Worth[payToken], Worth[listing[id].token])

(* Mutant: an investor who already contributed is recorded again only.     *)
RecordContributionOver(i, id, fee, net) ==
  /\ contribution' = [contribution EXCEPT ![id][i] = net]
  /\ feePaid' = [feePaid EXCEPT ![id][i] = fee]
  /\ investors' = [investors EXCEPT ![id] = @ \union {i}]

(* The contribution, the fee share and the investor index.                 *)
RecordContribution(i, id, fee, net) ==
  /\ contribution' = [contribution EXCEPT ![id][i] = @ + net]
  /\ feePaid' = [feePaid EXCEPT ![id][i] = @ + fee]
  /\ investors' = [investors EXCEPT ![id] = @ \union {i}]

(* The listing after a contribution; when it completes the target the      *)
(* listing closes, its exposure is released and release_funds opens the    *)
(* pool, which sets the invoice Funded.                                    *)
CreditListing(id, listAmount) ==
  LET full == listing[id].funded + listAmount >= listing[id].price
  IN  /\ listing' = [listing EXCEPT ![id].funded = @ + listAmount,
                                    ![id].state = IF full THEN "closed" ELSE @]
      /\ IF full
           THEN /\ id \notin opened /\ nft[id] = "Listed"
                /\ RemoveTokenExposure(listing[id].token, listing[id].price)
                /\ opened' = opened \union {id}
                /\ nft' = [nft EXCEPT ![id] = "Funded"]
           ELSE UNCHANGED <<exposure, opened, nft>>

FundInvoice(i, id, amount, payToken) ==
  LET listAmount == ListingAmount(id, amount, payToken)
      fee    == FeeOf(id, listAmount)
      payFee == IF payToken = listing[id].token THEN fee ELSE (amount * fee) \div listAmount
  IN  /\ ~paused
      /\ Fundable(i, id, amount)
      /\ payToken = listing[id].token \/ payToken \in settings.whitelist
      /\ listAmount \in 1..Remaining(id)
      /\ RecordContribution(i, id, fee, listAmount - fee)
      /\ treasury' = [treasury EXCEPT ![payToken] = @ + payFee]
      /\ pool' = [pool EXCEPT ![payToken] = @ + amount - payFee]
      /\ paid' = [paid EXCEPT ![id][i] = @ + listAmount]
      /\ CreditListing(id, listAmount)
      /\ UNCHANGED <<claimed, refunded, cancelVars, envVars>>

-------------------------------------------------------------------------------
(* The ways a listing ends without being funded.                           *)

Gross(i, id) == contribution[id][i] + feePaid[id][i]

(* Mutant: the last investor is left out of the refund loop.               *)
RefundableMost(id) ==
  LET all == {i \in investors[id] : contribution[id][i] > 0}
  IN  IF Cardinality(all) > 1 THEN all \ {CHOOSE i \in all : TRUE} ELSE all

(* Whom cancel_listing pays back.                                          *)
Refundable(id) == {i \in investors[id] : contribution[id][i] > 0}

CancelListing(id) ==
  LET owed == Refundable(id)
      nets == SumOver(contribution[id], owed)
      fees == SumOver(feePaid[id], owed)
      t    == listing[id].token
  IN  /\ Active(id)
      /\ pool[t] >= nets /\ treasury[t] >= fees
      /\ claimed' = claimed \union {<<id, i>> : i \in owed}
      /\ contribution' = [contribution EXCEPT ![id] =
                            [i \in Investor |-> IF i \in owed THEN 0 ELSE @[i]]]
      /\ feePaid' = [feePaid EXCEPT ![id] = [i \in Investor |-> IF i \in owed THEN 0 ELSE @[i]]]
      /\ refunded' = [refunded EXCEPT ![id] =
                        [i \in Investor |-> IF i \in owed THEN @[i] + Gross(i, id) ELSE @[i]]]
      /\ investors' = [investors EXCEPT ![id] = {}]
      /\ pool' = [pool EXCEPT ![t] = @ - nets]
      /\ treasury' = [treasury EXCEPT ![t] = @ - fees]
      /\ Deactivate(id)
      /\ RemoveTokenExposure(t, listing[id].price + nets + fees)
      /\ UNCHANGED <<paid, cancelVars, nft, opened, envVars>>

(* Nothing was paid in: the listing is cancelled on the spot.              *)
RequestCancellationUnfunded(id) ==
  /\ Active(id) /\ listing[id].funded = 0
  /\ Deactivate(id)
  /\ RemoveTokenExposure(listing[id].token, listing[id].price)
  /\ UNCHANGED <<moneyVars, cancelVars, nft, opened, envVars>>

RequestCancellation(id) ==
  /\ Active(id) /\ listing[id].funded > 0
  /\ id \notin request
  /\ request' = request \union {id}
  /\ UNCHANGED <<listing, moneyVars, confirmed, exposure, nft, opened, envVars>>

AdminConfirmCancellation(id) ==
  /\ id \in request
  /\ Active(id)
  /\ Deactivate(id)
  /\ RemoveTokenExposure(listing[id].token, listing[id].price)
  /\ request' = request \ {id}
  /\ confirmed' = confirmed \union {id}
  /\ UNCHANGED <<moneyVars, nft, opened, envVars>>

(* Mutant: the claim is not remembered.                                    *)
ClaimableAgain(i, id) ==
  /\ listing[id].state # "none" /\ ~FullyFunded(id)
  /\ id \in confirmed \/ now > listing[id].deadline
  /\ contribution[id][i] > 0

(* When claim_refund pays.                                                 *)
Claimable(i, id) ==
  /\ listing[id].state # "none" /\ ~FullyFunded(id)
  /\ id \in confirmed \/ now > listing[id].deadline
  /\ <<id, i>> \notin claimed
  /\ contribution[id][i] > 0

(* The contribution record stays; mark_listing_expired closes an expired   *)
(* listing without releasing its exposure.                                 *)
ClaimRefund(i, id) ==
  LET t == listing[id].token
  IN  /\ Claimable(i, id)
      /\ pool[t] >= contribution[id][i] /\ treasury[t] >= feePaid[id][i]
      /\ claimed' = claimed \union {<<id, i>>}
      /\ IF id \in confirmed THEN UNCHANGED listing ELSE Deactivate(id)
      /\ RemoveTokenExposure(t, Gross(i, id))
      /\ pool' = [pool EXCEPT ![t] = @ - contribution[id][i]]
      /\ treasury' = [treasury EXCEPT ![t] = @ - feePaid[id][i]]
      /\ refunded' = [refunded EXCEPT ![id][i] = @ + Gross(i, id)]
      /\ feePaid' = [feePaid EXCEPT ![id][i] = 0]
      /\ UNCHANGED <<contribution, investors, paid, cancelVars, nft, opened, envVars>>

-------------------------------------------------------------------------------
(* Settings and the environment.                                           *)

Configure(newSettings) ==
  /\ settings' = newSettings
  /\ UNCHANGED <<listing, moneyVars, cancelVars, exposure, nft, opened, gate, now, paused>>

SetFeeBps(f)           == Configure([settings EXCEPT !.fee = f])
SetTierFeeBps(r, f)    == Configure([settings EXCEPT !.tierFee[r] = f])
SetMinContribution(m)  == Configure([settings EXCEPT !.floor = m])
SetMaxInvestorShareBps(c) == Configure([settings EXCEPT !.share = c])
SetTokenExposureCap(t, c) == Configure([settings EXCEPT !.cap[t] = c])
SetPriorityWindow(id, w)  == Configure([settings EXCEPT !.priority[id] = w])
SetInvestorAccredited(i, yes) ==
  Configure([settings EXCEPT !.accredited = IF yes THEN @ \union {i} ELSE @ \ {i}])

(* execute_token_whitelist, remove_token_whitelist.                       *)
SwitchWhitelist(t) ==
  Configure([settings EXCEPT !.whitelist = IF t \in @ THEN @ \ {t} ELSE @ \union {t}])

(* treasury.withdraw and grants.                                           *)
TreasurySpends(t) ==
  /\ treasury[t] > 0
  /\ treasury' = [treasury EXCEPT ![t] = @ - 1]
  /\ UNCHANGED <<listing, contribution, feePaid, investors, claimed, paid, refunded, pool,
                 cancelVars, exposure, nft, opened, envVars>>

(* A circuit breaker, a freeze or a missing attestation appears or goes.   *)
SwitchGate(id, g) ==
  /\ gate' = [gate EXCEPT ![id] = IF g \in @ THEN @ \ {g} ELSE @ \union {g}]
  /\ UNCHANGED <<listing, moneyVars, cancelVars, exposure, nft, opened, settings, now, paused>>

Tick ==
  /\ now < MaxTime
  /\ now' = now + 1
  /\ UNCHANGED <<listing, moneyVars, cancelVars, exposure, nft, opened, settings, gate, paused>>

TogglePause ==
  /\ paused' = ~paused
  /\ UNCHANGED <<listing, moneyVars, cancelVars, exposure, nft, opened, settings, gate, now>>

Sell ==
  \E id \in Id :
    \/ \E price \in Price, t \in Token, d \in Time : ListInvoice(id, price, t, d)
    \/ \E price \in Price, t \in Token, d \in Time : AmendListing(id, price, t, d)
    \/ WithdrawListing(id)

Fund == \E i \in Investor, id \in Id, amount \in Pay, t \in Token : FundInvoice(i, id, amount, t)

End ==
  \E id \in Id :
    \/ CancelListing(id)
    \/ RequestCancellationUnfunded(id)
    \/ RequestCancellation(id)
    \/ AdminConfirmCancellation(id)
    \/ \E i \in Investor : ClaimRefund(i, id)

Admin ==
  \/ \E f \in FeeRates : SetFeeBps(f)
  \/ \E r \in Tiers, f \in FeeRates : SetTierFeeBps(r, f)
  \/ \E m \in Floors : SetMinContribution(m)
  \/ \E c \in ShareCaps : SetMaxInvestorShareBps(c)
  \/ \E t \in Token, c \in ExposureCaps : SetTokenExposureCap(t, c)
  \/ \E id \in Id, w \in Windows : SetPriorityWindow(id, w)

Accredit ==
  \/ \E i \in Investor, yes \in BOOLEAN : SetInvestorAccredited(i, yes)
  \/ \E t \in Token : SwitchWhitelist(t)

Others ==
  \/ \E t \in Token : TreasurySpends(t)
  \/ \E id \in Id, g \in Gates : SwitchGate(id, g)
  \/ TogglePause

Next == Sell \/ Fund \/ End \/ Admin \/ Accredit \/ Others \/ Tick

Spec == Init /\ [][Next]_vars

-------------------------------------------------------------------------------
(* Properties.                                                             *)

ListingRecord ==
  [state : {"none", "active", "closed"}, price : Nat, token : Token \union {NoToken},
   funded : Nat, deadline : Time]
SettingsRecord ==
  [fee : FeeRates, tierFee : [Tiers -> FeeRates \union {NoFee}], floor : Nat, share : Nat,
   cap : [Token -> Nat], accredited : SUBSET Investor, whitelist : SUBSET Token,
   priority : [Id -> [allowed : SUBSET Investor, end : Int]]]
Ledger == [Id -> [Investor -> Nat]]

ListingsOk == listing \in [Id -> ListingRecord]
LedgersOk ==
  /\ contribution \in Ledger /\ feePaid \in Ledger /\ paid \in Ledger /\ refunded \in Ledger
  /\ investors \in [Id -> SUBSET Investor] /\ claimed \subseteq Id \X Investor
FlowsOk == exposure \in [Token -> Int] /\ pool \in [Token -> Nat] /\ treasury \in [Token -> Nat]
StatusesOk ==
  /\ nft \in [Id -> {"Created", "Listed", "Funded"}]
  /\ request \subseteq Id /\ confirmed \subseteq Id /\ opened \subseteq Id
SettingsOk ==
  /\ settings \in SettingsRecord /\ gate \in [Id -> SUBSET Gates]
  /\ now \in Time /\ paused \in BOOLEAN

(* The marketplace's storage, and the balances and statuses it moves, have *)
(* the types of their keys.                                                *)
TypeOK == ListingsOk /\ LedgersOk /\ FlowsOk /\ StatusesOk /\ SettingsOk

Total(f) == SumOver(f, Investor)

(* Money in: what a listing counts as funded is what its investors paid,   *)
(* never more than the asking price, and is booked without loss as         *)
(* contributions and fees until it is refunded, however the fee was        *)
(* changed between two contributions.                                      *)
FundingAccounted ==
  \A id \in Id :
    /\ listing[id].funded = Total(paid[id])
    /\ listing[id].state # "none" => listing[id].funded <= listing[id].price
    /\ \A i \in Investor : refunded[id][i] = 0 => Gross(i, id) = paid[id][i]

(* Money out: whichever of the three ways a listing ends, in whatever      *)
(* order the investors and the admin act, an investor gets back exactly    *)
(* what it paid, at most once, and nothing while the listing is open or    *)
(* once it is fully funded.                                                *)
RefundExactlyOnce ==
  \A id \in Id, i \in Investor :
    /\ refunded[id][i] \in {0, paid[id][i]}
    /\ refunded[id][i] > 0 =>
         listing[id].state = "closed" /\ ~FullyFunded(id) /\ <<id, i>> \in claimed

(* cancel_listing leaves nobody behind: a listing that was closed before   *)
(* its deadline, without the two-phase flow and without reaching its       *)
(* target, owes a refund only to investors whose whole payment went to     *)
(* fees; and a cancellation is confirmed only for a listing that holds     *)
(* money and was not fully funded while the request was pending.           *)
CancelPaysEveryone ==
  \A id \in Id :
    /\ listing[id].state = "closed" /\ ~FullyFunded(id) /\ id \notin confirmed
         /\ now <= listing[id].deadline
       => \A i \in Investor : refunded[id][i] = paid[id][i] \/ feePaid[id][i] = paid[id][i]
    /\ id \in confirmed =>
         listing[id].state = "closed" /\ listing[id].funded > 0 /\ ~FullyFunded(id)

(* The listing, the invoice and the pool are in step: an unlisted invoice  *)
(* is Created, an open one Listed, a fully funded one Funded with a pool,  *)
(* and money is never held for an invoice without a listing.               *)
ListingNftPoolInStep ==
  \A id \in Id :
    /\ (listing[id].state = "none") <=> (nft[id] = "Created")
    /\ (nft[id] = "Funded") <=> (id \in opened)
    /\ (id \in opened) <=> (listing[id].state = "closed" /\ FullyFunded(id))
    /\ listing[id].state = "none" => Total(paid[id]) = 0

(* Once an investor has paid in, the price, the token and the deadline it  *)
(* paid under stay as they were.                                           *)
TermsFixedOnceFunded ==
  [][\A id \in Id : listing[id].funded > 0 =>
       /\ listing'[id].price = listing[id].price
       /\ listing'[id].token = listing[id].token
       /\ listing'[id].deadline = listing[id].deadline
       /\ listing'[id].funded >= listing[id].funded]_vars

-------------------------------------------------------------------------------
(* What the documentation says and the code does not do.                   *)

(* set_max_investor_share_bps: the cap holds across all fund_invoice calls *)
(* of an investor on a listing.                                            *)
ShareCapHolds ==
  [][\A id \in Id, i \in Investor :
       settings.share > 0 /\ paid'[id][i] > paid[id][i]
         => paid'[id][i] * 10000 <= settings.share * listing[id].price]_vars

===============================================================================
