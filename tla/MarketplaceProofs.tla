--------------------------- MODULE MarketplaceProofs ---------------------------
(***************************************************************************)
(* Theorems about Marketplace for every set of invoices, investors and     *)
(* tokens, every price, fee and clock, and every sequence of calls.        *)
(***************************************************************************)
EXTENDS Marketplace, FiniteSums

-------------------------------------------------------------------------------
(* What holds of one listing, its invoice and its investors.  Beside the   *)
(* properties it says what makes them inductive: a key that is absent was  *)
(* never paid into, a listing closes when it reaches its target, whoever   *)
(* paid is in the index until the listing closes, and a request is only    *)
(* made for a listing that holds money.                                    *)

StatusOk(id) ==
  /\ listing[id].state = "none" => listing[id] = NoListing
  /\ listing[id].state = "active" => listing[id].funded < listing[id].price
  /\ (listing[id].state = "none") <=> (nft[id] = "Created")
  /\ (nft[id] = "Funded") <=> (id \in opened)
  /\ (id \in opened) <=> (listing[id].state = "closed" /\ FullyFunded(id))
  /\ listing[id].state # "none" => listing[id].funded <= listing[id].price

BooksOk(id) ==
  /\ listing[id].funded = Total(paid[id])
  /\ \A i \in Investor : refunded[id][i] = 0 => Gross(i, id) = paid[id][i]
  /\ \A i \in Investor : refunded[id][i] \in {0, paid[id][i]}
  /\ \A i \in Investor : refunded[id][i] > 0 =>
       listing[id].state = "closed" /\ ~FullyFunded(id) /\ <<id, i>> \in claimed
  /\ listing[id].state # "closed" => \A i \in Investor : paid[id][i] > 0 => i \in investors[id]

CancelOk(id) ==
  /\ listing[id].state = "closed" /\ ~FullyFunded(id) /\ id \notin confirmed /\ now <= listing[id].deadline
       => \A i \in Investor : refunded[id][i] = paid[id][i] \/ feePaid[id][i] = paid[id][i]
  /\ id \in confirmed => listing[id].state = "closed" /\ listing[id].funded > 0 /\ ~FullyFunded(id)
  /\ id \in request => listing[id].funded > 0

Settled(id) == StatusOk(id) /\ BooksOk(id) /\ CancelOk(id)

Inv == TypeOK /\ \A id \in Id : Settled(id)

-------------------------------------------------------------------------------
(* What every handler leaves alone.                                        *)

LEMMA ListingTypes ==
  ASSUME Inv, NEW id \in Id
  PROVE  /\ listing[id] \in ListingRecord
         /\ listing[id].price \in Nat /\ listing[id].funded \in Nat /\ listing[id].deadline \in Int
         /\ listing[id].state \in {"none", "active", "closed"} /\ now \in Int
         /\ listing[id].token \in Token \union {NoToken}
         /\ Settled(id)
<1>1. listing[id] \in ListingRecord
  BY DEF Inv, TypeOK, ListingsOk
<1>2. now \in Int
  BY BoundsOk DEF Inv, TypeOK, SettingsOk, Time
<1>3. QED
  BY <1>1, <1>2, BoundsOk DEF ListingRecord, Time, Inv

LEMMA LedgerTypes ==
  ASSUME Inv, NEW id \in Id
  PROVE  /\ contribution[id] \in [Investor -> Nat] /\ feePaid[id] \in [Investor -> Nat]
         /\ paid[id] \in [Investor -> Nat] /\ refunded[id] \in [Investor -> Nat]
         /\ investors[id] \subseteq Investor
BY DEF Inv, TypeOK, LedgersOk, Ledger

(* A listing a step does not concern.                                      *)
Same(x) ==
  /\ listing'[x] = listing[x] /\ nft'[x] = nft[x] /\ paid'[x] = paid[x] /\ refunded'[x] = refunded[x]
  /\ contribution'[x] = contribution[x] /\ feePaid'[x] = feePaid[x] /\ investors'[x] = investors[x]
  /\ (x \in opened') <=> (x \in opened)
  /\ (x \in request') <=> (x \in request)
  /\ (x \in confirmed') <=> (x \in confirmed)
  /\ \A i \in Investor : <<x, i>> \in claimed => <<x, i>> \in claimed'
  /\ now' \in Int /\ now <= now'

LEMMA SameStaysSettled ==
  ASSUME Inv, NEW x \in Id, Same(x)
  PROVE  Settled(x)'
<1>1. StatusOk(x)'
  BY ListingTypes DEF Settled, Same, StatusOk, FullyFunded, NoListing
<1>2. BooksOk(x)'
  BY ListingTypes DEF Settled, Same, BooksOk, FullyFunded, Gross, Total
<1>3. CancelOk(x)'
  BY ListingTypes DEF Settled, Same, CancelOk, FullyFunded
<1>4. QED
  BY <1>1, <1>2, <1>3 DEF Settled

(* A step that concerns one listing.                                       *)
LEMMA OneListing ==
  ASSUME Inv, TypeOK', NEW id \in Id, \A x \in Id : x # id => Same(x),
         StatusOk(id)', BooksOk(id)', CancelOk(id)'
  PROVE  Inv'
BY SameStaysSettled DEF Inv, Settled

LEMMA NoneConcerned ==
  ASSUME Inv, TypeOK', \A x \in Id : Same(x)
  PROVE  Inv'
BY SameStaysSettled DEF Inv

LEMMA MoneyKept ==
  ASSUME Inv, UNCHANGED moneyVars
  PROVE  LedgersOk' /\ pool' \in [Token -> Nat] /\ treasury' \in [Token -> Nat]
BY DEF Inv, TypeOK, LedgersOk, FlowsOk, moneyVars

LEMMA EnvKept == ASSUME Inv, UNCHANGED envVars PROVE SettingsOk'
BY DEF Inv, TypeOK, SettingsOk, envVars

LEMMA Lowered ==
  ASSUME NEW p \in [Token -> Nat], NEW t, NEW n \in Nat, p[t] >= n
  PROVE  [p EXCEPT ![t] = @ - n] \in [Token -> Nat]
<1>1. CASE t \in Token
  <2>1. p[t] \in Nat /\ p[t] - n \in Nat
    BY <1>1
  <2>2. QED
    BY <2>1
<1>2. CASE t \notin Token
  BY <1>2
<1>3. QED
  BY <1>1, <1>2

LEMMA Raised ==
  ASSUME NEW p \in [Token -> Nat], NEW t, NEW n \in Nat
  PROVE  [p EXCEPT ![t] = @ + n] \in [Token -> Nat]
<1>1. CASE t \in Token
  <2>1. p[t] \in Nat /\ p[t] + n \in Nat
    BY <1>1
  <2>2. QED
    BY <2>1
<1>2. CASE t \notin Token
  BY <1>2
<1>3. QED
  BY <1>1, <1>2

LEMMA ExposureType ==
  ASSUME Inv, NEW t, NEW n \in Int, RemoveTokenExposure(t, n) \/ AddTokenExposure(t, n)
  PROVE  exposure' \in [Token -> Int]
BY DEF Inv, TypeOK, FlowsOk, RemoveTokenExposure, AddTokenExposure

LEMMA NewListing ==
  ASSUME Inv, NEW id \in Id, NEW r \in ListingRecord, listing' = [listing EXCEPT ![id] = r]
  PROVE  ListingsOk' /\ listing'[id] = r /\ \A x \in Id : x # id => listing'[x] = listing[x]
BY DEF Inv, TypeOK, ListingsOk

(* The books of a listing whose ledgers did not change.                    *)
LEMMA BooksKept ==
  ASSUME Inv, NEW id \in Id, UNCHANGED moneyVars,
         listing'[id].funded = listing[id].funded,
         listing[id].state = "closed" => listing'[id] = listing[id]
  PROVE  BooksOk(id)'
<1>1. BooksOk(id)
  BY ListingTypes DEF Settled
<1>2. CASE listing[id].state = "closed"
  BY <1>1, <1>2 DEF BooksOk, moneyVars, Total, Gross, FullyFunded
<1>3. CASE listing[id].state # "closed"
  <2>1. \A i \in Investor : ~(refunded[id][i] > 0)
    BY <1>1, <1>3 DEF BooksOk
  <2>2. QED
    BY <1>1, <1>3, <2>1 DEF BooksOk, moneyVars, Total, Gross
<1>4. QED
  BY <1>2, <1>3

-------------------------------------------------------------------------------
(* Listing.                                                                *)

LEMMA ListInvoiceStep ==
  ASSUME Inv, NEW id \in Id, NEW price \in Price, NEW t \in Token, NEW d \in Time,
         ListInvoice(id, price, t, d)
  PROVE  Inv'
<1> DEFINE r == [state |-> "active", price |-> price, token |-> t, funded |-> 0, deadline |-> d]
<1>1. price \in Nat /\ price > 0
  BY AmountsOk
<1>2. r \in ListingRecord /\ r.state = "active" /\ r.price = price /\ r.funded = 0
  BY <1>1 DEF ListingRecord
<1>3. /\ listing' = [listing EXCEPT ![id] = r] /\ listing[id].state = "none" /\ nft[id] = "Created"
      /\ nft' = [nft EXCEPT ![id] = "Listed"] /\ AddTokenExposure(t, price)
      /\ UNCHANGED <<moneyVars, cancelVars, opened, envVars>>
  BY DEF ListInvoice
<1> HIDE DEF r
<1>4. ListingsOk' /\ listing'[id] = r /\ \A x \in Id : x # id => listing'[x] = listing[x]
  BY <1>2, <1>3, NewListing
<1>5. nft'[id] = "Listed" /\ StatusesOk' /\ \A x \in Id : x # id => nft'[x] = nft[x]
  BY <1>3 DEF Inv, TypeOK, StatusesOk, cancelVars
<1>6. TypeOK'
  BY <1>1, <1>3, <1>4, <1>5, MoneyKept, EnvKept, ExposureType DEF TypeOK, FlowsOk
<1>7. \A x \in Id : x # id => Same(x)
  BY <1>3, <1>4, <1>5, ListingTypes DEF Same, moneyVars, cancelVars, envVars
<1>8. listing[id] = NoListing /\ listing[id].funded = 0
  BY <1>3, ListingTypes DEF Settled, StatusOk, NoListing
<1>9. StatusOk(id)'
  BY <1>1, <1>2, <1>3, <1>4, <1>5, ListingTypes DEF Settled, StatusOk
<1>10. BooksOk(id)'
  BY <1>2, <1>3, <1>4, <1>8, BooksKept
<1>11. CancelOk(id)'
  BY <1>2, <1>3, <1>4, <1>8, ListingTypes DEF Settled, CancelOk, cancelVars
<1>12. QED
  BY <1>6, <1>7, <1>9, <1>10, <1>11, OneListing

LEMMA AmendListingStep ==
  ASSUME Inv, NEW id \in Id, NEW price \in Price, NEW t \in Token, NEW d \in Time,
         AmendListing(id, price, t, d)
  PROVE  Inv'
<1> DEFINE old == listing[id]
           r == [state |-> old.state, price |-> price, token |-> t, funded |-> old.funded, deadline |-> d]
<1>1. price \in Nat /\ price > 0
  BY AmountsOk
<1>2. old \in ListingRecord /\ old.state = "active" /\ old.funded = 0
  BY ListingTypes DEF AmendListing, Active
<1>3. r \in ListingRecord /\ r.state = "active" /\ r.price = price /\ r.funded = 0
  BY <1>1, <1>2 DEF ListingRecord
<1>4. /\ \A x \in Id : x # id => listing'[x] = listing[x]
      /\ listing' = [x \in Id |-> listing'[x]]
      /\ listing'[id] = [old EXCEPT !.price = price, !.token = t, !.deadline = d]
  BY DEF AmendListing, Inv, TypeOK, ListingsOk
<1>5. UNCHANGED <<moneyVars, cancelVars, exposure, nft, opened, envVars>>
  BY DEF AmendListing
<1> HIDE DEF old
<1>6. listing'[id] = r
  BY <1>2, <1>4 DEF ListingRecord
<1> HIDE DEF r
<1>7. ListingsOk'
  BY <1>3, <1>4, <1>6, ListingTypes DEF ListingsOk
<1>8. TypeOK'
  BY <1>5, <1>7, MoneyKept, EnvKept DEF Inv, TypeOK, FlowsOk, StatusesOk, cancelVars
<1>9. \A x \in Id : x # id => Same(x)
  BY <1>4, <1>5, ListingTypes DEF Same, moneyVars, cancelVars, envVars
<1>10. StatusOk(id)'
  BY <1>1, <1>2, <1>3, <1>5, <1>6, ListingTypes DEF old, Settled, StatusOk
<1>11. BooksOk(id)'
  BY <1>2, <1>3, <1>5, <1>6, BooksKept DEF old
<1>12. CancelOk(id)'
  BY <1>2, <1>3, <1>5, <1>6, ListingTypes DEF old, Settled, CancelOk, cancelVars
<1>13. QED
  BY <1>8, <1>9, <1>10, <1>11, <1>12, OneListing

LEMMA WithdrawListingStep ==
  ASSUME Inv, NEW id \in Id, WithdrawListing(id)
  PROVE  Inv'
<1>1. /\ listing' = [listing EXCEPT ![id] = NoListing] /\ listing[id].state = "active"
      /\ listing[id].funded = 0 /\ nft[id] = "Listed" /\ nft' = [nft EXCEPT ![id] = "Created"]
      /\ RemoveTokenExposure(listing[id].token, listing[id].price)
      /\ UNCHANGED <<moneyVars, cancelVars, opened, envVars>>
  BY DEF WithdrawListing, Active
<1>2. NoListing \in ListingRecord /\ NoListing.state = "none" /\ NoListing.funded = 0
  BY BoundsOk DEF NoListing, ListingRecord, Time
<1>3. ListingsOk' /\ listing'[id] = NoListing /\ \A x \in Id : x # id => listing'[x] = listing[x]
  BY <1>1, <1>2, NewListing
<1>4. nft'[id] = "Created" /\ StatusesOk' /\ \A x \in Id : x # id => nft'[x] = nft[x]
  BY <1>1 DEF Inv, TypeOK, StatusesOk, cancelVars
<1>5. listing[id].price \in Int
  BY ListingTypes
<1>6. TypeOK'
  BY <1>1, <1>3, <1>4, <1>5, MoneyKept, EnvKept, ExposureType DEF TypeOK, FlowsOk
<1>7. \A x \in Id : x # id => Same(x)
  BY <1>1, <1>3, <1>4, ListingTypes DEF Same, moneyVars, cancelVars, envVars
<1>8. StatusOk(id)'
  BY <1>1, <1>2, <1>3, <1>4, ListingTypes DEF Settled, StatusOk
<1>9. BooksOk(id)'
  BY <1>1, <1>2, <1>3, BooksKept
<1>10. CancelOk(id)'
  BY <1>1, <1>2, <1>3, ListingTypes DEF Settled, CancelOk, cancelVars
<1>11. QED
  BY <1>6, <1>7, <1>8, <1>9, <1>10, OneListing

-------------------------------------------------------------------------------
(* Cancelling.                                                             *)

(* A closed listing: only the state differs.                               *)
LEMMA Closing ==
  ASSUME Inv, NEW id \in Id, Deactivate(id)
  PROVE  /\ ListingsOk' /\ \A x \in Id : x # id => listing'[x] = listing[x]
         /\ listing'[id].state = "closed" /\ listing'[id].price = listing[id].price
         /\ listing'[id].token = listing[id].token /\ listing'[id].funded = listing[id].funded
         /\ listing'[id].deadline = listing[id].deadline
<1> DEFINE r == [listing[id] EXCEPT !.state = "closed"]
<1>1. listing[id] \in ListingRecord
  BY ListingTypes
<1>2. /\ r \in ListingRecord /\ r.state = "closed" /\ r.price = listing[id].price
      /\ r.token = listing[id].token /\ r.funded = listing[id].funded
      /\ r.deadline = listing[id].deadline
  BY <1>1 DEF ListingRecord
<1>3. listing' = [listing EXCEPT ![id] = r]
  BY DEF Deactivate
<1> HIDE DEF r
<1>4. QED
  BY <1>2, <1>3, NewListing

(* Money of an open listing that was never refunded.                       *)
LEMMA OpenBooks ==
  ASSUME Inv, NEW id \in Id, listing[id].state # "closed", NEW i \in Investor
  PROVE  /\ refunded[id][i] = 0 /\ Gross(i, id) = paid[id][i]
         /\ i \notin investors[id] => paid[id][i] = 0
         /\ contribution[id][i] \in Nat /\ feePaid[id][i] \in Nat /\ paid[id][i] \in Nat
<1>1. BooksOk(id)
  BY ListingTypes DEF Settled
<1>2. contribution[id][i] \in Nat /\ feePaid[id][i] \in Nat /\ paid[id][i] \in Nat
  BY LedgerTypes
<1>3. refunded[id][i] \in Nat
  BY LedgerTypes
<1>4. ~(refunded[id][i] > 0) /\ (paid[id][i] > 0 => i \in investors[id])
  BY <1>1 DEF BooksOk
<1>5. refunded[id][i] = 0
  BY <1>3, <1>4
<1>6. Gross(i, id) = paid[id][i]
  BY <1>1, <1>5 DEF BooksOk
<1>7. QED
  BY <1>2, <1>4, <1>5, <1>6

(* Nothing funded is nothing paid.                                         *)
LEMMA NothingPaid ==
  ASSUME Inv, NEW id \in Id, listing[id].funded = 0, NEW i \in Investor
  PROVE  paid[id][i] = 0
<1>1. SumOver(paid[id], Investor) = 0
  BY ListingTypes DEF Settled, BooksOk, Total
<1>2. \A j \in Investor : paid[id][j] \in Nat
  BY LedgerTypes
<1>3. paid[id][i] <= SumOver(paid[id], Investor)
  BY <1>2, InvestorsFinite, SumNat
<1>4. QED
  BY <1>1, <1>2, <1>3

(* An open listing is below its target.                                    *)
LEMMA OpenBelow ==
  ASSUME Inv, NEW id \in Id, listing[id].state = "active"
  PROVE  /\ listing[id].funded < listing[id].price /\ id \notin opened /\ nft[id] = "Listed"
         /\ id \notin confirmed
<1>1. Settled(id) /\ listing[id].funded \in Nat /\ listing[id].price \in Nat
  BY ListingTypes
<1>2. nft[id] \in {"Created", "Listed", "Funded"}
  BY DEF Inv, TypeOK, StatusesOk
<1>3. QED
  BY <1>1, <1>2 DEF Settled, StatusOk, CancelOk

LEMMA ClosedStatus ==
  ASSUME Inv, NEW id \in Id, listing[id].state = "active", Deactivate(id), UNCHANGED <<nft, opened>>
  PROVE  StatusOk(id)'
<1>1. /\ listing'[id].state = "closed" /\ listing'[id].price = listing[id].price
      /\ listing'[id].funded = listing[id].funded
  BY Closing
<1>2. listing[id].funded \in Nat /\ listing[id].price \in Nat
  BY ListingTypes
<1>3. QED
  BY <1>1, <1>2, OpenBelow DEF StatusOk, FullyFunded

LEMMA RequestUnfundedStep ==
  ASSUME Inv, NEW id \in Id, RequestCancellationUnfunded(id)
  PROVE  Inv'
<1>1. /\ Deactivate(id) /\ listing[id].state = "active" /\ listing[id].funded = 0
      /\ RemoveTokenExposure(listing[id].token, listing[id].price)
      /\ UNCHANGED <<moneyVars, cancelVars, nft, opened, envVars>>
  BY DEF RequestCancellationUnfunded, Active
<1>2. listing[id].price \in Int /\ now \in Int
  BY ListingTypes
<1>3. TypeOK'
  BY <1>1, <1>2, MoneyKept, EnvKept, ExposureType, Closing
     DEF Inv, TypeOK, FlowsOk, StatusesOk, cancelVars
<1>4. \A x \in Id : x # id => Same(x)
  BY <1>1, <1>2, Closing DEF Same, moneyVars, cancelVars, envVars
<1>5. BooksOk(id)'
  BY <1>1, Closing, BooksKept
<1>6. CancelOk(id)'
  <2>1. \A i \in Investor : refunded'[id][i] = paid'[id][i]
    BY <1>1, NothingPaid, OpenBooks DEF moneyVars
  <2>2. id \notin confirmed /\ id \notin request
    BY <1>1, OpenBelow, ListingTypes DEF Settled, CancelOk
  <2>3. QED
    BY <1>1, <2>1, <2>2 DEF CancelOk, cancelVars
<1>7. QED
  BY <1>1, <1>3, <1>4, <1>5, <1>6, ClosedStatus, OneListing

LEMMA RequestStep ==
  ASSUME Inv, NEW id \in Id, RequestCancellation(id)
  PROVE  Inv'
<1>1. /\ listing[id].state = "active" /\ listing[id].funded > 0 /\ request' = request \union {id}
      /\ UNCHANGED <<listing, moneyVars, confirmed, exposure, nft, opened, envVars>>
  BY DEF RequestCancellation, Active
<1>2. now \in Int
  BY ListingTypes
<1>3. TypeOK'
  BY <1>1, MoneyKept, EnvKept DEF Inv, TypeOK, FlowsOk, StatusesOk, ListingsOk
<1>4. \A x \in Id : x # id => Same(x)
  BY <1>1, <1>2 DEF Same, moneyVars, envVars
<1>5. StatusOk(id)' /\ BooksOk(id)'
  BY <1>1, ListingTypes, BooksKept DEF Settled, StatusOk, FullyFunded
<1>6. CancelOk(id)'
  BY <1>1, ListingTypes DEF Settled, CancelOk
<1>7. QED
  BY <1>3, <1>4, <1>5, <1>6, OneListing

LEMMA AdminConfirmStep ==
  ASSUME Inv, NEW id \in Id, AdminConfirmCancellation(id)
  PROVE  Inv'
<1>1. /\ Deactivate(id) /\ listing[id].state = "active" /\ id \in request
      /\ RemoveTokenExposure(listing[id].token, listing[id].price)
      /\ request' = request \ {id} /\ confirmed' = confirmed \union {id}
      /\ UNCHANGED <<moneyVars, nft, opened, envVars>>
  BY DEF AdminConfirmCancellation, Active
<1>2. listing[id].price \in Nat /\ listing[id].funded \in Nat /\ now \in Int
  BY ListingTypes
<1>3. TypeOK'
  BY <1>1, <1>2, MoneyKept, EnvKept, ExposureType, Closing DEF Inv, TypeOK, FlowsOk, StatusesOk
<1>4. \A x \in Id : x # id => Same(x)
  BY <1>1, <1>2, Closing DEF Same, moneyVars, envVars
<1>5. BooksOk(id)'
  BY <1>1, Closing, BooksKept
<1>6. CancelOk(id)'
  <2>1. listing[id].funded > 0 /\ listing[id].funded < listing[id].price
    BY <1>1, OpenBelow, ListingTypes DEF Settled, CancelOk
  <2>2. QED
    BY <1>1, <1>2, <2>1, Closing DEF CancelOk, FullyFunded
<1>7. QED
  BY <1>1, <1>3, <1>4, <1>5, <1>6, ClosedStatus, OneListing

(* cancel_listing leaves an investor's ledgers alone or empties them.      *)
LEMMA CancelMoney ==
  ASSUME Inv, NEW id \in Id, CancelListing(id)
  PROVE  /\ LedgersOk' /\ paid' = paid
         /\ \A x \in Id : x # id =>
              /\ contribution'[x] = contribution[x] /\ feePaid'[x] = feePaid[x]
              /\ refunded'[x] = refunded[x] /\ investors'[x] = investors[x]
         /\ \A x \in Id, i \in Investor : <<x, i>> \in claimed => <<x, i>> \in claimed'
         /\ \A i \in Investor :
              IF i \in Refundable(id)
                THEN /\ contribution'[id][i] = 0 /\ feePaid'[id][i] = 0
                     /\ refunded'[id][i] = Gross(i, id) + refunded[id][i] /\ <<id, i>> \in claimed'
                ELSE /\ contribution'[id][i] = contribution[id][i]
                     /\ feePaid'[id][i] = feePaid[id][i] /\ refunded'[id][i] = refunded[id][i]
<1> DEFINE owed == Refundable(id)
           c    == [i \in Investor |-> IF i \in owed THEN 0 ELSE contribution[id][i]]
           f    == [i \in Investor |-> IF i \in owed THEN 0 ELSE feePaid[id][i]]
           r    == [i \in Investor |-> IF i \in owed THEN refunded[id][i] + Gross(i, id)
                                       ELSE refunded[id][i]]
<1>1. /\ contribution' = [contribution EXCEPT ![id] = c] /\ feePaid' = [feePaid EXCEPT ![id] = f]
      /\ refunded' = [refunded EXCEPT ![id] = r] /\ investors' = [investors EXCEPT ![id] = {}]
      /\ claimed' = claimed \union {<<id, i>> : i \in owed} /\ paid' = paid
  BY DEF CancelListing
<1>2. owed \subseteq Investor
  BY LedgerTypes DEF Refundable
<1>3. \A i \in Investor : Gross(i, id) \in Nat
  BY LedgerTypes DEF Gross
<1>4. c \in [Investor -> Nat] /\ f \in [Investor -> Nat]
  BY LedgerTypes
<1>5. r \in [Investor -> Nat]
  BY <1>3, LedgerTypes
<1>6. \A i \in Investor :
        /\ i \in owed => c[i] = 0 /\ f[i] = 0 /\ r[i] = Gross(i, id) + refunded[id][i]
        /\ i \notin owed => c[i] = contribution[id][i] /\ f[i] = feePaid[id][i] /\ r[i] = refunded[id][i]
  BY <1>3, LedgerTypes
<1>7. LedgersOk
  BY DEF Inv, TypeOK
<1> HIDE DEF owed, c, f, r
<1>8. LedgersOk'
  BY <1>1, <1>2, <1>4, <1>5, <1>7 DEF LedgersOk, Ledger
<1>9. contribution'[id] = c /\ feePaid'[id] = f /\ refunded'[id] = r
  BY <1>1, <1>7 DEF LedgersOk, Ledger
<1>10. \A x \in Id : x # id =>
         /\ contribution'[x] = contribution[x] /\ feePaid'[x] = feePaid[x]
         /\ refunded'[x] = refunded[x] /\ investors'[x] = investors[x]
  BY <1>1, <1>7 DEF LedgersOk, Ledger
<1>11. \A i \in Investor : i \in Refundable(id) <=> i \in owed
  BY DEF owed
<1>12. QED
  BY <1>1, <1>6, <1>8, <1>9, <1>10, <1>11

LEMMA CancelListingStep ==
  ASSUME Inv, NEW id \in Id, CancelListing(id)
  PROVE  Inv'
<1> DEFINE nets == SumOver(contribution[id], Refundable(id))
           fees == SumOver(feePaid[id], Refundable(id))
           t    == listing[id].token
<1>1. /\ Deactivate(id) /\ listing[id].state = "active"
      /\ pool[t] >= nets /\ treasury[t] >= fees
      /\ pool' = [pool EXCEPT ![t] = @ - nets] /\ treasury' = [treasury EXCEPT ![t] = @ - fees]
      /\ RemoveTokenExposure(t, listing[id].price + nets + fees)
      /\ UNCHANGED <<paid, cancelVars, nft, opened, envVars>>
  BY DEF CancelListing, Active
<1>2. nets \in Nat /\ fees \in Nat
  <2>1. Refundable(id) \subseteq Investor /\ IsFiniteSet(Refundable(id))
    BY LedgerTypes, InvestorsFinite, FS_Subset DEF Refundable
  <2>2. \A i \in Refundable(id) : contribution[id][i] \in Nat /\ feePaid[id][i] \in Nat
    BY <2>1, LedgerTypes
  <2>3. QED
    BY <2>1, <2>2, SumNat
<1>3. now \in Int /\ listing[id].price \in Nat
  BY ListingTypes
<1> HIDE DEF nets, fees, t
<1>4. pool' \in [Token -> Nat] /\ treasury' \in [Token -> Nat]
  BY <1>1, <1>2, Lowered DEF Inv, TypeOK, FlowsOk
<1>5. listing[id].price + nets + fees \in Int
  BY <1>2, <1>3
<1>6. exposure' \in [Token -> Int]
  BY <1>1, <1>5, ExposureType
<1>7. TypeOK'
  BY <1>1, <1>4, <1>6, CancelMoney, EnvKept, Closing DEF Inv, TypeOK, FlowsOk, StatusesOk, cancelVars
<1>8. \A x \in Id : x # id => Same(x)
  BY <1>1, <1>3, Closing, CancelMoney DEF Same, cancelVars, envVars
<1>9. ASSUME NEW i \in Investor
      PROVE  /\ refunded'[id][i] = 0 => Gross(i, id)' = paid'[id][i]
             /\ refunded'[id][i] \in {0, paid'[id][i]}
             /\ refunded'[id][i] > 0 => <<id, i>> \in claimed'
             /\ refunded'[id][i] = paid'[id][i] \/ feePaid'[id][i] = paid'[id][i]
  <2>1. /\ refunded[id][i] = 0 /\ Gross(i, id) = paid[id][i] /\ contribution[id][i] \in Nat
        /\ feePaid[id][i] \in Nat
        /\ i \notin investors[id] => paid[id][i] = 0
    BY <1>1, OpenBooks
  <2>2. CASE i \in Refundable(id)
    <3>1. contribution[id][i] > 0
      BY <2>2 DEF Refundable
    <3>2. paid[id][i] > 0
      BY <2>1, <3>1 DEF Gross
    <3>3. refunded'[id][i] = paid'[id][i] /\ paid' = paid /\ <<id, i>> \in claimed'
      BY <2>1, <2>2, <3>2, CancelMoney DEF Gross
    <3>4. QED
      BY <3>2, <3>3
  <2>3. CASE i \notin Refundable(id)
    <3>1. /\ contribution'[id][i] = contribution[id][i] /\ feePaid'[id][i] = feePaid[id][i]
          /\ refunded'[id][i] = 0 /\ paid' = paid
      BY <2>1, <2>3, CancelMoney
    <3>2. i \notin investors[id] \/ ~(contribution[id][i] > 0)
      BY <2>3 DEF Refundable
    <3>3. paid[id][i] = 0 \/ feePaid[id][i] = paid[id][i]
      BY <2>1, <3>2 DEF Gross
    <3>4. QED
      BY <2>1, <3>1, <3>3 DEF Gross
  <2>4. QED
    BY <2>2, <2>3
<1>10. /\ listing'[id].state = "closed" /\ listing'[id].price = listing[id].price
       /\ listing'[id].funded = listing[id].funded
  BY <1>1, Closing
<1>11. /\ ~FullyFunded(id)' /\ id \notin confirmed'
       /\ listing'[id].funded = Total(paid[id])
  BY <1>1, <1>3, <1>10, OpenBelow, ListingTypes DEF FullyFunded, Settled, BooksOk, cancelVars
<1>12. BooksOk(id)'
  BY <1>1, <1>9, <1>10, <1>11 DEF BooksOk, Total
<1>13. id \in request' => listing'[id].funded > 0
  BY <1>1, <1>10, ListingTypes DEF Settled, CancelOk, cancelVars
<1>14. CancelOk(id)'
  BY <1>9, <1>11, <1>13 DEF CancelOk
<1>15. QED
  BY <1>1, <1>7, <1>8, <1>12, <1>14, ClosedStatus, OneListing

-------------------------------------------------------------------------------
(* Claiming a refund.                                                      *)

LEMMA ClaimRefundStep ==
  ASSUME Inv, NEW id \in Id, NEW i \in Investor, ClaimRefund(i, id)
  PROVE  Inv'
<1> DEFINE t == listing[id].token
           c == contribution[id][i]
           f == feePaid[id][i]
<1>1. /\ listing[id].state # "none" /\ ~FullyFunded(id) /\ <<id, i>> \notin claimed
      /\ id \in confirmed \/ now > listing[id].deadline
      /\ c > 0 /\ pool[t] >= c /\ treasury[t] >= f
      /\ claimed' = claimed \union {<<id, i>>}
      /\ IF id \in confirmed THEN UNCHANGED listing ELSE Deactivate(id)
      /\ RemoveTokenExposure(t, Gross(i, id))
      /\ pool' = [pool EXCEPT ![t] = @ - c] /\ treasury' = [treasury EXCEPT ![t] = @ - f]
      /\ refunded' = [refunded EXCEPT ![id][i] = @ + Gross(i, id)]
      /\ feePaid' = [feePaid EXCEPT ![id][i] = 0]
      /\ UNCHANGED <<contribution, investors, paid, cancelVars, nft, opened, envVars>>
  BY DEF ClaimRefund, Claimable
<1>2. c \in Nat /\ f \in Nat /\ Gross(i, id) \in Nat /\ refunded[id][i] \in Nat /\ paid[id][i] \in Nat
  BY LedgerTypes DEF Gross
<1>3. Settled(id) /\ now \in Int /\ listing[id].price \in Nat /\ listing[id].funded \in Nat
      /\ listing[id].deadline \in Int
  BY ListingTypes
<1>4. refunded[id][i] = 0 /\ Gross(i, id) = paid[id][i] /\ paid[id][i] > 0
  <2>1. ~(refunded[id][i] > 0)
    BY <1>1, <1>3 DEF Settled, BooksOk
  <2>2. refunded[id][i] = 0
    BY <1>2, <2>1
  <2>3. Gross(i, id) = paid[id][i]
    BY <1>3, <2>2 DEF Settled, BooksOk
  <2>4. QED
    BY <1>1, <1>2, <2>2, <2>3 DEF Gross
<1>5. /\ ListingsOk' /\ \A x \in Id : x # id => listing'[x] = listing[x]
      /\ listing'[id].state = "closed" /\ listing'[id].price = listing[id].price
      /\ listing'[id].funded = listing[id].funded /\ listing'[id].deadline = listing[id].deadline
  <2>1. CASE id \in confirmed
    BY <1>1, <1>3, <2>1 DEF Inv, TypeOK, ListingsOk, Settled, CancelOk
  <2>2. CASE id \notin confirmed
    BY <1>1, <2>2, Closing
  <2>3. QED
    BY <2>1, <2>2
<1>6. exposure' \in [Token -> Int]
  BY <1>1, <1>2, ExposureType
<1> HIDE DEF t
<1>7. pool' \in [Token -> Nat] /\ treasury' \in [Token -> Nat]
  BY <1>1, <1>2, Lowered DEF Inv, TypeOK, FlowsOk
<1>8. LedgersOk
  BY DEF Inv, TypeOK
<1>9. LedgersOk'
  BY <1>1, <1>2, <1>8 DEF LedgersOk, Ledger
<1>10. TypeOK'
  BY <1>1, <1>5, <1>6, <1>7, <1>9, EnvKept DEF Inv, TypeOK, FlowsOk, StatusesOk, cancelVars
<1>11. /\ \A x \in Id : x # id => refunded'[x] = refunded[x] /\ feePaid'[x] = feePaid[x]
       /\ \A j \in Investor : j # i => refunded'[id][j] = refunded[id][j] /\ feePaid'[id][j] = feePaid[id][j]
       /\ refunded'[id][i] = paid[id][i]
  BY <1>1, <1>2, <1>4, <1>8 DEF LedgersOk, Ledger
<1>12. \A x \in Id : x # id => Same(x)
  BY <1>1, <1>3, <1>5, <1>11 DEF Same, cancelVars, envVars
<1>13. StatusOk(id)'
  <2>1. id \notin opened
    BY <1>1, <1>3 DEF Settled, StatusOk
  <2>2. QED
    BY <1>1, <1>3, <1>5, <2>1 DEF Settled, StatusOk, FullyFunded
<1>14. BooksOk(id)'
  <2>1. listing'[id].funded = Total(paid'[id]) /\ ~FullyFunded(id)'
    BY <1>1, <1>3, <1>5 DEF Settled, BooksOk, FullyFunded, Total
  <2>2. ASSUME NEW j \in Investor
        PROVE  /\ refunded'[id][j] = 0 => Gross(j, id)' = paid'[id][j]
               /\ refunded'[id][j] \in {0, paid'[id][j]}
               /\ refunded'[id][j] > 0 => <<id, j>> \in claimed'
    <3>1. CASE j = i
      BY <1>1, <1>2, <1>4, <1>11, <3>1
    <3>2. CASE j # i
      BY <1>1, <1>3, <1>11, <3>2 DEF Settled, BooksOk, Gross
    <3>3. QED
      BY <3>1, <3>2
  <2>3. QED
    BY <1>5, <2>1, <2>2 DEF BooksOk
<1>15. CancelOk(id)'
  <2>1. id \in confirmed => listing[id].funded > 0
    BY <1>3 DEF Settled, CancelOk
  <2>2. id \in request => listing[id].funded > 0
    BY <1>3 DEF Settled, CancelOk
  <2>3. id \in confirmed' \/ ~(now' <= listing'[id].deadline)
    BY <1>1, <1>3, <1>5 DEF cancelVars, envVars
  <2>4. QED
    BY <1>1, <1>3, <1>5, <2>1, <2>2, <2>3 DEF CancelOk, FullyFunded, cancelVars
<1>16. QED
  BY <1>10, <1>12, <1>13, <1>14, <1>15, OneListing

-------------------------------------------------------------------------------
(* Funding.                                                                *)

LEMMA FeeBounded ==
  ASSUME Inv, NEW id \in Id, NEW amount \in Nat
  PROVE  FeeOf(id, amount) \in 0..amount
<1> DEFINE tierFee == settings.tierFee[TierOf[id]]
           rate    == IF tierFee # NoFee THEN tierFee ELSE settings.fee
<1>1. settings \in SettingsRecord
  BY DEF Inv, TypeOK, SettingsOk
<1>2. tierFee \in FeeRates \union {NoFee} /\ settings.fee \in FeeRates
  BY <1>1 DEF SettingsRecord, Tiers
<1>3. FeeOf(id, amount) = (amount * rate) \div 10000
  BY DEF FeeOf
<1>4. rate \in FeeRates
  BY <1>2
<1> HIDE DEF rate
<1>5. rate \in Nat /\ rate <= 10000
  <2>1. \A r \in FeeRates : r \in 0..10000
    BY RatesOk
  <2>2. rate \in 0..10000
    BY <1>4, <2>1
  <2>3. QED
    BY <2>2
<1>6. (amount * rate) \div 10000 \in 0..amount
  BY <1>5, ShareOfWhole
<1>7. QED
  BY <1>3, <1>6

(* A listing after a contribution.                                         *)
LEMMA CreditedListing ==
  ASSUME Inv, NEW id \in Id, NEW n \in Nat, n > 0, n <= Remaining(id), Active(id),
         CreditListing(id, n)
  PROVE  /\ ListingsOk' /\ \A x \in Id : x # id => listing'[x] = listing[x]
         /\ listing'[id].price = listing[id].price /\ listing'[id].funded = listing[id].funded + n
         /\ listing'[id].token = listing[id].token /\ listing'[id].deadline = listing[id].deadline
         /\ listing'[id].state =
              IF listing[id].funded + n >= listing[id].price THEN "closed" ELSE "active"
<1> DEFINE old == listing[id]
           f   == old.funded + n
           s   == IF f >= old.price THEN "closed" ELSE old.state
           r   == [state |-> s, price |-> old.price, token |-> old.token, funded |-> f,
                   deadline |-> old.deadline]
<1>1. old \in ListingRecord /\ old.state = "active" /\ f \in Nat /\ s \in {"active", "closed"}
  BY ListingTypes DEF Active
<1>2. r \in ListingRecord
  BY <1>1 DEF ListingRecord
<1>3. /\ \A x \in Id : x # id => listing'[x] = listing[x]
      /\ listing' = [x \in Id |-> listing'[x]]
      /\ listing'[id] = [old EXCEPT !.funded = f, !.state = s]
  BY DEF CreditListing, Inv, TypeOK, ListingsOk
<1>4. s = IF f >= old.price THEN "closed" ELSE "active"
  BY <1>1
<1> HIDE DEF f, s
<1>5. listing'[id] = r
  BY <1>1, <1>3 DEF ListingRecord
<1> HIDE DEF r
<1>6. \A x \in Id : listing'[x] \in ListingRecord
  <2>1. \A x \in Id : listing[x] \in ListingRecord
    BY ListingTypes
  <2>2. QED
    BY <1>2, <1>3, <1>5, <2>1
<1>7. ListingsOk'
  BY <1>3, <1>6 DEF ListingsOk
<1>8. QED
  BY <1>3, <1>4, <1>5, <1>7 DEF f, r

LEMMA FundInvoiceStep ==
  ASSUME Inv, NEW id \in Id, NEW i \in Investor, NEW amount \in Pay, NEW p \in Token,
         FundInvoice(i, id, amount, p)
  PROVE  Inv'
<1> DEFINE n      == ListingAmount(id, amount, p)
           fee    == FeeOf(id, n)
           payFee == IF p = listing[id].token THEN fee ELSE (amount * fee) \div n
           full   == listing[id].funded + n >= listing[id].price
<1>1. /\ Active(id) /\ n \in 1..Remaining(id)
      /\ contribution' = [contribution EXCEPT ![id][i] = @ + (n - fee)]
      /\ feePaid' = [feePaid EXCEPT ![id][i] = @ + fee]
      /\ investors' = [investors EXCEPT ![id] = @ \union {i}]
      /\ treasury' = [treasury EXCEPT ![p] = @ + payFee]
      /\ pool' = [pool EXCEPT ![p] = @ + amount - payFee]
      /\ paid' = [paid EXCEPT ![id][i] = @ + n]
      /\ CreditListing(id, n)
      /\ UNCHANGED <<claimed, refunded, cancelVars, envVars>>
  BY DEF FundInvoice, Fundable, RecordContribution
<1>2. /\ Settled(id) /\ now \in Int /\ listing[id].price \in Nat /\ listing[id].funded \in Nat
      /\ listing[id].state = "active"
  BY <1>1, ListingTypes DEF Active
<1>3. n \in Nat /\ n > 0 /\ n <= Remaining(id) /\ amount \in Nat /\ Remaining(id) \in Int
  BY <1>1, <1>2, AmountsOk DEF Remaining
<1>4. fee \in Nat /\ fee <= n
  BY <1>3, FeeBounded
<1>5. payFee \in Nat /\ payFee <= amount
  <2>1. CASE p = listing[id].token
    BY <1>3, <1>4, <2>1 DEF ListingAmount
  <2>2. CASE p # listing[id].token
    BY <1>3, <1>4, <2>2, ShareOfWhole
  <2>3. QED
    BY <2>1, <2>2
<1>6. n = ListingAmount(id, amount, p)
  OBVIOUS
<1> HIDE DEF n, fee, payFee
<1>7. /\ ListingsOk' /\ \A x \in Id : x # id => listing'[x] = listing[x]
      /\ listing'[id].price = listing[id].price /\ listing'[id].funded = listing[id].funded + n
      /\ listing'[id].token = listing[id].token /\ listing'[id].deadline = listing[id].deadline
      /\ listing'[id].state = IF full THEN "closed" ELSE "active"
  BY <1>1, <1>3, CreditedListing
<1>8. /\ full => /\ id \notin opened /\ nft[id] = "Listed"
                 /\ RemoveTokenExposure(listing[id].token, listing[id].price)
                 /\ opened' = opened \union {id} /\ nft' = [nft EXCEPT ![id] = "Funded"]
      /\ ~full => UNCHANGED <<exposure, opened, nft>>
  BY <1>1 DEF CreditListing
<1>9. exposure' \in [Token -> Int]
  BY <1>2, <1>8, ExposureType DEF Inv, TypeOK, FlowsOk
<1>10. StatusesOk' /\ \A x \in Id : x # id => nft'[x] = nft[x] /\ ((x \in opened') <=> (x \in opened))
  BY <1>1, <1>8 DEF Inv, TypeOK, StatusesOk, cancelVars
<1>11. treasury' \in [Token -> Nat]
  BY <1>1, <1>5, Raised DEF Inv, TypeOK, FlowsOk
<1>12. pool' \in [Token -> Nat]
  <2>1. amount - payFee \in Nat /\ pool \in [Token -> Nat]
    BY <1>3, <1>5 DEF Inv, TypeOK, FlowsOk
  <2>2. pool' = [pool EXCEPT ![p] = @ + (amount - payFee)]
    BY <1>1, <1>3, <1>5, <2>1
  <2>3. QED
    BY <2>1, <2>2, Raised
<1>13. LedgersOk
  BY DEF Inv, TypeOK
<1>14. /\ contribution'[id][i] = contribution[id][i] + (n - fee) /\ feePaid'[id][i] = feePaid[id][i] + fee
       /\ paid'[id][i] = paid[id][i] + n /\ investors'[id] = investors[id] \union {i}
       /\ \A j \in Investor : j # i => /\ contribution'[id][j] = contribution[id][j]
                                       /\ feePaid'[id][j] = feePaid[id][j] /\ paid'[id][j] = paid[id][j]
       /\ \A x \in Id : x # id => /\ contribution'[x] = contribution[x] /\ feePaid'[x] = feePaid[x]
                                  /\ paid'[x] = paid[x] /\ investors'[x] = investors[x]
  BY <1>1, <1>13 DEF LedgersOk, Ledger
<1>15. n - fee \in Nat
  BY <1>3, <1>4
<1>16. LedgersOk'
  BY <1>1, <1>3, <1>4, <1>13, <1>15 DEF LedgersOk, Ledger
<1>17. TypeOK'
  BY <1>1, <1>7, <1>9, <1>10, <1>11, <1>12, <1>16, EnvKept DEF TypeOK, FlowsOk
<1>18. \A x \in Id : x # id => Same(x)
  BY <1>1, <1>2, <1>7, <1>10, <1>14 DEF Same, cancelVars, envVars
<1>19. Total(paid[id])' = Total(paid[id]) + n
  <2>1. \A j \in Investor : paid[id][j] \in Int
    BY LedgerTypes
  <2>2. paid'[id][i] \in Int
    BY <1>3, <1>14, <2>1
  <2> DEFINE f == paid[id]
             g == paid'[id]
  <2>3. SumOver(g, Investor) = SumOver(f, Investor) - f[i] + g[i]
    <3>1. \A j \in Investor \ {i} : g[j] = f[j]
      BY <1>14
    <3>2. (\A j \in Investor : f[j] \in Int) /\ g[i] \in Int
      BY <2>1, <2>2
    <3> HIDE DEF f, g
    <3>3. QED
      BY <3>1, <3>2, SumChange, InvestorsFinite
  <2>4. SumOver(paid[id], Investor) \in Int
    BY <2>1, SumInt, InvestorsFinite
  <2>5. QED
    BY <1>3, <1>14, <2>1, <2>3, <2>4 DEF Total
<1>20. /\ id \notin opened /\ nft[id] = "Listed" /\ id \notin confirmed
       /\ id \in request => listing[id].funded > 0
  BY <1>2, OpenBelow DEF Settled, CancelOk
<1>21. FullyFunded(id)' <=> full
  BY <1>7 DEF FullyFunded
<1>22. listing'[id].funded <= listing'[id].price /\ listing'[id].funded > 0
  BY <1>2, <1>3, <1>7 DEF Remaining
<1>23. StatusOk(id)'
  <2>1. nft \in [Id -> {"Created", "Listed", "Funded"}]
    BY DEF Inv, TypeOK, StatusesOk
  <2>2. CASE full
    BY <1>7, <1>8, <1>20, <1>21, <1>22, <2>1, <2>2 DEF StatusOk
  <2>3. CASE ~full
    BY <1>2, <1>3, <1>7, <1>8, <1>20, <1>21, <1>22, <2>1, <2>3 DEF StatusOk
  <2>4. QED
    BY <2>2, <2>3
<1>24. BooksOk(id)'
  <2>1. listing'[id].funded = Total(paid[id])'
    BY <1>2, <1>7, <1>19 DEF Settled, BooksOk
  <2>2. ASSUME NEW j \in Investor
        PROVE  /\ refunded'[id][j] = 0 /\ Gross(j, id)' = paid'[id][j]
               /\ paid'[id][j] > 0 => j \in investors'[id]
    <3>1. /\ refunded[id][j] = 0 /\ Gross(j, id) = paid[id][j]
          /\ j \notin investors[id] => paid[id][j] = 0
          /\ contribution[id][j] \in Nat /\ feePaid[id][j] \in Nat /\ paid[id][j] \in Nat
      BY <1>2, OpenBooks
    <3>2. CASE j = i
      <4>1. contribution[id][i] + (n - fee) + (feePaid[id][i] + fee) = paid[id][i] + n
        BY <1>3, <1>4, <3>1, <3>2 DEF Gross
      <4>2. QED
        BY <1>1, <1>14, <3>1, <3>2, <4>1 DEF Gross
    <3>3. CASE j # i
      BY <1>1, <1>14, <3>1, <3>3 DEF Gross
    <3>4. QED
      BY <3>2, <3>3
  <2>3. QED
    BY <2>1, <2>2 DEF BooksOk
<1>25. CancelOk(id)'
  BY <1>1, <1>7, <1>20, <1>21, <1>22 DEF CancelOk, cancelVars
<1>26. QED
  BY <1>17, <1>18, <1>23, <1>24, <1>25, OneListing

-------------------------------------------------------------------------------
(* Settings and the environment.                                           *)

LEMMA ConfigureStep ==
  ASSUME Inv, NEW s \in SettingsRecord, Configure(s)
  PROVE  Inv'
<1>1. /\ settings' = s
      /\ UNCHANGED <<listing, moneyVars, cancelVars, exposure, nft, opened, gate, now, paused>>
  BY DEF Configure
<1>2. TypeOK'
  BY <1>1, MoneyKept DEF Inv, TypeOK, FlowsOk, StatusesOk, ListingsOk, SettingsOk, cancelVars
<1>3. \A x \in Id : Same(x)
  BY <1>1, ListingTypes DEF Same, moneyVars, cancelVars
<1>4. QED
  BY <1>2, <1>3, NoneConcerned

LEMMA AdminStep == Inv /\ Admin => Inv'
<1> SUFFICES ASSUME Inv, Admin PROVE Inv'
  OBVIOUS
<1>1. settings \in SettingsRecord
  BY DEF Inv, TypeOK, SettingsOk
<1>2. ASSUME NEW f \in FeeRates, SetFeeBps(f) PROVE Inv'
  <2>1. [settings EXCEPT !.fee = f] \in SettingsRecord
    BY <1>1 DEF SettingsRecord
  <2>2. QED
    BY <1>2, <2>1, ConfigureStep DEF SetFeeBps
<1>3. ASSUME NEW r \in Tiers, NEW f \in FeeRates, SetTierFeeBps(r, f) PROVE Inv'
  <2>1. [settings EXCEPT !.tierFee[r] = f] \in SettingsRecord
    BY <1>1 DEF SettingsRecord
  <2>2. QED
    BY <1>3, <2>1, ConfigureStep DEF SetTierFeeBps
<1>4. ASSUME NEW m \in Floors, SetMinContribution(m) PROVE Inv'
  <2>1. [settings EXCEPT !.floor = m] \in SettingsRecord
    BY <1>1, CapsOk DEF SettingsRecord
  <2>2. QED
    BY <1>4, <2>1, ConfigureStep DEF SetMinContribution
<1>5. ASSUME NEW c \in ShareCaps, SetMaxInvestorShareBps(c) PROVE Inv'
  <2>1. c \in Nat
    <3>1. c \in 0..10000
      BY RatesOk
    <3>2. QED
      BY <3>1
  <2>2. [settings EXCEPT !.share = c] \in SettingsRecord
    BY <1>1, <2>1 DEF SettingsRecord
  <2>3. QED
    BY <1>5, <2>2, ConfigureStep DEF SetMaxInvestorShareBps
<1>6. ASSUME NEW t \in Token, NEW c \in ExposureCaps, SetTokenExposureCap(t, c) PROVE Inv'
  <2>1. [settings EXCEPT !.cap[t] = c] \in SettingsRecord
    BY <1>1, CapsOk DEF SettingsRecord
  <2>2. QED
    BY <1>6, <2>1, ConfigureStep DEF SetTokenExposureCap
<1>7. ASSUME NEW id \in Id, NEW w \in Windows, SetPriorityWindow(id, w) PROVE Inv'
  <2>1. w \in [allowed : SUBSET Investor, end : Int]
    BY WindowsOk, BoundsOk DEF Time
  <2>2. [settings EXCEPT !.priority[id] = w] \in SettingsRecord
    BY <1>1, <2>1 DEF SettingsRecord
  <2>3. QED
    BY <1>7, <2>2, ConfigureStep DEF SetPriorityWindow
<1>8. QED
  BY <1>2, <1>3, <1>4, <1>5, <1>6, <1>7 DEF Admin

LEMMA AccreditStep == Inv /\ Accredit => Inv'
<1> SUFFICES ASSUME Inv, Accredit PROVE Inv'
  OBVIOUS
<1>1. settings \in SettingsRecord
  BY DEF Inv, TypeOK, SettingsOk
<1>2. ASSUME NEW s \in SUBSET Investor PROVE [settings EXCEPT !.accredited = s] \in SettingsRecord
  BY <1>1 DEF SettingsRecord
<1>3. ASSUME NEW s \in SUBSET Token PROVE [settings EXCEPT !.whitelist = s] \in SettingsRecord
  BY <1>1 DEF SettingsRecord
<1>4. settings.accredited \subseteq Investor /\ settings.whitelist \subseteq Token
  BY <1>1 DEF SettingsRecord
<1>5. ASSUME NEW i \in Investor, NEW yes \in BOOLEAN, SetInvestorAccredited(i, yes) PROVE Inv'
  <2> DEFINE s == IF yes THEN settings.accredited \union {i} ELSE settings.accredited \ {i}
  <2>1. s \in SUBSET Investor /\ Configure([settings EXCEPT !.accredited = s])
    BY <1>4, <1>5 DEF SetInvestorAccredited
  <2> HIDE DEF s
  <2>2. QED
    BY <1>2, <2>1, ConfigureStep
<1>6. ASSUME NEW t \in Token, SwitchWhitelist(t) PROVE Inv'
  <2> DEFINE s == IF t \in settings.whitelist THEN settings.whitelist \ {t} ELSE settings.whitelist \union {t}
  <2>1. s \in SUBSET Token /\ Configure([settings EXCEPT !.whitelist = s])
    BY <1>4, <1>6 DEF SwitchWhitelist
  <2> HIDE DEF s
  <2>2. QED
    BY <1>3, <2>1, ConfigureStep
<1>7. QED
  BY <1>5, <1>6 DEF Accredit

LEMMA OthersStep == Inv /\ (Others \/ Tick) => Inv'
<1> SUFFICES ASSUME Inv, Others \/ Tick PROVE Inv'
  OBVIOUS
<1>1. now \in Int /\ now + 1 \in Int /\ MaxTime \in Nat
  BY BoundsOk DEF Inv, TypeOK, SettingsOk, Time
<1>2. ASSUME NEW t \in Token, TreasurySpends(t) PROVE Inv'
  <2>1. treasury' \in [Token -> Nat]
    BY <1>2, Lowered DEF TreasurySpends, Inv, TypeOK, FlowsOk
  <2>2. TypeOK'
    BY <1>2, <2>1, EnvKept DEF TreasurySpends, Inv, TypeOK, FlowsOk, StatusesOk, ListingsOk,
       LedgersOk, cancelVars
  <2>3. \A x \in Id : Same(x)
    BY <1>1, <1>2 DEF TreasurySpends, Same, cancelVars, envVars
  <2>4. QED
    BY <2>2, <2>3, NoneConcerned
<1>3. ASSUME NEW id \in Id, NEW g \in Gates, SwitchGate(id, g) PROVE Inv'
  <2>1. gate' \in [Id -> SUBSET Gates]
    BY <1>3 DEF SwitchGate, Inv, TypeOK, SettingsOk
  <2>2. TypeOK'
    BY <1>3, <2>1, MoneyKept DEF SwitchGate, Inv, TypeOK, FlowsOk, StatusesOk, ListingsOk,
       SettingsOk, cancelVars
  <2>3. \A x \in Id : Same(x)
    BY <1>1, <1>3 DEF SwitchGate, Same, moneyVars, cancelVars
  <2>4. QED
    BY <2>2, <2>3, NoneConcerned
<1>4. ASSUME TogglePause PROVE Inv'
  <2>1. TypeOK'
    BY <1>4, MoneyKept DEF TogglePause, Inv, TypeOK, FlowsOk, StatusesOk, ListingsOk,
       SettingsOk, cancelVars
  <2>2. \A x \in Id : Same(x)
    BY <1>1, <1>4 DEF TogglePause, Same, moneyVars, cancelVars
  <2>3. QED
    BY <2>1, <2>2, NoneConcerned
<1>5. ASSUME Tick PROVE Inv'
  <2>1. now' \in Time
    BY <1>1, <1>5 DEF Tick, Inv, TypeOK, SettingsOk, Time
  <2>2. TypeOK'
    BY <1>5, <2>1, MoneyKept DEF Tick, Inv, TypeOK, FlowsOk, StatusesOk, ListingsOk,
       SettingsOk, cancelVars
  <2>3. \A x \in Id : Same(x)
    BY <1>1, <1>5 DEF Tick, Same, moneyVars, cancelVars
  <2>4. QED
    BY <2>2, <2>3, NoneConcerned
<1>6. QED
  BY <1>2, <1>3, <1>4, <1>5 DEF Others

-------------------------------------------------------------------------------
(* The invariant.                                                          *)

LEMMA InitInv == Init => Inv
<1> SUFFICES ASSUME NEW fee \in FeeRates, InitWith(DefaultSettings(fee)) PROVE Inv
  BY DEF Init
<1>1. /\ listing = [id \in Id |-> NoListing] /\ contribution = [id \in Id |-> Zero]
      /\ feePaid = [id \in Id |-> Zero] /\ investors = [id \in Id |-> {}] /\ claimed = {}
      /\ paid = [id \in Id |-> Zero] /\ refunded = [id \in Id |-> Zero]
  BY DEF InitWith
<1>2. /\ request = {} /\ confirmed = {} /\ nft = [id \in Id |-> "Created"] /\ opened = {}
      /\ exposure = [t \in Token |-> 0] /\ pool = [t \in Token |-> 0]
      /\ treasury = [t \in Token |-> 0]
  BY DEF InitWith
<1>3. /\ settings = DefaultSettings(fee) /\ gate = [id \in Id |-> {}] /\ now = 0 /\ paused = FALSE
  BY DEF InitWith
<1>4. ListingsOk
  <2>1. NoListing \in ListingRecord
    BY BoundsOk DEF NoListing, ListingRecord, Time
  <2>2. QED
    BY <1>1, <2>1 DEF ListingsOk
<1>5. Zero \in [Investor -> Nat] /\ \A i \in Investor : Zero[i] = 0
  BY DEF Zero
<1>6. LedgersOk
  BY <1>1, <1>5 DEF LedgersOk, Ledger
<1>7. FlowsOk /\ StatusesOk
  BY <1>2 DEF FlowsOk, StatusesOk
<1>8. SettingsOk
  <2>1. DefaultSettings(fee) \in SettingsRecord
    <3>1. [r \in Tiers |-> NoFee] \in [Tiers -> FeeRates \union {NoFee}]
      OBVIOUS
    <3>2. [id \in Id |-> [allowed |-> {}, end |-> -1]] \in [Id -> [allowed : SUBSET Investor, end : Int]]
      OBVIOUS
    <3>3. QED
      BY <3>1, <3>2 DEF DefaultSettings, SettingsRecord
  <2>2. 0 \in Time
    BY BoundsOk DEF Time
  <2>3. gate \in [Id -> SUBSET Gates]
    BY <1>3
  <2>4. QED
    BY <1>3, <2>1, <2>2, <2>3 DEF SettingsOk
<1>9. ASSUME NEW id \in Id PROVE Settled(id)
  <2>1. /\ listing[id] = NoListing /\ NoListing.state = "none" /\ NoListing.funded = 0
        /\ NoListing.price = 0 /\ nft[id] = "Created"
    BY <1>1, <1>2 DEF NoListing
  <2>2. Total(Zero) = 0
    BY <1>5, SumZero, InvestorsFinite DEF Total
  <2>3. /\ contribution[id] = Zero /\ feePaid[id] = Zero /\ paid[id] = Zero /\ refunded[id] = Zero
    BY <1>1
  <2>4. StatusOk(id)
    BY <1>2, <2>1 DEF StatusOk
  <2>5. BooksOk(id)
    BY <1>5, <2>1, <2>2, <2>3 DEF BooksOk, Gross
  <2>6. CancelOk(id)
    BY <1>2, <2>1 DEF CancelOk
  <2>7. QED
    BY <2>4, <2>5, <2>6 DEF Settled
<1>10. QED
  BY <1>4, <1>6, <1>7, <1>8, <1>9 DEF Inv, TypeOK

LEMMA StepInv == Inv /\ [Next]_vars => Inv'
<1> SUFFICES ASSUME Inv, [Next]_vars PROVE Inv'
  OBVIOUS
<1>1. CASE Sell
  BY <1>1, ListInvoiceStep, AmendListingStep, WithdrawListingStep DEF Sell
<1>2. CASE Fund
  BY <1>2, FundInvoiceStep DEF Fund
<1>3. CASE End
  BY <1>3, CancelListingStep, RequestUnfundedStep, RequestStep, AdminConfirmStep, ClaimRefundStep
     DEF End
<1>4. CASE Admin \/ Accredit \/ Others \/ Tick
  BY <1>4, AdminStep, AccreditStep, OthersStep
<1>5. CASE UNCHANGED vars
  <2>1. TypeOK'
    BY <1>5, MoneyKept, EnvKept DEF Inv, TypeOK, FlowsOk, StatusesOk, ListingsOk, vars, cancelVars
  <2>2. \A x \in Id : Same(x)
    BY <1>5, ListingTypes DEF Same, vars, moneyVars, cancelVars, envVars
  <2>3. QED
    BY <2>1, <2>2, NoneConcerned
<1>6. QED
  BY <1>1, <1>2, <1>3, <1>4, <1>5 DEF Next

LEMMA InvAlways == Spec => []Inv
<1>1. Init => Inv
  BY InitInv
<1>2. Inv /\ [Next]_vars => Inv'
  BY StepInv
<1>3. QED
  BY <1>1, <1>2, PTL DEF Spec

(* The marketplace's storage, balances and statuses have their types,      *)
(* whatever is listed, paid and cancelled.                                 *)
THEOREM TypeCorrect == Spec => []TypeOK
<1>1. Inv => TypeOK
  BY DEF Inv
<1>2. QED
  BY <1>1, InvAlways, PTL

(* fund_invoice books every payment without loss and never beyond the      *)
(* asking price, for every fee and every order of payments.                *)
THEOREM FundingAlwaysAccounted == Spec => []FundingAccounted
<1>1. Inv => FundingAccounted
  BY DEF Inv, Settled, StatusOk, BooksOk, FundingAccounted
<1>2. QED
  BY <1>1, InvAlways, PTL

(* cancel_listing and claim_refund pay an investor back exactly, at most   *)
(* once, and never for a listing that is open or fully funded.             *)
THEOREM RefundsAreExact == Spec => []RefundExactlyOnce
<1>1. Inv => RefundExactlyOnce
  BY DEF Inv, Settled, BooksOk, RefundExactlyOnce
<1>2. QED
  BY <1>1, InvAlways, PTL

(* cancel_listing leaves no investor behind, and a cancellation is only    *)
(* confirmed for a listing that holds money and missed its target.         *)
THEOREM CancellationsAreComplete == Spec => []CancelPaysEveryone
<1>1. Inv => CancelPaysEveryone
  BY DEF Inv, Settled, CancelOk, CancelPaysEveryone
<1>2. QED
  BY <1>1, InvAlways, PTL

(* The listing, the status of its invoice and its pool never part, and an  *)
(* invoice without a listing was never paid into.                          *)
THEOREM ContractsStayInStep == Spec => []ListingNftPoolInStep
<1>1. ASSUME Inv PROVE ListingNftPoolInStep
  <2>1. ASSUME NEW id \in Id, listing[id].state = "none" PROVE Total(paid[id]) = 0
    BY <1>1, <2>1, ListingTypes DEF Settled, StatusOk, BooksOk, NoListing
  <2>2. QED
    BY <1>1, <2>1 DEF Inv, Settled, StatusOk, ListingNftPoolInStep
<1>2. QED
  BY <1>1, InvAlways, PTL

-------------------------------------------------------------------------------
(* Terms.                                                                  *)

FundedTermsKept ==
  \A id \in Id : listing[id].funded > 0 =>
    /\ listing'[id].price = listing[id].price
    /\ listing'[id].token = listing[id].token
    /\ listing'[id].deadline = listing[id].deadline
    /\ listing'[id].funded >= listing[id].funded

LEMMA TermsStep == Inv /\ [Next]_vars => [FundedTermsKept]_vars
<1> SUFFICES ASSUME Inv, [Next]_vars PROVE FundedTermsKept
  OBVIOUS
<1>1. \A x \in Id : listing[x].funded \in Nat
  BY ListingTypes
<1>2. CASE UNCHANGED listing
  BY <1>1, <1>2 DEF FundedTermsKept
<1>3. ASSUME NEW id \in Id, Deactivate(id) PROVE FundedTermsKept
  BY <1>1, <1>3, Closing DEF FundedTermsKept
<1>4. ASSUME NEW id \in Id, listing[id].funded = 0, NEW r, listing' = [listing EXCEPT ![id] = r]
      PROVE  FundedTermsKept
  BY <1>1, <1>4 DEF FundedTermsKept, Inv, TypeOK, ListingsOk
<1>5. CASE Sell
  <2>1. ASSUME NEW id \in Id, NEW p \in Price, NEW t \in Token, NEW d \in Time, ListInvoice(id, p, t, d)
        PROVE  FundedTermsKept
    <3>1. listing[id].state = "none" /\ Settled(id)
      BY <2>1, ListingTypes DEF ListInvoice
    <3>2. listing[id].funded = 0
      BY <3>1 DEF Settled, StatusOk, NoListing
    <3>3. QED
      BY <1>4, <2>1, <3>2 DEF ListInvoice
  <2>2. ASSUME NEW id \in Id, NEW p \in Price, NEW t \in Token, NEW d \in Time, AmendListing(id, p, t, d)
        PROVE  FundedTermsKept
    <3>1. listing[id].funded = 0 /\ \A x \in Id : x # id => listing'[x] = listing[x]
      BY <2>2 DEF AmendListing, Inv, TypeOK, ListingsOk
    <3>2. QED
      BY <1>1, <3>1 DEF FundedTermsKept
  <2>3. ASSUME NEW id \in Id, WithdrawListing(id) PROVE FundedTermsKept
    BY <1>4, <2>3 DEF WithdrawListing
  <2>4. QED
    BY <1>5, <2>1, <2>2, <2>3 DEF Sell
<1>6. CASE Fund
  <2>1. PICK i \in Investor, id \in Id, amount \in Pay, p \in Token : FundInvoice(i, id, amount, p)
    BY <1>6 DEF Fund
  <2> DEFINE n == ListingAmount(id, amount, p)
  <2>2. n \in 1..Remaining(id) /\ Active(id) /\ CreditListing(id, n)
    BY <2>1 DEF FundInvoice, Fundable
  <2> HIDE DEF n
  <2>3. n \in Nat /\ n > 0 /\ n <= Remaining(id)
    BY <2>2, ListingTypes DEF Remaining
  <2>4. QED
    BY <1>1, <2>2, <2>3, CreditedListing DEF FundedTermsKept
<1>7. CASE End
  <2>1. \A id \in Id :
          CancelListing(id) \/ RequestCancellationUnfunded(id) \/ AdminConfirmCancellation(id)
            => Deactivate(id)
    BY DEF CancelListing, RequestCancellationUnfunded, AdminConfirmCancellation
  <2>2. \A id \in Id, i \in Investor : ClaimRefund(i, id) => Deactivate(id) \/ UNCHANGED listing
    BY DEF ClaimRefund
  <2>3. \A id \in Id : RequestCancellation(id) => UNCHANGED listing
    BY DEF RequestCancellation
  <2>4. QED
    BY <1>2, <1>3, <1>7, <2>1, <2>2, <2>3 DEF End
<1>8. CASE Admin \/ Accredit
  <2>1. \A s : Configure(s) => UNCHANGED listing
    BY DEF Configure
  <2>2. QED
    BY <1>2, <1>8, <2>1 DEF Admin, Accredit, SetFeeBps, SetTierFeeBps, SetMinContribution,
       SetMaxInvestorShareBps, SetTokenExposureCap, SetPriorityWindow, SetInvestorAccredited,
       SwitchWhitelist
<1>9. CASE Others \/ Tick
  BY <1>2, <1>9 DEF Others, Tick, TreasurySpends, SwitchGate, TogglePause
<1>10. CASE UNCHANGED vars
  BY <1>2, <1>10 DEF vars
<1>11. QED
  BY <1>5, <1>6, <1>7, <1>8, <1>9, <1>10 DEF Next

(* Once an investor has paid in, amend_listing, withdraw_listing and the   *)
(* later payments leave the price, the token and the deadline alone.       *)
THEOREM TermsStayFixed == Spec => TermsFixedOnceFunded
<1>1. [][FundedTermsKept]_vars => TermsFixedOnceFunded
  BY PTL DEF TermsFixedOnceFunded, FundedTermsKept
<1>2. Inv /\ [Next]_vars => [FundedTermsKept]_vars
  BY TermsStep
<1>3. QED
  BY <1>1, <1>2, InvAlways, PTL DEF Spec
===============================================================================
