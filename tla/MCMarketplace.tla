---------------------------- MODULE MCMarketplace ------------------------------
(***************************************************************************)
(* An instance of Marketplace for TLC.  A behaviour keeps to one focus:    *)
(* "all" takes every operation, setting and gate on one listing of one     *)
(* investor; "refunds" and "currencies" open the market for business and   *)
(* give funding and refunding two listings, or two tokens.                 *)
(***************************************************************************)
EXTENDS Marketplace, TLC

CONSTANTS i1, i2, t1, t2

VARIABLE focus

FaceFour   == [id \in Id |-> 4]
OneTier    == [id \in Id |-> "A"]
TwoToOne   == [t \in Token |-> IF t = t1 THEN 1 ELSE 2]
InvoiceOne == [id \in Id |-> 1]
FirstOnly  == {[allowed |-> {i1}, end |-> 1]}

(* Sound: "refunds" and "currencies" tell no investor apart, and in "all"  *)
(* i2 never acts, so no reachable state is another's image.                *)
Investors == Permutations(Investor)

Selling(Ids, Prices, Tokens) ==
  \E id \in Ids :
    \/ \E price \in Prices, t \in Tokens, d \in Time :
         ListInvoice(id, price, t, d) \/ AmendListing(id, price, t, d)
    \/ WithdrawListing(id)

Funding(Is, Ids, Pays, Tokens) ==
  \E i \in Is, id \in Ids, amount \in Pays, t \in Tokens : FundInvoice(i, id, amount, t)

(* Only invoice 1, i1 and t1 are configured, and one gate is shut at most. *)
OneConfigured ==
  /\ settings.accredited \subseteq {i1} /\ settings.whitelist \subseteq {t1}
  /\ settings.cap[t2] = 0 /\ settings.priority[2].end = -1 /\ gate[2] = {} /\ Cardinality(gate[1]) <= 1
  /\ 10000 \notin {settings.fee, settings.tierFee["A"]}

AllNext ==
  \/ Selling({1}, {2}, {t1}) \/ Funding({i1}, {1}, {1, 2}, {t1}) \/ End \/ Tick
  \/ (Admin \/ Accredit \/ Others) /\ OneConfigured'

(* Trading while the fee changes and the treasury spends.                  *)
Meanwhile ==
  \/ End \/ Tick
  \/ \E f \in FeeRates : SetFeeBps(f)
  \/ \E t \in Token : TreasurySpends(t)

(* Two listings on one balance, at fees that leave something to refund;    *)
(* the second one ends at time 1.                                          *)
RefundsNext ==
  \/ Selling(Id, {3}, {t1}) /\ listing'[2].deadline <= 1
  \/ Funding(Investor, Id, {1, 2}, {t1})
  \/ Meanwhile /\ settings'.fee > 0

(* One listing, paid for in either token; amending its price shifts the    *)
(* exposure count, which is kept near zero.                                *)
CurrenciesNext ==
  /\ Selling({1}, Price, Token) \/ Funding(Investor, {1}, Pay, Token) \/ Meanwhile
  /\ \A t \in Token : exposure'[t] \in -3..3

(* A market open for business: tokens whitelisted, investors accredited.   *)
Open(f) == [DefaultSettings(f) EXCEPT !.accredited = Investor, !.whitelist = Token]

MCInit ==
  /\ focus \in {"all", "refunds", "currencies"}
  /\ \/ focus = "all" /\ Init /\ settings.fee < 10000
     \/ focus = "refunds" /\ \E f \in FeeRates \ {0} : InitWith(Open(f))
     \/ focus = "currencies" /\ \E f \in FeeRates : InitWith(Open(f))

MCNext ==
  /\ \/ focus = "all" /\ AllNext
     \/ focus = "refunds" /\ RefundsNext
     \/ focus = "currencies" /\ CurrenciesNext
  /\ UNCHANGED focus

MCSpec == MCInit /\ [][MCNext]_<<vars, focus>>

(* One listing under a concentration cap set before anybody lists.         *)
CapInit == \E f \in FeeRates, c \in ShareCaps : InitWith([Open(f) EXCEPT !.share = c])

CapNext == Selling({1}, {3}, {t1}) \/ Funding(Investor, {1}, Pay, {t1}) \/ Meanwhile

CapSpec == CapInit /\ focus = "cap" /\ [][CapNext /\ UNCHANGED focus]_<<vars, focus>>
===============================================================================
